---------------------------- MODULE PagePipeline ----------------------------
(***************************************************************************)
(* From a page's response to its document: index_single_url of             *)
(* gurtd/src/indexing/fetch.rs, which calls process_fetched_document of    *)
(* crawler/pipeline.rs, which calls render_once of crawler/render.rs.      *)
(*                                                                         *)
(* HTML is a sequence of pieces: tags, words and blanks, and what          *)
(* detect_dynamic looks for.  Adding the document to the index is          *)
(* DomainLifecycle's.                                                      *)
(***************************************************************************)
EXTENDS Sequences, FiniteSetsExt

Pieces == {"word", "blank", "lua", "network.fetch(", "<script", "</script>",
           "<title>", "</title>", "<!-- rendered -->"}
Marker == "<!-- rendered -->"

Has(html, piece) == \E i \in DOMAIN html : html[i] = piece

\* The place of the first such piece after the given one, 0 if there is none.
FirstAfter(html, place, piece) ==
    LET found == {i \in place + 1..Len(html) : html[i] = piece}
    IN  IF found = {} THEN 0 ELSE Min(found)

\* The pieces at these places, in their order.
PiecesAt(html, places) ==
    [n \in 1..Cardinality(places) |->
        html[CHOOSE i \in places : Cardinality({j \in places : j <= i}) = n]]

-----------------------------------------------------------------------------
(* render.rs.                                                              *)

DetectDynamic(html) ==
    IF Has(html, "<script") /\ Has(html, "lua") THEN "LuaScriptTag"
    ELSE IF Has(html, "network.fetch(") THEN "NetworkFetch" ELSE "None"

\* Mutant: a script that is not closed ends with its tag.
StripOpenTag(html) ==
    LET rest[p \in 0..Len(html)] ==
            LET start == FirstAfter(html, p, "<script")
                end == FirstAfter(html, start, "</script>")
            IN  IF start = 0 THEN SubSeq(html, p + 1, Len(html))
                ELSE SubSeq(html, p + 1, start - 1) \o rest[IF end = 0 THEN start ELSE end]
    IN  rest[0]

\* A script reaches to the first closing tag after it, or to the end.
StripScriptBlocks(html) ==
    LET rest[p \in 0..Len(html)] ==
            LET start == FirstAfter(html, p, "<script")
                end == FirstAfter(html, start, "</script>")
            IN  IF start = 0 THEN SubSeq(html, p + 1, Len(html))
                ELSE SubSeq(html, p + 1, start - 1) \o (IF end = 0 THEN <<>> ELSE rest[end])
    IN  rest[0]

\* slow: the simulated cost exceeds the budget; the service simulates none.
RenderOnce(html, slow) ==
    LET reason == DetectDynamic(html)
        stripped == StripScriptBlocks(html)
    IN  IF reason = "None" \/ slow
        THEN [content |-> html, mode |-> "static", timedOut |-> reason # "None", reason |-> reason]
        ELSE [content |-> IF Has(stripped, Marker) THEN stripped ELSE Append(stripped, Marker),
              mode |-> "rendered", timedOut |-> FALSE, reason |-> reason]

-----------------------------------------------------------------------------
(* fetch.rs and pipeline.rs.                                               *)

\* The words between the first title's tags, however they are spaced.
ExtractTitle(html) ==
    LET start == FirstAfter(html, 0, "<title>")
        end == FirstAfter(html, start, "</title>")
    IN  IF start = 0 \/ end = 0 THEN <<>>
        ELSE PiecesAt(html, {i \in start + 1..end - 1 : html[i] # "blank"})

\* process_fetched_document: the document is added in any case, and the page
\* queued to be rendered again if that took too long.
ProcessFetchedDocument(title, html, slow) ==
    LET outcome == RenderOnce(html, slow)
    IN  [ok       |-> TRUE,
         added    |-> <<[title |-> title, content |-> outcome.content, renderMode |-> outcome.mode]>>,
         requeued |-> IF outcome.timedOut THEN <<outcome.reason>> ELSE <<>>]

\* index_single_url: an error, or a page that is not HTML, adds nothing; a page
\* without a content type passes for HTML, and the domain for a missing title.
IndexSingleUrl(page) ==
    LET title == ExtractTitle(page.html)
    IN  IF ~page.fetched \/ ~page.code2xx THEN [ok |-> FALSE, added |-> <<>>, requeued |-> <<>>]
        ELSE IF page.contentType = "other" THEN [ok |-> TRUE, added |-> <<>>, requeued |-> <<>>]
        ELSE ProcessFetchedDocument(IF title = <<>> THEN <<"domain">> ELSE title, page.html, page.slow)
=============================================================================
