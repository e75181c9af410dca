----------------------------- MODULE QueryKeys -----------------------------
(***************************************************************************)
(* What becomes of a search string: parse_query (gurt-query/src/lib.rs),   *)
(* the key of the hot cache (gurtd/src/search/mod.rs normalize_key), and   *)
(* the tokens the index engine looks up (gurt-index/src/tantivy.rs         *)
(* analyze_terms), which those of a page's text have to meet.              *)
(*                                                                         *)
(* A query is a sequence of raw tokens, the pieces between whitespace; a   *)
(* raw token is a sequence of symbols: alphanumeric words and the marks    *)
(* between them.  No two words are adjacent.  A key is a sequence of the   *)
(* same symbols.  The separator of its parts, U+001F, is no whitespace and *)
(* percent_decode makes it of %1F, so raw tokens may contain it too.       *)
(***************************************************************************)
EXTENDS Sequences, FiniteSetsExt

CONSTANTS Words,       \* alphanumeric symbols
          Stopwords,   \* in lower case
          AsciiLower,  \* of each symbol: to_ascii_lowercase ...
          Lower        \* ... and Unicode's lower case

ASSUME QueryAssumption ==
    /\ Stopwords \subseteq Words /\ ":" \notin Words /\ "=" \notin Words /\ "U+001F" \notin Words
    /\ AsciiLower \in [Words -> Words] /\ Lower \in [Words -> Words]

Colon == ":"
Equals == "="
Separator == "U+001F"
Quotes == {"dquote", "quote"}

\* The elements of s that are in set, in their order.
Only(s, set) ==
    LET upTo[n \in 0..Len(s)] ==
            IF n = 0 THEN <<>> ELSE IF s[n] \in set THEN Append(upTo[n - 1], s[n]) ELSE upTo[n - 1]
    IN  upTo[Len(s)]

Lowered(fold, s) == [i \in DOMAIN s |-> IF s[i] \in Words THEN fold[s[i]] ELSE s[i]]

-----------------------------------------------------------------------------
(* parse_query.                                                            *)

StripQuotes(s) ==
    IF Len(s) >= 2 /\ s[1] \in Quotes /\ s[Len(s)] = s[1] THEN SubSeq(s, 2, Len(s) - 1) ELSE s

\* The raw token up to its first colon is the name of a filter, in any case.
SplitAt(raw) == Min({i \in DOMAIN raw : raw[i] = Colon})
IsFilter(raw, name) ==
    /\ Colon \in {raw[i] : i \in DOMAIN raw}
    /\ Lowered(AsciiLower, SubSeq(raw, 1, SplitAt(raw) - 1)) = <<name>>
FilterValue(raw) == Lowered(AsciiLower, StripQuotes(SubSeq(raw, SplitAt(raw) + 1, Len(raw))))

\* The last value given that is not empty; none is <<>>.
Filter(query, name) ==
    LET given == {i \in DOMAIN query : IsFilter(query[i], name) /\ FilterValue(query[i]) # <<>>}
    IN  IF given = {} THEN <<>> ELSE FilterValue(query[Max(given)])

ParseQuery(query) ==
    [terms    |-> Only(query, {raw \in {query[i] : i \in DOMAIN query} :
                                  ~IsFilter(raw, "site") /\ ~IsFilter(raw, "filetype")}),
     site     |-> Filter(query, "site"),
     filetype |-> Filter(query, "filetype")]

-----------------------------------------------------------------------------
(* normalize_key.                                                          *)

FilterPart(name, value) == IF value = <<>> THEN <<>> ELSE <<<<name, Equals>> \o value>>
TermParts(pq) == [i \in DOMAIN pq.terms |-> Lowered(AsciiLower, pq.terms[i])]

\* The parts with a separator between any two.
Joined(parts) ==
    LET upTo[n \in 0..Len(parts)] ==
            IF n = 0 THEN <<>>
            ELSE upTo[n - 1] \o (IF n = 1 THEN <<>> ELSE <<Separator>>) \o parts[n]
    IN  upTo[Len(parts)]

\* Mutant: the file type is forgotten.
KeyWithoutFiletype(pq) == Joined(TermParts(pq) \o FilterPart("site", pq.site))

NormalizeKey(pq) ==
    Joined(TermParts(pq) \o FilterPart("site", pq.site) \o FilterPart("filetype", pq.filetype))

\* A term that reads like the part of a filter in the key.
LikeFilterPart(raw) ==
    Len(raw) >= 2 /\ raw[2] = Equals /\ Lowered(AsciiLower, raw)[1] \in {"site", "filetype"}

\* Whether the key's parts can be told from one another: no term reads like a
\* filter, and nothing that was asked for contains the separator.
HasSeparator(raw) == \E i \in DOMAIN raw : raw[i] = Separator
Unambiguous(pq) ==
    /\ \A i \in DOMAIN pq.terms : ~LikeFilterPart(pq.terms[i]) /\ ~HasSeparator(pq.terms[i])
    /\ ~HasSeparator(pq.site) /\ ~HasSeparator(pq.filetype)

-----------------------------------------------------------------------------
(* The engine.  Filters are not used by its search().                      *)

Text(terms) == LET upTo[n \in 0..Len(terms)] == IF n = 0 THEN <<>> ELSE upTo[n - 1] \o terms[n]
               IN  upTo[Len(terms)]

\* Mutant: stop words are looked up as they are spelled.
StopwordsBeforeCase(terms) ==
    Lowered(AsciiLower, Only(Text(terms), Words \ Stopwords))

\* The terms' words in lower case, without stop words; no token, no answer.
AnalyzeTerms(terms) == Only(Lowered(AsciiLower, Text(terms)), Words \ Stopwords)

\* The tokens the index has of a text: SimpleTokenizer, LowerCaser and
\* StopWordFilter as register_tokenizer_en combines them.
IndexTokens(text) == Only(Lowered(Lower, text), Words \ Stopwords)

\* search: whether a document is among the hits, of which the first page shows
\* the best.  One clause per token and field, of which one has to match.
Matches(pq, doc) ==
    LET tokens == AnalyzeTerms(pq.terms)
        indexed == {IndexTokens(doc.title), IndexTokens(doc.content)}
    IN  \E i \in DOMAIN tokens, field \in indexed : \E j \in DOMAIN field : field[j] = tokens[i]

OnlyAsciiCase(text) == \A i \in DOMAIN text : text[i] \in Words => AsciiLower[text[i]] = Lower[text[i]]
=============================================================================
