----------------------------- MODULE Candidates -----------------------------
(***************************************************************************)
(* Which pages of a domain are crawled: collect_candidate_urls of          *)
(* gurtd/src/indexing/mod.rs with parse_sitemap_xml of crawler/sitemap.rs. *)
(*                                                                         *)
(* A sitemap is a sequence of pieces: "<loc" and "</loc", ">", the         *)
(* spellings of addresses, blanks and other text.  Addresses are numbered  *)
(* in the order that sort() gives them.                                    *)
(***************************************************************************)
EXTENDS Naturals, Sequences, FiniteSetsExt

CONSTANTS Spellings,    \* the texts of entries
          Address,      \* what normalize_candidate_url makes of each
          RootAddress,  \* gurt://<domain>/
          Blank,        \* whitespace
          MaxPages      \* MAX_PAGES_PER_DOMAIN

ASSUME CandidatesAssumption ==
    /\ Address \in [Spellings -> Nat] /\ RootAddress \in Nat /\ MaxPages \in Nat \ {0}
    /\ Blank \notin Spellings /\ ({Blank} \cup Spellings) \cap {"<loc", "</loc", ">"} = {}

\* The first occurrence of a piece, and of "</loc>", 0 if there is none.
Find(xml, from, piece) ==
    LET found == {k \in from..Len(xml) : xml[k] = piece}
    IN  IF found = {} THEN 0 ELSE Min(found)
EntryEnd(xml, from) ==
    LET closed == {k \in from..Len(xml) - 1 : xml[k] = "</loc" /\ xml[k + 1] = ">"}
    IN  IF closed = {} THEN 0 ELSE Min(closed)

\* The text without the blanks around it.
Trim(s) ==
    LET kept == {i \in DOMAIN s : s[i] # Blank}
    IN  IF kept = {} THEN <<>> ELSE SubSeq(s, Min(kept), Max(kept))

\* parse_sitemap_xml: the texts between <loc ...> and </loc>, trimmed, unless
\* empty, up to the first that is not complete.
ParseSitemap(xml) ==
    LET from[p \in 1..Len(xml) + 1] ==
            LET start == Find(xml, p, "<loc")
                open == Find(xml, start, ">")
                end == EntryEnd(xml, open + 1)
                text == Trim(SubSeq(xml, open + 1, end - 1))
            IN  IF start = 0 \/ open = 0 \/ end = 0 THEN <<>>
                ELSE (IF text = <<>> THEN <<>> ELSE <<text>>) \o from[end + 2]
    IN  from[1]

\* normalize_candidate_url, of a text that is one spelling.
Normalize(text) == Address[text[1]]

\* Mutant: the root is not counted.
RoomForOneMore(n) == n <= MaxPages

\* Whether the n-th entry still joins the root.
RoomFor(n) == n < MaxPages

Truncate(addresses) == {a \in addresses : Cardinality({b \in addresses : b < a}) < MaxPages}

\* collect_candidate_urls: the root and the entries of the sitemap, if it was
\* answered with a code 2xx and is UTF-8, sorted and without duplicates.
CandidateUrls(answer) ==
    LET entries == IF answer.fetched /\ answer.code2xx /\ answer.utf8 THEN ParseSitemap(answer.xml) ELSE <<>>
    IN  Truncate({RootAddress} \cup {Normalize(entries[i]) : i \in {n \in DOMAIN entries : RoomFor(n)}})
=============================================================================
