-------------------------------- MODULE Links --------------------------------
(***************************************************************************)
(* The links of a page: extract_links of gurtd/src/link/mod.rs.            *)
(*                                                                         *)
(* HTML is a sequence of pieces: "href", "=", ">", quotes, blanks,         *)
(* backslashes, texts that start with gurt:// and other text.  A link is   *)
(* the pieces of its value; i is the place after which the search for the  *)
(* next "href" starts.                                                     *)
(***************************************************************************)
EXTENDS Integers, SequencesExt, FiniteSetsExt

Found(links) == [panics |-> FALSE, links |-> links]
Panic == [panics |-> TRUE, links |-> <<>>]
QuoteMarks == {"dquote", "quote"}

\* The first place from the given one on that does (not) hold such a piece,
\* the one after the last piece if there is none.
FirstIn(html, from, pieces) == Min({i \in from..Len(html) : html[i] \in pieces} \cup {Len(html) + 1})
FirstNotIn(html, from, pieces) == Min({i \in from..Len(html) : html[i] \notin pieces} \cup {Len(html) + 1})

\* Backslashes at the end of a value are dropped.
Link(html, from, end) ==
    LET last == Max({i \in from..end - 1 : html[i] # "backslash"} \cup {from})
    IN  IF from < end /\ html[from] = "gurt://" THEN <<SubSeq(html, from, last)>> ELSE <<>>

\* Mutant: the place after an unquoted value is skipped too.
AfterValueAlways(end, quoted) == end + 1

\* The search goes on after a closing quote, or at the end of an unquoted
\* value.  A quote that is not closed makes that one place past the end of the
\* page, at which the next slice panics.
AfterValue(end, quoted) == IF quoted THEN end + 1 ELSE end

ExtractLinks(html) ==
    LET end == Len(html) + 1
        from[i \in 1..end + 1] ==
            LET href == FirstIn(html, i, {"href"})
                equals == FirstIn(html, href, {"="})
                j == FirstNotIn(html, FirstNotIn(html, equals + 1, {"blank"}), {"backslash"})
                quoted == html[j] \in QuoteMarks
                start == IF quoted THEN j + 1 ELSE j
                k == IF quoted THEN FirstIn(html, start, {html[j]}) ELSE FirstIn(html, start, {"blank", ">"})
                rest == from[AfterValue(k, quoted)]
            IN  IF i > end THEN Panic
                ELSE IF href = end \/ equals = end \/ j >= end THEN Found(<<>>)
                ELSE IF rest.panics THEN Panic
                ELSE Found(Link(html, start, k) \o rest.links)
    IN  from[1]
=============================================================================
