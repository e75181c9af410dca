------------------------------ MODULE Framing ------------------------------
(***************************************************************************)
(* How a message of the protocol is told from its bytes: the head up to an *)
(* empty line, its start line, and the length it announces for the body.   *)
(* Server (gurt-api/src/http_like.rs) and clients (indexing/fetch.rs,      *)
(* crawler/client.rs) each have this code.                                 *)
(*                                                                         *)
(* Bytes are letters: "r" and "n" end lines, "x" is text, "c" a header     *)
(* that asks to close, a digit a content-length header, "h" what makes a   *)
(* start line the handshake's, and "b" is a byte of a body.                *)
(***************************************************************************)
EXTENDS Integers, Sequences

Bytes == {"r", "n", "x", "c", "0", "1", "2", "3", "h", "b"}
Value(byte) == CASE byte = "0" -> 0 [] byte = "1" -> 1 [] byte = "2" -> 2 [] byte = "3" -> 3
Digits == {"0", "1", "2", "3"}

From(s, i) == SubSeq(s, i, Len(s))
InSeq(s) == {s[i] : i \in DOMAIN s}
End == <<"r", "n", "r", "n">>
EndsAt(s, i) == i >= 4 /\ i <= Len(s) /\ SubSeq(s, i - 3, i) = End

\* Where the first head in s ends, 0 if there is none.
HeadEnd(s) ==
    IF \E i \in DOMAIN s : EndsAt(s, i)
    THEN CHOOSE i \in DOMAIN s : EndsAt(s, i) /\ \A j \in 1..i - 1 : ~EndsAt(s, j)
    ELSE 0

\* The start line of a head; without text it has no method, path or code.
StartLine(s) == SubSeq(s, 1, CHOOSE i \in 1..Len(s) :
    SubSeq(s, i, i + 1) = <<"r", "n">> /\ \A j \in 1..i - 1 : SubSeq(s, j, j + 1) # <<"r", "n">>)
WellFormed(head) == "x" \in InSeq(StartLine(head))

\* The last content-length header counts.
Announces(head) == InSeq(head) \cap Digits # {}
ContentLength(head) ==
    LET at == {i \in DOMAIN head : head[i] \in Digits} IN
    IF at = {} THEN 0 ELSE Value(head[CHOOSE i \in at : \A j \in at : j <= i])
=============================================================================
