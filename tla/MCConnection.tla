---------------------------- MODULE MCConnection ----------------------------
\* Connection with all short request heads and a few longer ones.
EXTENDS Connection

Words(A, n) == UNION {[1..m -> A] : m \in 0..n}

\* Every head with at most four bytes before the end of head, which is the
\* only one in it.
ShortHeads == {h \in {w \o End : w \in Words({"r", "n", "x", "1", "3"}, 4)} : HeadEnd(h) = Len(h)}

\* Ones that close, malformed or not, and ones that announce nothing.
OtherHeads == {w \o End : w \in {<<"c">>, <<"x", "r", "n", "c">>, <<"x", "0">>, <<"x", "3", "0">>}}

AllHeads == ShortHeads \cup OtherHeads

Greetings == {<<"h">> \o End, <<"x">> \o End, <<"h", "x", "x">> \o End}
=============================================================================
