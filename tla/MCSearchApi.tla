---------------------------- MODULE MCSearchApi ----------------------------
\* SearchApi with a few handlers and a short time.
EXTENDS SearchApi, TLC

Symmetry == Permutations(Handlers)
=============================================================================
