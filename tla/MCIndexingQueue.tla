-------------------------- MODULE MCIndexingQueue --------------------------
\* IndexingQueue on small sets of domains and callers.
EXTENDS IndexingQueue, TLC

Symmetry == Permutations(Domains) \cup Permutations(Callers)
=============================================================================
