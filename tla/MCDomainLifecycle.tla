------------------------- MODULE MCDomainLifecycle -------------------------
\* DomainLifecycle on one or two domains.
EXTENDS DomainLifecycle, TLC

Symmetry == Permutations(Domains)
=============================================================================
