-------------------------- MODULE MCIpRateLimiter --------------------------
\* IpRateLimiter with a few concurrent calls of one address.
EXTENDS IpRateLimiter, TLC

Symmetry == Permutations(Calls)
=============================================================================
