------------------------------ MODULE MCDbPool ------------------------------
\* DbPool with main() and a few other callers of get_pool().
EXTENDS DbPool
=============================================================================
