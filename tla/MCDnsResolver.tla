--------------------------- MODULE MCDnsResolver ---------------------------
\* DnsResolver on all zones of a few names.
EXTENDS DnsResolver
=============================================================================
