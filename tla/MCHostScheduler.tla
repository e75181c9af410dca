-------------------------- MODULE MCHostScheduler --------------------------
\* HostScheduler with a few tasks and hosts.
EXTENDS HostScheduler
=============================================================================
