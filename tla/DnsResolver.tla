---------------------------- MODULE DnsResolver ----------------------------
(***************************************************************************)
(* resolve_via_gurt_dns (gurtd/src/indexing/dns.rs), called by the crawl   *)
(* thread one name at a time: a cache lookup, then for each name of the    *)
(* CNAME chain a request for its address and, if none came, a second one   *)
(* for its CNAME.  The DNS server is external: it answers from a zone that    *)
(* stays as it is, or, when the zone keeps changing, anything each time.   *)
(* The cache's TTL is abstract: an entry may expire at any moment.         *)
(***************************************************************************)
EXTENDS Naturals

CONSTANTS Names, Ips, NoName, NoIp,
          MaxDepth     \* MAX_CNAME_DEPTH

ASSUME DnsAssumption ==
    /\ NoName \notin Names /\ NoIp \notin Ips
    /\ MaxDepth \in Nat \ {0}

VARIABLES network,           \* "reliable", "failing", or "changing" (and failing)
          zone,              \* the server's records, unless they keep changing
          cache,             \* DNS_CACHE, NoIp when there is no live entry
          at,                \* where the resolver is
          original, current, \* the name asked for, and the one it has come to
          depth,             \* names asked about
          result,            \* what the last resolution returned
          failed             \* history: whether a request of it failed

vars == <<network, zone, cache, at, original, current, depth, result, failed>>

\* Requests may fail or time out.
MayFail == network # "reliable"

Records == [ip : Ips \cup {NoIp}, cname : Names \cup {NoName}]
NoRecord == [ip |-> NoIp, cname |-> NoName]

\* What the server may answer when it is asked about the current name.
Answers == IF network = "changing" THEN Records ELSE {zone[current]}

TypeOK ==
    /\ network \in {"reliable", "failing", "changing"}
    /\ zone \in [Names -> Records]
    /\ cache \in [Names -> Ips \cup {NoIp}]
    /\ at \in {"idle", "address", "cname"}
    /\ original \in Names /\ current \in Names
    /\ depth \in 0..MaxDepth
    /\ at # "idle" => depth > 0
    /\ result \in Ips \cup {NoIp}
    /\ failed \in BOOLEAN

Init ==
    /\ network \in {"reliable", "failing", "changing"}
    /\ zone \in IF network = "changing" THEN {[n \in Names |-> NoRecord]} ELSE [Names -> Records]
    /\ cache = [n \in Names |-> NoIp]
    /\ at = "idle"
    /\ original \in Names /\ current = original
    /\ depth = 0
    /\ result = NoIp
    /\ failed = FALSE

Return(ip) == at' = "idle" /\ result' = ip

-----------------------------------------------------------------------------
\* dns_cache_get finds an entry ...
Hit(d) ==
    /\ at = "idle"
    /\ cache[d] # NoIp
    /\ original' = d /\ current' = d /\ depth' = 0
    /\ failed' = FALSE
    /\ Return(cache[d])
    /\ UNCHANGED <<network, zone, cache>>

\* Mutant: original is left over from the last call.
StartStale(d) ==
    /\ at = "idle"
    /\ cache[d] = NoIp
    /\ current' = d /\ depth' = 1
    /\ failed' = FALSE
    /\ at' = "address"
    /\ UNCHANGED <<network, zone, cache, original, result>>

\* ... or the loop is entered.
Start(d) ==
    /\ at = "idle"
    /\ cache[d] = NoIp
    /\ original' = d /\ current' = d /\ depth' = 1
    /\ failed' = FALSE
    /\ at' = "address"
    /\ UNCHANGED <<network, zone, cache, result>>

\* pick_ip_from_dns_response: the address is cached under both names.
AddressAnswer ==
    /\ at = "address"
    /\ \E ip \in {r.ip : r \in Answers} \ {NoIp} :
          /\ cache' = [cache EXCEPT ![current] = ip, ![original] = ip]
          /\ Return(ip)
    /\ UNCHANGED <<network, zone, original, current, depth, failed>>

\* There is no address, or the request failed: a second one asks for a CNAME.
NoAddress ==
    /\ at = "address"
    /\ \/ (\E r \in Answers : r.ip = NoIp) /\ UNCHANGED failed
       \/ MayFail /\ failed' = TRUE
    /\ at' = "cname"
    /\ UNCHANGED <<network, zone, cache, original, current, depth, result>>

\* The first request times out, or the fetch this is part of does.
Abandon ==
    /\ at # "idle"
    /\ MayFail /\ failed' = TRUE
    /\ Return(NoIp)
    /\ UNCHANGED <<network, zone, cache, original, current, depth>>

\* Mutant: the names are not counted.
SameDepth == depth

\* The loop's condition, with the name at hand counted.
MoreDepth == depth < MaxDepth
Deeper == depth + 1

\* The CNAME is followed, or the loop ends.
Follow ==
    /\ at = "cname"
    /\ current' \in {r.cname : r \in Answers} \ {NoName}
    /\ IF MoreDepth
       THEN at' = "address" /\ depth' = Deeper /\ UNCHANGED result
       ELSE Return(NoIp) /\ UNCHANGED depth
    /\ UNCHANGED <<network, zone, cache, original, failed>>

\* There is none, or the second request failed or timed out.
NoCname ==
    /\ at = "cname"
    /\ \/ (\E r \in Answers : r.cname = NoName) /\ UNCHANGED failed
       \/ MayFail /\ failed' = TRUE
    /\ Return(NoIp)
    /\ UNCHANGED <<network, zone, cache, original, current, depth>>

ResolverStep == AddressAnswer \/ NoAddress \/ Abandon \/ Follow \/ NoCname

\* An entry is older than the TTL; the next lookup removes it.
Expire(n) ==
    /\ cache[n] # NoIp
    /\ cache' = [cache EXCEPT ![n] = NoIp]
    /\ UNCHANGED <<network, zone, at, original, current, depth, result, failed>>

Next ==
    \/ ResolverStep
    \/ \E n \in Names : Hit(n) \/ Start(n) \/ Expire(n)

Spec == Init /\ [][Next]_vars

\* Every request has a timeout of DNS_TIMEOUT.
FairSpec == Spec /\ WF_vars(ResolverStep)

-----------------------------------------------------------------------------
\* A chain of CNAMEs leads from d to a name with the address ip, over at most
\* MaxDepth names.  If requests may fail it may lead past a name that has both
\* an address and a CNAME: when the first request for it fails, the second one
\* finds the CNAME, which is followed.
LeadsTo(d, ip) ==
    \E n \in 1..MaxDepth : \E chain \in [1..n -> Names] :
        /\ chain[1] = d
        /\ \A i \in 1..n - 1 : /\ MayFail \/ zone[chain[i]].ip = NoIp
                               /\ zone[chain[i]].cname = chain[i + 1]
        /\ zone[chain[n]].ip = ip

\* While the zone stays as it is, every resolution returns the address at the
\* end of the chain, from the cache or not; it gives up only if there is none
\* within MaxDepth names or a request failed.  In particular the entries other
\* resolutions left are right, for every name of every chain.
ResolvesRight ==
    at = "idle" /\ network # "changing" =>
        IF result = NoIp
        THEN failed \/ depth = 0 \/ \A ip \in Ips : ~LeadsTo(original, ip)
        ELSE LeadsTo(original, result)

\* What is cached is the address of its name.
CacheIsRight ==
    network # "changing" => \A n \in Names : cache[n] # NoIp => LeadsTo(n, cache[n])

\* A resolution ends, whatever the zone does, CNAME cycles included.
ResolutionEnds == at # "idle" ~> at = "idle"
=============================================================================
