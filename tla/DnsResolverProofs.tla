-------------------------- MODULE DnsResolverProofs --------------------------
(***************************************************************************)
(* Theorems about DnsResolver for every set of names and addresses, every  *)
(* zone over them and every bound on the depth.                            *)
(***************************************************************************)
EXTENDS DnsResolver, TLAPS

LEMMA InitTypes == Init => TypeOK
<1> SUFFICES ASSUME Init
             PROVE  TypeOK
    OBVIOUS
<1>1. zone \in [Names -> Records]
    BY DEF Init, Records, NoRecord
<1>2. 0 \in 0..MaxDepth
    BY DnsAssumption
<1>. QED  BY <1>1, <1>2 DEF Init, TypeOK

LEMMA NextTypes == TypeOK /\ [Next]_vars => TypeOK'
<1> SUFFICES ASSUME TypeOK, [Next]_vars
             PROVE  TypeOK'
    OBVIOUS
<1> USE DnsAssumption DEF TypeOK, Return
<1>0. \A r \in Answers : r.ip \in Ips \cup {NoIp} /\ r.cname \in Names \cup {NoName}
    BY DEF Answers, Records
<1>1. ASSUME NEW d \in Names, Hit(d)
      PROVE  TypeOK'
    <2>1. 0 \in 0..MaxDepth /\ cache[d] \in Ips \cup {NoIp}
        OBVIOUS
    <2>. QED  BY <1>1, <2>1 DEF Hit
<1>2. ASSUME NEW d \in Names, Start(d)
      PROVE  TypeOK'
    <2>1. depth' \in 0..MaxDepth /\ depth' > 0
        BY <1>2 DEF Start
    <2>2. /\ at' \in {"idle", "address", "cname"} /\ original' \in Names /\ current' \in Names
          /\ failed' \in BOOLEAN
        BY <1>2 DEF Start
    <2>3. UNCHANGED <<network, zone, cache, result>>
        BY <1>2 DEF Start
    <2>. QED  BY <2>1, <2>2, <2>3
<1>3. ASSUME NEW d \in Names, Expire(d)
      PROVE  TypeOK'
    BY <1>3 DEF Expire
<1>4. CASE AddressAnswer
    <2>1. PICK r \in Answers : /\ r.ip # NoIp
                               /\ cache' = [cache EXCEPT ![current] = r.ip, ![original] = r.ip]
                               /\ at' = "idle" /\ result' = r.ip
        <3>1. PICK ip \in {r.ip : r \in Answers} \ {NoIp} :
                  /\ cache' = [cache EXCEPT ![current] = ip, ![original] = ip]
                  /\ at' = "idle" /\ result' = ip
            BY <1>4, Zenon DEF AddressAnswer
        <3>2. PICK r \in Answers : r.ip = ip
            OBVIOUS
        <3>. QED  BY <3>1, <3>2
    <2>2. r.ip \in Ips /\ cache' \in [Names -> Ips \cup {NoIp}]
        BY <1>0, <2>1
    <2>. QED  BY <1>4, <2>1, <2>2 DEF AddressAnswer
<1>5. CASE NoAddress
    BY <1>5 DEF NoAddress
<1>6. CASE Abandon
    BY <1>6 DEF Abandon
<1>7. CASE Follow
    BY <1>0, <1>7 DEF Follow, MoreDepth, Deeper
<1>8. CASE NoCname
    BY <1>8 DEF NoCname
<1>9. CASE UNCHANGED vars
    BY <1>9 DEF vars
<1>. QED
    BY <1>1, <1>2, <1>3, <1>4, <1>5, <1>6, <1>7, <1>8, <1>9 DEF Next, ResolverStep

\* No more than MaxDepth names are asked about.
THEOREM ResolverTypes == Spec => []TypeOK
BY InitTypes, NextTypes, PTL DEF Spec

-----------------------------------------------------------------------------
(* A chain of n names from d in the zone z, as LeadsTo walks it, and where *)
(* chains lead; may says whether a name's address may be passed over.      *)

IsChain(z, may, d, n, chain) ==
    /\ chain \in [1..n -> Names]
    /\ chain[1] = d
    /\ \A i \in 1..n - 1 : /\ may \/ z[chain[i]].ip = NoIp
                           /\ z[chain[i]].cname = chain[i + 1]

Leads(z, may, d, ip) ==
    \E n \in 1..MaxDepth : \E chain : IsChain(z, may, d, n, chain) /\ z[chain[n]].ip = ip

LEMMA SameLeads == \A d, ip : LeadsTo(d, ip) <=> Leads(zone, MayFail, d, ip)
BY DEF LeadsTo, Leads, IsChain

LEMMA OneName ==
    ASSUME NEW z, NEW may, NEW d \in Names
    PROVE  \E chain : IsChain(z, may, d, 1, chain) /\ chain[1] = d
<1>1. IsChain(z, may, d, 1, [i \in 1..1 |-> d])
    BY DEF IsChain
<1>. QED  BY <1>1 DEF IsChain

LEMMA OneMoreName ==
    ASSUME NEW z, NEW may, NEW d, NEW n \in Nat \ {0}, NEW chain, IsChain(z, may, d, n, chain),
           NEW next \in Names, z[chain[n]].cname = next,
           may \/ z[chain[n]].ip = NoIp
    PROVE  \E longer : IsChain(z, may, d, n + 1, longer) /\ longer[n + 1] = next
<1>. DEFINE longer == [i \in 1..n + 1 |-> IF i = n + 1 THEN next ELSE chain[i]]
<1>1. longer \in [1..n + 1 -> Names] /\ longer[1] = d /\ longer[n + 1] = next
    BY DEF IsChain
<1>2. ASSUME NEW i \in 1..(n + 1) - 1
      PROVE  /\ may \/ z[longer[i]].ip = NoIp
             /\ z[longer[i]].cname = longer[i + 1]
    <2>1. longer[i] = chain[i]
        BY <1>2
    <2>2. CASE i = n
        BY <2>1, <2>2
    <2>3. CASE i # n
        <3>1. i \in 1..n - 1 /\ longer[i + 1] = chain[i + 1]
            BY <2>3
        <3>. QED  BY <2>1, <3>1 DEF IsChain
    <2>. QED  BY <2>2, <2>3
<1>. QED  BY <1>1, <1>2 DEF IsChain

\* Every chain from d to an address has c as its k-th name, and at least least names.
OnlyWay(z, may, d, c, k, least) ==
    \A n \in 1..MaxDepth : \A chain :
        IsChain(z, may, d, n, chain) /\ z[chain[n]].ip \in Ips =>
            least <= n /\ chain[k] = c

LEMMA TheWay ==
    ASSUME NEW z, NEW may, NEW d, NEW c, NEW k, NEW least, OnlyWay(z, may, d, c, k, least),
           NEW n \in 1..MaxDepth, NEW chain,
           IsChain(z, may, d, n, chain), z[chain[n]].ip \in Ips
    PROVE  least <= n /\ chain[k] = c
BY Zenon DEF OnlyWay

\* A name without an address is not the last one of such a chain, and the
\* chain goes on to its CNAME.
LEMMA WayGoesOn ==
    ASSUME NEW z, NEW may, NEW d, NEW c, NEW k \in Nat \ {0}, OnlyWay(z, may, d, c, k, k + 1)
    PROVE  OnlyWay(z, may, d, z[c].cname, k + 1, k + 1)
<1> SUFFICES ASSUME NEW n \in 1..MaxDepth, NEW chain,
                    IsChain(z, may, d, n, chain), z[chain[n]].ip \in Ips
             PROVE  k + 1 <= n /\ chain[k + 1] = z[c].cname
    BY DEF OnlyWay
<1>1. k + 1 <= n /\ chain[k] = c
    BY TheWay
<1>2. z[chain[k]].cname = chain[k + 1]
    BY <1>1, DnsAssumption DEF IsChain
<1>. QED  BY <1>1, <1>2, DnsAssumption

-----------------------------------------------------------------------------
(* The inductive invariant, for a zone that stays as it is.                *)

CacheLeads == \A n \in Names : cache[n] # NoIp => Leads(zone, MayFail, n, cache[n])

\* The resolver has come to current along a chain.
Came ==
    at # "idle" =>
        /\ \E chain : IsChain(zone, MayFail, original, depth, chain) /\ chain[depth] = current
        /\ at = "cname" => MayFail \/ zone[current].ip = NoIp

\* Unless a request failed, every chain to an address goes the same way so far,
\* and beyond current once current has been found to have none.
NoOtherWay ==
    at # "idle" /\ ~failed => OnlyWay(zone, MayFail, original, current, depth,
                                   IF at = "cname" THEN depth + 1 ELSE depth)

ResultLeads ==
    at = "idle" =>
        IF result = NoIp
        THEN failed \/ depth = 0 \/ \A ip \in Ips : ~Leads(zone, MayFail, original, ip)
        ELSE Leads(zone, MayFail, original, result)

\* The results the cache answers are right because the entries are, and the
\* entries because of the way the resolver came.
SInv == network # "changing" => CacheLeads /\ Came /\ NoOtherWay /\ ResultLeads

LEMMA InitSInv == Init => SInv
BY DEF Init, SInv, CacheLeads, Came, NoOtherWay, ResultLeads

LEMMA NextSInv == TypeOK /\ SInv /\ [Next]_vars => SInv'
<1> SUFFICES ASSUME TypeOK, SInv, [Next]_vars, network' # "changing"
             PROVE  (CacheLeads /\ Came /\ NoOtherWay /\ ResultLeads)'
    BY DEF SInv
<1>0. UNCHANGED <<network, zone>> /\ network # "changing"
    BY DEF Next, ResolverStep, vars, Hit, Start, Expire, AddressAnswer, NoAddress, Abandon,
           Follow, NoCname
<1>a. CacheLeads /\ Came /\ NoOtherWay /\ ResultLeads
    BY <1>0 DEF SInv
<1>b. MayFail' = MayFail
    BY <1>0 DEF MayFail
<1>c. Answers = {zone[current]}
    BY <1>0 DEF Answers
<1>d. depth \in Nat /\ current \in Names /\ original \in Names
    BY DnsAssumption DEF TypeOK
<1> USE <1>0, <1>a, <1>b, <1>c, <1>d, DnsAssumption DEF CacheLeads, Came, NoOtherWay, ResultLeads
<1>1. ASSUME NEW d \in Names, Hit(d)
      PROVE  (CacheLeads /\ Came /\ NoOtherWay /\ ResultLeads)'
    BY <1>1 DEF Hit, Return
<1>2. ASSUME NEW d \in Names, Start(d)
      PROVE  (CacheLeads /\ Came /\ NoOtherWay /\ ResultLeads)'
    <2>1. (CacheLeads /\ ResultLeads)'
        BY <1>2 DEF Start
    <2>2. Came'
        BY <1>2, OneName DEF Start
    <2>3. NoOtherWay'
        BY <1>2 DEF Start, IsChain, OnlyWay
    <2>. QED  BY <2>1, <2>2, <2>3
<1>3. ASSUME NEW d \in Names, Expire(d)
      PROVE  (CacheLeads /\ Came /\ NoOtherWay /\ ResultLeads)'
    BY <1>3 DEF Expire, TypeOK
<1>4. CASE AddressAnswer
    <2>1. PICK ip : /\ ip = zone[current].ip /\ ip # NoIp
                    /\ cache' = [cache EXCEPT ![current] = ip, ![original] = ip]
                    /\ at' = "idle" /\ result' = ip /\ UNCHANGED <<original, current, depth, failed>>
        BY <1>4, Zenon DEF AddressAnswer, Return
    <2>2. Leads(zone, MayFail, current, ip)
        BY <2>1, OneName DEF Leads
    <2>3. Leads(zone, MayFail, original, ip)
        BY <1>4, <2>1 DEF Leads, AddressAnswer, TypeOK
    <2>4. CacheLeads'
        BY <2>1, <2>2, <2>3 DEF TypeOK
    <2>. QED  BY <2>1, <2>3, <2>4
<1>5. CASE NoAddress
    <2>1. (CacheLeads /\ ResultLeads)'
        BY <1>5 DEF NoAddress
    <2>2. Came'
        BY <1>5 DEF NoAddress
    <2>3. NoOtherWay'
        <3>1. at = "address" /\ (~failed' => ~failed /\ zone[current].ip = NoIp)
            BY <1>5 DEF NoAddress
        <3>2. ASSUME ~failed', OnlyWay(zone, MayFail, original, current, depth, depth)
              PROVE  OnlyWay(zone, MayFail, original, current, depth, depth + 1)
            <4> SUFFICES ASSUME NEW n \in 1..MaxDepth, NEW chain,
                                IsChain(zone, MayFail, original, n, chain),
                                zone[chain[n]].ip \in Ips
                         PROVE  depth + 1 <= n /\ chain[depth] = current
                BY DEF OnlyWay
            <4>1. depth <= n /\ chain[depth] = current
                BY <3>2, TheWay
            <4>2. zone[current].ip = NoIp /\ NoIp \notin Ips
                BY <3>1, <3>2, DnsAssumption
            <4>3. depth # n
                BY <4>1, <4>2
            <4>. QED  BY <4>1, <4>3
        <3>3. at' = "cname" /\ UNCHANGED <<zone, original, current, depth>>
            BY <1>5 DEF NoAddress
        <3>4. ASSUME ~failed'
              PROVE  OnlyWay(zone, MayFail, original, current, depth, depth + 1)
            <4>1. OnlyWay(zone, MayFail, original, current, depth, depth)
                BY <3>1, <3>4
            <4>. QED  BY <3>2, <3>4, <4>1
        <3>. QED  BY <3>3, <3>4
    <2>. QED  BY <2>1, <2>2, <2>3
<1>6. CASE Abandon
    BY <1>6 DEF Abandon, Return
<1>7. CASE Follow
    <2>1. /\ at = "cname" /\ current' = zone[current].cname /\ current' \in Names
          /\ UNCHANGED <<cache, original, failed>>
        BY <1>7, DnsAssumption DEF Follow, TypeOK, Records
    <2>2. CASE MoreDepth
        <3>1. at' = "address" /\ depth' = depth + 1 /\ UNCHANGED result
            BY <1>7, <2>2 DEF Follow, Deeper
        <3>2. Came'
            BY <2>1, <3>1, OneMoreName DEF TypeOK
        <3>3. NoOtherWay'
            BY <2>1, <3>1, WayGoesOn DEF TypeOK
        <3>. QED  BY <2>1, <3>1, <3>2, <3>3
    <2>3. CASE ~MoreDepth
        <3>1. at' = "idle" /\ result' = NoIp /\ UNCHANGED depth /\ depth = MaxDepth
            BY <1>7, <2>3 DEF Follow, MoreDepth, Return, TypeOK
        <3>2. failed \/ \A ip \in Ips : ~Leads(zone, MayFail, original, ip)
            <4> SUFFICES ASSUME ~failed, NEW n \in 1..MaxDepth, NEW chain,
                                IsChain(zone, MayFail, original, n, chain), zone[chain[n]].ip \in Ips
                         PROVE  FALSE
                BY DEF Leads
            <4>1. OnlyWay(zone, MayFail, original, current, depth, depth + 1)
                BY <2>1
            <4>2. depth + 1 <= n
                BY <4>1, TheWay
            <4>. QED  BY <3>1, <4>2
        <3>. QED  BY <2>1, <3>1, <3>2
    <2>. QED  BY <2>2, <2>3
<1>8. CASE NoCname
    <2>1. at = "cname" /\ at' = "idle" /\ result' = NoIp /\ UNCHANGED <<cache, original, depth>>
        BY <1>8 DEF NoCname, Return
    <2>2. failed' \/ \A ip \in Ips : ~Leads(zone, MayFail, original, ip)
        <3> SUFFICES ASSUME ~failed', NEW ip \in Ips,
                            NEW n \in 1..MaxDepth, NEW chain,
                            IsChain(zone, MayFail, original, n, chain), zone[chain[n]].ip = ip
                     PROVE  FALSE
            BY DEF Leads
        <3>1. zone[current].cname = NoName /\ ~failed
            BY <1>8 DEF NoCname
        <3>2. OnlyWay(zone, MayFail, original, current, depth, depth + 1)
            BY <2>1, <3>1
        <3>4. depth + 1 <= n /\ chain[depth] = current
            BY <3>2, TheWay
        <3>3. zone[current].cname = chain[depth + 1] /\ chain[depth + 1] \in Names
            BY <2>1, <3>4 DEF IsChain, TypeOK
        <3>. QED  BY <3>1, <3>3
    <2>. QED  BY <2>1, <2>2
<1>9. CASE UNCHANGED vars
    BY <1>9 DEF vars
<1>. QED
    BY <1>1, <1>2, <1>3, <1>4, <1>5, <1>6, <1>7, <1>8, <1>9 DEF Next, ResolverStep

LEMMA AlwaysSInv == Spec => [](TypeOK /\ SInv)
BY InitTypes, NextTypes, InitSInv, NextSInv, PTL DEF Spec

\* What is cached for a name is the address at the end of a chain from it, for
\* every zone that stays as it is and whatever requests fail.
THEOREM CacheAlwaysRight == Spec => []CacheIsRight
<1>1. SInv => CacheIsRight
    BY SameLeads DEF SInv, CacheLeads, CacheIsRight
<1>. QED  BY AlwaysSInv, <1>1, PTL

\* A resolution returns the address its chain leads to, and none only if there
\* is none or a request failed.
THEOREM AlwaysResolvesRight == Spec => []ResolvesRight
<1>1. SInv => ResolvesRight
    BY SameLeads DEF SInv, ResultLeads, ResolvesRight
<1>. QED  BY AlwaysSInv, <1>1, PTL
=============================================================================
