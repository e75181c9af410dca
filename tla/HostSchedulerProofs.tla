------------------------ MODULE HostSchedulerProofs ------------------------
(***************************************************************************)
(* Theorems about HostScheduler for every set of tasks and hosts and all   *)
(* limits and delays.                                                      *)
(***************************************************************************)
EXTENDS HostScheduler, FiniteSetTheorems, TLAPS

\* Who is past the gate's lock holds the gate, and has slept or will sleep until
\* its delay since the last timestamp is over.
DelayIsKept ==
    \A t \in Tasks :
        /\ at[t] \in {"sleep", "stamp"} => gate[host[t]] = t
        /\ at[t] = "sleep" => delay[t] <= stamped[host[t]] + sleep[t]
        /\ at[t] = "stamp" => delay[t] <= stamped[host[t]]

\* The types, but for the numbers of permits.
Places ==
    /\ at \in [Tasks -> Steps]
    /\ host \in [Tasks -> Hosts \cup {NoHost}]
    /\ \A t \in Tasks : at[t] # "idle" => host[t] \in Hosts
    /\ delay \in [Tasks -> 0..MaxDelay]
    /\ sleep \in [Tasks -> 0..MaxDelay]
    /\ gate \in [Hosts -> Tasks \cup {NoTask}]
    /\ stamped \in [Hosts -> 0..MaxDelay]

GInv == Places /\ DelayIsKept

-----------------------------------------------------------------------------
(* The gates.                                                              *)

LEMMA InitGInv == Init => GInv
BY SchedulerAssumption DEF Init, GInv, Places, DelayIsKept, Steps

LEMMA NextGInv == GInv /\ [Next]_vars => GInv'
<1> SUFFICES ASSUME GInv, [Next]_vars
             PROVE  GInv'
    OBVIOUS
<1> USE SchedulerAssumption DEF GInv, Places, DelayIsKept, Steps, Goto
<1>1. ASSUME NEW t \in Tasks, NEW h \in Hosts, Acquire(t, h)
      PROVE  GInv'
    BY <1>1 DEF Acquire
<1>2. ASSUME NEW t \in Tasks, NEW h \in Hosts, NEW d \in 1..MaxDelay, AcquirePolite(t, h, d)
      PROVE  GInv'
    BY <1>2 DEF AcquirePolite
<1>3. ASSUME NEW t \in Tasks, LockGate(t)
      PROVE  GInv'
    BY <1>3 DEF LockGate
<1>4. ASSUME NEW t \in Tasks, Wake(t)
      PROVE  GInv'
    BY <1>4 DEF Wake
<1>5. ASSUME NEW t \in Tasks, Stamp(t)
      PROVE  GInv'
    BY <1>5 DEF Stamp
<1>6. ASSUME NEW t \in Tasks, TakeGlobal(t)
      PROVE  GInv'
    BY <1>6 DEF TakeGlobal
<1>7. ASSUME NEW t \in Tasks, TakeHost(t)
      PROVE  GInv'
    BY <1>7 DEF TakeHost
<1>8. ASSUME NEW t \in Tasks, Release(t)
      PROVE  GInv'
    BY <1>8 DEF Release
<1>9. CASE Tick
    BY <1>9 DEF Tick
<1>10. CASE UNCHANGED vars
    BY <1>10 DEF vars
<1>. QED
    BY <1>1, <1>2, <1>3, <1>4, <1>5, <1>6, <1>7, <1>8, <1>9, <1>10 DEF Next, Step

\* Every pass of a host's gate comes at least its caller's crawl-delay after the
\* pass before it, for any callers, hosts and delays.
THEOREM GatesKeepDelays == Spec => GateKeepsDelay
<1> SUFFICES ASSUME GInv, [Next]_vars
             PROVE  [\A t \in Tasks : Stamp(t) => stamped[host[t]] >= delay[t]]_vars
    BY InitGInv, NextGInv, PTL DEF Spec, GateKeepsDelay
<1>. QED
    BY SchedulerAssumption DEF GInv, Places, DelayIsKept, Stamp

-----------------------------------------------------------------------------
(* The permits.  What is free and what is held add up, which bounds both;  *)
(* the holders stay finitely many because one task at a time joins them.   *)

Permits ==
    /\ global \in Nat /\ IsFiniteSet(HoldGlobal)
    /\ free \in [Hosts -> Nat] /\ \A h \in Hosts : IsFiniteSet(HoldHost(h))

PInv == Places /\ Permits /\ PermitsConserved

\* A step that takes and drops no permit.
NoPermitMoves ==
    /\ UNCHANGED <<global, free>>
    /\ HoldGlobal' = HoldGlobal
    /\ \A h \in Hosts : HoldHost(h)' = HoldHost(h)

LEMMA InitPInv == Init => PInv
<1> SUFFICES ASSUME Init
             PROVE  PInv
    OBVIOUS
<1>1. HoldGlobal = {} /\ \A h \in Hosts : HoldHost(h) = {}
    BY DEF Init, HoldGlobal, HoldHost
<1>2. IsFiniteSet({}) /\ Cardinality({}) = 0
    BY FS_EmptySet
<1>3. Permits
    BY <1>1, <1>2, SchedulerAssumption DEF Init, Permits
<1>4. PermitsConserved
    BY <1>1, <1>2, SchedulerAssumption DEF Init, PermitsConserved
<1>. QED  BY <1>3, <1>4, InitGInv DEF PInv, GInv

\* Which steps move no permit: all that neither begin nor end to hold one.
LEMMA PermitsStay ==
    ASSUME Places, UNCHANGED <<global, free>>,
           \A t \in Tasks :
              \/ at'[t] = at[t] /\ host'[t] = host[t]
              \/ at[t] \notin {"host", "fetch"} /\ at'[t] \notin {"host", "fetch"}
    PROVE  NoPermitMoves
BY DEF NoPermitMoves, HoldGlobal, HoldHost

\* One more holder and one permit less, or the other way round.
LEMMA OneMore ==
    ASSUME NEW S, IsFiniteSet(S), NEW t, t \notin S, NEW n \in Nat, n > 0
    PROVE  /\ IsFiniteSet(S \cup {t})
           /\ n - 1 \in Nat
           /\ (n - 1) + Cardinality(S \cup {t}) = n + Cardinality(S)
<1>1. Cardinality(S) \in Nat
    BY FS_CardinalityType
<1>2. IsFiniteSet(S \cup {t}) /\ Cardinality(S \cup {t}) = Cardinality(S) + 1
    BY FS_AddElement
<1>. QED  BY <1>1, <1>2

LEMMA OneLess ==
    ASSUME NEW S, IsFiniteSet(S), NEW t \in S, NEW n \in Nat
    PROVE  /\ IsFiniteSet(S \ {t})
           /\ n + 1 \in Nat
           /\ (n + 1) + Cardinality(S \ {t}) = n + Cardinality(S)
<1>1. Cardinality(S) \in Nat
    BY FS_CardinalityType
<1>2. IsFiniteSet(S \ {t}) /\ Cardinality(S \ {t}) = Cardinality(S) - 1
    BY FS_RemoveElement
<1>. QED  BY <1>1, <1>2

LEMMA NextPermits == PInv /\ [Next]_vars => (Permits /\ PermitsConserved)'
<1> SUFFICES ASSUME PInv, [Next]_vars
             PROVE  (Permits /\ PermitsConserved)'
    OBVIOUS
<1> USE DEF PInv, Places, Steps, Goto
<1>1. ASSUME NoPermitMoves
      PROVE  (Permits /\ PermitsConserved)'
    BY <1>1 DEF NoPermitMoves, Permits, PermitsConserved
<1>2. ASSUME NEW t \in Tasks, TakeGlobal(t)
      PROVE  (Permits /\ PermitsConserved)'
    <2>1. /\ t \notin HoldGlobal /\ HoldGlobal' = HoldGlobal \cup {t}
          /\ \A h \in Hosts : HoldHost(h)' = HoldHost(h)
        BY <1>2 DEF TakeGlobal, HoldGlobal, HoldHost
    <2>2. /\ IsFiniteSet(HoldGlobal') /\ global' \in Nat
          /\ global' + Cardinality(HoldGlobal') = GlobalLimit
        BY <1>2, <2>1, OneMore DEF TakeGlobal, Permits, PermitsConserved
    <2>. QED  BY <1>2, <2>1, <2>2 DEF TakeGlobal, Permits, PermitsConserved
<1>3. ASSUME NEW t \in Tasks, TakeHost(t)
      PROVE  (Permits /\ PermitsConserved)'
    <2>1. PICK g \in Hosts : g = host[t]
        BY <1>3 DEF TakeHost
    <2>2. /\ HoldGlobal' = HoldGlobal
          /\ t \notin HoldHost(g) /\ HoldHost(g)' = HoldHost(g) \cup {t}
          /\ \A h \in Hosts : h # g => HoldHost(h)' = HoldHost(h)
        BY <1>3, <2>1 DEF TakeHost, HoldGlobal, HoldHost
    <2>3. free[g] > 0 /\ free' = [free EXCEPT ![g] = free[g] - 1]
        BY <1>3, <2>1 DEF TakeHost
    <2>4. /\ IsFiniteSet(HoldHost(g) \cup {t}) /\ free[g] - 1 \in Nat
          /\ (free[g] - 1) + Cardinality(HoldHost(g) \cup {t}) = PerHost
        <3>1. IsFiniteSet(HoldHost(g)) /\ free[g] \in Nat /\ free[g] + Cardinality(HoldHost(g)) = PerHost
            BY DEF Permits, PermitsConserved
        <3>. QED  BY <2>2, <2>3, <3>1, OneMore
    <2>5. global' = global /\ global \in Nat
        BY <1>3 DEF TakeHost, Permits
    <2>. QED  BY <2>2, <2>3, <2>4, <2>5 DEF Permits, PermitsConserved
<1>4. ASSUME NEW t \in Tasks, Release(t)
      PROVE  (Permits /\ PermitsConserved)'
    <2>1. PICK g \in Hosts : g = host[t]
        BY <1>4 DEF Release
    <2>2. t \in HoldGlobal /\ HoldGlobal' = HoldGlobal \ {t}
        BY <1>4 DEF Release, HoldGlobal
    <2>3. /\ t \in HoldHost(g) /\ HoldHost(g)' = HoldHost(g) \ {t}
          /\ \A h \in Hosts : h # g => HoldHost(h)' = HoldHost(h)
        BY <1>4, <2>1, SchedulerAssumption DEF Release, HoldHost
    <2>4. free' = [free EXCEPT ![g] = free[g] + 1]
        BY <1>4, <2>1 DEF Release
    <2>5. /\ IsFiniteSet(HoldGlobal') /\ global' \in Nat
          /\ global' + Cardinality(HoldGlobal') = GlobalLimit
        <3>1. global' = global + 1
            BY <1>4 DEF Release
        <3>. QED  BY <2>2, <3>1, OneLess DEF Permits, PermitsConserved
    <2>6. /\ IsFiniteSet(HoldHost(g) \ {t}) /\ free[g] + 1 \in Nat
          /\ (free[g] + 1) + Cardinality(HoldHost(g) \ {t}) = PerHost
        <3>1. IsFiniteSet(HoldHost(g)) /\ free[g] \in Nat /\ free[g] + Cardinality(HoldHost(g)) = PerHost
            BY DEF Permits, PermitsConserved
        <3>. QED  BY <2>3, <3>1, OneLess
    <2>. QED  BY <2>3, <2>4, <2>5, <2>6 DEF Permits, PermitsConserved
<1>5. ASSUME NEW t \in Tasks, NEW h \in Hosts,
             Acquire(t, h) \/ \E d \in 1..MaxDelay : AcquirePolite(t, h, d)
      PROVE  NoPermitMoves
    BY <1>5, PermitsStay DEF Acquire, AcquirePolite
<1>6. ASSUME NEW t \in Tasks, LockGate(t) \/ Wake(t) \/ Stamp(t)
      PROVE  NoPermitMoves
    BY <1>6, PermitsStay DEF LockGate, Wake, Stamp
<1>7. CASE Tick \/ UNCHANGED vars
    <2>. NoPermitMoves
        BY <1>7, PermitsStay DEF Tick, vars
    <2>. QED  BY <1>1
<1>. QED  BY <1>1, <1>2, <1>3, <1>4, <1>5, <1>6, <1>7 DEF Next, Step

LEMMA AlwaysPInv == Spec => []PInv
<1>1. GInv /\ PInv /\ [Next]_vars => PInv'
    BY NextGInv, NextPermits DEF PInv, GInv
<1>. QED  BY InitGInv, InitPInv, NextGInv, <1>1, PTL DEF Spec

\* No permit is lost or made up, and none of the limits is exceeded, for any
\* number of tasks, finite or not.
THEOREM PermitsAlwaysConserved == Spec => []PermitsConserved
<1>1. PInv => PermitsConserved
    BY DEF PInv
<1>. QED  BY AlwaysPInv, <1>1, PTL

\* The types, the ranges of the permits included.
THEOREM SchedulerTypes == Spec => []TypeOK
<1>1. PInv => TypeOK
    <2> SUFFICES ASSUME PInv
                 PROVE  TypeOK
        OBVIOUS
    <2>1. /\ Cardinality(HoldGlobal) \in Nat
          /\ \A h \in Hosts : Cardinality(HoldHost(h)) \in Nat
        BY FS_CardinalityType DEF PInv, Permits
    <2>2. global \in 0..GlobalLimit /\ free \in [Hosts -> 0..PerHost]
        BY <2>1, SchedulerAssumption DEF PInv, Permits, PermitsConserved
    <2>. QED  BY <2>2, SchedulerAssumption DEF PInv, Places, TypeOK
<1>. QED  BY AlwaysPInv, <1>1, PTL
=============================================================================
