--------------------------- MODULE HostScheduler ---------------------------
(***************************************************************************)
(* The crawler's scheduler (gurtd/src/crawler/scheduler.rs): a task that   *)
(* wants to fetch from a host takes a global permit, then one of the       *)
(* host's; acquire_polite first passes the host's politeness gate, a mutex *)
(* held through the sleep that keeps the crawl-delay.                      *)
(*                                                                         *)
(* Time is kept as ages and countdowns, in ticks.  An age stops growing at *)
(* MaxDelay, which also stands for "never": the code waits in neither case.*)
(***************************************************************************)
EXTENDS Naturals, FiniteSets

CONSTANTS Tasks, Hosts, NoTask, NoHost,
          GlobalLimit, PerHost,  \* permits of HostScheduler::new
          MaxDelay               \* bound: the longest crawl-delay, in ticks

ASSUME SchedulerAssumption ==
    /\ NoTask \notin Tasks /\ NoHost \notin Hosts
    /\ GlobalLimit \in Nat \ {0} /\ PerHost \in Nat \ {0}
    /\ MaxDelay \in Nat

VARIABLES at,         \* where each task is in acquire_polite
          host,       \* the host it asked for
          delay,      \* its crawl_delay
          sleep,      \* ticks its sleep still lasts
          gate,       \* per host: the task that holds the politeness mutex
          stamped,    \* per host: age of the timestamp the mutex protects
          global,     \* free global permits
          free        \* per host: free permits

vars == <<at, host, delay, sleep, gate, stamped, global, free>>

Steps == {"idle", "gate", "sleep", "stamp", "global", "host", "fetch"}

\* Tasks that hold a global permit, and those that hold one of host h.
HoldGlobal == {t \in Tasks : at[t] \in {"host", "fetch"}}
HoldHost(h) == {t \in Tasks : at[t] = "fetch" /\ host[t] = h}

TypeOK ==
    /\ at \in [Tasks -> Steps]
    /\ host \in [Tasks -> Hosts \cup {NoHost}]
    /\ \A t \in Tasks : at[t] # "idle" => host[t] # NoHost
    /\ delay \in [Tasks -> 0..MaxDelay]
    /\ sleep \in [Tasks -> 0..MaxDelay]
    /\ gate \in [Hosts -> Tasks \cup {NoTask}]
    /\ stamped \in [Hosts -> 0..MaxDelay]
    /\ global \in 0..GlobalLimit
    /\ free \in [Hosts -> 0..PerHost]

Init ==
    /\ at = [t \in Tasks |-> "idle"]
    /\ host = [t \in Tasks |-> NoHost]
    /\ delay = [t \in Tasks |-> 0]
    /\ sleep = [t \in Tasks |-> 0]
    /\ gate = [h \in Hosts |-> NoTask]
    /\ stamped = [h \in Hosts |-> MaxDelay]
    /\ global = GlobalLimit
    /\ free = [h \in Hosts |-> PerHost]

Goto(t, step) == at' = [at EXCEPT ![t] = step]

-----------------------------------------------------------------------------
\* acquire, or acquire_polite without a crawl-delay.
Acquire(t, h) ==
    /\ at[t] = "idle"
    /\ Goto(t, "global")
    /\ host' = [host EXCEPT ![t] = h]
    /\ delay' = [delay EXCEPT ![t] = 0]
    /\ UNCHANGED <<sleep, gate, stamped, global, free>>

\* acquire_polite with one.
AcquirePolite(t, h, d) ==
    /\ at[t] = "idle"
    /\ Goto(t, "gate")
    /\ host' = [host EXCEPT ![t] = h]
    /\ delay' = [delay EXCEPT ![t] = d]
    /\ UNCHANGED <<sleep, gate, stamped, global, free>>

\* Mutant: the guard is dropped as soon as the lock was taken.
LockGateUnheld(t) ==
    /\ at[t] = "gate"
    /\ gate[host[t]] = NoTask
    /\ IF stamped[host[t]] < delay[t]
       THEN Goto(t, "sleep") /\ sleep' = [sleep EXCEPT ![t] = delay[t] - stamped[host[t]]]
       ELSE Goto(t, "stamp") /\ UNCHANGED sleep
    /\ UNCHANGED <<host, delay, gate, stamped, global, free>>

\* The gate's mutex is taken, and the rest of the delay computed.
LockGate(t) ==
    /\ at[t] = "gate"
    /\ gate[host[t]] = NoTask
    /\ gate' = [gate EXCEPT ![host[t]] = t]
    /\ IF stamped[host[t]] < delay[t]
       THEN Goto(t, "sleep") /\ sleep' = [sleep EXCEPT ![t] = delay[t] - stamped[host[t]]]
       ELSE Goto(t, "stamp") /\ UNCHANGED sleep
    /\ UNCHANGED <<host, delay, stamped, global, free>>

Wake(t) ==
    /\ at[t] = "sleep"
    /\ sleep[t] = 0
    /\ Goto(t, "stamp")
    /\ UNCHANGED <<host, delay, sleep, gate, stamped, global, free>>

\* The timestamp is recorded and the gate dropped, before any permit is held.
Stamp(t) ==
    /\ at[t] = "stamp"
    /\ stamped' = [stamped EXCEPT ![host[t]] = 0]
    /\ gate' = [gate EXCEPT ![host[t]] = NoTask]
    /\ Goto(t, "global")
    /\ delay' = [delay EXCEPT ![t] = 0]
    /\ UNCHANGED <<host, sleep, global, free>>

TakeGlobal(t) ==
    /\ at[t] = "global"
    /\ global > 0
    /\ global' = global - 1
    /\ Goto(t, "host")
    /\ UNCHANGED <<host, delay, sleep, gate, stamped, free>>

\* The host's permit is awaited with the global one held.
TakeHost(t) ==
    /\ at[t] = "host"
    /\ free[host[t]] > 0
    /\ free' = [free EXCEPT ![host[t]] = @ - 1]
    /\ Goto(t, "fetch")
    /\ UNCHANGED <<host, delay, sleep, gate, stamped, global>>

\* Mutant: only one of the permits is dropped.
ReleaseHostOnly(t) ==
    /\ at[t] = "fetch"
    /\ free' = [free EXCEPT ![host[t]] = @ + 1]
    /\ Goto(t, "idle")
    /\ host' = [host EXCEPT ![t] = NoHost]
    /\ UNCHANGED <<delay, sleep, gate, stamped, global>>

\* The caller drops both permits.
Release(t) ==
    /\ at[t] = "fetch"
    /\ global' = global + 1
    /\ free' = [free EXCEPT ![host[t]] = @ + 1]
    /\ Goto(t, "idle")
    /\ host' = [host EXCEPT ![t] = NoHost]
    /\ UNCHANGED <<delay, sleep, gate, stamped>>

Tick ==
    /\ stamped' = [h \in Hosts |-> IF stamped[h] < MaxDelay THEN stamped[h] + 1 ELSE MaxDelay]
    /\ sleep' = [t \in Tasks |-> IF sleep[t] > 0 THEN sleep[t] - 1 ELSE 0]
    /\ UNCHANGED <<at, host, delay, gate, global, free>>

Step(t) == LockGate(t) \/ Wake(t) \/ Stamp(t) \/ TakeGlobal(t) \/ TakeHost(t) \/ Release(t)

Next ==
    \/ \E t \in Tasks, h \in Hosts :
          Acquire(t, h) \/ \E d \in 1..MaxDelay : AcquirePolite(t, h, d)
    \/ \E t \in Tasks : Step(t)
    \/ Tick

Spec == Init /\ [][Next]_vars

\* Tokio's mutex and semaphore serve waiters in order, so a task that waits
\* while others come and go is served in the end (strong fairness); a sleep
\* ends, and a fetch ends because the client's waits have timeouts.
FairSpec == Spec /\ WF_vars(Tick) /\ \A t \in Tasks : SF_vars(Step(t))

-----------------------------------------------------------------------------
\* No permit is lost or made up, and no host is over its limit: what is free
\* and what the tasks hold add up at every moment.
PermitsConserved ==
    /\ global + Cardinality(HoldGlobal) = GlobalLimit
    /\ \A h \in Hosts : free[h] + Cardinality(HoldHost(h)) = PerHost

\* Passing the gate keeps the caller's crawl-delay from the pass before it, for
\* any mix of callers and delays.
GateKeepsDelay ==
    [][\A t \in Tasks : Stamp(t) => stamped[host[t]] >= delay[t]]_vars

\* Every call gets its permits: holding the global permit while waiting for
\* the host's delays other hosts but never blocks the scheduler for good.
EveryCallIsServed == \A t \in Tasks : at[t] # "idle" ~> at[t] = "fetch"
=============================================================================
