--------------------------- MODULE IpRateLimiter ---------------------------
(***************************************************************************)
(* The rate limiter of POST /api/sites (gurtd/src/router/api.rs) for one   *)
(* client address: its queue of accepted timestamps.  allow() reads the    *)
(* clock before it takes the lock, so calls may enter with timestamps out  *)
(* of order; Slack bounds how long a call may be held up in between.       *)
(***************************************************************************)
EXTENDS Naturals, Sequences, FiniteSets

CONSTANTS Calls,    \* concurrent requests of the address
          NoTime,
          Max,      \* GURT_SUBMIT_RATE
          Window,   \* GURT_SUBMIT_WINDOW, in ticks
          Slack,    \* bound: ticks between reading the clock and the lock
          MaxTime   \* bound: the last tick

ASSUME LimiterAssumption ==
    /\ Max \in Nat /\ Window \in Nat /\ Slack \in Nat /\ MaxTime \in Nat
    /\ Slack <= Window
    /\ NoTime \notin Nat

VARIABLES clock,
          now,       \* each call's timestamp, while it is inside allow()
          queue,     \* the address's VecDeque of timestamps
          accepted   \* history: timestamps of all accepted calls, in order

vars == <<clock, now, queue, accepted>>

TypeOK ==
    /\ clock \in 0..MaxTime
    /\ now \in [Calls -> 0..MaxTime \cup {NoTime}]
    /\ queue \in Seq(0..MaxTime) /\ Len(queue) <= Max
    /\ accepted \in Seq(0..MaxTime)

Init ==
    /\ clock = 0
    /\ now = [c \in Calls |-> NoTime]
    /\ queue = <<>>
    /\ accepted = <<>>

Tick ==
    /\ clock < MaxTime
    /\ \A c \in Calls : now[c] # NoTime => clock < now[c] + Slack
    /\ clock' = clock + 1
    /\ UNCHANGED <<now, queue, accepted>>

ReadClock(c) ==
    /\ now[c] = NoTime
    /\ now' = [now EXCEPT ![c] = clock]
    /\ UNCHANGED <<clock, queue, accepted>>

\* Instant::duration_since is zero when the other instant is later.
Since(t, u) == IF t > u THEN t - u ELSE 0

\* Mutants: a timestamp at the window's edge leaves, or none ever does.
ExpiredEarly(t, n) == \A i \in 1..n : Since(t, queue[i]) >= Window
ExpiredNever(t, n) == n = 0

\* Timestamps leave from the front until one is within the window.
Expired(t, n) == \A i \in 1..n : Since(t, queue[i]) > Window
Pruned(t) ==
    LET n == CHOOSE k \in 0..Len(queue) :
                 /\ Expired(t, k)
                 /\ k < Len(queue) => ~Expired(t, k + 1)
    IN  SubSeq(queue, n + 1, Len(queue))

\* Mutant: one call too many.
AcceptOneMore(c) ==
    /\ now[c] # NoTime
    /\ LET q == Pruned(now[c]) IN
          /\ Len(q) <= Max
          /\ queue' = Append(q, now[c])
    /\ accepted' = Append(accepted, now[c])
    /\ now' = [now EXCEPT ![c] = NoTime]
    /\ UNCHANGED clock

\* The part of allow() under the lock.
Accept(c) ==
    /\ now[c] # NoTime
    /\ LET q == Pruned(now[c]) IN
          /\ Len(q) < Max
          /\ queue' = Append(q, now[c])
    /\ accepted' = Append(accepted, now[c])
    /\ now' = [now EXCEPT ![c] = NoTime]
    /\ UNCHANGED clock

Refuse(c) ==
    /\ now[c] # NoTime
    /\ Len(Pruned(now[c])) >= Max
    /\ queue' = Pruned(now[c])
    /\ now' = [now EXCEPT ![c] = NoTime]
    /\ UNCHANGED <<clock, accepted>>

Next == Tick \/ \E c \in Calls : ReadClock(c) \/ Accept(c) \/ Refuse(c)

Spec == Init /\ [][Next]_vars

-----------------------------------------------------------------------------
\* The accepted calls whose timestamps are at most w before t.
Within(w, t) == {i \in DOMAIN accepted : accepted[i] + w >= t}

\* At most Max calls are accepted within any Window, but for the time Slack a
\* call may wait for the lock: a later call may have pruned timestamps that
\* are still within the window of an earlier one.
WindowBound ==
    [][\A c \in Calls :
          Accept(c) => Cardinality(Within(Window - Slack, now[c])) < Max]_vars

\* No call is refused unless Max calls were accepted in the window that ends
\* with it, again but for Slack: a late timestamp in front of an early one
\* keeps the early one in the queue after its time.
RefusalJustified ==
    [][\A c \in Calls :
          Refuse(c) => Cardinality(Within(Window + Slack, now[c])) >= Max]_vars

\* The queue never forgets a timestamp that counts against a call to come.
QueueCoversWindow ==
    \A i \in DOMAIN accepted :
        accepted[i] + Window >= clock =>
            Cardinality({j \in DOMAIN queue : queue[j] = accepted[i]})
                = Cardinality({j \in DOMAIN accepted : accepted[j] = accepted[i]})
=============================================================================
