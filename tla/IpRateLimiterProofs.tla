------------------------ MODULE IpRateLimiterProofs ------------------------
(***************************************************************************)
(* Theorems about IpRateLimiter for any number of concurrent calls, rate,  *)
(* window and delay at the lock: its types, that no timestamp that counts  *)
(* is forgotten, and how many calls a window lets through.                 *)
(***************************************************************************)
EXTENDS IpRateLimiter, FiniteSetTheorems, SequenceTheorems, TLAPS

(***************************************************************************)
(* The inductive invariant.  The queue is always a suffix of the accepted  *)
(* calls, and what precedes it has left the window.  The timestamps in it  *)
(* need not be sorted: a later one may be smaller by at most Slack.        *)
(***************************************************************************)
Gone == Len(accepted) - Len(queue)

NowIsRecent ==
    \A c \in Calls : now[c] # NoTime => now[c] <= clock /\ clock <= now[c] + Slack

AlmostSorted ==
    /\ \A i \in DOMAIN accepted : accepted[i] <= clock
    /\ \A i, j \in DOMAIN accepted : i < j => accepted[i] <= accepted[j] + Slack

QueueIsSuffix ==
    /\ Len(queue) <= Len(accepted)
    /\ \A j \in DOMAIN queue : queue[j] = accepted[Gone + j]
    /\ \A i \in 1..Gone : accepted[i] + Window < clock

LInv == TypeOK /\ NowIsRecent /\ AlmostSorted /\ QueueIsSuffix

-----------------------------------------------------------------------------
(* Pruning ends: some prefix of the queue is the longest one that has      *)
(* expired.  Of the rests that expired prefixes leave, one is smallest.    *)

LEMMA LongestExpired ==
    ASSUME queue \in Seq(0..MaxTime), NEW t \in Nat
    PROVE  \E k \in 0..Len(queue) : Expired(t, k) /\ (k < Len(queue) => ~Expired(t, k + 1))
<1> DEFINE L == Len(queue)
           Rest(k) == (k + 1)..L
           Rests == {Rest(k) : k \in {n \in 0..L : Expired(t, n)}}
           S == 1..L
<1>1. L \in Nat
    OBVIOUS
<1>2. IsWellFoundedOn(StrictSubsetOrdering(S), FiniteSubsetsOf(S))
    BY FS_StrictSubsetOrderingWellFounded
<1>3. Rests \subseteq FiniteSubsetsOf(S)
    <2>1. ASSUME NEW k \in 0..L
          PROVE  Rest(k) \subseteq S /\ IsFiniteSet(Rest(k))
        BY <1>1, FS_Interval
    <2>. QED  BY <2>1 DEF FiniteSubsetsOf
<1>4. Rests # {}
    <2>1. Expired(t, 0)
        BY DEF Expired
    <2>. QED  BY <1>1, <2>1
<1>5. PICK r \in Rests : \A s \in Rests : <<s, r>> \notin StrictSubsetOrdering(S)
    <2> HIDE DEF Rests, S
    <2>. QED  BY <1>2, <1>3, <1>4, WFMin
<1>6. PICK k \in 0..L : Expired(t, k) /\ r = Rest(k)
    BY <1>5
<1>7. ASSUME k < L, Expired(t, k + 1)
      PROVE  FALSE
    <2>1. Rest(k + 1) \in Rests
        BY <1>1, <1>7
    <2>2. Rest(k + 1) \subseteq Rest(k) /\ Rest(k) \subseteq S
        BY <1>1
    <2>3. k + 1 \in Rest(k) /\ k + 1 \notin Rest(k + 1)
        BY <1>1, <1>7
    <2>4. <<Rest(k + 1), Rest(k)>> \in StrictSubsetOrdering(S)
        <3> HIDE DEF Rest, S
        <3>. QED  BY <2>2, <2>3 DEF StrictSubsetOrdering
    <2>. QED  BY <1>5, <1>6, <2>1, <2>4
<1>. QED  BY <1>6, <1>7

\* What pruning leaves: a suffix, whose first timestamp is within the window of
\* t, after timestamps that are not.
LEMMA PrunedIsSuffix ==
    ASSUME queue \in Seq(0..MaxTime), NEW t \in Nat
    PROVE  \E k \in 0..Len(queue) :
              /\ Pruned(t) \in Seq(0..MaxTime)
              /\ Len(Pruned(t)) = Len(queue) - k
              /\ \A j \in 1..Len(queue) - k : Pruned(t)[j] = queue[k + j]
              /\ \A i \in 1..k : queue[i] + Window < t
              /\ k < Len(queue) => queue[k + 1] + Window >= t
<1> DEFINE Stop(n) == Expired(t, n) /\ (n < Len(queue) => ~Expired(t, n + 1))
           k == CHOOSE n \in 0..Len(queue) : Stop(n)
<1>1. k \in 0..Len(queue) /\ Stop(k)
    <2>1. \E n \in 0..Len(queue) : Stop(n)
        BY LongestExpired, LimiterAssumption
    <2> HIDE DEF Stop
    <2>. QED  BY <2>1
<1>2. Pruned(t) = SubSeq(queue, k + 1, Len(queue))
    BY DEF Pruned
<1> HIDE DEF k
<1>3. \A i \in 1..k : queue[i] + Window < t
    BY <1>1, LimiterAssumption DEF Expired, Since
<1>4. k < Len(queue) => queue[k + 1] + Window >= t
    BY <1>1, <1>3, LimiterAssumption DEF Expired, Since
<1>5. /\ Pruned(t) \in Seq(0..MaxTime)
      /\ Len(Pruned(t)) = Len(queue) - k
      /\ \A j \in 1..Len(queue) - k : Pruned(t)[j] = queue[k + j]
    <2>1. ASSUME NEW i \in (k + 1)..Len(queue)
          PROVE  queue[i] \in 0..MaxTime
        <3>1. i \in 1..Len(queue)
            BY <1>1
        <3>. QED  BY <3>1, ElementOfSeq
    <2>2. k \in Nat /\ k + 1 \in Int /\ Len(queue) \in Int /\ k <= Len(queue)
        BY <1>1
    <2>3. /\ Pruned(t) \in Seq(0..MaxTime)
          /\ Len(Pruned(t)) = IF k + 1 <= Len(queue) THEN Len(queue) - (k + 1) + 1 ELSE 0
          /\ \A j \in 1..Len(queue) - (k + 1) + 1 : Pruned(t)[j] = queue[(k + 1) + j - 1]
        BY <1>2, <2>1, <2>2, SubSeqProperties
    <2>. QED  BY <2>2, <2>3
<1>. QED  BY <1>1, <1>3, <1>4, <1>5
-----------------------------------------------------------------------------
(* What a call finds after pruning: the accepted calls from First on are   *)
(* still there, and those before it have left the window of the call, seen *)
(* from the clock as well.                                                 *)

LEMMA PrunedOfAccepted ==
    ASSUME LInv, NEW c \in Calls, now[c] # NoTime
    PROVE  \E first \in 1..Len(accepted) + 1 :
              /\ Pruned(now[c]) \in Seq(0..MaxTime)
              /\ Len(Pruned(now[c])) <= Len(queue)
              /\ Len(Pruned(now[c])) = Len(accepted) + 1 - first
              /\ \A j \in DOMAIN Pruned(now[c]) : Pruned(now[c])[j] = accepted[first - 1 + j]
              /\ \A i \in 1..first - 1 : accepted[i] + Window < clock
              /\ \A i \in 1..first - 1 : accepted[i] + Window < now[c] + Slack
              /\ first <= Len(accepted) => accepted[first] + Window >= now[c]
<1> USE LimiterAssumption
<1>1. /\ queue \in Seq(0..MaxTime) /\ accepted \in Seq(0..MaxTime) /\ clock \in Nat /\ now[c] \in Nat
      /\ Len(queue) \in Nat /\ Len(accepted) \in Nat
      /\ \A i \in DOMAIN accepted : accepted[i] \in Nat
    BY DEF LInv, TypeOK
<1>2. now[c] <= clock /\ clock <= now[c] + Slack
    BY DEF LInv, NowIsRecent
<1>3. Gone \in Nat /\ Gone = Len(accepted) - Len(queue)
    BY <1>1 DEF LInv, QueueIsSuffix, Gone
<1>4. PICK k \in 0..Len(queue) :
              /\ Pruned(now[c]) \in Seq(0..MaxTime)
              /\ Len(Pruned(now[c])) = Len(queue) - k
              /\ \A j \in 1..Len(queue) - k : Pruned(now[c])[j] = queue[k + j]
              /\ \A i \in 1..k : queue[i] + Window < now[c]
              /\ k < Len(queue) => queue[k + 1] + Window >= now[c]
    BY <1>1, PrunedIsSuffix
<1>5. /\ \A j \in 1..Len(queue) : queue[j] = accepted[Gone + j]
      /\ \A i \in 1..Gone : accepted[i] + Window < clock
    BY <1>1 DEF LInv, QueueIsSuffix
<1>6. \A i \in Gone + 1..Gone + k : accepted[i] + Window < now[c]
    <2>1. ASSUME NEW i \in Gone + 1..Gone + k
          PROVE  accepted[i] + Window < now[c]
        <3>1. i - Gone \in 1..k /\ i - Gone \in 1..Len(queue) /\ Gone + (i - Gone) = i
            BY <1>1, <1>3
        <3>. QED  BY <1>4, <1>5, <3>1
    <2>. QED  BY <2>1
<1>7. \A i \in 1..Gone + k : accepted[i] + Window < clock /\ accepted[i] + Window < now[c] + Slack
    <2>1. ASSUME NEW i \in 1..Gone + k
          PROVE  accepted[i] + Window < clock /\ accepted[i] + Window < now[c] + Slack
        <3>1. accepted[i] \in Nat
            BY <1>1, <1>3
        <3>2. CASE i <= Gone
            <4>1. accepted[i] + Window < clock
                BY <1>3, <1>5, <3>2
            <4>. QED  BY <1>1, <1>2, <3>1, <4>1
        <3>3. CASE i > Gone
            <4>1. i \in Gone + 1..Gone + k
                BY <1>3, <3>3
            <4>2. accepted[i] + Window < now[c]
                BY <1>6, <4>1
            <4>. QED  BY <1>1, <1>2, <3>1, <4>2
        <3>. QED  BY <1>3, <3>2, <3>3
    <2>. QED  BY <2>1
<1> DEFINE first == Gone + k + 1
<1>8. first \in 1..Len(accepted) + 1 /\ first - 1 = Gone + k
    BY <1>1, <1>3
<1>9. Len(Pruned(now[c])) = Len(accepted) + 1 - first /\ Len(Pruned(now[c])) <= Len(queue)
    BY <1>1, <1>3, <1>4
<1>10. \A j \in DOMAIN Pruned(now[c]) : Pruned(now[c])[j] = accepted[first - 1 + j]
    <2>1. ASSUME NEW j \in DOMAIN Pruned(now[c])
          PROVE  Pruned(now[c])[j] = accepted[first - 1 + j]
        <3>1. j \in 1..Len(queue) - k
            BY <1>4
        <3>2. k + j \in 1..Len(queue) /\ Gone + (k + j) = first - 1 + j
            <4>1. j \in Nat /\ k \in Nat /\ 1 <= j /\ j <= Len(queue) - k
                BY <1>1, <3>1
            <4> HIDE DEF Gone
            <4>. QED  BY <1>1, <1>3, <4>1
        <3>3. Pruned(now[c])[j] = queue[k + j]
            BY <1>4, <3>1
        <3>4. queue[k + j] = accepted[Gone + (k + j)]
            BY <1>5, <3>2
        <3>. QED  BY <3>2, <3>3, <3>4
    <2>. QED  BY <2>1
<1>11. first <= Len(accepted) => accepted[first] + Window >= now[c]
    <2>1. ASSUME first <= Len(accepted)
          PROVE  accepted[first] + Window >= now[c]
        <3>1. k < Len(queue) /\ k + 1 \in 1..Len(queue) /\ Gone + (k + 1) = first
            BY <1>1, <1>3, <2>1
        <3>. QED  BY <1>4, <1>5, <3>1
    <2>. QED  BY <2>1
<1> HIDE DEF first
<1>. QED  BY <1>4, <1>7, <1>8, <1>9, <1>10, <1>11
-----------------------------------------------------------------------------
LEMMA InitLInv == Init => LInv
BY LimiterAssumption
   DEF Init, LInv, TypeOK, NowIsRecent, AlmostSorted, QueueIsSuffix, Gone

\* Time passing and clocks read leave both sequences alone.
LEMMA WaitLInv ==
    ASSUME LInv, UNCHANGED <<queue, accepted>>, clock' \in 0..MaxTime, clock <= clock',
           now' \in [Calls -> 0..MaxTime \cup {NoTime}], NowIsRecent'
    PROVE  LInv'
<1> USE LimiterAssumption
<1>1. /\ clock \in Nat /\ clock' \in Nat
      /\ \A i \in DOMAIN accepted : accepted[i] \in Nat
    BY DEF LInv, TypeOK
<1>2. Gone' = Gone /\ Gone \in Int /\ Gone <= Len(accepted)
    BY DEF Gone, LInv, TypeOK, QueueIsSuffix
<1>3. TypeOK'
    BY DEF LInv, TypeOK
<1>4. AlmostSorted'
    BY <1>1 DEF LInv, AlmostSorted
<1>5. QueueIsSuffix'
    <2>1. \A i \in 1..Gone : i \in DOMAIN accepted
        BY <1>2 DEF LInv, TypeOK
    <2>. QED  BY <1>1, <1>2, <2>1 DEF LInv, QueueIsSuffix
<1>. QED  BY <1>3, <1>4, <1>5 DEF LInv

\* A call under the lock: it prunes, and appends its timestamp or not.
LEMMA AcceptLInv ==
    ASSUME LInv, NEW c \in Calls, Accept(c)
    PROVE  LInv'
<1> USE LimiterAssumption
<1> DEFINE q == Pruned(now[c])
           L == Len(accepted)
<1>1. /\ now[c] # NoTime /\ Len(q) < Max
      /\ queue' = Append(q, now[c]) /\ accepted' = Append(accepted, now[c])
      /\ now' = [now EXCEPT ![c] = NoTime] /\ clock' = clock
    BY DEF Accept
<1>2. /\ accepted \in Seq(0..MaxTime) /\ L \in Nat /\ clock \in Nat
      /\ now \in [Calls -> 0..MaxTime \cup {NoTime}] /\ now[c] \in 0..MaxTime
      /\ \A i \in DOMAIN accepted : accepted[i] \in Nat
    BY <1>1 DEF LInv, TypeOK
<1>3. PICK first \in 1..L + 1 :
              /\ q \in Seq(0..MaxTime)
              /\ Len(q) = L + 1 - first
              /\ \A j \in DOMAIN q : q[j] = accepted[first - 1 + j]
              /\ \A i \in 1..first - 1 : accepted[i] + Window < clock
    BY <1>1, PrunedOfAccepted
<1> HIDE DEF q
<1>4. /\ DOMAIN accepted' = 1..L + 1 /\ Len(accepted') = L + 1
      /\ accepted'[L + 1] = now[c]
      /\ \A i \in 1..L : accepted'[i] = accepted[i]
    BY <1>1, <1>2
<1>5. /\ DOMAIN queue' = 1..Len(q) + 1 /\ Len(queue') = L + 2 - first
      /\ queue'[Len(q) + 1] = now[c]
      /\ \A j \in 1..Len(q) : queue'[j] = q[j]
    <2>1. Append(q, now[c]) \in Seq(0..MaxTime) /\ Len(Append(q, now[c])) = Len(q) + 1
        BY <1>2, <1>3, AppendProperties
    <2>. QED  BY <1>1, <1>2, <1>3, <2>1
<1>6. TypeOK'
    BY <1>1, <1>2, <1>3, <1>5 DEF LInv, TypeOK
<1>7. NowIsRecent'
    BY <1>1, <1>2 DEF LInv, NowIsRecent
<1>8. AlmostSorted'
    <2>1. now[c] <= clock /\ clock <= now[c] + Slack
        BY <1>1 DEF LInv, NowIsRecent
    <2>2. /\ DOMAIN accepted = 1..L
          /\ \A i \in 1..L : accepted[i] <= clock
          /\ \A i, j \in 1..L : i < j => accepted[i] <= accepted[j] + Slack
        <3>1. DOMAIN accepted = 1..L
            BY <1>2
        <3>. QED  BY <3>1 DEF LInv, AlmostSorted
    <2>3. ASSUME NEW i \in 1..L + 1
          PROVE  accepted'[i] <= clock
        <3>1. i \in 1..L \/ i = L + 1
            BY <1>2
        <3>. QED  BY <1>4, <2>1, <2>2, <3>1
    <2>4. ASSUME NEW i \in 1..L + 1, NEW j \in 1..L + 1, i < j
          PROVE  accepted'[i] <= accepted'[j] + Slack
        <3>1. CASE j \in 1..L
            <4>1. i \in 1..L
                BY <1>2, <2>4, <3>1
            <4>. QED  BY <1>4, <2>2, <2>4, <3>1, <4>1
        <3>2. CASE j = L + 1
            <4>1. i \in 1..L /\ accepted'[i] = accepted[i] /\ accepted[i] \in Nat
                BY <1>2, <1>4, <2>4, <3>2
            <4>. QED  BY <1>2, <1>4, <2>1, <2>2, <3>2, <4>1
        <3>3. j \in 1..L \/ j = L + 1
            BY <1>2
        <3>. QED  BY <3>1, <3>2, <3>3
    <2>. QED  BY <1>1, <1>4, <2>3, <2>4 DEF AlmostSorted
<1>9. QueueIsSuffix'
    <2>1. Gone' = first - 1 /\ Len(queue') <= Len(accepted')
        BY <1>2, <1>3, <1>4, <1>5 DEF Gone
    <2>2. ASSUME NEW j \in 1..Len(q) + 1
          PROVE  queue'[j] = accepted'[first - 1 + j]
        <3>1. CASE j = Len(q) + 1
            BY <1>2, <1>3, <1>4, <1>5, <3>1
        <3>2. CASE j \in 1..Len(q)
            <4>1. first - 1 + j \in 1..L
                BY <1>2, <1>3, <3>2
            <4>2. j \in DOMAIN q
                BY <1>3, <3>2
            <4>. QED  BY <1>3, <1>4, <1>5, <3>2, <4>1, <4>2
        <3>. QED  BY <1>2, <1>3, <3>1, <3>2
    <2>3. ASSUME NEW i \in 1..first - 1
          PROVE  accepted'[i] + Window < clock
        <3>1. i \in 1..L
            BY <1>2, <1>3
        <3>. QED  BY <1>3, <1>4, <3>1
    <2>. QED  BY <1>1, <1>5, <2>1, <2>2, <2>3 DEF QueueIsSuffix
<1>. QED  BY <1>6, <1>7, <1>8, <1>9 DEF LInv

LEMMA RefuseLInv ==
    ASSUME LInv, NEW c \in Calls, Refuse(c)
    PROVE  LInv'
<1> USE LimiterAssumption
<1> DEFINE q == Pruned(now[c])
<1>1. /\ now[c] # NoTime /\ queue' = q /\ accepted' = accepted
      /\ now' = [now EXCEPT ![c] = NoTime] /\ clock' = clock
    BY DEF Refuse
<1>2. /\ accepted \in Seq(0..MaxTime) /\ Len(accepted) \in Nat
      /\ queue \in Seq(0..MaxTime) /\ Len(queue) \in Nat /\ Len(queue) <= Max
      /\ now \in [Calls -> 0..MaxTime \cup {NoTime}]
    BY DEF LInv, TypeOK
<1>3. PICK first \in 1..Len(accepted) + 1 :
              /\ q \in Seq(0..MaxTime) /\ Len(q) <= Len(queue)
              /\ Len(q) = Len(accepted) + 1 - first
              /\ \A j \in DOMAIN q : q[j] = accepted[first - 1 + j]
              /\ \A i \in 1..first - 1 : accepted[i] + Window < clock
    BY <1>1, PrunedOfAccepted
<1> HIDE DEF q
<1>4. TypeOK'
    BY <1>1, <1>2, <1>3 DEF LInv, TypeOK
<1>5. NowIsRecent' /\ AlmostSorted'
    BY <1>1, <1>2 DEF LInv, NowIsRecent, AlmostSorted
<1>6. QueueIsSuffix'
    <2>1. Gone' = first - 1
        BY <1>1, <1>2, <1>3 DEF Gone
    <2>. QED  BY <1>1, <1>2, <1>3, <2>1 DEF QueueIsSuffix
<1>. QED  BY <1>4, <1>5, <1>6 DEF LInv

LEMMA NextLInv == LInv /\ [Next]_vars => LInv'
<1> SUFFICES ASSUME LInv, [Next]_vars
             PROVE  LInv'
    OBVIOUS
<1> USE LimiterAssumption
<1>1. CASE Tick
    <2>1. NowIsRecent'
        BY <1>1 DEF Tick, LInv, NowIsRecent, TypeOK
    <2>. QED  BY <1>1, <2>1, WaitLInv DEF Tick, LInv, TypeOK
<1>2. ASSUME NEW c \in Calls, ReadClock(c)
      PROVE  LInv'
    <2>1. NowIsRecent'
        BY <1>2 DEF ReadClock, LInv, NowIsRecent, TypeOK
    <2>. QED  BY <1>2, <2>1, WaitLInv DEF ReadClock, LInv, TypeOK
<1>3. CASE UNCHANGED vars
    <2>1. NowIsRecent'
        BY <1>3 DEF vars, LInv, NowIsRecent
    <2>. QED  BY <1>3, <2>1, WaitLInv DEF vars, LInv, TypeOK
<1>. QED  BY <1>1, <1>2, <1>3, AcceptLInv, RefuseLInv DEF Next

LEMMA LInvAlways == Spec => []LInv
BY InitLInv, NextLInv, PTL DEF Spec

-----------------------------------------------------------------------------
\* The limiter's variables keep their types; a queue never holds more than Max
\* timestamps.
THEOREM LimiterTypes == Spec => []TypeOK
BY LInvAlways, PTL DEF LInv

\* A timestamp that can still count against a call is in the queue as often as
\* it was accepted, whatever order the calls took the lock in.
THEOREM QueueAlwaysCovers == Spec => []QueueCoversWindow
<1>1. ASSUME LInv
      PROVE  QueueCoversWindow
    <2> USE LimiterAssumption
    <2>1. /\ queue \in Seq(0..MaxTime) /\ accepted \in Seq(0..MaxTime) /\ clock \in Nat
          /\ Len(queue) \in Nat /\ Len(accepted) \in Nat
          /\ \A i \in DOMAIN accepted : accepted[i] \in Nat
        BY <1>1 DEF LInv, TypeOK
    <2>2. /\ Gone \in Nat /\ Gone + Len(queue) = Len(accepted)
          /\ \A j \in 1..Len(queue) : queue[j] = accepted[Gone + j]
          /\ \A i \in 1..Gone : accepted[i] + Window < clock
        BY <1>1, <2>1 DEF LInv, QueueIsSuffix, Gone
    <2> SUFFICES ASSUME NEW i \in DOMAIN accepted, accepted[i] + Window >= clock
                 PROVE  Cardinality({j \in DOMAIN queue : queue[j] = accepted[i]})
                            = Cardinality({j \in DOMAIN accepted : accepted[j] = accepted[i]})
        BY DEF QueueCoversWindow
    <2> DEFINE Q == {j \in DOMAIN queue : queue[j] = accepted[i]}
               A == {j \in DOMAIN accepted : accepted[j] = accepted[i]}
               f == [j \in Q |-> Gone + j]
    <2>3. f \in [Q -> A]
        <3>1. ASSUME NEW j \in Q
              PROVE  Gone + j \in A
            <4>1. j \in 1..Len(queue) /\ queue[j] = accepted[i]
                BY <2>1
            <4>2. Gone + j \in 1..Len(accepted)
                <5>1. j \in Nat /\ 1 <= j /\ j <= Len(queue)
                    BY <2>1, <4>1
                <5>2. Gone \in Nat /\ Gone + Len(queue) = Len(accepted)
                    BY <2>2
                <5>. QED  BY <2>1, <5>1, <5>2
            <4>3. accepted[Gone + j] = accepted[i]
                BY <2>2, <4>1
            <4>. QED  BY <2>1, <4>2, <4>3
        <3>. QED  BY <3>1
    <2>4. \A j, k \in Q : f[j] = f[k] => j = k
        BY <2>1, <2>2
    <2>5. ASSUME NEW a \in A
          PROVE  \E j \in Q : f[j] = a
        <3>1. a \in 1..Len(accepted) /\ accepted[a] = accepted[i]
            BY <2>1
        <3>2. a > Gone
            BY <2>1, <2>2, <3>1
        <3>3. a - Gone \in 1..Len(queue) /\ Gone + (a - Gone) = a
            BY <2>1, <2>2, <3>1, <3>2
        <3>4. a - Gone \in Q
            <4>1. queue[a - Gone] = accepted[a]
                BY <2>2, <3>3
            <4>. QED  BY <2>1, <3>1, <3>3, <4>1
        <3>. QED  BY <3>3, <3>4
    <2>6. IsFiniteSet(Q)
        <3>1. Q \subseteq 1..Len(queue)
            BY <2>1
        <3> HIDE DEF Q
        <3>2. 1 \in Int /\ Len(queue) \in Int
            BY <2>1
        <3>3. IsFiniteSet(1..Len(queue))
            BY <3>2, FS_Interval
        <3>. QED  BY <3>1, <3>3, FS_Subset
    <2> HIDE DEF Q, A, f
    <2>7. ExistsBijection(Q, A)
        BY <2>3, <2>4, <2>5 DEF ExistsBijection, Bijection, Injection, Surjection, IsInjective
    <2>. QED  BY <2>6, <2>7, FS_Bijection DEF Q, A
<1>. QED  BY <1>1, LInvAlways, PTL

LEMMA AcceptedSuffix ==
    ASSUME NEW n \in Nat, NEW first \in 1..n + 1
    PROVE  IsFiniteSet(first..n) /\ Cardinality(first..n) = n + 1 - first
<1>1. first \in Int /\ n \in Int /\ first <= n + 1
    OBVIOUS
<1>2. IsFiniteSet(first..n) /\ Cardinality(first..n) = IF first > n THEN 0 ELSE n - first + 1
    BY <1>1, FS_Interval
<1>. QED  BY <1>1, <1>2

\* Every accepted call finds fewer than Max accepted within its window but for
\* Slack: those are all still in its pruned queue.
THEOREM WindowAlwaysBounds == Spec => WindowBound
<1>1. ASSUME LInv, NEW c \in Calls, Accept(c)
      PROVE  Cardinality(Within(Window - Slack, now[c])) < Max
    <2> USE LimiterAssumption
    <2> DEFINE W == Within(Window - Slack, now[c])
    <2>1. now[c] # NoTime /\ Len(Pruned(now[c])) < Max
        BY <1>1 DEF Accept
    <2>2. /\ now[c] \in Nat /\ Len(accepted) \in Nat /\ DOMAIN accepted = 1..Len(accepted)
          /\ \A i \in DOMAIN accepted : accepted[i] \in Nat
        BY <1>1, <2>1 DEF LInv, TypeOK
    <2>3. PICK first \in 1..Len(accepted) + 1 :
              /\ Len(Pruned(now[c])) = Len(accepted) + 1 - first
              /\ \A i \in 1..first - 1 : accepted[i] + Window < now[c] + Slack
        BY <1>1, <2>1, PrunedOfAccepted
    <2>4. W \subseteq first..Len(accepted)
        <3>1. ASSUME NEW i \in W
              PROVE  i \in first..Len(accepted)
            <4>1. i \in 1..Len(accepted) /\ accepted[i] + (Window - Slack) >= now[c]
                BY <2>2 DEF Within
            <4>2. ~(i \in 1..first - 1)
                BY <2>2, <2>3, <4>1
            <4>. QED  BY <2>2, <4>1, <4>2
        <3>. QED  BY <3>1
    <2>5. /\ IsFiniteSet(first..Len(accepted))
          /\ Cardinality(first..Len(accepted)) = Len(accepted) + 1 - first
        BY <2>2, AcceptedSuffix
    <2> HIDE DEF W
    <2>6. IsFiniteSet(W) /\ Cardinality(W) <= Len(accepted) + 1 - first
        BY <2>4, <2>5, FS_Subset
    <2>7. Cardinality(W) \in Nat
        BY <2>6, FS_CardinalityType
    <2>. QED  BY <2>1, <2>2, <2>3, <2>6, <2>7 DEF W
<1>2. LInv => [\A c \in Calls : Accept(c) => Cardinality(Within(Window - Slack, now[c])) < Max]_vars
    BY <1>1
<1>. QED  BY <1>2, LInvAlways, PTL DEF WindowBound

\* Every refused call has Max accepted ones in the window before it, but for
\* Slack: nothing expired keeps the queue full.
THEOREM RefusalsJustified == Spec => RefusalJustified
<1>1. ASSUME LInv, NEW c \in Calls, Refuse(c)
      PROVE  Cardinality(Within(Window + Slack, now[c])) >= Max
    <2> USE LimiterAssumption
    <2> DEFINE W == Within(Window + Slack, now[c])
    <2>1. now[c] # NoTime /\ Len(Pruned(now[c])) >= Max
        BY <1>1 DEF Refuse
    <2>2. /\ now[c] \in Nat /\ Len(accepted) \in Nat /\ DOMAIN accepted = 1..Len(accepted)
          /\ \A i \in DOMAIN accepted : accepted[i] \in Nat
        BY <1>1, <2>1 DEF LInv, TypeOK
    <2>3. PICK first \in 1..Len(accepted) + 1 :
              /\ Len(Pruned(now[c])) = Len(accepted) + 1 - first
              /\ first <= Len(accepted) => accepted[first] + Window >= now[c]
        BY <1>1, <2>1, PrunedOfAccepted
    <2>4. first..Len(accepted) \subseteq W
        <3>1. ASSUME NEW i \in first..Len(accepted)
              PROVE  i \in W
            <4>1. first \in 1..Len(accepted) /\ i \in 1..Len(accepted)
                BY <2>2
            <4>2. accepted[first] + Window >= now[c]
                BY <2>3, <4>1
            <4>3. accepted[first] <= accepted[i] + Slack
                BY <1>1, <2>2, <4>1 DEF LInv, AlmostSorted
            <4>4. accepted[i] + (Window + Slack) >= now[c]
                BY <2>2, <4>1, <4>2, <4>3
            <4>. QED  BY <2>2, <4>1, <4>4 DEF Within
        <3>. QED  BY <3>1
    <2>5. Cardinality(first..Len(accepted)) = Len(accepted) + 1 - first
        BY <2>2, AcceptedSuffix
    <2>6. IsFiniteSet(W)
        <3>1. W \subseteq 1..Len(accepted)
            BY <2>2 DEF Within
        <3> HIDE DEF W
        <3>2. 1 \in Int /\ Len(accepted) \in Int
            BY <2>2
        <3>3. IsFiniteSet(1..Len(accepted))
            BY <3>2, FS_Interval
        <3>. QED  BY <3>1, <3>3, FS_Subset
    <2> HIDE DEF W
    <2>7. Len(accepted) + 1 - first <= Cardinality(W) /\ Cardinality(W) \in Nat
        BY <2>4, <2>5, <2>6, FS_Subset, FS_CardinalityType
    <2>. QED  BY <2>1, <2>2, <2>3, <2>7 DEF W
<1>2. LInv => [\A c \in Calls : Refuse(c) => Cardinality(Within(Window + Slack, now[c])) >= Max]_vars
    BY <1>1
<1>. QED  BY <1>2, LInvAlways, PTL DEF RefusalJustified
=============================================================================
