----------------------- MODULE DomainLifecycleProofs -----------------------
(***************************************************************************)
(* Theorems about IndexingQueue and about DomainLifecycle, which extends   *)
(* it, for every set of domains, callers and pages, and every number of    *)
(* attempts, upserts and crashes.  First the queue by itself: its types,   *)
(* that in_flight and the holders of a domain agree, that a domain has one *)
(* holder, and that the queue implements CrawlSlots.  Then the lifecycle,  *)
(* whose steps are steps of the queue or a restart of it, so that its      *)
(* inductive invariant builds on the queue's.                              *)
(***************************************************************************)
EXTENDS DomainLifecycle, FiniteSetTheorems, TLAPS

(***************************************************************************)
(* The inductive invariant.  Neither InFlightIsHeld nor OneHolder is       *)
(* inductive alone: a claim is unique because in_flight refuses a domain   *)
(* that is held, and removing a domain from in_flight is right because     *)
(* nobody else holds it.                                                   *)
(***************************************************************************)
IInv == QTypeOK /\ InFlightIsHeld /\ OneHolder

-----------------------------------------------------------------------------
(* A channel gains its domain at the end and loses it at the front.        *)

LEMMA AppendPositions ==
    ASSUME NEW S, NEW s \in Seq(S), NEW x \in S
    PROVE  /\ DOMAIN Append(s, x) = DOMAIN s \cup {Len(s) + 1}
           /\ Len(s) + 1 \notin DOMAIN s
           /\ \A i \in DOMAIN s : Append(s, x)[i] = s[i]
           /\ Append(s, x)[Len(s) + 1] = x
OBVIOUS

LEMMA TailPositions ==
    ASSUME NEW S, NEW s \in Seq(S), s # <<>>
    PROVE  /\ 1 \in DOMAIN s
           /\ Head(s) = s[1]
           /\ Head(s) \in S
           /\ Tail(s) \in Seq(S)
           /\ \A i \in DOMAIN Tail(s) : i + 1 \in DOMAIN s /\ i + 1 # 1 /\ Tail(s)[i] = s[i + 1]
           /\ \A i \in DOMAIN s : i # 1 => i - 1 \in DOMAIN Tail(s) /\ Tail(s)[i - 1] = s[i]
OBVIOUS

-----------------------------------------------------------------------------
LEMMA QTyping == QTypeOK /\ [QNext]_qvars => QTypeOK'
<1> USE NoDomainAssumption DEF QTypeOK, CallerSteps, WorkerSteps, Goto, Return
<1> SUFFICES ASSUME QTypeOK, [QNext]_qvars
             PROVE  QTypeOK'
    OBVIOUS
<1>1. ASSUME NEW c \in Callers, NEW d \in Domains, Call(c, d)
      PROVE  QTypeOK'
    BY <1>1 DEF Call
<1>2. ASSUME NEW c \in Callers, CallerStep(c)
      PROVE  QTypeOK'
    <2>1. CASE Coalesce(c)
        BY <2>1 DEF Coalesce
    <2>2. CASE Claim(c)
        BY <2>2 DEF Claim
    <2>3. CASE ReuseWorker(c)
        BY <2>3 DEF ReuseWorker
    <2>4. CASE SpawnWorker(c)
        BY <2>4 DEF SpawnWorker
    <2>5. CASE CallerPanics(c)
        BY <2>5 DEF CallerPanics
    <2>6. CASE Send(c)
        BY <2>6 DEF Send
    <2>7. CASE SendFails(c)
        BY <2>7 DEF SendFails
    <2>8. CASE Cleanup(c)
        BY <2>8 DEF Cleanup
    <2>. QED  BY <1>2, <2>1, <2>2, <2>3, <2>4, <2>5, <2>6, <2>7, <2>8 DEF CallerStep
<1>3. CASE WorkerStarts
    BY <1>3 DEF WorkerStarts
<1>4. CASE Recv
    BY <1>4, TailPositions DEF Recv
<1>5. CASE Finish
    BY <1>5 DEF Finish
<1>6. CASE WorkerPanics
    <2>1. Waiting \subseteq Domains
        BY DEF Waiting
    <2>. QED  BY <1>6, <2>1 DEF WorkerPanics
<1>7. CASE UNCHANGED qvars
    BY <1>7 DEF qvars
<1>. QED  BY <1>1, <1>2, <1>3, <1>4, <1>5, <1>6, <1>7 DEF QNext, WorkerStep

-----------------------------------------------------------------------------
(* One lemma per group of actions: who holds a domain after the step.      *)

LEMMA HoldersInit == QInit => IInv
<1> SUFFICES ASSUME QInit
             PROVE  IInv
    OBVIOUS
<1>1. QTypeOK
    BY NoDomainAssumption DEF QInit, QTypeOK, CallerSteps, WorkerSteps
<1>2. \A d \in Domains : ~Claimed(d) /\ ~Queued(d) /\ job # d /\ d \notin lost
    BY NoDomainAssumption DEF QInit, Claimed, Claims, Queued
<1>. QED  BY <1>1, <1>2 DEF IInv, InFlightIsHeld, OneHolder, QInit, Claimed, Queued

LEMMA HoldersNext == IInv /\ [QNext]_qvars => IInv'
<1> SUFFICES ASSUME IInv, [QNext]_qvars
             PROVE  InFlightIsHeld' /\ OneHolder'
    BY QTyping DEF IInv
<1>0. QTypeOK /\ InFlightIsHeld /\ OneHolder
    BY DEF IInv
<1> USE NoDomainAssumption, <1>0 DEF QTypeOK, Goto, Return
\* The steps that leave every claim, the channel, the job and lost alone.
<1>1. ASSUME UNCHANGED <<inFlight, chan, job, lost>>,
             \A c \in Callers, d \in Domains : Claims(c, d)' <=> Claims(c, d)
      PROVE  InFlightIsHeld' /\ OneHolder'
    BY <1>1 DEF InFlightIsHeld, OneHolder, Claimed, Queued
<1>2. ASSUME NEW c \in Callers, NEW d \in Domains, Call(c, d)
      PROVE  InFlightIsHeld' /\ OneHolder'
    <2>1. \A e \in Callers, x \in Domains : Claims(e, x)' <=> Claims(e, x)
        BY <1>2 DEF Call, Claims
    <2>. QED  BY <1>1, <1>2, <2>1 DEF Call
<1>3. ASSUME NEW c \in Callers, CallerStep(c)
      PROVE  InFlightIsHeld' /\ OneHolder'
    <2>0. arg[c] \in Domains
        BY <1>3 DEF CallerStep, Coalesce, Claim, ReuseWorker, SpawnWorker, CallerPanics, Send,
                    SendFails, Cleanup
    <2>1. CASE Coalesce(c) \/ ReuseWorker(c) \/ SpawnWorker(c) \/ SendFails(c)
        <3>1. \A e \in Callers, x \in Domains : Claims(e, x)' <=> Claims(e, x)
            BY <2>1 DEF Coalesce, ReuseWorker, SpawnWorker, SendFails, Claims
        <3>. QED  BY <1>1, <2>1, <3>1 DEF Coalesce, ReuseWorker, SpawnWorker, SendFails
    <2>2. CASE Claim(c)
        <3>1. \A e \in Callers, x \in Domains :
                  Claims(e, x)' <=> Claims(e, x) \/ (e = c /\ x = arg[c])
            BY <2>2 DEF Claim, Claims
        <3>2. ~Claimed(arg[c]) /\ ~Queued(arg[c]) /\ job # arg[c] /\ arg[c] \notin lost
            BY <2>0, <2>2 DEF Claim, InFlightIsHeld
        <3>3. \A e \in Callers : ~Claims(e, arg[c])
            BY <3>2 DEF Claimed
        <3>. QED
            BY <2>0, <2>2, <3>1, <3>2, <3>3 DEF Claim, InFlightIsHeld, OneHolder, Claimed, Queued
    <2>3. CASE CallerPanics(c)
        <3>1. \A e \in Callers, x \in Domains : Claims(e, x)' <=> Claims(e, x) /\ e # c
            BY <2>3 DEF CallerPanics, Claims
        <3>2. Claims(c, arg[c]) /\ \A x \in Domains : Claims(c, x) => x = arg[c]
            BY <2>3 DEF CallerPanics, Claims
        <3>. QED
            BY <2>0, <2>3, <3>1, <3>2
               DEF CallerPanics, InFlightIsHeld, OneHolder, Claimed, Queued
    <2>4. CASE Send(c)
        <3>1. \A e \in Callers, x \in Domains : Claims(e, x)' <=> Claims(e, x) /\ e # c
            BY <2>4 DEF Send, Claims
        <3>2. Claims(c, arg[c]) /\ \A x \in Domains : Claims(c, x) => x = arg[c]
            BY <2>4 DEF Send, Claims
        <3>3. \A x \in Domains : Queued(x)' <=> Queued(x) \/ x = arg[c]
            BY <2>0, <2>4, AppendPositions DEF Send, Queued
        <3>4. InFlightIsHeld'
            BY <2>0, <2>4, <3>1, <3>2, <3>3 DEF Send, InFlightIsHeld, OneHolder, Claimed
        <3>5. ~Queued(arg[c]) /\ job # arg[c] /\ arg[c] \notin lost
            BY <2>0, <3>2 DEF OneHolder, Claimed
        <3>6. ASSUME NEW x \in Domains, NEW i \in DOMAIN chan', NEW j \in DOMAIN chan',
                     chan'[i] = x, chan'[j] = x
              PROVE  i = j
            BY <2>0, <2>4, <3>5, <3>6, AppendPositions DEF Send, OneHolder, Queued
        <3>7. \A x \in Domains : Claimed(x)' => Claimed(x) /\ x # arg[c]
            BY <2>0, <3>1, <3>2 DEF Claimed, OneHolder
        <3>. QED
            BY <2>4, <3>1, <3>3, <3>4, <3>5, <3>6, <3>7 DEF Send, OneHolder
    <2>5. CASE Cleanup(c)
        <3>1. \A e \in Callers, x \in Domains : Claims(e, x)' <=> Claims(e, x) /\ e # c
            BY <2>5 DEF Cleanup, Claims
        <3>2. Claims(c, arg[c]) /\ \A x \in Domains : Claims(c, x) => x = arg[c]
            BY <2>5 DEF Cleanup, Claims
        <3>. QED
            BY <2>0, <2>5, <3>1, <3>2 DEF Cleanup, InFlightIsHeld, OneHolder, Claimed, Queued
    <2>. QED  BY <1>3, <2>1, <2>2, <2>3, <2>4, <2>5 DEF CallerStep
<1>4. CASE WorkerStarts
    <2>1. \A e \in Callers, x \in Domains : Claims(e, x)' <=> Claims(e, x)
        BY <1>4 DEF WorkerStarts, Claims
    <2>. QED  BY <1>1, <1>4, <2>1 DEF WorkerStarts
<1>5. CASE Recv
    <2>1. \A e \in Callers, x \in Domains : Claims(e, x)' <=> Claims(e, x)
        BY <1>5 DEF Recv, Claims
    <2>2. job = NoDomain /\ job' = chan[1] /\ chan' = Tail(chan) /\ 1 \in DOMAIN chan
        BY <1>5, TailPositions DEF Recv
    <2>3. \A x \in Domains : Queued(x) <=> Queued(x)' \/ job' = x
        <3>1. /\ \A i \in DOMAIN chan' : i + 1 \in DOMAIN chan /\ chan'[i] = chan[i + 1]
              /\ \A i \in DOMAIN chan : i # 1 => i - 1 \in DOMAIN chan' /\ chan'[i - 1] = chan[i]
            BY <1>5, <2>2, TailPositions DEF Recv
        <3>2. ASSUME NEW x \in Domains, Queued(x)
              PROVE  Queued(x)' \/ job' = x
            BY <2>2, <3>1, <3>2 DEF Queued
        <3>3. ASSUME NEW x \in Domains, Queued(x)' \/ job' = x
              PROVE  Queued(x)
            BY <2>2, <3>1, <3>3 DEF Queued
        <3>. QED  BY <3>2, <3>3
    <2>4. \A x \in Domains : Queued(x)' => job' # x
        BY <1>5, <2>2, TailPositions DEF Recv, Queued, OneHolder
    <2>5. ASSUME NEW x \in Domains, NEW i \in DOMAIN chan', NEW j \in DOMAIN chan',
                 chan'[i] = x, chan'[j] = x
          PROVE  i = j
        <3>1. i + 1 \in DOMAIN chan /\ j + 1 \in DOMAIN chan /\ chan[i + 1] = x /\ chan[j + 1] = x
            BY <1>5, <2>2, <2>5, TailPositions DEF Recv
        <3>2. i + 1 = j + 1
            BY <3>1 DEF OneHolder
        <3>3. i \in Nat /\ j \in Nat
            BY <1>5, <2>2, TailPositions DEF Recv
        <3>. QED  BY <3>2, <3>3
    <2>. QED
        BY <1>5, <2>1, <2>2, <2>3, <2>4, <2>5 DEF Recv, InFlightIsHeld, OneHolder, Claimed
<1>6. CASE Finish
    <2>1. \A e \in Callers, x \in Domains : Claims(e, x)' <=> Claims(e, x)
        BY <1>6 DEF Finish, Claims
    <2>2. job \in Domains
        BY <1>6 DEF Finish
    <2>. QED
        BY <1>6, <2>1, <2>2 DEF Finish, InFlightIsHeld, OneHolder, Claimed, Queued
<1>7. CASE WorkerPanics
    <2>1. \A e \in Callers, x \in Domains : Claims(e, x)' <=> Claims(e, x)
        BY <1>7 DEF WorkerPanics, Claims
    <2>2. \A x \in Domains : ~Queued(x)' /\ job' # x
        BY <1>7 DEF WorkerPanics, Queued
    <2>3. \A x \in Domains : x \in lost' <=> x \in lost \/ Queued(x) \/ job = x
        BY <1>7 DEF WorkerPanics, Waiting, Queued
    <2>4. \A x \in Domains : Claimed(x)' <=> Claimed(x)
        BY <2>1 DEF Claimed
    <2>5. InFlightIsHeld'
        BY <1>7, <2>2, <2>3, <2>4 DEF WorkerPanics, InFlightIsHeld
    <2>6. chan' = <<>>
        BY <1>7 DEF WorkerPanics
    <2>. QED
        BY <2>1, <2>2, <2>3, <2>4, <2>5, <2>6 DEF OneHolder
<1>8. CASE UNCHANGED qvars
    <2>1. \A e \in Callers, x \in Domains : Claims(e, x)' <=> Claims(e, x)
        BY <1>8 DEF qvars, Claims
    <2>. QED  BY <1>1, <1>8, <2>1 DEF qvars
<1>. QED  BY <1>2, <1>3, <1>4, <1>5, <1>6, <1>7, <1>8 DEF QNext, WorkerStep

-----------------------------------------------------------------------------
LEMMA HoldersAlways == QSpec => []IInv
BY HoldersInit, HoldersNext, PTL DEF QSpec

\* The variables of the queue keep their types: a poisoned or missing sender,
\* a dead worker and a caller's argument never get out of step.
THEOREM QueueTypes == QSpec => []QTypeOK
BY HoldersAlways, PTL DEF IInv

\* in_flight is exactly the set of domains somebody answers for.
THEOREM InFlightHeldAlways == QSpec => []InFlightIsHeld
BY HoldersAlways, PTL DEF IInv

\* No domain is claimed, queued or crawled twice at a time, whatever the
\* number of concurrent submitters.
THEOREM OneHolderAlways == QSpec => []OneHolder
BY HoldersAlways, PTL DEF IInv

-----------------------------------------------------------------------------
(* What is stuck in in_flight is what a panic has dropped, and nothing     *)
(* else.                                                                   *)

LEMMA StuckIsLost == (IInv => Stuck = lost) /\ (IInv' => Stuck' = lost')
BY DEF IInv, QTypeOK, InFlightIsHeld, OneHolder, Stuck

\* No step but a panic leaves a domain in in_flight that nobody answers for:
\* neither a refused submission nor a failed send nor a crawl that ends.
THEOREM StuckOnlyByPanics == QSpec => StuckOnlyByPanic
<1>1. ASSUME IInv, IInv', [QNext]_qvars
      PROVE  [ \/ Stuck' \subseteq Stuck
               \/ worker # "dead" /\ worker' = "dead"
               \/ sender' = "poisoned" ]_qvars
    <2>1. Stuck = lost /\ Stuck' = lost'
        BY <1>1, StuckIsLost
    <2>2. CASE WorkerPanics
        BY <2>2 DEF WorkerPanics
    <2>3. ASSUME NEW c \in Callers, CallerPanics(c)
          PROVE  sender' = "poisoned"
        BY <2>3 DEF CallerPanics
    <2>4. CASE lost' = lost
        BY <2>1, <2>4
    <2>. QED
        BY <1>1, <2>1, <2>2, <2>3, <2>4
           DEF QNext, WorkerStep, CallerStep, Call, Coalesce, Claim, ReuseWorker, SpawnWorker,
               Send, SendFails, Cleanup, WorkerStarts, Recv, Finish, qvars
<1>. QED  BY <1>1, HoldersAlways, PTL DEF QSpec, StuckOnlyByPanic

-----------------------------------------------------------------------------
(* The refinement.  The exclusions of OneHolder make the nested conditions  *)
(* of SlotOf irrelevant: each one alone tells the slot's value.             *)

LEMMA SlotValues ==
    ASSUME IInv, NEW d \in Domains
    PROVE  /\ d \in lost => SlotOf(d) = "lost"
           /\ job = d => SlotOf(d) = "crawling"
           /\ Queued(d) => SlotOf(d) = "queued"
           /\ Claimed(d) => SlotOf(d) = "claimed"
           /\ d \notin inFlight => SlotOf(d) = "free"
           /\ d \in inFlight => SlotOf(d) # "free"
           /\ SlotOf(d) = "crawling" => job = d
BY DEF IInv, OneHolder, InFlightIsHeld, SlotOf

LEMMA SlotInit == QInit => Slots!Init
<1> SUFFICES ASSUME QInit
             PROVE  Slots!Init
    OBVIOUS
<1>1. \A d \in Domains : SlotOf(d) = "free"
    BY HoldersInit, SlotValues DEF QInit
<1>. QED  BY <1>1 DEF slotView, Slots!Init

\* A step that changes one domain's slot is that slot's move.
LEMMA OneSlotMoves ==
    ASSUME NEW d \in Domains, NEW from, NEW to,
           SlotOf(d) = from, SlotOf(d)' = to,
           \A x \in Domains : x # d => SlotOf(x)' = SlotOf(x)
    PROVE  Slots!Move(d, from, to)
<1>1. slotView[d] = from
    BY DEF slotView
<1>2. slotView' = [slotView EXCEPT ![d] = to]
    BY DEF slotView
<1>. QED  BY <1>1, <1>2 DEF Slots!Move

LEMMA SlotsStutter ==
    ASSUME \A x \in Domains : SlotOf(x)' = SlotOf(x)
    PROVE  UNCHANGED slotView
BY DEF slotView

LEMMA SlotNext == IInv /\ IInv' /\ [QNext]_qvars => [Slots!Next]_slotView
<1> SUFFICES ASSUME IInv, IInv', [QNext]_qvars
             PROVE  [Slots!Next]_slotView
    OBVIOUS
<1>0. QTypeOK /\ InFlightIsHeld /\ OneHolder
    BY DEF IInv
<1> USE NoDomainAssumption, <1>0 DEF QTypeOK, Goto, Return
<1>v. ASSUME NEW d \in Domains
      PROVE  /\ (d \in lost)' => SlotOf(d)' = "lost"
             /\ (job = d)' => SlotOf(d)' = "crawling"
             /\ Queued(d)' => SlotOf(d)' = "queued"
             /\ Claimed(d)' => SlotOf(d)' = "claimed"
             /\ (d \notin inFlight)' => SlotOf(d)' = "free"
    BY DEF IInv, OneHolder, InFlightIsHeld, SlotOf
\* Steps inside enqueue that no slot shows.
<1>1. ASSUME UNCHANGED <<inFlight, chan, job, lost>>,
             \A e \in Callers, x \in Domains : Claims(e, x)' <=> Claims(e, x)
      PROVE  [Slots!Next]_slotView
    <2>1. \A x \in Domains : SlotOf(x)' = SlotOf(x)
        BY <1>1 DEF SlotOf, Claimed, Queued
    <2>. QED  BY <2>1, SlotsStutter
<1>2. ASSUME NEW c \in Callers, NEW d \in Domains, Call(c, d)
      PROVE  [Slots!Next]_slotView
    <2>1. \A e \in Callers, x \in Domains : Claims(e, x)' <=> Claims(e, x)
        BY <1>2 DEF Call, Claims
    <2>. QED  BY <1>1, <1>2, <2>1 DEF Call
<1>3. ASSUME NEW c \in Callers, CallerStep(c)
      PROVE  [Slots!Next]_slotView
    <2>00. arg[c] \in Domains
        BY <1>3 DEF CallerStep, Coalesce, Claim, ReuseWorker, SpawnWorker, CallerPanics, Send,
                    SendFails, Cleanup
    <2>0. PICK d \in Domains : d = arg[c]
        BY <2>00
    <2>1. CASE Coalesce(c) \/ ReuseWorker(c) \/ SpawnWorker(c) \/ SendFails(c)
        <3>1. \A e \in Callers, x \in Domains : Claims(e, x)' <=> Claims(e, x)
            BY <2>1 DEF Coalesce, ReuseWorker, SpawnWorker, SendFails, Claims
        <3>. QED  BY <1>1, <2>1, <3>1 DEF Coalesce, ReuseWorker, SpawnWorker, SendFails
    <2>2. CASE Claim(c)
        <3>1. SlotOf(d) = "free"
            BY <2>0, <2>2, SlotValues DEF Claim
        <3>2. SlotOf(d)' = "claimed"
            <4>1. Claims(c, d)'
                BY <2>0, <2>2 DEF Claim, Claims
            <4>. QED  BY <2>0, <4>1, <1>v DEF Claimed
        <3>3. \A x \in Domains : x # d => SlotOf(x)' = SlotOf(x)
            <4>1. \A e \in Callers, x \in Domains : x # d => (Claims(e, x)' <=> Claims(e, x))
                BY <2>0, <2>2 DEF Claim, Claims
            <4>. QED  BY <2>0, <2>2, <4>1 DEF Claim, SlotOf, Claimed, Queued
        <3>4. Slots!Claim(d)
            BY <2>0, <3>1, <3>2, <3>3, OneSlotMoves DEF Slots!Claim
        <3>. QED  BY <2>0, <3>4 DEF Slots!Next
    <2>h. CASE CallerPanics(c) \/ Send(c) \/ Cleanup(c)
        <3>1. SlotOf(d) = "claimed"
            <4>1. Claims(c, d)
                BY <2>0, <2>h DEF CallerPanics, Send, Cleanup, Claims
            <4>. QED  BY <2>0, <4>1, SlotValues DEF Claimed
        <3>2. \A e \in Callers, x \in Domains : x # d => (Claims(e, x)' <=> Claims(e, x))
            BY <2>0, <2>h DEF CallerPanics, Send, Cleanup, Claims
        <3>3. \A x \in Domains : x # d => (Claimed(x)' <=> Claimed(x))
            BY <3>2 DEF Claimed
        <3>4. CASE CallerPanics(c)
            <4>1. SlotOf(d)' = "lost"
                BY <2>0, <3>4, <1>v DEF CallerPanics
            <4>2. \A x \in Domains : x # d => SlotOf(x)' = SlotOf(x)
                BY <2>0, <3>3, <3>4 DEF CallerPanics, SlotOf, Queued
            <4>3. slotView' = [x \in Domains |-> IF x \in {d} THEN "lost" ELSE slotView[x]]
                BY <4>1, <4>2 DEF slotView
            <4>4. \A x \in {d} : slotView[x] # "free"
                BY <2>0, <3>1 DEF slotView
            <4>5. Slots!Lose({d})
                BY <4>3, <4>4 DEF Slots!Lose
            <4>. QED  BY <2>0, <4>5 DEF Slots!Next
        <3>5. CASE Send(c)
            <4>1. \A x \in Domains : Queued(x)' <=> Queued(x) \/ x = d
                BY <2>0, <3>5, AppendPositions DEF Send, Queued
            <4>2. SlotOf(d)' = "queued"
                BY <2>0, <4>1, <1>v
            <4>3. \A x \in Domains : x # d => SlotOf(x)' = SlotOf(x)
                BY <3>3, <3>5, <4>1 DEF Send, SlotOf
            <4>4. Slots!Enter(d)
                BY <2>0, <3>1, <4>2, <4>3, OneSlotMoves DEF Slots!Enter
            <4>. QED  BY <2>0, <4>4 DEF Slots!Next, Slots!Progress
        <3>6. CASE Cleanup(c)
            <4>1. SlotOf(d)' = "free"
                BY <2>0, <3>6, <1>v DEF Cleanup
            <4>2. \A x \in Domains : x # d => SlotOf(x)' = SlotOf(x)
                BY <2>0, <3>3, <3>6 DEF Cleanup, SlotOf, Queued
            <4>3. Slots!Withdraw(d)
                BY <2>0, <3>1, <4>1, <4>2, OneSlotMoves DEF Slots!Withdraw
            <4>. QED  BY <2>0, <4>3 DEF Slots!Next, Slots!Progress
        <3>. QED  BY <2>h, <3>4, <3>5, <3>6
    <2>. QED  BY <1>3, <2>1, <2>2, <2>h DEF CallerStep
<1>4. CASE WorkerStarts
    <2>1. \A e \in Callers, x \in Domains : Claims(e, x)' <=> Claims(e, x)
        BY <1>4 DEF WorkerStarts, Claims
    <2>. QED  BY <1>1, <1>4, <2>1 DEF WorkerStarts
<1>5. CASE Recv
    <2>0. PICK d \in Domains : d = chan[1]
        BY <1>5, TailPositions DEF Recv
    <2>1. /\ d = chan[1] /\ 1 \in DOMAIN chan /\ Queued(d)
          /\ job = NoDomain /\ job' = d
          /\ \A i \in DOMAIN chan' : i + 1 \in DOMAIN chan /\ chan'[i] = chan[i + 1]
          /\ \A i \in DOMAIN chan : i # 1 => i - 1 \in DOMAIN chan' /\ chan'[i - 1] = chan[i]
        BY <1>5, <2>0, TailPositions DEF Recv, Queued
    <2>2. \A x \in Domains : Claimed(x)' <=> Claimed(x)
        BY <1>5 DEF Recv, Claimed, Claims
    <2>3. ASSUME NEW x \in Domains, x # d
          PROVE  Queued(x)' <=> Queued(x)
        <3>1. Queued(x) => Queued(x)'
            BY <2>1, <2>3 DEF Queued
        <3>2. Queued(x)' => Queued(x)
            BY <2>1 DEF Queued
        <3>. QED  BY <3>1, <3>2
    <2>4. SlotOf(d) = "queued" /\ SlotOf(d)' = "crawling"
        BY <2>1, SlotValues, <1>v
    <2>5. \A x \in Domains : x # d => SlotOf(x)' = SlotOf(x)
        BY <1>5, <2>1, <2>2, <2>3 DEF Recv, SlotOf
    <2>6. \A x \in Domains : slotView[x] # "crawling"
        BY <2>1, SlotValues DEF slotView
    <2>7. Slots!Crawl(d)
        BY <2>1, <2>4, <2>5, <2>6, OneSlotMoves DEF Slots!Crawl
    <2>. QED  BY <2>1, <2>7 DEF Slots!Next, Slots!Progress
<1>6. CASE Finish
    <2>0. PICK d \in Domains : d = job
        BY <1>6 DEF Finish
    <2>1. SlotOf(d) = "crawling"
        BY <2>0, SlotValues
    <2>2. SlotOf(d)' = "free"
        BY <1>6, <2>0, <1>v DEF Finish
    <2>3. \A x \in Domains : Claimed(x)' <=> Claimed(x)
        BY <1>6 DEF Finish, Claimed, Claims
    <2>4. \A x \in Domains : x # d => SlotOf(x)' = SlotOf(x)
        BY <1>6, <2>0, <2>3 DEF Finish, SlotOf, Queued
    <2>5. Slots!Done(d)
        BY <2>1, <2>2, <2>4, OneSlotMoves DEF Slots!Done
    <2>. QED  BY <2>5 DEF Slots!Next, Slots!Progress
<1>7. CASE WorkerPanics
    <2> DEFINE D == {x \in Domains : Queued(x) \/ job = x}
    <2>1. \A x \in Domains : x \in lost' <=> x \in lost \/ x \in D
        BY <1>7 DEF WorkerPanics, Waiting, Queued
    <2>2. \A x \in Domains : Claimed(x)' <=> Claimed(x)
        BY <1>7 DEF WorkerPanics, Claimed, Claims
    <2>3. \A x \in Domains : ~Queued(x)' /\ job' # x
        BY <1>7 DEF WorkerPanics, Queued
    <2>4. \A x \in D : SlotOf(x)' = "lost" /\ SlotOf(x) # "free"
        BY <2>1, <1>v, SlotValues
    <2>5. \A x \in Domains \ D : SlotOf(x)' = SlotOf(x)
        BY <2>1, <2>2, <2>3 DEF SlotOf
    <2>6. slotView' = [x \in Domains |-> IF x \in D THEN "lost" ELSE slotView[x]]
        BY <2>4, <2>5 DEF slotView
    <2>7. \A x \in D : slotView[x] # "free"
        BY <2>4 DEF slotView
    <2>8. Slots!Lose(D)
        BY <2>6, <2>7 DEF Slots!Lose
    <2>. QED  BY <2>8 DEF Slots!Next
<1>8. CASE UNCHANGED qvars
    <2>1. \A e \in Callers, x \in Domains : Claims(e, x)' <=> Claims(e, x)
        BY <1>8 DEF qvars, Claims
    <2>. QED  BY <1>1, <1>8, <2>1 DEF qvars
<1>. QED  BY <1>2, <1>3, <1>4, <1>5, <1>6, <1>7, <1>8 DEF QNext, WorkerStep

\* The queue with its locks, channel and threads behaves like one crawl slot
\* per domain: every step of it is a slot's move or a stutter.
THEOREM QueueImplementsSlots == QSpec => ImplementsSlots
<1>1. QInit => Slots!Init
    BY SlotInit
<1>2. QSpec => [][Slots!Next]_slotView
    BY HoldersAlways, SlotNext, PTL DEF QSpec
<1>. QED  BY <1>1, <1>2, PTL DEF QSpec, ImplementsSlots, Slots!Spec

-----------------------------------------------------------------------------
(* The lifecycle.                                                          *)

\* The types, except those of the queue.
RowTypes == rows \in [Domains -> {"absent", "pending", "ready"}]
CrawlTypes ==
    /\ upserts \in [Domains -> 0..MaxUpserts]
    /\ boot \in {"list", "enqueue", "done"}
    /\ backlog \in SUBSET Domains
    /\ step \in {"none", "pages", "commit", "refresh", "mark", "done"}
    /\ step = "none" <=> job = NoDomain
    /\ todo \in SUBSET Pages
    /\ tries \in 0..MaxAttempts - 1
    /\ leftOut \in SUBSET Domains
    /\ crashes \in 0..MaxCrashes
IndexTypes ==
    /\ staged \in [Urls -> Copies]
    /\ committed \in [Urls -> Copies]
    /\ visible \in [Urls -> Copies]
Known == {d \in Domains : rows[d] # "absent"}
SubmittedCounts ==
    /\ submitted \in Seq(Domains)
    /\ IsFiniteSet(Known) /\ Len(submitted) = Cardinality(Known)

LInv == IInv /\ RowTypes /\ CrawlTypes

-----------------------------------------------------------------------------
(* The steps, as the queue sees them.                                      *)

LEMMA QueueMoves == CrawlTypes /\ Next => QNext \/ UNCHANGED qvars \/ Crash
<1> SUFFICES ASSUME CrawlTypes, Next
             PROVE  QNext \/ UNCHANGED qvars \/ Crash
    OBVIOUS
<1>1. ASSUME NEW h \in Handlers, NEW d \in Domains, Submit(h, d)
      PROVE  QNext
    BY <1>1 DEF Submit, QNext, Handlers
<1>2. ASSUME NEW c \in Callers, Enqueueing(c)
      PROVE  QNext
    BY <1>2 DEF Enqueueing, QNext
<1>3. ASSUME NEW d \in Domains, Upsert(d)
      PROVE  UNCHANGED qvars
    BY <1>3 DEF Upsert
<1>4. CASE BootStep
    <2>1. CASE BootList \/ BootDone
        BY <2>1 DEF BootList, BootDone
    <2>2. CASE BootNext
        BY <2>2, LifecycleAssumption DEF BootNext, QNext, CrawlTypes
    <2>. QED  BY <1>4, <2>1, <2>2 DEF BootStep
<1>5. CASE CrawlStep
    BY <1>5 DEF CrawlStep, StartThread, StartCrawl, CrawlPage, PagesDone, CommitIndex,
                RefreshIndex, MarkReady, MarkFails, EndCrawl, QNext, WorkerStep
<1>6. CASE ThreadPanics
    BY <1>6 DEF ThreadPanics, QNext
<1>7. CASE AutoReload
    BY <1>7 DEF AutoReload
<1>. QED  BY <1>1, <1>2, <1>3, <1>4, <1>5, <1>6, <1>7 DEF Next

\* A call that goes on leaves the crawl's job alone and knows its domain.
LEMMA CallersOnly ==
    ASSUME QTypeOK, NEW c \in Callers, CallerStep(c)
    PROVE  job' = job /\ arg[c] \in Domains
BY NoDomainAssumption
   DEF QTypeOK, CallerStep, Coalesce, Claim, ReuseWorker, SpawnWorker, CallerPanics, Send,
       SendFails, Cleanup

LEMMA QueueKeeps == IInv /\ CrawlTypes /\ [Next]_vars => IInv'
<1> SUFFICES ASSUME IInv, CrawlTypes, [Next]_vars
             PROVE  IInv'
    OBVIOUS
<1>1. [QNext]_qvars \/ Crash
    BY QueueMoves DEF vars
<1>2. CASE Crash
    <2>1. QInit'
        BY <1>2 DEF Crash, Restart, QInit
    <2>2. QInit' => IInv'
        BY HoldersInit, PTL
    <2>. QED  BY <2>1, <2>2
<1>. QED  BY <1>1, <1>2, HoldersNext

-----------------------------------------------------------------------------
(* Types.                                                                  *)

LEMMA InitLTypes == Init => LInv
<1> SUFFICES ASSUME Init
             PROVE  LInv
    OBVIOUS
<1>1. IInv
    BY HoldersInit DEF Init
<1>2. RowTypes
    BY DEF Init, RowTypes
<1>3. CrawlTypes
    BY LifecycleAssumption DEF Init, QInit, CrawlTypes
<1>. QED  BY <1>1, <1>2, <1>3 DEF LInv

LEMMA NextRowTypes == RowTypes /\ [Next]_vars => RowTypes'
<1> SUFFICES ASSUME RowTypes, [Next]_vars
             PROVE  RowTypes'
    OBVIOUS
<1> USE DEF RowTypes
<1>1. ASSUME NEW d \in Domains, Upsert(d)
      PROVE  RowTypes'
    BY <1>1 DEF Upsert, UpsertRow
<1>2. CASE MarkReady
    BY <1>2 DEF MarkReady
<1>3. CASE UNCHANGED rows
    BY <1>3
<1>. QED
    BY <1>1, <1>2, <1>3
       DEF Next, Submit, Enqueueing, BootStep, BootList, BootNext, BootDone, CrawlStep, StartThread,
           StartCrawl, CrawlPage, PagesDone, CommitIndex, RefreshIndex, MarkFails, EndCrawl,
           ThreadPanics, AutoReload, Crash, Restart, vars, dbvars

LEMMA NextCrawlTypes == IInv /\ CrawlTypes /\ [Next]_vars => CrawlTypes'
<1> SUFFICES ASSUME IInv, CrawlTypes, [Next]_vars
             PROVE  CrawlTypes'
    OBVIOUS
<1>0. QTypeOK
    BY DEF IInv
<1> USE LifecycleAssumption, NoDomainAssumption DEF CrawlTypes, bootvars, crawlvars, dbvars, qvars
<1>1. ASSUME NEW h \in Handlers, NEW d \in Domains, Submit(h, d)
      PROVE  CrawlTypes'
    BY <1>1 DEF Submit, Call
<1>2. ASSUME NEW c \in Callers, Enqueueing(c)
      PROVE  CrawlTypes'
    <2>1. job' = job /\ inFlight \in SUBSET Domains
        BY <1>0, <1>2, CallersOnly DEF Enqueueing, QTypeOK
    <2>2. leftOut' \in SUBSET Domains
        BY <1>2, <2>1 DEF Enqueueing
    <2>. QED  BY <1>2, <2>1, <2>2 DEF Enqueueing
<1>3. ASSUME NEW d \in Domains, Upsert(d)
      PROVE  CrawlTypes'
    BY <1>3 DEF Upsert
<1>4. CASE BootStep
    <2>1. CASE BootList
        BY <2>1 DEF BootList, PendingRows
    <2>2. CASE BootNext
        BY <2>2 DEF BootNext, Call
    <2>3. CASE BootDone
        BY <2>3 DEF BootDone
    <2>. QED  BY <1>4, <2>1, <2>2, <2>3 DEF BootStep
<1>5. CASE CrawlStep
    <2>1. CASE StartThread
        BY <2>1 DEF StartThread, WorkerStarts
    <2>2. CASE StartCrawl
        <3>1. job' \in Domains /\ todo' \in SUBSET Pages /\ step' = "pages"
            BY <1>0, <2>2, TailPositions DEF StartCrawl, Recv, QTypeOK
        <3>. QED  BY <2>2, <3>1 DEF StartCrawl
    <2>3. CASE CrawlPage
        BY <2>3 DEF CrawlPage
    <2>4. CASE PagesDone \/ CommitIndex \/ RefreshIndex
        BY <2>4 DEF PagesDone, CommitIndex, RefreshIndex
    <2>5. CASE MarkReady
        BY <1>0, <2>5 DEF MarkReady, QTypeOK
    <2>6. CASE MarkFails
        <3>1. job \in Domains
            BY <1>0, <2>6 DEF MarkFails, QTypeOK
        <3>2. tries' \in 0..MaxAttempts - 1
            BY <2>6 DEF MarkFails
        <3>. QED  BY <2>6, <3>1, <3>2 DEF MarkFails
    <2>7. CASE EndCrawl
        BY <2>7 DEF EndCrawl, Finish
    <2>. QED  BY <1>5, <2>1, <2>2, <2>3, <2>4, <2>5, <2>6, <2>7 DEF CrawlStep
<1>6. CASE ThreadPanics
    BY <1>6 DEF ThreadPanics, WorkerPanics
<1>7. CASE AutoReload
    BY <1>7 DEF AutoReload
<1>8. CASE Crash
    BY <1>8 DEF Crash, Restart
<1>9. CASE UNCHANGED vars
    BY <1>9 DEF vars
<1>. QED  BY <1>1, <1>2, <1>3, <1>4, <1>5, <1>6, <1>7, <1>8, <1>9 DEF Next

LEMMA LInvAlways == Spec => []LInv
<1>1. LInv /\ [Next]_vars => LInv'
    BY QueueKeeps, NextRowTypes, NextCrawlTypes DEF LInv
<1>. QED  BY InitLTypes, <1>1, PTL DEF Spec

\* No step takes a row back: a ready one stays ready and none disappears.
THEOREM StatusAdvances == Spec => StatusOnlyAdvances
<1>1. LInv /\ [Next]_vars =>
          [\A d \in Domains : /\ rows[d] = "ready" => rows'[d] = "ready"
                              /\ rows[d] = "pending" => rows'[d] # "absent"]_vars
    <2> SUFFICES ASSUME RowTypes, [Next]_vars, NEW d \in Domains
                 PROVE  /\ rows[d] = "ready" => rows'[d] = "ready"
                        /\ rows[d] = "pending" => rows'[d] # "absent"
        BY DEF LInv
    <2> USE DEF RowTypes
    <2>1. ASSUME NEW e \in Domains, Upsert(e)
          PROVE  /\ rows[d] = "ready" => rows'[d] = "ready"
                 /\ rows[d] = "pending" => rows'[d] # "absent"
        BY <2>1 DEF Upsert, UpsertRow
    <2>2. CASE MarkReady
        BY <2>2 DEF MarkReady
    <2>3. CASE UNCHANGED rows
        BY <2>3
    <2>. QED
        BY <2>1, <2>2, <2>3
           DEF Next, Submit, Enqueueing, BootStep, BootList, BootNext, BootDone, CrawlStep,
               StartThread, StartCrawl, CrawlPage, PagesDone, CommitIndex, RefreshIndex, MarkFails,
               EndCrawl, ThreadPanics, AutoReload, Crash, Restart, vars, dbvars
<1>. QED  BY LInvAlways, <1>1, PTL DEF Spec, StatusOnlyAdvances

-----------------------------------------------------------------------------
(* Pending rows.  A row can become pending late, after its upsert waited   *)
(* behind the whole crawl, so what is said of pending rows has to hold of  *)
(* rows still to be inserted too; and a refused call may meet a crawl that *)
(* has marked already, so a crawl that is done must have left its domain   *)
(* ready or accounted for.                                                 *)

Calling(d) == \E c \in Callers : at[c] = "called" /\ arg[c] = d
Held(d) == Underway(d) \/ Calling(d) \/ d \in leftOut \/ d \in lost
InBacklog(d) == boot = "list" \/ d \in backlog

PendingHeld == \A d \in Domains : rows[d] = "pending" => Held(d) \/ InBacklog(d)
InsertedHeld == \A d \in Domains : rows[d] = "absent" /\ upserts[d] > 0 => Held(d)
CrawlDone == step = "done" => rows[job] = "ready" \/ job \in leftOut
BootIdle == boot = "list" => at[Boot] = "idle"

PInv == PendingHeld /\ InsertedHeld /\ CrawlDone /\ BootIdle

LEMMA InitPInv == Init => PInv
BY LifecycleAssumption DEF Init, QInit, PInv, PendingHeld, InsertedHeld, CrawlDone, BootIdle, InBacklog

\* A step that keeps the rows and whoever holds a domain, or has it in the backlog.
LEMMA Keeps ==
    ASSUME LInv, CrawlTypes', PInv, UNCHANGED rows,
           \A d \in Domains : upserts'[d] <= upserts[d],
           \A d \in Domains : Held(d) => Held(d)' \/ rows[d] = "ready",
           \A d \in Domains : InBacklog(d) /\ rows[d] = "pending" => Held(d)' \/ InBacklog(d)'
    PROVE  (PendingHeld /\ InsertedHeld)'
<1>1. \A d \in Domains : upserts[d] \in Nat /\ upserts'[d] \in Nat
    BY LifecycleAssumption DEF LInv, CrawlTypes
<1>. QED  BY <1>1 DEF PInv, PendingHeld, InsertedHeld

\* A caller's step: a domain that was called for is now claimed, or was held
\* already.
LEMMA CallKeeps ==
    ASSUME LInv, PInv, NEW c \in Callers, Enqueueing(c), NEW d \in Domains, Held(d)
    PROVE  Held(d)' \/ rows[d] = "ready"
<1>0. QTypeOK /\ InFlightIsHeld /\ OneHolder /\ CrawlTypes
    BY DEF LInv, IInv
<1>1. CallerStep(c) /\ arg[c] \in Domains /\ step' = step /\ job' = job
    BY <1>0, CallersOnly DEF Enqueueing, crawlvars
<1>2. leftOut' = (leftOut \ (inFlight' \ inFlight)) \cup (inFlight \ inFlight')
                     \cup (backlog \ backlog')
    BY DEF Enqueueing
<1>g. PICK g \in Domains : g = arg[c]
    BY <1>1
<1> USE NoDomainAssumption, <1>0 DEF QTypeOK, Goto, Return
<1>3. CASE Coalesce(c)
    <2>1. \A e \in Callers, x \in Domains : Claims(e, x)' <=> Claims(e, x)
        BY <1>g, <1>3 DEF Coalesce, Claims
    <2>2. UNCHANGED <<inFlight, chan, job, lost>>
        BY <1>g, <1>3 DEF Coalesce
    <2>3. Underway(d) <=> Underway(d)'
        BY <1>g, <1>1, <2>1, <2>2 DEF Underway, Claimed, Queued
    <2>4. \A x \in Domains : Calling(x) => Calling(x)' \/ x = g
        BY <1>g, <1>3 DEF Coalesce, Calling
    <2>5. d = g => Underway(d) \/ (job = d /\ step = "done") \/ d \in lost
        BY <1>g, <1>3 DEF Coalesce, InFlightIsHeld, Underway, CrawlTypes
    <2>6. job = d /\ step = "done" => rows[d] = "ready" \/ d \in leftOut
        BY DEF PInv, CrawlDone
    <2>7. d \in leftOut => (d \in leftOut)'
        BY <1>g, <1>2, <2>2
    <2>. QED  BY <1>g, <2>2, <2>3, <2>4, <2>5, <2>6, <2>7 DEF Held
<1>4. CASE Claim(c)
    <2>1. \A e \in Callers, x \in Domains : Claims(e, x)' <=> Claims(e, x) \/ (e = c /\ x = g)
        BY <1>g, <1>4 DEF Claim, Claims
    <2>2. Underway(g)'
        BY <1>g, <1>1, <2>1 DEF Underway, Claimed
    <2>3. Underway(d) => Underway(d)'
        BY <1>g, <1>1, <1>4, <2>1 DEF Claim, Underway, Claimed, Queued
    <2>4. Calling(d) => Calling(d)' \/ d = g
        BY <1>g, <1>4 DEF Claim, Calling
    <2>5. d \in leftOut => (d \in leftOut)' \/ d = g
        BY <1>g, <1>2, <1>4 DEF Claim
    <2>. QED  BY <1>g, <1>4, <2>2, <2>3, <2>4, <2>5 DEF Claim, Held
<1>5. CASE ReuseWorker(c) \/ SpawnWorker(c) \/ SendFails(c)
    <2>1. \A e \in Callers, x \in Domains : Claims(e, x)' <=> Claims(e, x)
        BY <1>g, <1>5 DEF ReuseWorker, SpawnWorker, SendFails, Claims
    <2>2. UNCHANGED <<inFlight, chan, job, lost>>
        BY <1>g, <1>5 DEF ReuseWorker, SpawnWorker, SendFails
    <2>3. Underway(d) <=> Underway(d)'
        BY <1>g, <1>1, <2>1, <2>2 DEF Underway, Claimed, Queued
    <2>4. Calling(d) => Calling(d)'
        BY <1>g, <1>5 DEF ReuseWorker, SpawnWorker, SendFails, Calling
    <2>5. d \in leftOut => (d \in leftOut)'
        BY <1>g, <1>2, <2>2
    <2>. QED  BY <1>g, <2>2, <2>3, <2>4, <2>5 DEF Held
<1>6. CASE CallerPanics(c) \/ Send(c) \/ Cleanup(c)
    <2>1. \A e \in Callers, x \in Domains : Claims(e, x)' <=> Claims(e, x) /\ e # c
        BY <1>g, <1>6 DEF CallerPanics, Send, Cleanup, Claims
    <2>2. Calling(d) => Calling(d)'
        BY <1>g, <1>6 DEF CallerPanics, Send, Cleanup, Calling
    <2>3. Claimed(d) => Claimed(d)' \/ d = g
        BY <1>g, <2>1 DEF Claimed, Claims
    <2>4. Queued(d) => Queued(d)'
        BY <1>g, <1>1, <1>6, AppendPositions DEF CallerPanics, Send, Cleanup, Queued
    <2>5. Underway(d) => Underway(d)' \/ d = g
        BY <1>g, <1>1, <2>3, <2>4 DEF Underway
    <2>6. /\ d \in leftOut => (d \in leftOut)'
          /\ d \in lost => (d \in lost)'
        BY <1>g, <1>2, <1>6 DEF CallerPanics, Send, Cleanup
    <2>7. Underway(g)' \/ (g \in leftOut)' \/ (g \in lost)'
        <3>1. CASE CallerPanics(c)
            BY <1>g, <3>1 DEF CallerPanics
        <3>2. CASE Send(c)
            BY <1>g, <1>1, <3>2, AppendPositions DEF Send, Underway, Queued
        <3>3. CASE Cleanup(c)
            <4>1. Claimed(g)
                BY <1>g, <3>3 DEF Cleanup, Claimed, Claims
            <4>2. g \in inFlight
                BY <1>g, <1>1, <4>1 DEF InFlightIsHeld
            <4>. QED  BY <1>g, <1>2, <3>3, <4>2 DEF Cleanup
        <3>. QED  BY <1>g, <1>6, <3>1, <3>2, <3>3
    <2>. QED  BY <1>g, <2>2, <2>5, <2>6, <2>7 DEF Held
<1>. QED  BY <1>g, <1>1, <1>3, <1>4, <1>5, <1>6 DEF CallerStep

LEMMA CallPInv ==
    ASSUME LInv, LInv', PInv, NEW c \in Callers, Enqueueing(c)
    PROVE  PInv'
<1>0. /\ UNCHANGED <<rows, upserts, step>>
      /\ CallerStep(c) /\ arg[c] \in Domains /\ job' = job
      /\ leftOut' = (leftOut \ (inFlight' \ inFlight)) \cup (inFlight \ inFlight')
                        \cup (backlog \ backlog')
    BY CallersOnly DEF Enqueueing, dbvars, crawlvars, LInv, IInv
<1>1. at[c] # "idle" /\ \A e \in Callers : e # c => at'[e] = at[e]
    BY <1>0 DEF CallerStep, Coalesce, Claim, ReuseWorker, SpawnWorker, CallerPanics, Send,
                SendFails, Cleanup, Goto, Return, LInv, IInv, QTypeOK
<1>2. BootIdle'
    BY <1>1, LifecycleAssumption DEF Enqueueing, bootvars, PInv, BootIdle
<1>3. ASSUME NEW d \in Domains, InBacklog(d)
      PROVE  Held(d)' \/ InBacklog(d)'
    <2>1. CASE boot = "list"
        <3>1. boot' = "list"
            BY <1>1, <2>1 DEF Enqueueing, bootvars, PInv, BootIdle
        <3>. QED  BY <3>1 DEF InBacklog
    <2>2. CASE d \in backlog
        BY <1>0, <2>2 DEF InBacklog, Held
    <2>. QED  BY <1>3, <2>1, <2>2 DEF InBacklog
<1>4. (PendingHeld /\ InsertedHeld)'
    <2>1. \A d \in Domains : upserts[d] \in Nat
        BY LifecycleAssumption DEF LInv, CrawlTypes
    <2>. QED  BY <1>0, <1>3, <2>1, CallKeeps, Keeps DEF LInv
<1>5. CrawlDone'
    <2> SUFFICES ASSUME step = "done", job \in leftOut
                 PROVE  job \in leftOut'
        BY <1>0 DEF PInv, CrawlDone
    <2>1. job \in Domains
        BY DEF LInv, CrawlTypes
    <2>2. job \in inFlight
        BY <2>1 DEF LInv, IInv, InFlightIsHeld
    <2>. QED  BY <1>0, <2>2
<1>. QED  BY <1>2, <1>4, <1>5 DEF PInv

LEMMA NextPInv == LInv /\ LInv' /\ PInv /\ [Next]_vars => PInv'
<1> SUFFICES ASSUME LInv, LInv', PInv, [Next]_vars
             PROVE  PInv'
    OBVIOUS
<1>0. QTypeOK /\ CrawlTypes /\ RowTypes
    BY DEF LInv, IInv
<1>n. \A d \in Domains : upserts[d] \in Nat
    BY <1>0, LifecycleAssumption DEF CrawlTypes
<1>j. worker # "crawl" => job = NoDomain /\ step = "none"
    BY <1>0 DEF QTypeOK, CrawlTypes
<1>k. step # "none" => job \in Domains
    BY <1>0 DEF QTypeOK, CrawlTypes
<1> USE <1>0, <1>n, NoDomainAssumption, LifecycleAssumption DEF bootvars, crawlvars, dbvars, qvars
\* The steps that change no row and nothing of the queue but the worker.
<1>s. ASSUME UNCHANGED <<rows, upserts, boot, backlog, chan, at, arg, job, lost>>,
             leftOut \subseteq leftOut',
             step' = step \/ job \in leftOut' \/ step' \in {"commit", "refresh", "mark"},
             step' = "done" => step = "done" \/ job \in leftOut'
      PROVE  PInv'
    <2>1. \A d \in Domains : Claimed(d)' <=> Claimed(d)
        BY <1>s DEF Claimed, Claims
    <2>2. \A d \in Domains : Held(d) => Held(d)'
        BY <1>s, <2>1 DEF Held, Underway, Calling, Queued
    <2>3. (PendingHeld /\ InsertedHeld)'
        BY <1>s, <2>2, Keeps DEF InBacklog, LInv
    <2>. QED  BY <1>s, <2>3 DEF PInv, CrawlDone, BootIdle
<1>1. ASSUME NEW h \in Handlers, NEW d \in Domains, Submit(h, d)
      PROVE  PInv'
    <2>1. \A x \in Domains : Claimed(x)' <=> Claimed(x)
        BY <1>1 DEF Submit, Call, Goto, Claimed, Claims, Handlers, QTypeOK
    <2>2. \A x \in Domains : Calling(x)' <=> Calling(x) \/ x = d
        BY <1>1 DEF Submit, Call, Goto, Calling, Handlers, QTypeOK
    <2>3. \A x \in Domains : Held(x) \/ x = d => Held(x)'
        BY <1>1, <2>1, <2>2 DEF Submit, Call, Held, Underway, Queued
    <2>4. UNCHANGED <<rows, boot, backlog, step, job, leftOut>> /\ at'[Boot] = at[Boot]
        BY <1>1 DEF Submit, Call, Goto, Handlers, QTypeOK
    <2>5. \A x \in Domains : x # d => upserts'[x] = upserts[x]
        BY <1>1 DEF Submit, CrawlTypes
    <2>6. (PendingHeld /\ InsertedHeld)'
        BY <2>3, <2>4, <2>5 DEF PInv, PendingHeld, InsertedHeld, InBacklog
    <2>. QED  BY <2>4, <2>6 DEF PInv, CrawlDone, BootIdle
<1>2. ASSUME NEW c \in Callers, Enqueueing(c)
      PROVE  PInv'
    BY <1>2, CallPInv
<1>3. ASSUME NEW d \in Domains, Upsert(d)
      PROVE  PInv'
    <2>1. \A x \in Domains : (Claimed(x)' <=> Claimed(x)) /\ (Held(x)' <=> Held(x))
        BY <1>3 DEF Upsert, Claimed, Claims, Held, Underway, Calling, Queued
    <2>2. /\ \A x \in Domains : x # d => rows'[x] = rows[x] /\ upserts'[x] = upserts[x]
          /\ upserts[d] > 0
          /\ rows'[d] = rows[d] \/ (rows[d] = "absent" /\ rows'[d] = "pending")
          /\ UNCHANGED <<boot, backlog, step, job, leftOut, at>>
        BY <1>3 DEF Upsert, UpsertRow, RowTypes, CrawlTypes
    <2>3. PendingHeld'
        BY <2>1, <2>2 DEF PInv, PendingHeld, InsertedHeld, InBacklog
    <2>4. InsertedHeld'
        BY <2>1, <2>2 DEF PInv, InsertedHeld
    <2>5. CrawlDone'
        BY <2>2, <1>k DEF PInv, CrawlDone
    <2>. QED  BY <2>2, <2>3, <2>4, <2>5 DEF PInv, BootIdle
<1>4. CASE BootList
    <2>1. /\ UNCHANGED <<qvars, rows, upserts, step>> /\ leftOut \subseteq leftOut'
          /\ boot' = "enqueue"
          /\ \A d \in Domains : rows[d] = "pending" => d \in leftOut' \/ d \in backlog'
        BY <1>4 DEF BootList, PendingRows, Pending
    <2>2. \A d \in Domains : (Claimed(d)' <=> Claimed(d)) /\ (Held(d) => Held(d)')
        BY <2>1 DEF Claimed, Claims, Held, Underway, Calling, Queued
    <2>3. (PendingHeld /\ InsertedHeld)'
        BY <2>1, <2>2, Keeps DEF InBacklog, Held, LInv
    <2>. QED  BY <2>1, <2>3 DEF PInv, CrawlDone, BootIdle
<1>5. CASE BootNext
    <2>1. PICK d \in backlog : Call(Boot, d) /\ backlog' = backlog \ {d}
        BY <1>5 DEF BootNext
    <2>2. /\ UNCHANGED <<rows, upserts, step, leftOut, boot, chan, job, lost>> /\ boot = "enqueue"
        BY <1>5, <2>1 DEF BootNext, Call
    <2>3. \A x \in Domains : (Claimed(x)' <=> Claimed(x)) /\ (Calling(x)' <=> Calling(x) \/ x = d)
        BY <2>1 DEF Call, Goto, Claimed, Claims, Calling, QTypeOK
    <2>4. \A x \in Domains : (Held(x) => Held(x)') /\ (x = d => Held(x)')
        BY <2>2, <2>3 DEF Held, Underway, Queued
    <2>5. (PendingHeld /\ InsertedHeld)'
        BY <2>1, <2>2, <2>4, Keeps DEF InBacklog, LInv
    <2>. QED  BY <2>2, <2>5 DEF PInv, CrawlDone, BootIdle
<1>6. CASE BootDone
    <2>1. UNCHANGED <<qvars, rows, upserts, step, leftOut, backlog>> /\ boot = "enqueue" /\ boot' = "done"
        BY <1>6 DEF BootDone
    <2>2. \A d \in Domains : (Claimed(d)' <=> Claimed(d)) /\ (Held(d)' <=> Held(d))
        BY <2>1 DEF Claimed, Claims, Held, Underway, Calling, Queued
    <2>3. (PendingHeld /\ InsertedHeld)'
        BY <2>1, <2>2, Keeps DEF InBacklog, LInv
    <2>. QED  BY <2>1, <2>3 DEF PInv, CrawlDone, BootIdle
<1>7. CASE StartCrawl
    <2>1. /\ UNCHANGED <<rows, upserts, boot, backlog, leftOut, lost, at, arg>>
          /\ step' = "pages" /\ job = NoDomain /\ job' = chan[1]
          /\ \A i \in DOMAIN chan : i # 1 => i - 1 \in DOMAIN chan' /\ chan'[i - 1] = chan[i]
        BY <1>7, <1>j, TailPositions DEF StartCrawl, Recv, QTypeOK
    <2>2. \A d \in Domains : Queued(d) => Queued(d)' \/ job' = d
        BY <2>1 DEF Queued
    <2>3. \A d \in Domains : Claimed(d)' <=> Claimed(d)
        BY <2>1 DEF Claimed, Claims
    <2>4. \A d \in Domains : Held(d) => Held(d)'
        BY <2>1, <2>2, <2>3 DEF Held, Underway, Calling
    <2>5. (PendingHeld /\ InsertedHeld)'
        BY <2>1, <2>4, Keeps DEF InBacklog, LInv
    <2>. QED  BY <2>1, <2>5 DEF PInv, CrawlDone, BootIdle
<1>8. CASE CrawlPage \/ PagesDone \/ CommitIndex \/ RefreshIndex \/ AutoReload \/ StartThread
    BY <1>s, <1>8 DEF CrawlPage, PagesDone, CommitIndex, RefreshIndex, AutoReload, StartThread,
                      WorkerStarts
<1>9. CASE MarkFails
    BY <1>s, <1>9 DEF MarkFails
<1>10. CASE MarkReady
    <2>1. /\ UNCHANGED <<qvars, upserts, boot, backlog>>
          /\ job \in Domains /\ step' = "done" /\ leftOut \subseteq leftOut'
          /\ rows'[job] = "ready" \/ (rows'[job] = "absent" /\ job \in leftOut')
          /\ \A d \in Domains : d # job => rows'[d] = rows[d]
        BY <1>10, <1>k DEF MarkReady, RowTypes
    <2>2. \A d \in Domains : (Claimed(d)' <=> Claimed(d)) /\ (Held(d) /\ d # job => Held(d)')
        BY <2>1 DEF Claimed, Claims, Held, Underway, Calling, Queued
    <2>3. job \in leftOut' => Held(job)'
        BY <2>1 DEF Held
    <2>4. (PendingHeld /\ InsertedHeld)'
        BY <2>1, <2>2, <2>3 DEF PInv, PendingHeld, InsertedHeld, InBacklog
    <2>. QED  BY <2>1, <2>4 DEF PInv, CrawlDone, BootIdle
<1>11. CASE EndCrawl
    <2>1. /\ UNCHANGED <<rows, upserts, boot, backlog, leftOut, lost, chan, at, arg>>
          /\ step = "done" /\ step' = "none"
        BY <1>11 DEF EndCrawl, Finish
    <2>2. \A d \in Domains : (Claimed(d)' <=> Claimed(d)) /\ (Held(d) => Held(d)')
        BY <2>1 DEF Claimed, Claims, Held, Underway, Calling, Queued
    <2>3. (PendingHeld /\ InsertedHeld)'
        BY <2>1, <2>2, Keeps DEF InBacklog, LInv
    <2>. QED  BY <2>1, <2>3 DEF PInv, CrawlDone, BootIdle
<1>12. CASE ThreadPanics
    <2>1. /\ UNCHANGED <<rows, upserts, boot, backlog, leftOut, at, arg>> /\ step' = "none"
          /\ lost' = lost \cup Waiting \cup ({job} \ {NoDomain})
        BY <1>12 DEF ThreadPanics, WorkerPanics
    <2>2. \A d \in Domains : (Claimed(d)' <=> Claimed(d)) /\ (Held(d) => Held(d)')
        BY <2>1 DEF Claimed, Claims, Held, Underway, Calling, Queued, Waiting
    <2>3. (PendingHeld /\ InsertedHeld)'
        BY <2>1, <2>2, Keeps DEF InBacklog, LInv
    <2>. QED  BY <2>1, <2>3 DEF PInv, CrawlDone, BootIdle
<1>13. CASE Crash
    <2>1. /\ boot' = "list" /\ step' = "none" /\ at' = [c \in Callers |-> "idle"]
          /\ upserts' = [d \in Domains |-> 0]
        BY <1>13 DEF Crash, Restart
    <2>. QED  BY <2>1 DEF PInv, PendingHeld, InsertedHeld, CrawlDone, BootIdle, InBacklog
<1>14. CASE UNCHANGED vars
    BY <1>s, <1>14 DEF vars, idxvars
<1>. QED
    BY <1>1, <1>2, <1>3, <1>4, <1>5, <1>6, <1>7, <1>8, <1>9, <1>10, <1>11, <1>12, <1>13, <1>14
       DEF Next, BootStep, CrawlStep

\* A pending row always has somebody who will bring it to the crawler, unless it
\* was passed over in one of the ways leftOut and lost record: for any number of
\* submitters, crawls, restarts and failing statements.
THEOREM PendingAlwaysAccounted == Spec => []PendingAccounted
<1>1. PInv => PendingAccounted
    BY DEF PInv, PendingHeld, PendingAccounted, Pending, Held, InBacklog, Attended, Calling
<1>2. Spec => []PInv
    BY LInvAlways, InitPInv, NextPInv, PTL DEF Spec
<1>. QED  BY <1>1, <1>2, PTL

-----------------------------------------------------------------------------
(* Ready domains are searchable, with the index on disk and no failure of  *)
(* it.  The root page is carried through the crawl's steps: fetched or     *)
(* still to be, then committed, then visible, and only then marked.        *)

LEMMA Pluses ==
    ASSUME NEW m \in Copies, NEW n \in Copies
    PROVE  /\ Plus(m, n) \in Copies
           /\ m > 0 => Plus(m, n) > 0
           /\ n > 0 => Plus(m, n) > 0
BY LifecycleAssumption DEF Plus, Copies

LEMMA NextIndexTypes == IndexTypes /\ [Next]_vars => IndexTypes'
<1> SUFFICES ASSUME IndexTypes, [Next]_vars
             PROVE  IndexTypes'
    OBVIOUS
<1>0. NoDocs \in [Urls -> Copies]
    BY LifecycleAssumption DEF NoDocs, Copies
<1> USE <1>0 DEF IndexTypes
<1>1. CASE CrawlPage
    <2>1. PICK p \in todo : staged' = [staged EXCEPT ![<<job, p>>] = Plus(@, 1)] \/ staged' = staged
        BY <1>1 DEF CrawlPage
    <2>2. staged' \in [Urls -> Copies]
        <3>1. CASE staged' = staged
            BY <3>1
        <3>2. CASE staged' = [staged EXCEPT ![<<job, p>>] = Plus(@, 1)]
            <4>1. <<job, p>> \in Urls => Plus(staged[<<job, p>>], 1) \in Copies
                BY LifecycleAssumption DEF Plus, Copies
            <4>. QED  BY <3>2, <4>1
        <3>. QED  BY <2>1, <3>1, <3>2
    <2>. QED  BY <1>1, <2>2 DEF CrawlPage
<1>2. CASE CommitIndex
    BY <1>2, Pluses DEF CommitIndex
<1>3. CASE RefreshIndex \/ AutoReload
    BY <1>3 DEF RefreshIndex, AutoReload
<1>4. CASE Crash
    BY <1>4 DEF Crash, Restart
<1>5. CASE UNCHANGED idxvars
    BY <1>5 DEF idxvars
<1>. QED
    BY <1>1, <1>2, <1>3, <1>4, <1>5
       DEF Next, Submit, Enqueueing, Upsert, BootStep, BootList, BootNext, BootDone, CrawlStep,
           StartThread, StartCrawl, PagesDone, MarkReady, MarkFails, EndCrawl, ThreadPanics, vars

RootUrl(d) == <<d, Root>>

RootCarried ==
    /\ step = "pages" => Root \in todo \/ staged[RootUrl(job)] > 0
    /\ step = "commit" => staged[RootUrl(job)] > 0
    /\ step = "refresh" => committed[RootUrl(job)] > 0
    /\ step = "mark" => committed[RootUrl(job)] > 0 /\ visible[RootUrl(job)] > 0

SearchInv == RootCarried /\ ReadyIsSearchable

SoundIndex == Durable /\ ~IndexMayFail /\ MaxCopies > 0

LEMMA InitSearchInv == Init => SearchInv
BY DEF Init, SearchInv, RootCarried, ReadyIsSearchable

LEMMA NextSearchInv ==
    ASSUME SoundIndex
    PROVE  LInv /\ IndexTypes /\ SearchInv /\ [Next]_vars => SearchInv'
<1> SUFFICES ASSUME LInv, IndexTypes, SearchInv, [Next]_vars
             PROVE  SearchInv'
    OBVIOUS
<1>0. QTypeOK /\ CrawlTypes /\ RowTypes
    BY DEF LInv, IInv
<1>k. step # "none" => job \in Domains
    BY <1>0 DEF QTypeOK, CrawlTypes
<1>r. \A d \in Domains : RootUrl(d) \in Urls
    BY LifecycleAssumption DEF RootUrl, Urls
<1> USE <1>0, <1>k, <1>r, NoDomainAssumption, LifecycleAssumption DEF SearchInv, crawlvars, dbvars, qvars, idxvars
\* What is searchable stays so when no row becomes ready.
<1>s. ASSUME \A d \in Domains : rows'[d] = "ready" => rows[d] = "ready",
             \A d \in Domains : committed[RootUrl(d)] > 0 => committed'[RootUrl(d)] > 0,
             \/ visible' = visible
             \/ visible' = committed'
      PROVE  ReadyIsSearchable'
    BY <1>s DEF ReadyIsSearchable, RootUrl
<1>1. CASE StartCrawl
    <2>1. RootCarried'
        BY <1>1 DEF StartCrawl, RootCarried
    <2>. QED  BY <1>s, <1>1, <2>1 DEF StartCrawl
<1>2. CASE CrawlPage
    <2>1. PICK p \in todo : /\ todo' = todo \ {p}
                            /\ staged' = [staged EXCEPT ![<<job, p>>] = Plus(@, 1)]
        BY <1>2 DEF CrawlPage, SoundIndex
    <2>2. Root \notin todo' => staged'[RootUrl(job)] > 0
        <3>1. step = "pages" /\ job \in Domains /\ RootUrl(job) \in Urls
            BY <1>2 DEF CrawlPage
        <3>2. CASE p = Root
            <4>1. staged'[RootUrl(job)] = Plus(staged[RootUrl(job)], 1)
                BY <2>1, <3>1, <3>2 DEF RootUrl, IndexTypes
            <4>2. staged[RootUrl(job)] \in Copies /\ 1 \in Copies
                BY <3>1 DEF IndexTypes, Copies, SoundIndex
            <4>. QED  BY <4>1, <4>2, Pluses
        <3>3. CASE p # Root
            <4>1. staged'[RootUrl(job)] = staged[RootUrl(job)]
                BY <2>1, <3>1, <3>3 DEF RootUrl, IndexTypes
            <4>. QED  BY <2>1, <3>1, <3>3, <4>1 DEF RootCarried
        <3>. QED  BY <3>2, <3>3
    <2>3. RootCarried'
        BY <1>2, <2>2 DEF CrawlPage, RootCarried
    <2>. QED  BY <1>s, <1>2, <2>3 DEF CrawlPage
<1>3. CASE PagesDone
    <2>1. RootCarried'
        BY <1>3 DEF PagesDone, RootCarried
    <2>. QED  BY <1>s, <1>3, <2>1 DEF PagesDone
<1>4. CASE CommitIndex
    <2>1. /\ committed' = [u \in Urls |-> Plus(committed[u], staged[u])]
          /\ step = "commit" /\ step' = "refresh" /\ job' = job /\ UNCHANGED <<rows, visible>>
        BY <1>4 DEF CommitIndex, SoundIndex
    <2>2. \A u \in Urls : committed[u] > 0 \/ staged[u] > 0 => committed'[u] > 0
        BY <2>1, Pluses DEF IndexTypes
    <2>3. RootCarried'
        BY <2>1, <2>2 DEF RootCarried
    <2>. QED  BY <1>s, <2>1, <2>2, <2>3
<1>5. CASE RefreshIndex
    <2>1. /\ visible' = committed /\ step = "refresh" /\ step' = "mark" /\ job' = job
          /\ UNCHANGED <<rows, committed>>
        BY <1>5 DEF RefreshIndex, SoundIndex
    <2>2. RootCarried'
        BY <2>1 DEF RootCarried
    <2>. QED  BY <1>s, <2>1, <2>2
<1>6. CASE MarkReady
    <2>1. RootCarried'
        BY <1>6 DEF MarkReady, RootCarried
    <2>2. ReadyIsSearchable'
        BY <1>6 DEF MarkReady, RootCarried, ReadyIsSearchable, RootUrl, RowTypes
    <2>. QED  BY <2>1, <2>2
<1>7. CASE MarkFails
    <2>1. RootCarried'
        BY <1>7 DEF MarkFails, RootCarried
    <2>. QED  BY <1>s, <1>7, <2>1 DEF MarkFails
<1>8. CASE EndCrawl \/ ThreadPanics
    <2>1. step' = "none" /\ UNCHANGED <<rows, committed, visible>>
        BY <1>8 DEF EndCrawl, ThreadPanics
    <2>. QED  BY <1>s, <2>1 DEF RootCarried
<1>9. CASE AutoReload
    <2>1. visible' = committed /\ UNCHANGED <<rows, step, job, todo, staged, committed>>
        BY <1>9 DEF AutoReload
    <2>2. RootCarried'
        BY <2>1 DEF RootCarried
    <2>. QED  BY <1>s, <2>1, <2>2
<1>10. CASE Crash
    <2>1. step' = "none" /\ UNCHANGED <<rows, committed>> /\ visible' = committed'
        BY <1>10 DEF Crash, Restart, SoundIndex
    <2>. QED  BY <1>s, <2>1 DEF RootCarried
<1>11. ASSUME NEW d \in Domains, Upsert(d)
       PROVE  SearchInv'
    <2>1. /\ UNCHANGED <<step, job, todo, staged, committed, visible>>
          /\ \A x \in Domains : rows'[x] = "ready" => rows[x] = "ready"
        BY <1>11 DEF Upsert, UpsertRow, RowTypes
    <2>. QED  BY <1>s, <2>1 DEF RootCarried
<1>12. CASE UNCHANGED <<rows, step, job, todo, staged, committed, visible>>
    BY <1>s, <1>12 DEF RootCarried
<1>13. ASSUME NEW c \in Callers, Enqueueing(c)
       PROVE  SearchInv'
    BY <1>12, <1>13, CallersOnly DEF Enqueueing
<1>. QED
    BY <1>1, <1>2, <1>3, <1>4, <1>5, <1>6, <1>7, <1>8, <1>9, <1>10, <1>11, <1>12, <1>13
       DEF Next, Submit, Call, BootStep, BootList, BootNext, BootDone, CrawlStep, StartThread,
           WorkerStarts, vars

\* With the index on disk and no failure of it, a domain that is marked ready
\* has its root page committed and visible to searches from then on, whatever
\* is submitted, crawled, panics or crashes.
THEOREM ReadyAlwaysSearchable ==
    ASSUME SoundIndex
    PROVE  Spec => []ReadyIsSearchable
<1>1. Init => IndexTypes
    BY LifecycleAssumption DEF Init, IndexTypes, NoDocs, Copies
<1>2. SearchInv => ReadyIsSearchable
    BY DEF SearchInv
<1>. QED
    BY <1>1, <1>2, LInvAlways, NextIndexTypes, InitSearchInv, NextSearchInv, PTL DEF Spec

-----------------------------------------------------------------------------
(* The rows and the order they were submitted in.                          *)

LEMMA NextSubmittedCounts == RowTypes /\ SubmittedCounts /\ [Next]_vars => SubmittedCounts'
<1> SUFFICES ASSUME RowTypes, SubmittedCounts, [Next]_vars
             PROVE  SubmittedCounts'
    OBVIOUS
<1> USE DEF SubmittedCounts, RowTypes
<1>1. ASSUME NEW d \in Domains, Upsert(d)
      PROVE  SubmittedCounts'
    <2>1. CASE rows' = rows /\ submitted' = submitted
        BY <2>1 DEF Known
    <2>2. CASE rows[d] = "absent" /\ rows' = [rows EXCEPT ![d] = "pending"]
                   /\ submitted' = Append(submitted, d)
        <3>1. Known' = Known \cup {d} /\ d \notin Known
            BY <2>2 DEF Known
        <3>2. IsFiniteSet(Known') /\ Cardinality(Known') = Cardinality(Known) + 1
            BY <3>1, FS_AddElement
        <3>. QED  BY <2>2, <3>2
    <2>. QED  BY <1>1, <2>1, <2>2 DEF Upsert, UpsertRow
<1>2. CASE MarkReady
    BY <1>2 DEF MarkReady, Known
<1>3. CASE UNCHANGED <<rows, submitted>>
    BY <1>3 DEF Known
<1>. QED
    BY <1>1, <1>2, <1>3
       DEF Next, Submit, Enqueueing, BootStep, BootList, BootNext, BootDone, CrawlStep, StartThread,
           StartCrawl, CrawlPage, PagesDone, CommitIndex, RefreshIndex, MarkFails, EndCrawl,
           ThreadPanics, AutoReload, Crash, Restart, vars, dbvars

\* All types of the lifecycle and its queue: the crawl's step and its job agree,
\* every row was submitted once, and the attempts are bounded.
THEOREM LifecycleTypes == Spec => []TypeOK
<1>1. Init => IndexTypes /\ SubmittedCounts
    <2> SUFFICES ASSUME Init
                 PROVE  IndexTypes /\ SubmittedCounts
        OBVIOUS
    <2>1. Known = {}
        BY DEF Init, Known
    <2>2. IndexTypes
        BY LifecycleAssumption DEF Init, IndexTypes, NoDocs, Copies
    <2>. QED  BY <2>1, <2>2, FS_EmptySet DEF Init, SubmittedCounts
<1>2. LInv /\ IndexTypes /\ SubmittedCounts => TypeOK
    BY DEF LInv, IInv, RowTypes, CrawlTypes, IndexTypes, SubmittedCounts, Known, TypeOK
<1>3. RowTypes /\ SubmittedCounts /\ IndexTypes /\ [Next]_vars => SubmittedCounts' /\ IndexTypes'
    BY NextSubmittedCounts, NextIndexTypes
<1>4. LInv => RowTypes
    BY DEF LInv
<1>. QED  BY <1>1, <1>2, <1>3, <1>4, LInvAlways, PTL DEF Spec
=============================================================================
