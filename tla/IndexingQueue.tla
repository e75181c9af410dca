--------------------------- MODULE IndexingQueue ---------------------------
(***************************************************************************)
(* The crawl queue of gurtd (gurtd/src/indexing/mod.rs): enqueue_domain is *)
(* called concurrently by request handlers and by the start-up task, and   *)
(* one lazily spawned thread serves the jobs in order.  What the callers   *)
(* and the thread share is the set in_flight (a domain in it is refused),  *)
(* the sender slot and an unbounded channel; each is touched under its own *)
(* lock, so a call is several steps and other actors run in between.       *)
(*                                                                         *)
(* A panic of the worker thread and a failure to spawn it are modelled:    *)
(* the code handles the first only through send(...).is_err().             *)
(***************************************************************************)
EXTENDS Naturals, Sequences

CONSTANTS Domains,    \* domain names, already normalised
          Callers,    \* threads that may be inside enqueue_domain at one time
          NoDomain,   \* no job / no argument
          MayPanic    \* whether the worker thread may panic or fail to spawn

ASSUME NoDomainAssumption == NoDomain \notin Domains
ASSUME MayPanicAssumption == MayPanic \in BOOLEAN

VARIABLES inFlight,  \* IndexingService.in_flight
          sender,    \* IndexingService.sender: None, Some, or a poisoned mutex
          chan,      \* the unbounded channel's contents, oldest first
          at, arg,   \* where each caller is in enqueue, and its domain
          worker,    \* where the gurt-indexer thread is
          job,       \* the domain it is crawling
          lost       \* history: domains a panic left in in_flight for good

qvars == <<inFlight, sender, chan, at, arg, worker, job, lost>>

CallerSteps == {"idle", "called", "ensure", "send", "cleanup"}
WorkerSteps == {"none", "starting", "recv", "crawl", "dead"}

QTypeOK ==
    /\ inFlight \in SUBSET Domains
    /\ sender \in {"none", "some", "poisoned"}
    /\ chan \in Seq(Domains)
    /\ at \in [Callers -> CallerSteps]
    /\ arg \in [Callers -> Domains \cup {NoDomain}]
    /\ worker \in WorkerSteps
    /\ job \in Domains \cup {NoDomain}
    /\ lost \in SUBSET Domains
    /\ \A c \in Callers : at[c] # "idle" => arg[c] # NoDomain
    /\ worker = "crawl" <=> job # NoDomain
    /\ sender = "none" => worker = "none"

QInit ==
    /\ inFlight = {}
    /\ sender = "none"
    /\ chan = <<>>
    /\ at = [c \in Callers |-> "idle"]
    /\ arg = [c \in Callers |-> NoDomain]
    /\ worker = "none"
    /\ job = NoDomain
    /\ lost = {}

-----------------------------------------------------------------------------
(* The callers.                                                            *)

Goto(c, step) == at' = [at EXCEPT ![c] = step]
Return(c) == Goto(c, "idle") /\ arg' = [arg EXCEPT ![c] = NoDomain]

\* enqueue_domain is entered with a non-empty domain.
Call(c, d) ==
    /\ at[c] = "idle"
    /\ Goto(c, "called")
    /\ arg' = [arg EXCEPT ![c] = d]
    /\ UNCHANGED <<inFlight, sender, chan, worker, job, lost>>

\* Under the in_flight lock: a domain already there is refused ...
Coalesce(c) ==
    /\ at[c] = "called"
    /\ arg[c] \in inFlight
    /\ Return(c)
    /\ UNCHANGED <<inFlight, sender, chan, worker, job, lost>>

\* Mutant: the domain is claimed without looking.
ClaimUnchecked(c) ==
    /\ at[c] = "called"
    /\ inFlight' = inFlight \cup {arg[c]}
    /\ Goto(c, "ensure")
    /\ UNCHANGED <<sender, chan, arg, worker, job, lost>>

\* ... and any other one is claimed.
Claim(c) ==
    /\ at[c] = "called"
    /\ arg[c] \notin inFlight
    /\ inFlight' = inFlight \cup {arg[c]}
    /\ Goto(c, "ensure")
    /\ UNCHANGED <<sender, chan, arg, worker, job, lost>>

\* Mutant: the sender is used only while the thread lives.
ReuseLiveWorker(c) ==
    /\ at[c] = "ensure"
    /\ sender = "some" /\ worker # "dead"
    /\ Goto(c, "send")
    /\ UNCHANGED <<inFlight, sender, chan, arg, worker, job, lost>>

\* ensure_worker finds a sender and clones it, whatever became of the thread.
ReuseWorker(c) ==
    /\ at[c] = "ensure"
    /\ sender = "some"
    /\ Goto(c, "send")
    /\ UNCHANGED <<inFlight, sender, chan, arg, worker, job, lost>>

\* ensure_worker spawns the thread, under the sender lock.
SpawnWorker(c) ==
    /\ at[c] = "ensure"
    /\ sender = "none"
    /\ sender' = "some"
    /\ worker' = "starting"
    /\ Goto(c, "send")
    /\ UNCHANGED <<inFlight, chan, arg, job, lost>>

\* Either the spawn fails, and its expect() poisons the sender lock, or an
\* earlier one did and lock().unwrap() panics: the caller unwinds.
CallerPanics(c) ==
    /\ at[c] = "ensure"
    /\ \/ sender = "none" /\ MayPanic
       \/ sender = "poisoned"
    /\ sender' = "poisoned"
    /\ lost' = lost \cup {arg[c]}
    /\ Return(c)
    /\ UNCHANGED <<inFlight, chan, worker, job>>

\* send() succeeds as long as the receiver exists.
Send(c) ==
    /\ at[c] = "send"
    /\ worker # "dead"
    /\ chan' = Append(chan, arg[c])
    /\ Return(c)
    /\ UNCHANGED <<inFlight, sender, worker, job, lost>>

\* Mutant: the error of send() is ignored.
SendErrorIgnored(c) ==
    /\ at[c] = "send"
    /\ worker = "dead"
    /\ Return(c)
    /\ UNCHANGED <<inFlight, sender, chan, worker, job, lost>>

SendFails(c) ==
    /\ at[c] = "send"
    /\ worker = "dead"
    /\ Goto(c, "cleanup")
    /\ UNCHANGED <<inFlight, sender, chan, arg, worker, job, lost>>

\* After the failed send the claim is withdrawn, again under the lock.
Cleanup(c) ==
    /\ at[c] = "cleanup"
    /\ inFlight' = inFlight \ {arg[c]}
    /\ Return(c)
    /\ UNCHANGED <<sender, chan, worker, job, lost>>

-----------------------------------------------------------------------------
(* The gurt-indexer thread: run_worker.                                    *)

\* The thread has built its runtime and awaits recv().
WorkerStarts ==
    /\ worker = "starting"
    /\ worker' = "recv"
    /\ UNCHANGED <<inFlight, sender, chan, at, arg, job, lost>>

\* Mutant: the job is read and left in the channel.
RecvPeeks ==
    /\ worker = "recv"
    /\ chan # <<>>
    /\ job' = Head(chan)
    /\ worker' = "crawl"
    /\ UNCHANGED <<inFlight, sender, chan, at, arg, lost>>

Recv ==
    /\ worker = "recv"
    /\ chan # <<>>
    /\ job' = Head(chan)
    /\ chan' = Tail(chan)
    /\ worker' = "crawl"
    /\ UNCHANGED <<inFlight, sender, at, arg, lost>>

\* Mutants: the domain is not removed from in_flight, the loop ends after one
\* job.
FinishKeepsClaim ==
    /\ worker = "crawl"
    /\ job' = NoDomain /\ worker' = "recv"
    /\ UNCHANGED <<inFlight, sender, chan, at, arg, lost>>
FinishOnce ==
    /\ worker = "crawl"
    /\ inFlight' = inFlight \ {job} /\ job' = NoDomain /\ worker' = "none"
    /\ UNCHANGED <<sender, chan, at, arg, lost>>

\* process_domain has returned, with Ok or with an error that is only logged.
Finish ==
    /\ worker = "crawl"
    /\ inFlight' = inFlight \ {job}
    /\ job' = NoDomain
    /\ worker' = "recv"
    /\ UNCHANGED <<sender, chan, at, arg, lost>>

Waiting == {chan[i] : i \in DOMAIN chan}

\* The thread unwinds: the receiver and the jobs in the channel are dropped,
\* and nothing takes their domains out of in_flight.
WorkerPanics ==
    /\ MayPanic
    /\ worker \in {"starting", "crawl"}
    /\ worker' = "dead"
    /\ lost' = lost \cup Waiting \cup ({job} \ {NoDomain})
    /\ job' = NoDomain
    /\ chan' = <<>>
    /\ UNCHANGED <<inFlight, sender, at, arg>>

-----------------------------------------------------------------------------
CallerStep(c) ==
    \/ Coalesce(c) \/ Claim(c)
    \/ ReuseWorker(c) \/ SpawnWorker(c) \/ CallerPanics(c)
    \/ Send(c) \/ SendFails(c) \/ Cleanup(c)

WorkerStep == WorkerStarts \/ Recv \/ Finish

QNext ==
    \/ \E c \in Callers, d \in Domains : Call(c, d)
    \/ \E c \in Callers : CallerStep(c)
    \/ WorkerStep
    \/ WorkerPanics

QSpec == QInit /\ [][QNext]_qvars

\* enqueue never blocks for long (its locks are held for a few statements) and
\* every await in process_domain is bounded by a timeout.
QFairness == WF_qvars(WorkerStep) /\ \A c \in Callers : WF_qvars(CallerStep(c))

QFairSpec == QSpec /\ QFairness

-----------------------------------------------------------------------------
(* Who answers for a domain.                                               *)

Claims(c, d) == at[c] \in {"ensure", "send", "cleanup"} /\ arg[c] = d
Claimed(d) == \E c \in Callers : Claims(c, d)
Queued(d) == \E i \in DOMAIN chan : chan[i] = d

\* A domain is in in_flight exactly while somebody answers for it: a caller
\* between its claim and its send, a job in the channel, the crawl under way,
\* or nobody ever again because a panic dropped it.
InFlightIsHeld ==
    \A d \in Domains :
        d \in inFlight <=> Claimed(d) \/ Queued(d) \/ job = d \/ d \in lost

\* No domain is answered for twice: two callers never both pass the check,
\* the channel never holds a domain twice, and nothing is queued while it is
\* being crawled.  So a domain is never crawled twice at once or in a row for
\* submissions that overlap.
OneHolder ==
    \A d \in Domains :
        /\ \A c, e \in Callers : Claims(c, d) /\ Claims(e, d) => c = e
        /\ \A i, j \in DOMAIN chan : chan[i] = d /\ chan[j] = d => i = j
        /\ Claimed(d) => ~Queued(d) /\ job # d /\ d \notin lost
        /\ Queued(d) => job # d /\ d \notin lost
        /\ job = d => d \notin lost

\* Domains in in_flight that nobody answers for; every later submission of
\* one is refused.
Stuck == {d \in inFlight : ~Claimed(d) /\ ~Queued(d) /\ job # d}

\* A domain gets stuck only at the moment a panic happens.  After the worker's
\* death, in particular, the failed send of every later enqueue gives its
\* domain back.
StuckOnlyByPanic ==
    [][ \/ Stuck' \subseteq Stuck
        \/ worker # "dead" /\ worker' = "dead"
        \/ sender' = "poisoned" ]_qvars

\* A call of enqueue_domain always returns, also after a panic of the worker.
EnqueueReturns == \A c \in Callers : at[c] # "idle" ~> at[c] = "idle"

(* Each domain's slot as the abstract queue sees it.                       *)
SlotOf(d) ==
    IF d \in lost THEN "lost"
    ELSE IF job = d THEN "crawling"
    ELSE IF Queued(d) THEN "queued"
    ELSE IF Claimed(d) THEN "claimed"
    ELSE "free"

slotView == [d \in Domains |-> SlotOf(d)]

Slots == INSTANCE CrawlSlots WITH slot <- slotView

\* The queue implements one crawl slot per domain, and its fair scheduling makes
\* every claimed slot free again unless a panic loses it.
ImplementsSlots == Slots!Spec
ImplementsFairSlots == Slots!FairSpec
=============================================================================
