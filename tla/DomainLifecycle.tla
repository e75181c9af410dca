-------------------------- MODULE DomainLifecycle --------------------------
(***************************************************************************)
(* The life of a submitted domain: the handler of POST /api/sites          *)
(* (router/api.rs) spawns a database upsert and enqueues a crawl; the      *)
(* crawl (indexing/mod.rs process_domain) adds pages to the index, commits *)
(* it and marks the row ready (storage/mod.rs); after a restart the        *)
(* bootstrap task (startup.rs) enqueues the rows still pending.            *)
(*                                                                         *)
(* The crawl queue is IndexingQueue, whose actions these actions extend.   *)
(* The database keeps its rows over a crash and each statement is atomic;  *)
(* the index keeps what was committed if it is on disk.                    *)
(***************************************************************************)
EXTENDS IndexingQueue, FiniteSets

CONSTANTS Boot,            \* the bootstrap task, one of Callers
          Pages, Root,     \* page paths of a domain, and the path "/"
          MaxAttempts,     \* MAX_ATTEMPTS of process_domain
          BootstrapLimit,  \* GURT_BOOTSTRAP_LIMIT
          Durable,         \* GURT_INDEX_DIR is set and usable
          IndexMayFail,    \* whether fetches, adds, commits and reloads may fail
          DbMayFail,       \* whether database statements may fail
          MaxCopies,       \* bound: copies of a document told apart (none, if 0)
          MaxUpserts,      \* bound: upsert tasks outstanding per domain
          MaxCrashes       \* bound: crashes of the process

ASSUME LifecycleAssumption ==
    /\ Boot \in Callers
    /\ Root \in Pages
    /\ MaxAttempts \in Nat \ {0}
    /\ BootstrapLimit \in Nat
    /\ Durable \in BOOLEAN /\ IndexMayFail \in BOOLEAN /\ DbMayFail \in BOOLEAN
    /\ MaxCopies \in Nat
    /\ MaxUpserts \in Nat /\ MaxCrashes \in Nat

VARIABLES rows,       \* domains.status, "absent" when there is no row
          submitted,  \* the rows by submitted_at, oldest first
          upserts,    \* spawned upsert tasks that have not run yet
          boot,       \* where the bootstrap task is
          backlog,    \* the domains it has read and not yet enqueued
          step,       \* where process_domain is
          todo,       \* the pages it has not fetched yet
          tries,      \* attempts made to mark the row
          staged,     \* documents added and not committed, per URL
          committed,  \* documents committed, per URL
          visible,    \* documents searches see, per URL
          leftOut,    \* history: domains whose pending row was passed over
          crashes     \* history: crashes so far

dbvars == <<rows, submitted, upserts>>
bootvars == <<boot, backlog>>
crawlvars == <<step, todo, tries>>
idxvars == <<staged, committed, visible>>
vars == <<qvars, dbvars, bootvars, crawlvars, idxvars, leftOut, crashes>>

Urls == Domains \X Pages
Handlers == Callers \ {Boot}
NoDocs == [u \in Urls |-> 0]
Pending(d) == rows[d] = "pending"
Older(d, e) == \E i, j \in DOMAIN submitted : i < j /\ submitted[i] = d /\ submitted[j] = e

\* Copies of a document are counted up to MaxCopies.
Copies == 0..MaxCopies
Plus(m, n) == IF m + n > MaxCopies THEN MaxCopies ELSE m + n

TypeOK ==
    /\ QTypeOK
    /\ rows \in [Domains -> {"absent", "pending", "ready"}]
    /\ submitted \in Seq(Domains)
    /\ Len(submitted) = Cardinality({d \in Domains : rows[d] # "absent"})
    /\ upserts \in [Domains -> 0..MaxUpserts]
    /\ boot \in {"list", "enqueue", "done"}
    /\ backlog \in SUBSET Domains
    /\ step \in {"none", "pages", "commit", "refresh", "mark", "done"}
    /\ step = "none" <=> job = NoDomain
    /\ todo \in SUBSET Pages
    /\ tries \in 0..MaxAttempts - 1
    /\ staged \in [Urls -> Copies]
    /\ committed \in [Urls -> Copies]
    /\ visible \in [Urls -> Copies]
    /\ leftOut \in SUBSET Domains
    /\ crashes \in 0..MaxCrashes

Init ==
    /\ QInit
    /\ rows = [d \in Domains |-> "absent"]
    /\ submitted = <<>>
    /\ upserts = [d \in Domains |-> 0]
    /\ boot = "list"
    /\ backlog = {}
    /\ step = "none"
    /\ todo = {}
    /\ tries = 0
    /\ staged = NoDocs /\ committed = NoDocs /\ visible = NoDocs
    /\ leftOut = {}
    /\ crashes = 0

-----------------------------------------------------------------------------
(* Submissions.                                                            *)

\* The handler spawns the upsert, then calls enqueue_domain.
Submit(h, d) ==
    /\ upserts[d] < MaxUpserts
    /\ upserts' = [upserts EXCEPT ![d] = @ + 1]
    /\ Call(h, d)
    /\ UNCHANGED <<rows, submitted, bootvars, crawlvars, idxvars, leftOut, crashes>>

\* A call in progress, of a handler or of the bootstrap task, goes on.  A panic
\* in it ends the bootstrap task.
Enqueueing(c) ==
    /\ CallerStep(c)
    /\ IF c = Boot /\ lost' # lost
       THEN boot' = "done" /\ backlog' = {}
       ELSE UNCHANGED bootvars
    /\ leftOut' = (leftOut \ (inFlight' \ inFlight)) \cup (inFlight \ inFlight')
                     \cup (backlog \ backlog')
    /\ UNCHANGED <<dbvars, crawlvars, idxvars, crashes>>

\* Mutant: a conflict sets the status again.
UpsertRowResets(d) ==
    /\ rows' = [rows EXCEPT ![d] = "pending"]
    /\ submitted' = IF rows[d] = "absent" THEN Append(submitted, d) ELSE submitted

\* INSERT ... ON CONFLICT keeps the status of a row that exists.
UpsertRow(d) ==
    IF rows[d] = "absent"
    THEN rows' = [rows EXCEPT ![d] = "pending"] /\ submitted' = Append(submitted, d)
    ELSE UNCHANGED <<rows, submitted>>

\* The spawned task runs; its error, if any, is dropped.
Upsert(d) ==
    /\ upserts[d] > 0
    /\ upserts' = [upserts EXCEPT ![d] = @ - 1]
    /\ \/ UpsertRow(d)
       \/ DbMayFail /\ UNCHANGED <<rows, submitted>>
    /\ UNCHANGED <<qvars, bootvars, crawlvars, idxvars, leftOut, crashes>>

-----------------------------------------------------------------------------
(* The bootstrap task.                                                     *)

\* What list_pending_domains reads: the oldest pending rows, up to the limit.
PendingRows == {d \in Domains : Pending(d)}
Oldest(batch) ==
    /\ \A d \in batch, e \in PendingRows \ batch : Older(d, e)
    /\ \/ batch = PendingRows /\ Cardinality(batch) <= BootstrapLimit
       \/ Cardinality(batch) = BootstrapLimit

\* An error reads as an empty list.
BootList ==
    /\ boot = "list"
    /\ \/ \E batch \in SUBSET PendingRows : Oldest(batch) /\ backlog' = batch
       \/ DbMayFail /\ backlog' = {}
    /\ boot' = "enqueue"
    /\ leftOut' = leftOut \cup (PendingRows \ backlog')
    /\ UNCHANGED <<qvars, dbvars, crawlvars, idxvars, crashes>>

\* The next domain is enqueued, whatever its row says by now.
BootNext ==
    /\ boot = "enqueue"
    /\ \E d \in backlog :
          /\ \A e \in backlog \ {d} : Older(d, e)
          /\ Call(Boot, d)
          /\ backlog' = backlog \ {d}
    /\ UNCHANGED <<boot, dbvars, crawlvars, idxvars, leftOut, crashes>>

BootDone ==
    /\ boot = "enqueue"
    /\ backlog = {}
    /\ at[Boot] = "idle"
    /\ boot' = "done"
    /\ UNCHANGED <<qvars, backlog, dbvars, crawlvars, idxvars, leftOut, crashes>>

-----------------------------------------------------------------------------
(* process_domain.                                                         *)

\* The job is received and its URLs collected: the root, and what the sitemap
\* lists if it could be fetched.
StartCrawl ==
    /\ Recv
    /\ step' = "pages"
    /\ \E S \in SUBSET Pages : todo' = S \cup {Root}
    /\ UNCHANGED <<dbvars, bootvars, tries, idxvars, leftOut, crashes>>

\* index_single_url: the page is added to the index, or skipped or failed,
\* which is only logged.
CrawlPage ==
    /\ step = "pages"
    /\ \E p \in todo :
          /\ todo' = todo \ {p}
          /\ \/ staged' = [staged EXCEPT ![<<job, p>>] = Plus(@, 1)]
             \/ IndexMayFail /\ UNCHANGED staged
    /\ UNCHANGED <<qvars, dbvars, bootvars, step, tries, committed, visible, leftOut, crashes>>

\* Mutant: the row is marked before the commit.
PagesDoneMarksFirst ==
    /\ step = "pages"
    /\ todo = {}
    /\ step' = "mark"
    /\ UNCHANGED <<qvars, dbvars, bootvars, todo, tries, idxvars, leftOut, crashes>>

PagesDone ==
    /\ step = "pages"
    /\ todo = {}
    /\ step' = "commit"
    /\ UNCHANGED <<qvars, dbvars, bootvars, todo, tries, idxvars, leftOut, crashes>>

\* A failed commit is only logged; the writer may keep or drop what it holds.
CommitIndex ==
    /\ step = "commit"
    /\ step' = "refresh"
    /\ \/ /\ committed' = [u \in Urls |-> Plus(committed[u], staged[u])]
          /\ staged' = NoDocs
       \/ /\ IndexMayFail
          /\ staged' \in {staged, NoDocs}
          /\ UNCHANGED committed
    /\ UNCHANGED <<qvars, dbvars, bootvars, todo, tries, visible, leftOut, crashes>>

RefreshIndex ==
    /\ step = "refresh"
    /\ step' = "mark"
    /\ \/ visible' = committed
       \/ IndexMayFail /\ UNCHANGED visible
    /\ UNCHANGED <<qvars, dbvars, bootvars, todo, tries, staged, committed, leftOut, crashes>>

\* Mutant: the UPDATE matches no row.
MarkNothing ==
    /\ step = "mark"
    /\ step' = "done"
    /\ tries' = 0
    /\ UNCHANGED <<qvars, dbvars, bootvars, todo, idxvars, leftOut, crashes>>

\* set_domain_status(ready) is an UPDATE: without a row it changes nothing and
\* succeeds.
MarkReady ==
    /\ step = "mark"
    /\ step' = "done"
    /\ tries' = 0
    /\ rows' = [rows EXCEPT ![job] = IF @ = "absent" THEN @ ELSE "ready"]
    /\ leftOut' = IF rows[job] = "absent" THEN leftOut \cup {job} ELSE leftOut
    /\ UNCHANGED <<qvars, submitted, upserts, bootvars, todo, idxvars, crashes>>

\* Mutant: it is retried for ever.
MarkRetries ==
    /\ step = "mark"
    /\ DbMayFail
    /\ tries' = (tries + 1) % MaxAttempts
    /\ UNCHANGED <<qvars, dbvars, bootvars, step, todo, idxvars, leftOut, crashes>>

\* The statement fails: it is retried until MaxAttempts were made, then given up.
MarkFails ==
    /\ step = "mark"
    /\ DbMayFail
    /\ IF tries + 1 < MaxAttempts
       THEN tries' = tries + 1 /\ UNCHANGED <<step, leftOut>>
       ELSE tries' = 0 /\ step' = "done" /\ leftOut' = leftOut \cup {job}
    /\ UNCHANGED <<qvars, dbvars, bootvars, todo, idxvars, crashes>>

EndCrawl ==
    /\ step = "done"
    /\ Finish
    /\ step' = "none"
    /\ UNCHANGED <<dbvars, bootvars, todo, tries, idxvars, leftOut, crashes>>

StartThread ==
    /\ WorkerStarts
    /\ UNCHANGED <<dbvars, bootvars, crawlvars, idxvars, leftOut, crashes>>

ThreadPanics ==
    /\ WorkerPanics
    /\ step' = "none" /\ todo' = {} /\ tries' = 0
    /\ UNCHANGED <<dbvars, bootvars, idxvars, leftOut, crashes>>

-----------------------------------------------------------------------------
(* The environment.                                                        *)

\* The index reader also reloads by itself some time after a commit.
AutoReload ==
    /\ visible # committed
    /\ visible' = committed
    /\ UNCHANGED <<qvars, dbvars, bootvars, crawlvars, staged, committed, leftOut, crashes>>

\* The process dies and is started again: what was in memory is gone, and the
\* bootstrap task is at b.
Restart(b) ==
    /\ crashes < MaxCrashes
    /\ crashes' = crashes + 1
    /\ inFlight' = {} /\ sender' = "none" /\ chan' = <<>>
    /\ at' = [c \in Callers |-> "idle"] /\ arg' = [c \in Callers |-> NoDomain]
    /\ worker' = "none" /\ job' = NoDomain /\ lost' = {}
    /\ upserts' = [d \in Domains |-> 0]
    /\ boot' = b /\ backlog' = {}
    /\ step' = "none" /\ todo' = {} /\ tries' = 0
    /\ staged' = NoDocs
    /\ committed' = IF Durable THEN committed ELSE NoDocs
    /\ visible' = committed'
    /\ leftOut' = {}
    /\ UNCHANGED <<rows, submitted>>

\* Mutant: bootstrap does not run again.
CrashWithoutBoot == Restart("done")

Crash == Restart("list")

-----------------------------------------------------------------------------
CrawlStep ==
    \/ StartThread \/ StartCrawl \/ CrawlPage \/ PagesDone \/ CommitIndex
    \/ RefreshIndex \/ MarkReady \/ MarkFails \/ EndCrawl

BootStep == BootList \/ BootNext \/ BootDone

Next ==
    \/ \E h \in Handlers, d \in Domains : Submit(h, d)
    \/ \E c \in Callers : Enqueueing(c)
    \/ \E d \in Domains : Upsert(d)
    \/ BootStep
    \/ CrawlStep
    \/ ThreadPanics
    \/ AutoReload
    \/ Crash

Spec == Init /\ [][Next]_vars

\* Tasks and threads that can run are scheduled.  Nothing is assumed of the
\* clients, of crashes and of the reader's own reload.
Fairness ==
    /\ WF_vars(CrawlStep)
    /\ WF_vars(BootStep)
    /\ \A c \in Callers : WF_vars(Enqueueing(c))
    /\ \A d \in Domains : WF_vars(Upsert(d))

FairSpec == Spec /\ Fairness

-----------------------------------------------------------------------------
(* Properties.                                                             *)

\* The crawl of d has yet to reach the statement that marks its row.
Underway(d) ==
    \/ Claimed(d) \/ Queued(d)
    \/ job = d /\ step \in {"pages", "commit", "refresh", "mark"}

\* Somebody will still bring d to the crawler, or is about to try.
Attended(d) ==
    \/ Underway(d)
    \/ \E c \in Callers : at[c] = "called" /\ arg[c] = d
    \/ boot = "list" \/ d \in backlog

\* A pending row is not forgotten: its crawl is under way or will be tried,
\* unless it was passed over in one of these ways: the UPDATE ran before the row
\* existed or failed MaxAttempts times, bootstrap did not read the row (limit or
\* error) or was ended by a panic before its turn, the enqueue found a dead
\* worker, or a panic lost it.
PendingAccounted ==
    \A d \in Domains : Pending(d) => Attended(d) \/ d \in leftOut \/ d \in lost

\* Without failures a ready domain's root page is committed and searchable,
\* also after crashes at any point: the row is marked only after the commit
\* and the refresh.  (Checked with the index on disk.)
ReadyIsSearchable ==
    \A d \in Domains :
        rows[d] = "ready" => committed[<<d, Root>>] > 0 /\ visible[<<d, Root>>] > 0

\* A row that is ready stays ready, and no row disappears: resubmissions,
\* recrawls, failures and crashes never take a domain back.
StatusOnlyAdvances ==
    [][\A d \in Domains :
          /\ rows[d] = "ready" => rows'[d] = "ready"
          /\ rows[d] = "pending" => rows'[d] # "absent"]_vars

\* Where statements may fail, the row of d was passed over in any of the ways
\* that PendingAccounted names: by a statement that failed, but also by the
\* UPDATE before the row, the limit of bootstrap or a dead worker.
GivenUp(d) == DbMayFail /\ d \in leftOut

\* A domain whose row is pending when its crawl is claimed or queued becomes
\* ready: always if no statement can fail, otherwise unless it is given up.
\* (This and AcceptedIsServed speak of the time after the last crash.)
QueuedPendingServed ==
    \A d \in Domains :
        Pending(d) /\ (Claimed(d) \/ Queued(d)) /\ crashes = MaxCrashes
            ~> rows[d] = "ready" \/ GivenUp(d)

\* Every row that is pending while bootstrap has yet to read the table becomes
\* ready in that run or a later one: always if no statement can fail and the limit
\* covers the rows, otherwise unless it is given up.  A further exception is a row
\* inserted behind the UPDATE of a crawl that has not left in_flight yet: bootstrap
\* reads it, and its enqueue is refused.
RestartServesPending ==
    \A d \in Domains :
        Pending(d) /\ boot = "list" /\ ~(job = d /\ step = "done")
            ~> rows[d] = "ready" \/ GivenUp(d)

\* A submission is followed by a crawl of its domain that ends after it, also
\* if it is refused because one is under way.
AcceptedIsServed ==
    \A d \in Domains, h \in Handlers :
        at[h] = "called" /\ arg[h] = d /\ crashes = MaxCrashes
            ~> job = d /\ step = "done"

\* Every crawl ends, whatever fails in it: errors are logged and skipped, and
\* the attempts to mark the row are bounded.
CrawlEnds == \A d \in Domains : job = d ~> job # d

\* What the comment at indexing/mod.rs:133 says, "mark domain as ready in DB
\* reliably with retries": when the crawl of a domain is over and no statement
\* failed, its row does not stay pending.
MarkedReliably ==
    \A d \in Domains : job = d /\ step = "done" ~> rows[d] = "ready"
=============================================================================
