------------------------------- MODULE DbPool -------------------------------
(***************************************************************************)
(* gurt-db (gurt-db/src/lib.rs): the connection pool is kept in a OnceCell *)
(* and connected with bounded retries by init() or by the first get_pool();*)
(* migrations run once behind another OnceCell.  The server's main() calls *)
(* init() and then get_pool(), and exits if either fails; Users are other  *)
(* tasks that call get_pool(), which the crate allows at any time.         *)
(***************************************************************************)
EXTENDS Naturals

CONSTANTS Main, Users,
          MaxAttempts,  \* retry_max_attempts.max(1)
          None,
          MaxOutages    \* bound: times the database goes down

ASSUME DbAssumption ==
    /\ Main \notin Users /\ None \notin Users \cup {Main}
    /\ MaxAttempts \in Nat \ {0} /\ MaxOutages \in Nat

Callers == Users \cup {Main}

VARIABLES EagerInit, MigrateOnStart,  \* DbConfig, which never changes
          up, outages,  \* whether the database is up, and how often it went down
          phase,        \* where main() is
          at,           \* where each caller is in its call
          attempts,     \* failed attempts to connect in this call
          pool,         \* the cell of the pool: who connected it
          connecting,   \* the caller that initialises that cell
          migrations,   \* successful runs of the migrations
          migrating,    \* the caller that runs them
          ok            \* history: callers whose last get_pool() succeeded

config == <<EagerInit, MigrateOnStart>>
vars == <<config, up, outages, phase, at, attempts, pool, connecting, migrations, migrating, ok>>

TypeOK ==
    /\ EagerInit \in BOOLEAN /\ MigrateOnStart \in BOOLEAN
    /\ up \in BOOLEAN /\ outages \in 0..MaxOutages
    /\ phase \in {"init", "get", "serving", "exited"}
    /\ at \in [Callers -> {"idle", "wait", "connect", "store", "migrate", "migrating"}]
    /\ attempts \in [Callers -> 0..MaxAttempts - 1]
    /\ pool \in Callers \cup {None}
    /\ connecting \in Callers \cup {None}
    /\ migrations \in Nat
    /\ migrating \in Callers \cup {None}
    /\ ok \in SUBSET Callers
    /\ \A c \in Callers : at[c] = "migrating" <=> migrating = c
    /\ connecting # None => at[connecting] = "connect" /\ pool = None

Init ==
    /\ EagerInit \in BOOLEAN /\ MigrateOnStart \in BOOLEAN
    /\ up \in BOOLEAN /\ outages = 0
    /\ phase = "init"
    /\ at = [c \in Callers |-> "idle"]
    /\ attempts = [c \in Callers |-> 0]
    /\ pool = None /\ connecting = None
    /\ migrations = 0 /\ migrating = None
    /\ ok = {}

Goto(c, step) == at' = [at EXCEPT ![c] = step]
InInit(c) == c = Main /\ phase = "init"

\* A call returns; main() goes on after a success and exits after an error.
Succeed(c) ==
    /\ Goto(c, "idle")
    /\ ok' = IF InInit(c) THEN ok ELSE ok \cup {c}
    /\ phase' = IF c # Main THEN phase ELSE IF phase = "init" THEN "get" ELSE "serving"
Err(c) ==
    /\ Goto(c, "idle")
    /\ ok' = ok \ {c}
    /\ phase' = IF c = Main THEN "exited" ELSE phase

\* The pool is there: the migrations are next, if they are enabled.
AfterPool(c) == IF MigrateOnStart THEN Goto(c, "migrate") /\ UNCHANGED <<phase, ok>> ELSE Succeed(c)

-----------------------------------------------------------------------------
StartInit ==
    /\ phase = "init" /\ at[Main] = "idle"
    /\ Goto(Main, "connect")
    /\ UNCHANGED <<config, up, outages, phase, attempts, pool, connecting, migrations, migrating, ok>>

StartGet(c) ==
    /\ at[c] = "idle"
    /\ IF c = Main THEN phase = "get" ELSE phase # "exited"
    /\ Goto(c, "wait")
    /\ UNCHANGED <<config, up, outages, phase, attempts, pool, connecting, migrations, migrating, ok>>

\* get_or_try_init: the pool is used if it is there, and else connected by one
\* caller at a time.
UsePool(c) ==
    /\ at[c] = "wait"
    /\ pool # None
    /\ AfterPool(c)
    /\ UNCHANGED <<config, up, outages, attempts, pool, connecting, migrations, migrating>>

BeginConnect(c) ==
    /\ at[c] = "wait"
    /\ pool = None /\ connecting = None
    /\ connecting' = c
    /\ Goto(c, "connect")
    /\ UNCHANGED <<config, up, outages, phase, attempts, pool, migrations, migrating, ok>>

\* try_connect_with_retry: init() has the pool in hand, get_pool() in the cell.
Connect(c) ==
    /\ at[c] = "connect"
    /\ up
    /\ attempts' = [attempts EXCEPT ![c] = 0]
    /\ IF InInit(c)
       THEN Goto(c, "store") /\ UNCHANGED <<phase, pool, connecting, ok>>
       ELSE pool' = c /\ connecting' = None /\ AfterPool(c)
    /\ UNCHANGED <<config, up, outages, migrations, migrating>>

\* Mutant: the attempts are not counted.
ConnectFailsAgain(c) ==
    /\ at[c] = "connect"
    /\ ~up
    /\ attempts' = [attempts EXCEPT ![c] = (@ + 1) % MaxAttempts]
    /\ UNCHANGED <<config, up, outages, phase, at, pool, connecting, migrations, migrating, ok>>

\* An attempt fails and another follows after the backoff ...
ConnectFails(c) ==
    /\ at[c] = "connect"
    /\ ~up
    /\ attempts[c] + 1 < MaxAttempts
    /\ attempts' = [attempts EXCEPT ![c] = @ + 1]
    /\ UNCHANGED <<config, up, outages, phase, at, pool, connecting, migrations, migrating, ok>>

\* ... or it was the last.  In lazy mode init() only logs that.
GiveUp(c) ==
    /\ at[c] = "connect"
    /\ ~up
    /\ attempts[c] + 1 >= MaxAttempts
    /\ attempts' = [attempts EXCEPT ![c] = 0]
    /\ connecting' = IF connecting = c THEN None ELSE connecting
    /\ IF InInit(c) /\ ~EagerInit THEN Succeed(c) ELSE Err(c)
    /\ UNCHANGED <<config, up, outages, pool, migrations, migrating>>

\* Mutant: the cell is overwritten.
CanAlwaysSet == TRUE
\* init() sets the cell: in vain if it is set or another caller initialises it.
CanSet == pool = None /\ connecting = None

StorePool ==
    /\ at[Main] = "store"
    /\ pool' = IF CanSet THEN Main ELSE pool
    /\ IF pool' # None THEN AfterPool(Main) ELSE Succeed(Main)
    /\ UNCHANGED <<config, up, outages, attempts, connecting, migrations, migrating>>

\* ensure_migrated: get_or_try_init again.
AlreadyMigrated(c) ==
    /\ at[c] = "migrate"
    /\ migrations > 0
    /\ Succeed(c)
    /\ UNCHANGED <<config, up, outages, attempts, pool, connecting, migrations, migrating>>

\* Mutant: the check is made before the lock is waited for.
BeginMigrateUnlocked(c) ==
    /\ at[c] = "migrate"
    /\ migrating = None
    /\ migrating' = c
    /\ Goto(c, "migrating")
    /\ UNCHANGED <<config, up, outages, phase, attempts, pool, connecting, migrations, ok>>

BeginMigrate(c) ==
    /\ at[c] = "migrate"
    /\ migrations = 0 /\ migrating = None
    /\ migrating' = c
    /\ Goto(c, "migrating")
    /\ UNCHANGED <<config, up, outages, phase, attempts, pool, connecting, migrations, ok>>

\* Mutant: a failed migration is only logged.
MigrateLenient(c) ==
    /\ at[c] = "migrating"
    /\ migrating' = None
    /\ migrations' \in IF up THEN {migrations, migrations + 1} ELSE {migrations}
    /\ Succeed(c)
    /\ UNCHANGED <<config, up, outages, attempts, pool, connecting>>

Migrate(c) ==
    /\ at[c] = "migrating"
    /\ migrating' = None
    /\ \/ up /\ migrations' = migrations + 1 /\ Succeed(c)
       \/ Err(c) /\ UNCHANGED migrations
    /\ UNCHANGED <<config, up, outages, attempts, pool, connecting>>

GoDown ==
    /\ up /\ outages < MaxOutages
    /\ up' = FALSE /\ outages' = outages + 1
    /\ UNCHANGED <<config, phase, at, attempts, pool, connecting, migrations, migrating, ok>>

ComeUp ==
    /\ ~up
    /\ up' = TRUE
    /\ UNCHANGED <<config, outages, phase, at, attempts, pool, connecting, migrations, migrating, ok>>

CallStep(c) ==
    \/ UsePool(c) \/ BeginConnect(c) \/ Connect(c) \/ ConnectFails(c) \/ GiveUp(c)
    \/ (c = Main /\ StorePool)
    \/ AlreadyMigrated(c) \/ BeginMigrate(c) \/ Migrate(c)

\* The process is gone once main() has returned an error.
Next ==
    /\ phase # "exited"
    /\ \/ StartInit \/ GoDown \/ ComeUp
       \/ \E c \in Callers : StartGet(c) \/ CallStep(c)

Spec == Init /\ [][Next]_vars

\* Tokio's semaphore behind a OnceCell serves its waiters in order.
FairSpec ==
    /\ Spec
    /\ WF_vars(StartInit) /\ WF_vars(StartGet(Main))
    /\ \A c \in Callers : SF_vars(phase # "exited" /\ CallStep(c))

-----------------------------------------------------------------------------
\* Whoever got Ok from get_pool() has a pool, and migrated tables if migrations
\* are enabled, whatever failed before and whoever connected or migrated.
OkMeansReady == \A c \in ok : pool # None /\ (MigrateOnStart => migrations > 0)

\* The migrations never run twice to the end, nor two at a time.
MigratesOnce ==
    /\ migrations <= 1
    /\ migrations = 1 => migrating = None

\* Everyone shares one pool for good.
PoolIsForGood == [][pool # None => pool' = pool]_vars

\* Start-up is decided: retries are bounded, so main() serves or exits.
StartupDecides == <>(phase \in {"serving", "exited"})

\* What .env.example says (.env.example:20) of DB_EAGER_INIT: "When false,
\* start-up proceeds and the first get_pool() will retry lazily."  The server
\* is not ended by an unreachable database.
StartupProceeds == ~EagerInit /\ ~MigrateOnStart => phase # "exited"
=============================================================================
