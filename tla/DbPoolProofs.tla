---------------------------- MODULE DbPoolProofs ----------------------------
(***************************************************************************)
(* Theorems about DbPool for every set of callers and number of attempts.  *)
(***************************************************************************)
EXTENDS DbPool, TLAPS

(***************************************************************************)
(* The inductive invariant.  OkMeansReady holds because whoever is past    *)
(* the pool's cell has seen it filled, and the cell is never emptied.  Who *)
(* connects on behalf of the cell holds its lock; init() connects without  *)
(* it, which is why main() must not be both at once.                       *)
(***************************************************************************)
CellIsLocked ==
    /\ \A c \in Callers : at[c] = "connect" /\ ~InInit(c) <=> connecting = c
    /\ connecting # None => pool = None

PastTheCell ==
    \A c \in Callers : at[c] \in {"migrate", "migrating"} => pool # None /\ MigrateOnStart

MainInOrder ==
    /\ phase = "init" => at[Main] # "wait"
    /\ \A c \in Callers : at[c] = "store" => InInit(c)

OneMigration == migrating # None => migrations = 0

IInv ==
    /\ TypeOK /\ CellIsLocked /\ PastTheCell /\ MainInOrder
    /\ OneMigration /\ OkMeansReady /\ MigratesOnce

LEMMA InitIInv == Init => IInv
BY DbAssumption DEF Init, IInv, TypeOK, CellIsLocked, PastTheCell, MainInOrder, OneMigration,
   OkMeansReady, MigratesOnce, InInit, Callers

LEMMA NextIInv == IInv /\ [Next]_vars => IInv'
<1> SUFFICES ASSUME IInv, [Next]_vars
             PROVE  IInv'
    OBVIOUS
<1> USE DbAssumption DEF IInv, TypeOK, CellIsLocked, PastTheCell, MainInOrder, OneMigration,
        OkMeansReady, MigratesOnce, InInit, Callers, Goto, config
<1>1. CASE StartInit
    BY <1>1 DEF StartInit
<1>2. ASSUME NEW c \in Callers, StartGet(c)
      PROVE  IInv'
    BY <1>2 DEF StartGet
<1>3. ASSUME NEW c \in Callers, UsePool(c)
      PROVE  IInv'
    BY <1>3 DEF UsePool, AfterPool, Succeed
<1>4. ASSUME NEW c \in Callers, BeginConnect(c)
      PROVE  IInv'
    BY <1>4 DEF BeginConnect
<1>5. ASSUME NEW c \in Callers, Connect(c)
      PROVE  IInv'
    BY <1>5 DEF Connect, AfterPool, Succeed
<1>6. ASSUME NEW c \in Callers, ConnectFails(c)
      PROVE  IInv'
    BY <1>6 DEF ConnectFails
<1>7. ASSUME NEW c \in Callers, GiveUp(c)
      PROVE  IInv'
    BY <1>7 DEF GiveUp, Succeed, Err
<1>8. CASE StorePool
    BY <1>8 DEF StorePool, CanSet, AfterPool, Succeed
<1>9. ASSUME NEW c \in Callers, AlreadyMigrated(c)
      PROVE  IInv'
    BY <1>9 DEF AlreadyMigrated, Succeed
<1>10. ASSUME NEW c \in Callers, BeginMigrate(c)
       PROVE  IInv'
    BY <1>10 DEF BeginMigrate
<1>11. ASSUME NEW c \in Callers, Migrate(c)
       PROVE  IInv'
    BY <1>11 DEF Migrate, Succeed, Err
<1>12. CASE GoDown
    <2>1. outages \in 0..MaxOutages /\ outages < MaxOutages /\ outages' = outages + 1
        BY <1>12 DEF GoDown
    <2>2. outages' \in 0..MaxOutages
        BY ONLY <2>1, DbAssumption
    <2>. QED  BY <1>12, <2>2 DEF GoDown
<1>13. CASE ComeUp
    BY <1>13 DEF ComeUp
<1>14. CASE UNCHANGED vars
    BY <1>14 DEF vars
<1>. QED
    BY <1>1, <1>2, <1>3, <1>4, <1>5, <1>6, <1>7, <1>8, <1>9, <1>10, <1>11, <1>12, <1>13, <1>14
    DEF Next, CallStep

\* The variables keep their types; in particular no attempt is made beyond
\* MaxAttempts.
THEOREM PoolTypes == Spec => []TypeOK
<1>1. IInv => TypeOK
    BY DEF IInv
<1>. QED  BY InitIInv, NextIInv, <1>1, PTL DEF Spec

\* Whoever got Ok from get_pool() has a pool and, if enabled, migrated tables,
\* for any number of callers and any failures of the database.
THEOREM OkIsReady == Spec => []OkMeansReady
<1>1. IInv => OkMeansReady
    BY DEF IInv
<1>. QED  BY InitIInv, NextIInv, <1>1, PTL DEF Spec

\* The migrations run to their end at most once, and one at a time.
THEOREM MigrationsRunOnce == Spec => []MigratesOnce
<1>1. IInv => MigratesOnce
    BY DEF IInv
<1>. QED  BY InitIInv, NextIInv, <1>1, PTL DEF Spec

\* The cell of the pool is written once: no race of init() with a get_pool()
\* replaces the pool others have.
THEOREM PoolStays == Spec => PoolIsForGood
<1>1. ASSUME IInv, [Next]_vars
      PROVE  [pool # None => pool' = pool]_vars
    <2>1. ASSUME NEW c \in Callers, Connect(c), pool # None
          PROVE  pool' = pool
        BY <1>1, <2>1, DbAssumption DEF IInv, CellIsLocked, Connect, InInit, Callers
    <2>2. ASSUME StorePool, pool # None
          PROVE  pool' = pool
        BY <2>2 DEF StorePool, CanSet
    <2>3. CASE UNCHANGED vars
        BY <2>3 DEF vars
    <2>. QED
        BY <1>1, <2>1, <2>2, <2>3
        DEF Next, CallStep, StartInit, StartGet, UsePool, BeginConnect, ConnectFails, GiveUp,
            AlreadyMigrated, BeginMigrate, Migrate, GoDown, ComeUp
<1>. QED  BY <1>1, InitIInv, NextIInv, PTL DEF Spec, PoolIsForGood
=============================================================================
