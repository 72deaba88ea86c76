---------------------------- MODULE LockManager ----------------------------
(***************************************************************************)
(* The lock manager (repcrec/lock_manager) and the lock part of a copy     *)
(* (repcrec/variable): who holds a shared or the exclusive lock of each    *)
(* copy, which variables a transaction has locked anywhere, and who waits  *)
(* for whom.                                                               *)
(*                                                                         *)
(* The read path of the program asks try_acquire_write_lock too (see       *)
(* module TransactionManager), so LockStatus is the only lock test there   *)
(* is; try_acquire_read_lock has no caller.                                *)
(***************************************************************************)
EXTENDS SiteManager, WaitForGraph

VARIABLES
  sharedOwners,     \* Variable::shared_lock_owners_
  exclusiveOwner,   \* Variable::exclusive_lock_owner_, None when free
  lockTable,        \* LockManager::lock_table_
  waitForGraph      \* LockManager::wait_for_graph_, {} when no entry

lockVars == <<sharedOwners, exclusiveOwner, lockTable, waitForGraph>>

LockTypeOK ==
  /\ sharedOwners \in [Site -> [Var -> SUBSET Tran]]
  /\ exclusiveOwner \in [Site -> [Var -> Tran \cup {None}]]
  /\ lockTable \in [Tran -> SUBSET Var]
  /\ waitForGraph \in [Tran -> SUBSET Tran]

LockInit ==
  /\ sharedOwners = [s \in Site |-> [x \in Var |-> {}]]
  /\ exclusiveOwner = [s \in Site |-> [x \in Var |-> None]]
  /\ lockTable = [t \in Tran |-> {}]
  /\ waitForGraph = [t \in Tran |-> {}]

-----------------------------------------------------------------------------
(* The predicates of Variable. *)

HasSharedLock(s, x, t) == t \in sharedOwners[s][x]

HasExclusiveLock(s, x, t) == exclusiveOwner[s][x] = t

\* True only when t itself holds no shared lock on the copy.
HasSharedLockExcludeSelf(s, x, t) ==
  sharedOwners[s][x] # {} /\ t \notin sharedOwners[s][x]

HasExclusiveLockExcludeSelf(s, x, t) ==
  exclusiveOwner[s][x] # None /\ exclusiveOwner[s][x] # t

-----------------------------------------------------------------------------
(* The wait-for graph. *)

IsWaitingForLock(t) == waitForGraph[t] # {}

\* Despite the name the code gives it: some other transaction waits for t.
IsWaitingForOthers(t) == \E u \in Tran \ {t} : t \in waitForGraph[u]

\* detect_deadlock; module DeadlockDetector has its search.
DetectDeadlock == HasCycle(waitForGraph)

-----------------------------------------------------------------------------
(* try_acquire_write_lock.  The code scans the up copies of x by site id   *)
(* and stops at the first copy that forces the answer.                     *)

\* Faulty variant: whether t holds the shared lock itself is not asked.
CanPromoteUnheld(s, x, t) ==
  /\ ~HasSharedLockExcludeSelf(s, x, t)
  /\ IsOdd(x) \/ ~HasExclusiveLockExcludeSelf(s, x, t)
  /\ ~IsWaitingForOthers(t)

\* t holds the shared lock of the copy alone and nobody waits for t.  The
\* branch for odd variables tests the other sharers twice where the branch
\* for even variables tests the exclusive owner.
CanPromote(s, x, t) ==
  /\ HasSharedLock(s, x, t)
  /\ ~HasSharedLockExcludeSelf(s, x, t)
  /\ IsOdd(x) \/ ~HasExclusiveLockExcludeSelf(s, x, t)
  /\ ~IsWaitingForOthers(t)

\* Faulty variant: a shared lock of another transaction is no conflict.
MustWaitIgnoresShared(s, x, t) ==
  /\ ~CanPromote(s, x, t)
  /\ HasExclusiveLockExcludeSelf(s, x, t) \/ HasSharedLock(s, x, t)

\* Faulty variant: the exclusive lock of another transaction is no conflict.
MustWaitIgnoresExclusive(s, x, t) ==
  /\ ~CanPromote(s, x, t)
  /\ HasSharedLockExcludeSelf(s, x, t) \/ HasSharedLock(s, x, t)

\* The copy is locked in a way that t has to wait for.
MustWait(s, x, t) ==
  /\ ~CanPromote(s, x, t)
  /\ \/ HasExclusiveLockExcludeSelf(s, x, t)
     \/ HasSharedLockExcludeSelf(s, x, t)
     \/ HasSharedLock(s, x, t)

\* Copies at which the scan stops, and the first of them.
StopCopies(t, x) ==
  {s \in UpCopies(x) :
     \/ MustWait(s, x, t)
     \/ ~CanPromote(s, x, t) /\ HasExclusiveLock(s, x, t)}

FirstStop(t, x) ==
  CHOOSE s \in StopCopies(t, x) : \A u \in StopCopies(t, x) : s <= u

\* LockStatus::status.  LockStatus::site_id_set is UpCopies(x) for the two
\* granting answers and empty for the others.
LockStatus(t, x) ==
  IF StopCopies(t, x) # {}
  THEN IF MustWait(FirstStop(t, x), x, t)
       THEN "NEED_TO_WAIT" ELSE "HAS_WRITE_LOCK"
  ELSE IF IsOdd(x) /\ UpCopies(x) = {} THEN "SITE_UNAVAILABLE"
  ELSE IF \E s \in UpCopies(x) : CanPromote(s, x, t) THEN "HAS_READ_LOCK"
  ELSE "AVAILABLE_TO_ASSIGN"

\* LockStatus::owner_id_set, filled when the answer is NEED_TO_WAIT.
OwnersAt(s, x, t) ==
  (IF HasExclusiveLockExcludeSelf(s, x, t) THEN {exclusiveOwner[s][x]} ELSE {})
  \cup (IF HasSharedLockExcludeSelf(s, x, t) THEN sharedOwners[s][x] ELSE {})
  \cup (IF HasSharedLock(s, x, t) THEN {t} ELSE {})

LockOwners(t, x) == OwnersAt(FirstStop(t, x), x, t)

-----------------------------------------------------------------------------
(* Assigning and releasing. *)

\* Faulty variant: the copy must be free before the shared lock is dropped,
\* so that a promoted transaction ends up with no lock.
AssignWriteLockLosesPromotion(t, x) ==
  LET granted == UpCopies(x) IN
  /\ sharedOwners' = [s \in Site |-> [y \in Var |->
       IF y = x /\ s \in granted
       THEN sharedOwners[s][y] \ {t} ELSE sharedOwners[s][y]]]
  /\ exclusiveOwner' = [s \in Site |-> [y \in Var |->
       IF y = x /\ s \in granted /\ exclusiveOwner[s][y] = None
                /\ sharedOwners[s][y] = {}
       THEN t ELSE exclusiveOwner[s][y]]]
  /\ lockTable' = [lockTable EXCEPT
       ![t] = IF granted = {} THEN @ ELSE @ \cup {x}]
  /\ UNCHANGED waitForGraph

\* assign_write_lock: the shared lock of t is replaced by the exclusive one;
\* Variable::set_exclusive_transaction keeps an owner that is already there.
AssignWriteLock(t, x) ==
  LET granted == UpCopies(x) IN
  /\ sharedOwners' = [s \in Site |-> [y \in Var |->
       IF y = x /\ s \in granted
       THEN sharedOwners[s][y] \ {t} ELSE sharedOwners[s][y]]]
  /\ exclusiveOwner' = [s \in Site |-> [y \in Var |->
       IF y = x /\ s \in granted /\ exclusiveOwner[s][y] = None
       THEN t ELSE exclusiveOwner[s][y]]]
  /\ lockTable' = [lockTable EXCEPT
       ![t] = IF granted = {} THEN @ ELSE @ \cup {x}]
  /\ UNCHANGED waitForGraph

\* Faulty variant: the lock table does not learn of the shared lock.
AssignShareLockUnrecorded(t, x) ==
  /\ sharedOwners' = [s \in Site |-> [y \in Var |->
       IF y = x /\ s \in UpCopies(x) /\ readAvailable[s][x]
       THEN sharedOwners[s][y] \cup {t} ELSE sharedOwners[s][y]]]
  /\ UNCHANGED <<exclusiveOwner, lockTable, waitForGraph>>

\* Faulty variant: one of the copies that can be read is locked.
AssignShareLockOnce(t, x) ==
  LET granted == {s \in UpCopies(x) : readAvailable[s][x]} IN
  /\ sharedOwners' = [s \in Site |-> [y \in Var |->
       IF y = x /\ s \in granted /\ \A u \in granted : s <= u
       THEN sharedOwners[s][y] \cup {t} ELSE sharedOwners[s][y]]]
  /\ lockTable' = [lockTable EXCEPT
       ![t] = IF granted = {} THEN @ ELSE @ \cup {x}]
  /\ UNCHANGED <<exclusiveOwner, waitForGraph>>

\* assign_share_lock: only the copies that can be read are locked.
AssignShareLock(t, x) ==
  LET granted == {s \in UpCopies(x) : readAvailable[s][x]} IN
  /\ sharedOwners' = [s \in Site |-> [y \in Var |->
       IF y = x /\ s \in granted
       THEN sharedOwners[s][y] \cup {t} ELSE sharedOwners[s][y]]]
  /\ lockTable' = [lockTable EXCEPT
       ![t] = IF granted = {} THEN @ ELSE @ \cup {x}]
  /\ UNCHANGED <<exclusiveOwner, waitForGraph>>

\* assign_wait_for_graph with the owners try_acquire_write_lock reported.
AssignWaitForGraph(t, x) ==
  /\ waitForGraph' = [waitForGraph EXCEPT ![t] = @ \cup LockOwners(t, x)]
  /\ UNCHANGED <<sharedOwners, exclusiveOwner, lockTable>>

\* Faulty variant: the released transaction keeps its own edges.
WaitForGraphKeepsOwn(T) ==
  [t \in Tran |-> IF \E u \in T : waitForGraph[t] \subseteq {u}
                  THEN {} ELSE waitForGraph[t]]

\* Faulty variant: the edges to the released transaction stay.
WaitForGraphKeepsOthers(T) ==
  [t \in Tran |-> IF t \in T THEN {} ELSE waitForGraph[t]]

\* The wait-for graph after release_locks of each transaction of T.  The
\* code erases the released id from a COPY of every edge set, so an edge
\* set is only ever dropped as a whole: when it held nothing but the
\* released id.
WaitForGraphWithout(T) ==
  [t \in Tran |-> IF t \in T \/ \E u \in T : waitForGraph[t] \subseteq {u}
                  THEN {} ELSE waitForGraph[t]]

\* release_locks for each transaction of T.
ReleaseLocks(T) ==
  LET Releases(t, s, x) == t \in T /\ x \in lockTable[t] /\ s \in CopySites(x)
  IN
  /\ sharedOwners' = [s \in Site |-> [x \in Var |->
       {t \in sharedOwners[s][x] : ~Releases(t, s, x)}]]
  /\ exclusiveOwner' = [s \in Site |-> [x \in Var |->
       IF \E t \in T : Releases(t, s, x) /\ exclusiveOwner[s][x] = t
       THEN None ELSE exclusiveOwner[s][x]]]
  /\ lockTable' = [t \in Tran |-> IF t \in T THEN {} ELSE lockTable[t]]
  /\ waitForGraph' = WaitForGraphWithout(T)
=============================================================================
