----------------------------- MODULE Properties -----------------------------
(***************************************************************************)
(* What the runs check of the whole program: module RepCRec.               *)
(***************************************************************************)
EXTENDS RepCRec

\* The transactions that hold a lock on the copy of x at s.
Holders(s, x) ==
  sharedOwners[s][x] \cup (IF exclusiveOwner[s][x] = None THEN {}
                           ELSE {exclusiveOwner[s][x]})

(* Two transactions never hold locks on the same copy, whatever mix of     *)
(* reads, promotions, failures and retries got them there: the program     *)
(* answers every lock question with try_acquire_write_lock.                *)
LockExclusion ==
  \A s \in Site, x \in Var : \A t, u \in Holders(s, x) : t = u

(* At most one transaction holds exclusive locks on the copies of a        *)
(* variable, even when they were granted at different times with different *)
(* sites up: two writers of a replicated variable never both succeed.      *)
OneWriter ==
  \A x \in Var, s1, s2 \in Site :
    exclusiveOwner[s1][x] # None /\ exclusiveOwner[s2][x] # None
      => exclusiveOwner[s1][x] = exclusiveOwner[s2][x]

(* A pending write is covered: its transaction still runs, holds the       *)
(* exclusive lock of that copy and the site is up.  So the first check of  *)
(* Transaction::commit can never fail, and FailRequest aborts in time.     *)
PendingWritesCovered ==
  \A t \in Tran, s \in Site, x \in Var :
    writeRecords[t][s][x] # None
      => /\ t \in Transactions
         /\ exclusiveOwner[s][x] = t
         /\ writeAvailable[s]

(* No lock outlives its transaction: every holder still runs and has the   *)
(* variable in lock_table_, where release_locks will find it.              *)
NoOrphanLocks ==
  \A s \in Site, x \in Var : \A t \in Holders(s, x) :
    t \in Transactions /\ x \in lockTable[t] /\ s \in CopySites(x)

(* Only running transactions wait for locks, so whenever detect_deadlock   *)
(* finds a cycle there is a transaction for *transactions_set_.begin().    *)
WaitersRun ==
  /\ \A t \in Tran : waitForGraph[t] # {} => t \in Transactions
  /\ DetectDeadlock => Transactions # {}

(* The blocked queue holds requests of running transactions only (except   *)
(* for entries already retried in the walk going on), so get_transaction,  *)
(* which throws for an unknown id, is safe in the retry loop.              *)
RetriesRun ==
  /\ \A t \in Tran : blockedQueue[t] # {} => t \in Transactions \cup finishedSet
  /\ \A r \in retryQueue : r.tran \in Transactions

(* A readable copy of a variable holds the value committed last, across    *)
(* failures, recoveries and commits that missed some sites.                *)
ReadableCopiesCurrent ==
  \A x \in Var : \A s \in CopySites(x) :
    readAvailable[s][x] => value[s][x] = lastCommitted[x]

(* A copy at any site, readable or not, is stale for one reason only: the  *)
(* last commit of its variable missed it, and reached another copy.  This  *)
(* is what handle_read_request prints from a site that has just recovered; *)
(* a commit whose end was executed late, with an old stamp, still leaves   *)
(* its value and not that of a newer version in the copies it reaches.     *)
StaleCopiesMissedCommit ==
  \A x \in Var : \A s \in CopySites(x) :
    value[s][x] # lastCommitted[x] =>
      \E u \in CopySites(x) : \E v \in versions[u][x] \ versions[s][x] :
        v.val = lastCommitted[x]

(* The process dies for two reasons only: a transaction reads a variable   *)
(* that it has locked already, which throws "error status!", or a queued   *)
(* end fails to commit in the retry walk and erases the entry under the    *)
(* iterator.  No other order of requests, aborts and retries throws from   *)
(* get_transaction or dereferences an empty transactions_set_.             *)
CrashesExplained ==
  /\ pc = "thrown" =>
       \E r \in ({request} \ {None}) \cup retryQueue :
         r.type = "READ" /\ \E s \in Site : r.tran \in Holders(s, r.var)
  /\ pc = "undefined" =>
       \E t \in finishedSet \cap ended : status[t] = "aborted"

(* A site that is down serves no read, and an odd variable can be read     *)
(* whenever its home site is up: recovery restores exactly those.          *)
ReadabilityFollowsSites ==
  \A x \in Var : \A s \in CopySites(x) :
    /\ readAvailable[s][x] => writeAvailable[s]
    /\ IsOdd(x) /\ writeAvailable[s] => readAvailable[s][x]

\* A transaction that runs before and after the step keeps its locks.
KeepsLocks ==
  \A t \in Transactions \cap Transactions', s \in Site, x \in Var :
    /\ t \in Holders(s, x) => t \in Holders(s, x)'
    /\ exclusiveOwner[s][x] = t => exclusiveOwner'[s][x] = t

(* Strict two-phase locking: as long as a transaction runs it keeps every  *)
(* lock it holds; a shared lock may only turn into the exclusive one.      *)
StrictTwoPhase == [][KeepsLocks]_vars

\* The request the step executes, if it executes one.
Executing == IF pc = "retry" THEN Earliest(retryQueue) ELSE request

\* The step commits t.
Commits(t) == t \in Transactions /\ status'[t] = "committed"

\* The transactions the step aborts.
Aborted == {t \in Transactions : status'[t] = "aborted"}

\* What may end running transactions, other than a commit: there is a deadlock
\* and the youngest of all goes; the site fails that they have written to; an
\* end finds that it cannot trust what its transaction has read; a read-only
\* transaction finds nothing to read.
AbortsHaveCause ==
  Aborted # {} =>
    \/ pc = "execute" /\ DetectDeadlock /\ \E t \in Youngest : Aborted = {t}
    \/ /\ Executing.type = "FAIL" /\ writeAvailable[Executing.site]
       /\ \A t \in Aborted : IsWrittenIntoSite(t, Executing.site)
    \/ /\ Executing.type = "END" /\ Aborted = {Executing.tran}
       /\ \E s \in Site, x \in Var :
            readRecords[Executing.tran][s][x] # None /\ ~readAvailable[s][x]
    \/ /\ Executing.type = "READ" /\ Aborted = {Executing.tran}
       /\ isReadOnly[Executing.tran] /\ NoReadableCopy(Executing.var)

(* No transaction is aborted without one of these causes.  In particular   *)
(* an end never fails for a site its transaction has written to: whoever   *)
(* has written there was aborted when the site failed.  The victim of a    *)
(* deadlock is the youngest of all that run, not of those on the cycle: it *)
(* may be a transaction that waits for nobody, or that nobody waits for.   *)
AbortsExplained == [][AbortsHaveCause]_vars

\* The end of t is to be executed, now or in a walk of the blocked queue.
EndPending(t) ==
  \/ pc = "execute" /\ request # None /\ request.type = "END" /\ request.tran = t
  \/ \E r \in retryQueue : r.type = "END" /\ r.tran = t
  \/ t \notin finishedSet /\ \E r \in blockedQueue[t] : r.type = "END"

(* A transaction runs on after its end line only as long as its end waits  *)
(* to be executed: whatever the walk of the blocked queue executes, skips  *)
(* and erases, it never loses an end.                                      *)
EndsPending == \A t \in Transactions \cap ended : EndPending(t)

\* Nobody whose end line was read still runs when the dump is requested.
DumpsLast == phase # "dumped" /\ phase' = "dumped" => Transactions \cap ended = {}

(* main.cpp: "Skip dump and execute it after finishing all instructions."  *)
(* When the drain loop lets the dump through, every end has been executed. *)
DumpAfterEnds == [][DumpsLast]_vars

(* Until a fail or recover line is read, all copies of a variable have the *)
(* same versions: every commit reaches every copy of what it has written,  *)
(* even if its writes were granted at different times.                     *)
CopiesAlike ==
  faultCount = 0 =>
    \A x \in Var : \A s1, s2 \in CopySites(x) : versions[s1][x] = versions[s2][x]

(* A transaction waits for a site only while that site is down: a recovery *)
(* wakes every waiter, also those whose entry outlived an earlier failure. *)
WaitedSitesDown ==
  \A t \in Tran : siteWaitingMap[t] # None => ~writeAvailable[siteWaitingMap[t]]

\* The transactions with a queued request that the walk has not retried.
Unretried == {t \in Tran : blockedQueue[t] # {}} \ finishedSet

\* What keeps t from ever being retried once the script is read: the site it
\* waits for is down; a transaction it waits for has nothing left to do and no
\* end line in the script; or it has waited for several and all are gone.
NothingWakes(t) ==
  \/ siteWaitingMap[t] # None /\ ~writeAvailable[siteWaitingMap[t]]
  \/ \E u \in waitForGraph[t] \cap Transactions : u \notin ended /\ blockedQueue[u] = {}
  \/ /\ waitForGraph[t] \cap Transactions = {}
     /\ \E u, v \in waitForGraph[t] : u # v

\* A step of the drain loop: nobody joins those to be retried, whoever is
\* retried leaves them, and a walk that retries nobody has a reason.
DrainMoves ==
  phase = "draining" /\ phase' = "draining" =>
    /\ Unretried' \subseteq Unretried
    /\ finishedSet' \notin {finishedSet, {}} => Unretried' # Unretried
    /\ pc = "retry" /\ pc' = "ready" /\ finishedSet = {} =>
         Unretried = {} \/ \E t \in Unretried : NothingWakes(t)

(* Each pass of the drain loop leaves fewer transactions in the blocked    *)
(* queue, whatever blocks again or aborts in its walk, or it has one of    *)
(* the reasons of NothingWakes to spin.  In particular no transactions are *)
(* left that only wait for each other, and none whose one owner is gone.   *)
DrainAdvances == [][DrainMoves]_vars

\* Both what is queued of t and what is being retried of it.
Queued(t) == blockedQueue[t] \cup {r \in retryQueue : r.tran = t}

\* The requests of transactions that are still to be executed.
Pending ==
  (UNION {Queued(t) : t \in Tran})
    \cup (IF pc = "execute" /\ request # None /\ HasTran(request) THEN {request} ELSE {})

(* The containers ordered by a timestamp lose nothing: transactions_set_   *)
(* and the blocked queues take two elements with one timestamp for the     *)
(* same, and a commit with the stamp of a version overwrites it.           *)
StampsUnique ==
  /\ \A t, u \in Transactions : beginTime[t] = beginTime[u] => t = u
  /\ \A q, r \in Pending : q.timestamp = r.timestamp => q = r
  /\ \A r \in Pending : r.type = "END" /\ r.tran \in Transactions =>
       \A s \in Site, x \in Var : \A v \in versions[s][x] : v.ts # r.timestamp

-----------------------------------------------------------------------------
(* Liveness, under the fairness of Spec: the process keeps running.        *)

(* Every deadlock is broken: detect_deadlock runs before each instruction  *)
(* and each drain pass and goes on aborting until no cycle is left, unless *)
(* an exception ends the process first.                                    *)
DeadlockBroken == DetectDeadlock ~> (~DetectDeadlock \/ pc = "thrown")

(* Each call of execute_instructions returns.                              *)
ExecuteReturns == (pc # "ready") ~> (pc \in {"ready", "thrown", "undefined"})

\* Every transaction still running has its end line behind it.
AllEnded == \A t \in Transactions : t \in ended

(* Once the script is read and every transaction has ended in it, the      *)
(* drain loop of main.cpp comes to its end and the sites are dumped.       *)
DrainEnds ==
  (phase = "draining" /\ AllEnded) ~> (phase = "dumped" \/ pc \in {"thrown", "undefined"})

(* The drain loop also ends after failures, once every site is up again:   *)
(* each request that waited for a site was woken by its recovery.          *)
DrainEndsWhenUp ==
  (phase = "draining" /\ AllEnded /\ \A s \in Site : writeAvailable[s])
    ~> (phase = "dumped" \/ pc \in {"thrown", "undefined"})

-----------------------------------------------------------------------------
(* The inductive invariant behind the safety properties.                   *)

\* The exclusive locks are those of the copies with a pending write, and
\* these copies are at sites that are up.
RecordsLocked ==
  \A t \in Tran, s \in Site, x \in Var :
    /\ exclusiveOwner[s][x] = t <=> writeRecords[t][s][x] # None
    /\ writeRecords[t][s][x] # None => writeAvailable[s]

WaitersActive == \A t \in Tran : waitForGraph[t] # {} => t \in Transactions

LockInv ==
  /\ LockExclusion /\ NoOrphanLocks /\ OneWriter
  /\ RecordsLocked /\ WaitersActive

\* A queue holds requests of its own transaction; an end comes last.
QueueInv ==
  \A t \in Tran : \A r \in Queued(t) :
    /\ r.tran = t /\ r.type \in {"READ", "WRITE", "END"}
    /\ r.timestamp <= currTimestamp
    /\ r.type = "READ" /\ isReadOnly[t] => IsOdd(r.var)
    /\ r.type = "END" => /\ t \in ended
                         /\ \A q \in Queued(t) : q # r => q.timestamp < r.timestamp

\* The walk retries the requests of one running transaction at a time.
WalkInv ==
  /\ RetriesRun
  /\ \A q, r \in retryQueue : q.tran = r.tran
  /\ \A r \in retryQueue : r.tran \in finishedSet
  /\ todo \cap finishedSet = {}
  /\ pc \in {"ready", "execute"} => todo = {} /\ finishedSet = {} /\ retryQueue = {}

\* A transaction that has not begun is in no queue, set or map.
BegunInv ==
  /\ \A t \in todo \cup finishedSet : status[t] # "none"
  /\ \A t \in Tran : siteWaitingMap[t] # None => status[t] # "none"

\* The current request is younger than what is queued.
RequestInv ==
  /\ pc = "ready" => request = None
  /\ pc = "execute" /\ request # None => request.timestamp = currTimestamp
  /\ pc = "execute" /\ request # None /\ HasTran(request) =>
       /\ \A q \in blockedQueue[request.tran] :
            q.timestamp < request.timestamp /\ q.type # "END"
       /\ request.type \in {"BEGIN", "BEGINO"} => status[request.tran] = "none"
       /\ request.type = "END" => request.tran \in ended

SafetyInv ==
  /\ TypeOK
  /\ LockInv /\ QueueInv /\ WalkInv /\ BegunInv /\ RequestInv

-----------------------------------------------------------------------------
(* The inductive invariant behind ReadableCopiesCurrent.                   *)

\* The only copy of an odd variable is current, readable or not.
HomesCurrent == \A x \in Var : IsOdd(x) => value[HomeSite(x)][x] = lastCommitted[x]

\* A transaction has recorded one value for a variable, at every copy that
\* can be read: no copy becomes readable behind the back of its writer.
RecordsComplete ==
  \A t \in Tran, x \in Var : \A s1, s2 \in CopySites(x) :
    writeRecords[t][s1][x] # None /\ (readAvailable[s2][x] \/ writeRecords[t][s2][x] # None)
      => writeRecords[t][s2][x] = writeRecords[t][s1][x]

CopyInv ==
  /\ ReadabilityFollowsSites /\ ReadableCopiesCurrent
  /\ HomesCurrent /\ RecordsComplete

-----------------------------------------------------------------------------
(* The inductive invariants behind CopiesAlike, DrainAdvances and          *)
(* StampsUnique.                                                           *)

\* Until a fail or recover line is read, nothing is down.
NothingDown ==
  faultCount = 0 =>
    /\ request # None => request.type \notin {"FAIL", "RECOVER"}
    /\ \A s \in Site : writeAvailable[s] /\ \A x \in Var : readAvailable[s][x]

\* Who waits for one transaction only waits for one that runs.
EdgesCurrent == \A t, u \in Tran : waitForGraph[t] = {u} => u \in Transactions

\* As long as a drain pass has retried nobody, there is no deadlock, and who
\* is queued waits or is still to be visited.
DrainInv ==
  /\ EdgesCurrent
  /\ \A t \in todo : blockedQueue[t] # {}
  /\ phase = "draining" => request = None
  /\ phase = "draining" /\ pc = "retry" /\ finishedSet = {} =>
       /\ ~DetectDeadlock
       /\ \A t \in Tran : blockedQueue[t] # {} =>
            t \in todo \/ IsWaitingForLock(t) \/ IsTransactionWaitingForSite(t)

\* A transaction that is to begin begins later than all others have.
BeginsLater ==
  request # None /\ request.type \in {"BEGIN", "BEGINO"} /\ status[request.tran] = "none" =>
    \A t \in Tran : status[t] # "none" => beginTime[t] < currTimestamp
=============================================================================
