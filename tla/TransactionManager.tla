------------------------- MODULE TransactionManager -------------------------
(***************************************************************************)
(* The transaction manager (repcrec/transaction_manager) and the requests  *)
(* it executes (repcrec/request).                                          *)
(*                                                                         *)
(* One call of execute_instructions is a sequence of steps, told apart by  *)
(* pc:  "execute" breaks deadlocks and then runs the current request;      *)
(* "retry" walks the blocked queue, one transaction and one request at a   *)
(* time, in the unspecified order of an unordered_map; "ready" is outside  *)
(* of the call.  "thrown" and "undefined" are the ends of a process that   *)
(* threw an exception or ran into undefined behaviour.                     *)
(***************************************************************************)
EXTENDS LockManager, Transaction

VARIABLES
  request,         \* request_, None for nullptr
  blockedQueue,    \* blocked_transactions_queue_, {} when no entry
  siteWaitingMap,  \* site_waiting_map_, None when no entry
  lastRead,        \* what the last read printed since the current line
  pc,              \* where execute_instructions is
  todo,            \* retry loop: transactions not visited yet
  finishedSet,     \* retry loop: finished_set
  retryQueue       \* retry loop: what is left of the copy request_set

\* What executing a request can change, and the control state around it.
dbVars == <<siteVars, lockVars, tranVars, blockedQueue, siteWaitingMap, lastRead>>
loopVars == <<todo, finishedSet, retryQueue>>
tmVars == <<dbVars, request, pc, loopVars>>

-----------------------------------------------------------------------------
(* Requests.  A field the constructor leaves at -1 is None. *)

BeginRequest == [type : {"BEGIN", "BEGINO"}, timestamp : Nat, tran : Tran]
ReadRequest  == [type : {"READ"}, timestamp : Nat, tran : Tran, var : Var]
WriteRequest == [type : {"WRITE"}, timestamp : Nat, tran : Tran, var : Var,
                 value : Value]
EndRequest   == [type : {"END"}, timestamp : Nat, tran : Tran]
SiteRequest  == [type : {"FAIL", "RECOVER"}, timestamp : Nat, site : Site]
DumpRequest  == [type : {"DUMP"}, timestamp : Nat]

TranRequest == BeginRequest \cup ReadRequest \cup WriteRequest \cup EndRequest
AnyRequest == TranRequest \cup SiteRequest \cup DumpRequest

\* get_transaction_id() # -1.
HasTran(r) == r.type \notin {"FAIL", "RECOVER", "DUMP"}

PC == {"ready", "execute", "retry", "thrown", "undefined"}

ReadEvent == [tran : Tran, site : Site, var : Var, val : Value]

\* Neither a request nor what a read prints is nothing.
ASSUME ReadAssumption == None \notin ReadEvent
ASSUME RequestAssumption == None \notin AnyRequest

TMTypeOK ==
  /\ request \in AnyRequest \cup {None}
  /\ blockedQueue \in [Tran -> SUBSET TranRequest]
  /\ siteWaitingMap \in [Tran -> Site \cup {None}]
  /\ lastRead \in ReadEvent \cup {None}
  /\ pc \in PC
  /\ todo \subseteq Tran
  /\ finishedSet \subseteq Tran
  /\ retryQueue \subseteq TranRequest

TMInit ==
  /\ request = None
  /\ blockedQueue = [t \in Tran |-> {}]
  /\ siteWaitingMap = [t \in Tran |-> None]
  /\ lastRead = None
  /\ pc = "ready"
  /\ todo = {}
  /\ finishedSet = {}
  /\ retryQueue = {}

-----------------------------------------------------------------------------
(* Services of the transaction manager. *)

IsTransactionWaitingForSite(t) == siteWaitingMap[t] # None

\* Faulty variant: a transaction has one queued request at a time.
AddRequestToBlockedQueueAlone(r) ==
  blockedQueue' = [blockedQueue EXCEPT ![r.tran] = {r}]

\* The requests of a transaction are ordered by timestamp; a request that
\* blocks again is equal to the one that is still queued.
AddRequestToBlockedQueue(r) ==
  blockedQueue' = [blockedQueue EXCEPT ![r.tran] = @ \cup {r}]

\* abort_transaction for each transaction of T.  The entry of an aborted
\* transaction in site_waiting_map_ stays.
AbortTransactions(T) ==
  /\ Evict(T, "aborted")
  /\ lastCommitted' = lastCommitted
  /\ blockedQueue' = [t \in Tran |-> IF t \in T THEN {} ELSE blockedQueue[t]]
  /\ ReleaseLocks(T)

\* Faulty variant: a recovery wakes one waiter only.
RemoveOneFromSiteWaitingMap(s) ==
  LET waiters == {t \in Tran : siteWaitingMap[t] = s} IN
  IF waiters = {} THEN UNCHANGED siteWaitingMap
  ELSE siteWaitingMap' = [siteWaitingMap EXCEPT ![CHOOSE t \in waiters : TRUE] = None]

\* Faulty variant: a recovery wakes nobody.
RemoveNoneFromSiteWaitingMap(s) == UNCHANGED siteWaitingMap

\* remove_from_site_waiting_map.
RemoveFromSiteWaitingMap(s) ==
  siteWaitingMap' = [t \in Tran |->
                       IF siteWaitingMap[t] = s THEN None ELSE siteWaitingMap[t]]

-----------------------------------------------------------------------------
(* exec() of the requests. *)

\* NEED_TO_WAIT: wait for the owners of the lock and queue the request.
WaitForLock(r) ==
  /\ AssignWaitForGraph(r.tran, r.var)
  /\ AddRequestToBlockedQueue(r)
  /\ UNCHANGED <<siteVars, tranVars, siteWaitingMap, lastRead>>

\* The home site of an odd variable cannot be read: wait for its recovery.
WaitForSite(r) ==
  /\ siteWaitingMap' = [siteWaitingMap EXCEPT
                          ![r.tran] = IF @ = None THEN HomeSite(r.var) ELSE @]
  /\ AddRequestToBlockedQueue(r)
  /\ UNCHANGED <<siteVars, lockVars, tranVars, lastRead>>

\* WriteRequest::exec.  An answer of HAS_WRITE_LOCK comes with no sites, so
\* only the odd branch, which names the home site itself, records the value.
ExecWrite(r) ==
  LET answer == LockStatus(r.tran, r.var) IN
  \/ answer = "NEED_TO_WAIT" /\ WaitForLock(r)
  \/ answer = "SITE_UNAVAILABLE" /\ UNCHANGED dbVars
  \/ /\ answer = "HAS_WRITE_LOCK"
     /\ UpdateValues(r.tran, IF IsOdd(r.var) THEN {HomeSite(r.var)} ELSE {},
                     r.var, r.value)
     /\ UNCHANGED <<siteVars, lockVars, blockedQueue, siteWaitingMap, lastRead>>
  \/ /\ answer \in {"HAS_READ_LOCK", "AVAILABLE_TO_ASSIGN"}
     /\ UpdateValues(r.tran, UpCopies(r.var), r.var, r.value)
     /\ AssignWriteLock(r.tran, r.var)
     /\ UNCHANGED <<siteVars, blockedQueue, siteWaitingMap, lastRead>>

\* The line a read prints.
PrintRead(t, s, x, v) ==
  lastRead' = [tran |-> t, site |-> s, var |-> x, val |-> v]

\* ReadRequest::handle_read_only_request, when a copy can be read; a
\* replicated variable is read at the first site that can.
ReadOnlyAt(r, s) ==
  LET v == GetValue(s, r.var, beginTime[r.tran]) IN
  /\ readAvailable[s][r.var]
  /\ AddReadHistory(r.tran, s, r.var, v)
  /\ PrintRead(r.tran, s, r.var, v)
  /\ UNCHANGED <<siteVars, lockVars, blockedQueue, siteWaitingMap>>

\* A read-only transaction aborts itself when no site can serve it.
NoReadableCopy(x) == \A s \in Site : ~readAvailable[s][x]

ExecReadOnly(r) ==
  \/ IsOdd(r.var) /\ ReadOnlyAt(r, HomeSite(r.var))
  \/ /\ IsOdd(r.var) /\ ~readAvailable[HomeSite(r.var)][r.var]
     /\ WaitForSite(r)
  \/ /\ ~IsOdd(r.var)
     /\ \E s \in Site : /\ \A u \in Site : u < s => ~readAvailable[u][r.var]
                        /\ ReadOnlyAt(r, s)
  \/ /\ ~IsOdd(r.var) /\ NoReadableCopy(r.var)
     /\ AbortTransactions({r.tran})
     /\ UNCHANGED <<siteVars, siteWaitingMap, lastRead>>

\* handle_read_request has no case for the answers HAS_READ_LOCK and
\* HAS_WRITE_LOCK of try_acquire_write_lock and throws "error status!".
ThrowsErrorStatus(r) ==
  /\ r.type = "READ" /\ ~isReadOnly[r.tran]
  /\ IsOdd(r.var) => readAvailable[HomeSite(r.var)][r.var]
  /\ LockStatus(r.tran, r.var) \in {"HAS_READ_LOCK", "HAS_WRITE_LOCK"}

\* ReadRequest::handle_read_request.  A replicated variable is read at
\* whichever up site an unordered_set yields first, readable or not, and
\* leaves no read history.
ExecReadLocked(r) ==
  LET home == HomeSite(r.var) IN
  \/ /\ IsOdd(r.var) /\ ~readAvailable[home][r.var]
     /\ WaitForSite(r)
  \/ /\ IsOdd(r.var) => readAvailable[home][r.var]
     /\ LockStatus(r.tran, r.var) = "NEED_TO_WAIT"
     /\ WaitForLock(r)
  \/ /\ IsOdd(r.var) /\ readAvailable[home][r.var]
     /\ LockStatus(r.tran, r.var) = "AVAILABLE_TO_ASSIGN"
     /\ AssignShareLock(r.tran, r.var)
     /\ AddReadHistory(r.tran, home, r.var, value[home][r.var])
     /\ PrintRead(r.tran, home, r.var, value[home][r.var])
     /\ UNCHANGED <<siteVars, blockedQueue, siteWaitingMap>>
  \/ /\ ~IsOdd(r.var)
     /\ LockStatus(r.tran, r.var) = "AVAILABLE_TO_ASSIGN"
     /\ IF UpCopies(r.var) = {} THEN UNCHANGED lastRead
        ELSE \E s \in UpCopies(r.var) :
               PrintRead(r.tran, s, r.var, value[s][r.var])
     /\ AssignShareLock(r.tran, r.var)
     /\ UNCHANGED <<siteVars, tranVars, blockedQueue, siteWaitingMap>>

\* ReadRequest::exec.
ExecRead(r) == IF isReadOnly[r.tran] THEN ExecReadOnly(r) ELSE ExecReadLocked(r)

\* CreateTransactionRequest::exec.
ExecBegin(r) ==
  /\ AddTransaction(r.tran, r.timestamp, r.type = "BEGINO")
  /\ UNCHANGED <<siteVars, lockVars, blockedQueue, siteWaitingMap, lastRead>>

\* EndTransactionRequest::exec.  The versions are stamped with the
\* timestamp of the end instruction, not with the time it is executed at.
ExecEnd(r) ==
  \/ /\ CanCommit(r.tran)
     /\ InstallWrites(r.tran, r.timestamp)
     /\ ReleaseLocks({r.tran})
     /\ Evict({r.tran}, "committed")
     /\ UNCHANGED <<blockedQueue, siteWaitingMap, lastRead>>
  \/ /\ ~CanCommit(r.tran)
     /\ AbortTransactions({r.tran})
     /\ UNCHANGED <<siteVars, siteWaitingMap, lastRead>>

\* Faulty variant: the writers of the failing site go on.
ExecFailKeepsWriters(r) ==
  /\ SetUnavailable(r.site)
  /\ UNCHANGED <<lockVars, tranVars, blockedQueue, siteWaitingMap, lastRead>>

\* Faulty variant: the locks of the failing site are lost with it.
ExecFailForgetsLocks(r) ==
  LET hit == {t \in Transactions : IsWrittenIntoSite(t, r.site)} IN
  /\ SetUnavailable(r.site)
  /\ Evict(hit, "aborted")
  /\ sharedOwners' = [sharedOwners EXCEPT ![r.site] = [x \in Var |-> {}]]
  /\ UNCHANGED <<exclusiveOwner, lockTable, waitForGraph, lastCommitted,
                 blockedQueue, siteWaitingMap, lastRead>>

\* FailRequest::exec: the site goes down and its writers are aborted.
ExecFail(r) ==
  /\ SetUnavailable(r.site)
  /\ AbortTransactions({t \in Transactions : IsWrittenIntoSite(t, r.site)})
  /\ UNCHANGED <<siteWaitingMap, lastRead>>

\* Faulty variant: a recovered site is readable at once as a whole.
ExecRecoverAll(r) ==
  /\ SetWriteAvailable(r.site)
  /\ SetReadAvailable({r.site} \X Var)
  /\ RemoveFromSiteWaitingMap(r.site)
  /\ UNCHANGED <<value, versions, lockVars, tranVars, blockedQueue, lastRead>>

\* RecoveryRequest::exec: the site can be written, its odd variables read.
ExecRecover(r) ==
  /\ SetWriteAvailable(r.site)
  /\ SetReadAvailable({r.site} \X UniqueVars(r.site))
  /\ RemoveFromSiteWaitingMap(r.site)
  /\ UNCHANGED <<value, versions, lockVars, tranVars, blockedQueue, lastRead>>

\* Request::exec, dispatched on the class of the request.
Exec(r) ==
  \/ r.type \in {"BEGIN", "BEGINO"} /\ ExecBegin(r)
  \/ r.type = "READ" /\ ExecRead(r)
  \/ r.type = "WRITE" /\ ExecWrite(r)
  \/ r.type = "END" /\ ExecEnd(r)
  \/ r.type = "FAIL" /\ ExecFail(r)
  \/ r.type = "RECOVER" /\ ExecRecover(r)
  \/ r.type = "DUMP" /\ UNCHANGED dbVars

-----------------------------------------------------------------------------
(* execute_instructions. *)

\* Faulty variant: evict leaves the transaction in transactions_set_.
YoungestEver == {t \in Tran : \A u \in Tran : beginTime[u] <= beginTime[t]}

\* The youngest transaction comes first in transactions_set_.
Youngest == {t \in Transactions : \A u \in Transactions : beginTime[u] <= beginTime[t]}

\* while (detect_deadlock()): abort the youngest transaction of all.  With
\* no transaction left, *transactions_set_.begin() is undefined.
BreakDeadlock ==
  /\ pc = "execute"
  /\ DetectDeadlock
  /\ IF Transactions = {}
     THEN pc' = "undefined" /\ UNCHANGED dbVars
     ELSE /\ \E t \in Youngest : AbortTransactions({t})
          /\ UNCHANGED <<siteVars, siteWaitingMap, lastRead, pc>>
  /\ UNCHANGED <<request, loopVars>>

\* The request's transaction has been aborted and the request is no BEGIN.
RequestIsStale ==
  /\ request # None
  /\ HasTran(request)
  /\ request.type \notin {"BEGIN", "BEGINO"}
  /\ request.tran \notin Transactions

\* Faulty variant: queued requests do not make their transaction wait.
RequestMustWaitIgnoresQueue ==
  /\ request # None
  /\ HasTran(request)
  /\ IsWaitingForLock(request.tran) \/ IsTransactionWaitingForSite(request.tran)

\* The request's transaction waits for a lock, a site or its queue.
RequestMustWait ==
  /\ request # None
  /\ HasTran(request)
  /\ \/ IsWaitingForLock(request.tran)
     \/ blockedQueue[request.tran] # {}
     \/ IsTransactionWaitingForSite(request.tran)

\* The request of an aborted transaction is ignored.
DropRequest ==
  /\ pc = "execute" /\ ~DetectDeadlock
  /\ RequestIsStale
  /\ request' = None
  /\ pc' = "ready"
  /\ UNCHANGED <<dbVars, loopVars>>

\* A request of a waiting transaction that is no read or write is queued.
QueueRequest ==
  /\ pc = "execute" /\ ~DetectDeadlock
  /\ ~RequestIsStale /\ RequestMustWait
  /\ request.type \notin {"READ", "WRITE"}
  /\ AddRequestToBlockedQueue(request)
  /\ request' = None
  /\ pc' = "ready"
  /\ UNCHANGED <<siteVars, lockVars, tranVars, siteWaitingMap, lastRead, loopVars>>

\* A read or write of a waiting transaction is executed all the same; the
\* blocked queue is not walked afterwards.
ExecWhileWaiting ==
  /\ pc = "execute" /\ ~DetectDeadlock
  /\ ~RequestIsStale /\ RequestMustWait
  /\ request.type \in {"READ", "WRITE"}
  /\ ~ThrowsErrorStatus(request)
  /\ Exec(request)
  /\ request' = None
  /\ pc' = "ready"
  /\ UNCHANGED loopVars

\* Any other request is executed, and the walk of the blocked queue begins.
ExecRequest ==
  /\ pc = "execute" /\ ~DetectDeadlock
  /\ ~RequestIsStale /\ ~RequestMustWait
  /\ IF request = None THEN UNCHANGED dbVars
     ELSE ~ThrowsErrorStatus(request) /\ Exec(request)
  /\ pc' = "retry"
  /\ todo' = {t \in Tran : blockedQueue'[t] # {}}
  /\ UNCHANGED <<request, finishedSet, retryQueue>>

\* The exception leaves the process; nothing catches it.
ThrowInRequest ==
  /\ pc = "execute" /\ ~DetectDeadlock
  /\ ~RequestIsStale /\ request # None
  /\ ThrowsErrorStatus(request)
  /\ pc' = "thrown"
  /\ UNCHANGED <<dbVars, request, loopVars>>

\* Faulty variant: the walk never gets past a waiting transaction.
RetryVisitStays ==
  /\ pc = "retry" /\ retryQueue = {}
  /\ \E t \in todo :
       IF IsWaitingForLock(t) \/ IsTransactionWaitingForSite(t)
       THEN UNCHANGED loopVars
       ELSE /\ todo' = todo \ {t}
            /\ finishedSet' = finishedSet \cup {t}
            /\ retryQueue' = blockedQueue[t]
  /\ UNCHANGED <<dbVars, request, pc>>

\* The walk reaches a transaction: one that waits no more is retried, from a
\* copy of its queue.
RetryVisit ==
  /\ pc = "retry" /\ retryQueue = {}
  /\ \E t \in todo :
       /\ todo' = todo \ {t}
       /\ IF IsWaitingForLock(t) \/ IsTransactionWaitingForSite(t)
          THEN UNCHANGED <<finishedSet, retryQueue>>
          ELSE /\ finishedSet' = finishedSet \cup {t}
               /\ retryQueue' = blockedQueue[t]
  /\ UNCHANGED <<dbVars, request, pc>>

\* The request of the retried queue with the lowest timestamp.
Earliest(Q) == CHOOSE r \in Q : \A q \in Q : r.timestamp <= q.timestamp

\* abort_transaction erases the entry the loop's iterator stands on.
ErasesVisitedEntry(r) == r.type = "END" /\ ~CanCommit(r.tran)

\* One request of the retried transaction.  After the entry under the
\* iterator is erased, advancing it is undefined: the walk goes on, ends
\* early, or the process dies.
RetryExec ==
  /\ pc = "retry" /\ retryQueue # {}
  /\ LET r == Earliest(retryQueue) IN
       /\ ~ThrowsErrorStatus(r)
       /\ Exec(r)
       /\ retryQueue' = retryQueue \ {r}
       /\ \/ UNCHANGED <<todo, pc>>
          \/ ErasesVisitedEntry(r) /\ todo' = {} /\ UNCHANGED pc
          \/ ErasesVisitedEntry(r) /\ pc' = "undefined" /\ UNCHANGED todo
  /\ UNCHANGED <<request, finishedSet>>

ThrowInRetry ==
  /\ pc = "retry" /\ retryQueue # {}
  /\ ThrowsErrorStatus(Earliest(retryQueue))
  /\ pc' = "thrown"
  /\ UNCHANGED <<dbVars, request, loopVars>>

\* Faulty variant: the queues of those that still wait are erased as well.
FinishRetryErasesAll ==
  /\ pc = "retry" /\ retryQueue = {} /\ todo = {}
  /\ blockedQueue' = [t \in Tran |-> {}]
  /\ finishedSet' = {}
  /\ request' = None
  /\ pc' = "ready"
  /\ UNCHANGED <<siteVars, lockVars, tranVars, siteWaitingMap, lastRead,
                 todo, retryQueue>>

\* The queues of all retried transactions are erased, with whatever blocked
\* again meanwhile.
FinishRetry ==
  /\ pc = "retry" /\ retryQueue = {} /\ todo = {}
  /\ blockedQueue' = [t \in Tran |->
                        IF t \in finishedSet THEN {} ELSE blockedQueue[t]]
  /\ finishedSet' = {}
  /\ request' = None
  /\ pc' = "ready"
  /\ UNCHANGED <<siteVars, lockVars, tranVars, siteWaitingMap, lastRead,
                 todo, retryQueue>>

ExecuteInstructions ==
  \/ BreakDeadlock
  \/ DropRequest \/ QueueRequest \/ ExecWhileWaiting \/ ExecRequest
  \/ ThrowInRequest
  \/ RetryVisit \/ RetryExec \/ ThrowInRetry \/ FinishRetry
=============================================================================
