---------------------------- MODULE RepCRecSafety ----------------------------
(***************************************************************************)
(* Safety of the whole program: SafetyInv of module Properties is          *)
(* inductive, and the safety properties follow from it.                    *)
(***************************************************************************)
EXTENDS LockProofs

(* What executing r may do to the blocked queue, to the table of the       *)
(* transactions and to the waiters: only r itself is queued, and nobody    *)
(* but the transaction that ends or aborts itself leaves with a queue.     *)
QueueEffect(r) ==
  \A t \in Tran :
    /\ \A q \in blockedQueue'[t] :
         \/ q \in blockedQueue[t]
         \/ /\ q = r /\ r.tran = t /\ r.type \in {"READ", "WRITE"}
            /\ r.type = "READ" /\ isReadOnly[t] => IsOdd(r.var)
    /\ t \in Transactions =>
         \/ t \in Transactions'
         \/ blockedQueue'[t] = {}
         \/ r.type = "END" /\ r.tran = t

LeaveEffect(r) ==
  \A t \in Transactions :
    \/ t \in Transactions'
    \/ r.type = "FAIL"
    \/ r.type = "END" /\ r.tran = t
    \/ r.type = "READ" /\ r.tran = t /\ isReadOnly[t] /\ ~IsOdd(r.var)

BegunEffect(r) ==
  \A t \in Tran :
    /\ status[t] # "none" => status'[t] # "none"
    /\ siteWaitingMap'[t] # None => siteWaitingMap[t] # None \/ (r.type = "READ" /\ r.tran = t)
    /\ isReadOnly'[t] # isReadOnly[t] => r.type \in {"BEGIN", "BEGINO"} /\ r.tran = t

Effect(r) == QueueEffect(r) /\ LeaveEffect(r) /\ BegunEffect(r)

(* An abort erases the queues of those that leave.                         *)
LEMMA AbortEffect ==
  ASSUME DbTypeOK, NEW T \in SUBSET Tran, AbortTransactions(T)
  PROVE  \A t \in Tran :
           /\ blockedQueue'[t] = IF t \in T THEN {} ELSE blockedQueue[t]
           /\ status'[t] = IF t \in T THEN "aborted" ELSE status[t]
           /\ isReadOnly'[t] = isReadOnly[t]
BY DEF AbortTransactions, Evict

(* A transaction is in the table when its status says so.                  *)
LEMMA InTable ==
  \A t \in Tran : /\ t \in Transactions <=> status[t] = "active"
                  /\ t \in Transactions' <=> status'[t] = "active"
BY DEF Transactions

(* A request that has to wait is queued.                                   *)
LEMMA WaitEffect ==
  ASSUME DbTypeOK, NEW r \in TranRequest, r.tran \in Tran,
         WaitForLock(r) \/ WaitForSite(r),
         r.type \in {"READ", "WRITE"},
         r.type = "READ" /\ isReadOnly[r.tran] => IsOdd(r.var),
         r.type = "READ" \/ UNCHANGED siteWaitingMap
  PROVE  Effect(r)
<1>1. \A t \in Tran : /\ status'[t] = status[t] /\ isReadOnly'[t] = isReadOnly[t]
                      /\ blockedQueue'[t] = IF t = r.tran THEN blockedQueue[t] \cup {r}
                                            ELSE blockedQueue[t]
  BY DEF WaitForLock, WaitForSite, AddRequestToBlockedQueue, DbTypeOK, tranVars
<1>2. QueueEffect(r)
  <2> SUFFICES ASSUME NEW t \in Tran
               PROVE  /\ \A q \in blockedQueue'[t] : q \in blockedQueue[t] \/ (q = r /\ r.tran = t)
                      /\ t \in Transactions => t \in Transactions'
    BY DEF QueueEffect
  <2> QED BY <1>1, InTable
<1>3. LeaveEffect(r)
  BY <1>1, InTable DEF LeaveEffect, Transactions
<1>4. BegunEffect(r)
  BY <1>1 DEF BegunEffect, WaitForLock, WaitForSite, DbTypeOK
<1> QED BY <1>2, <1>3, <1>4 DEF Effect

(* A request that changes none of this.                                    *)
LEMMA NoEffect ==
  ASSUME NEW r, UNCHANGED <<status, isReadOnly, blockedQueue, siteWaitingMap>>
  PROVE  Effect(r)
BY DEF Effect, QueueEffect, LeaveEffect, BegunEffect, Transactions

(* The effect of a read.                                                   *)
LEMMA ReadEffect ==
  ASSUME DbTypeOK, NEW r \in ReadRequest, ExecRead(r)
  PROVE  Effect(r)
<1>0. r.type = "READ" /\ r.tran \in Tran /\ r \in TranRequest
  BY DEF ReadRequest, TranRequest
<1>1. CASE WaitForLock(r) /\ ~isReadOnly[r.tran]
  BY <1>0, <1>1, WaitEffect
<1>2. CASE WaitForSite(r) /\ IsOdd(r.var)
  BY <1>0, <1>2, WaitEffect
<1>3. CASE UNCHANGED <<status, isReadOnly, blockedQueue, siteWaitingMap>>
  BY <1>3, NoEffect
<1>4. CASE /\ isReadOnly[r.tran] /\ ~IsOdd(r.var)
           /\ AbortTransactions({r.tran}) /\ UNCHANGED siteWaitingMap
  <2>1. \A t \in Tran :
          /\ blockedQueue'[t] = IF t = r.tran THEN {} ELSE blockedQueue[t]
          /\ status'[t] = IF t = r.tran THEN "aborted" ELSE status[t]
          /\ isReadOnly'[t] = isReadOnly[t]
    BY <1>0, <1>4, AbortEffect
  <2>2. QueueEffect(r) /\ BegunEffect(r)
    BY <1>4, <2>1, InTable DEF QueueEffect, BegunEffect
  <2>3. LeaveEffect(r)
    BY <1>0, <1>4, <2>1, InTable DEF LeaveEffect, Transactions
  <2> QED BY <2>2, <2>3 DEF Effect
<1>5. ASSUME NEW s, ReadOnlyAt(r, s)
      PROVE  UNCHANGED <<status, isReadOnly, blockedQueue, siteWaitingMap>>
  BY <1>5 DEF ReadOnlyAt, AddReadHistory
<1>6. CASE isReadOnly[r.tran] /\ ExecReadOnly(r)
  BY <1>2, <1>3, <1>4, <1>5, <1>6 DEF ExecReadOnly
<1>7. CASE ~isReadOnly[r.tran] /\ ExecReadLocked(r)
  BY <1>1, <1>2, <1>3, <1>7 DEF ExecReadLocked, AddReadHistory, tranVars
<1> QED BY <1>6, <1>7 DEF ExecRead

(* The effect of every request.                                            *)
LEMMA ExecEffect ==
  ASSUME DbTypeOK, NEW r \in AnyRequest, Exec(r)
  PROVE  Effect(r)
<1>1. CASE r.type \in {"BEGIN", "BEGINO"} /\ ExecBegin(r)
  <2>1. r.tran \in Tran
    BY <1>1, RequestFields
  <2>2. \A t \in Tran :
          /\ status'[t] = IF t = r.tran THEN "active" ELSE status[t]
          /\ t # r.tran => isReadOnly'[t] = isReadOnly[t]
          /\ blockedQueue'[t] = blockedQueue[t] /\ siteWaitingMap'[t] = siteWaitingMap[t]
    BY <1>1, <2>1 DEF ExecBegin, AddTransaction, DbTypeOK, TranTypeOK
  <2>3. QueueEffect(r) /\ BegunEffect(r)
    BY <1>1, <2>1, <2>2, InTable DEF QueueEffect, BegunEffect
  <2>4. LeaveEffect(r)
    BY <2>2, InTable DEF LeaveEffect, Transactions
  <2> QED BY <2>3, <2>4 DEF Effect
<1>2. CASE r.type = "READ" /\ ExecRead(r)
  BY <1>2, RequestFields, ReadEffect
<1>3. CASE r.type = "WRITE" /\ ExecWrite(r)
  <2>1. r \in TranRequest /\ r.tran \in Tran
    BY <1>3, RequestFields DEF TranRequest
  <2>2. CASE WaitForLock(r)
    BY <1>3, <2>1, <2>2, WaitEffect DEF WaitForLock
  <2>3. CASE UNCHANGED <<status, isReadOnly, blockedQueue, siteWaitingMap>>
    BY <2>3, NoEffect
  <2> QED BY <1>3, <2>2, <2>3 DEF ExecWrite, UpdateValues, dbVars, tranVars
<1>4. CASE r.type = "END" /\ ExecEnd(r)
  <2>1. r.tran \in Tran
    BY <1>4, RequestFields
  <2>2. /\ siteWaitingMap' = siteWaitingMap
        /\ \A t \in Tran :
             /\ blockedQueue'[t] \subseteq blockedQueue[t]
             /\ t # r.tran => status'[t] = status[t]
             /\ status'[r.tran] # "none"
             /\ isReadOnly'[t] = isReadOnly[t]
    <3>1. CASE Evict({r.tran}, "committed") /\ UNCHANGED <<blockedQueue, siteWaitingMap>>
      BY <2>1, <3>1 DEF Evict
    <3>2. CASE AbortTransactions({r.tran}) /\ UNCHANGED siteWaitingMap
      BY <2>1, <3>2, AbortEffect
    <3> QED BY <1>4, <3>1, <3>2 DEF ExecEnd
  <2>3. QueueEffect(r) /\ BegunEffect(r)
    BY <1>4, <2>2, InTable DEF QueueEffect, BegunEffect
  <2>4. LeaveEffect(r)
    BY <1>4, <2>2, InTable DEF LeaveEffect, Transactions
  <2> QED BY <2>3, <2>4 DEF Effect
<1>5. CASE r.type = "FAIL" /\ ExecFail(r)
  <2> DEFINE T == {t \in Transactions : IsWrittenIntoSite(t, r.site)}
  <2>1. T \in SUBSET Tran /\ AbortTransactions(T) /\ siteWaitingMap' = siteWaitingMap
    BY <1>5 DEF ExecFail, Transactions
  <2> HIDE DEF T
  <2>2. \A t \in Tran : /\ blockedQueue'[t] = IF t \in T THEN {} ELSE blockedQueue[t]
                        /\ status'[t] = IF t \in T THEN "aborted" ELSE status[t]
                        /\ isReadOnly'[t] = isReadOnly[t]
    BY <2>1, AbortEffect
  <2>3. QueueEffect(r) /\ BegunEffect(r)
    BY <2>1, <2>2, InTable DEF QueueEffect, BegunEffect
  <2> QED BY <1>5, <2>3 DEF Effect, LeaveEffect
<1>6. CASE r.type = "RECOVER" /\ ExecRecover(r)
  <2>1. UNCHANGED <<status, isReadOnly, blockedQueue>>
    BY <1>6 DEF ExecRecover, tranVars
  <2>2. \A t \in Tran : siteWaitingMap'[t] # None => siteWaitingMap[t] # None
    BY <1>6 DEF ExecRecover, RemoveFromSiteWaitingMap
  <2> QED BY <2>1, <2>2 DEF Effect, QueueEffect, LeaveEffect, BegunEffect, Transactions
<1>7. CASE UNCHANGED dbVars
  BY <1>7, NoEffect DEF dbVars, tranVars
<1> QED BY <1>1, <1>2, <1>3, <1>4, <1>5, <1>6, <1>7 DEF Exec

-----------------------------------------------------------------------------
(* The queues. *)

(* Queues that only shrink stay in order, whoever begins meanwhile.        *)
LEMMA ShrinkKeepsQueue ==
  ASSUME QueueInv, \A t \in Tran : Queued(t)' \subseteq Queued(t),
         \A t \in Tran : Queued(t) # {} => isReadOnly'[t] = isReadOnly[t],
         ended \subseteq ended', currTimestamp' \in Nat, currTimestamp \in Nat,
         currTimestamp <= currTimestamp', retryQueue \subseteq TranRequest,
         blockedQueue \in [Tran -> SUBSET TranRequest]
  PROVE  QueueInv'
<1> SUFFICES ASSUME NEW t \in Tran, NEW r \in Queued(t)'
             PROVE  /\ r.tran = t /\ r.type \in {"READ", "WRITE", "END"}
                    /\ r.timestamp <= currTimestamp'
                    /\ r.type = "READ" /\ isReadOnly'[t] => IsOdd(r.var)
                    /\ r.type = "END" => /\ t \in ended'
                                         /\ \A q \in Queued(t)' : q # r => q.timestamp < r.timestamp
  BY DEF QueueInv
<1>1. r \in Queued(t) /\ isReadOnly'[t] = isReadOnly[t]
  OBVIOUS
<1>2. r \in TranRequest
  BY <1>1 DEF Queued
<1>3. r.timestamp \in Nat
  BY <1>2, RequestFields DEF AnyRequest
<1> QED BY <1>1, <1>3 DEF QueueInv

(* A request of a transaction that has not ended queues up.                *)
LEMMA NewRequestQueued ==
  ASSUME QueueInv, NEW r \in TranRequest, r.tran \in Tran,
         r.type \in {"READ", "WRITE", "END"}, r.timestamp = currTimestamp,
         r.type = "READ" /\ isReadOnly[r.tran] => IsOdd(r.var),
         r.type = "END" => r.tran \in ended,
         \A q \in Queued(r.tran) : q.type # "END" /\ q.timestamp < r.timestamp,
         \A t \in Tran : Queued(t)' \subseteq Queued(t) \cup (IF t = r.tran THEN {r} ELSE {}),
         UNCHANGED <<isReadOnly, ended, currTimestamp>>, currTimestamp \in Nat
  PROVE  QueueInv'
<1> SUFFICES ASSUME NEW t \in Tran, NEW p \in Queued(t)'
             PROVE  /\ p.tran = t /\ p.type \in {"READ", "WRITE", "END"}
                    /\ p.timestamp <= currTimestamp
                    /\ p.type = "READ" /\ isReadOnly[t] => IsOdd(p.var)
                    /\ p.type = "END" => /\ t \in ended
                                         /\ \A q \in Queued(t)' : q # p => q.timestamp < p.timestamp
  BY DEF QueueInv
<1>1. CASE t # r.tran
  BY <1>1 DEF QueueInv
<1>2. CASE t = r.tran /\ p # r
  BY <1>2 DEF QueueInv
<1>3. CASE t = r.tran /\ p = r
  BY <1>3
<1> QED BY <1>1, <1>2, <1>3

-----------------------------------------------------------------------------
(* The steps. *)

(* Nothing is queued of a transaction that has not begun.                  *)
LEMMA NotBegun ==
  ASSUME SafetyInv, pc \in {"ready", "execute"}, NEW t \in Tran, status[t] = "none"
  PROVE  Queued(t) = {} /\ waitForGraph[t] = {} /\ siteWaitingMap[t] = None
<1>1. finishedSet = {} /\ retryQueue = {}
  BY DEF SafetyInv, WalkInv
<1>2. t \notin Transactions
  BY DEF Transactions
<1>3. blockedQueue[t] = {}
  BY <1>1, <1>2 DEF SafetyInv, WalkInv, RetriesRun
<1> QED BY <1>1, <1>2, <1>3 DEF SafetyInv, BegunInv, LockInv, WaitersActive, Queued

(* Reading a line.                                                         *)
LEMMA ReadScriptSafe ==
  ASSUME SafetyInv, ReadScript
  PROVE  SafetyInv'
<1>1. TypeOK'
  BY ReadScriptType DEF SafetyInv
<1> DEFINE Read ==
             /\ pc = "ready" /\ pc' = "execute" /\ currTimestamp' = currTimestamp + 1
             /\ request'.timestamp = currTimestamp + 1
             /\ UNCHANGED <<siteVars, lockVars, tranVars, blockedQueue, siteWaitingMap,
                            loopVars>>
             /\ ended \subseteq ended'
           Asks(t) ==
             /\ request'.tran = t
             /\ t \notin ended \/ status[t] = "none"
             /\ request'.type \in {"BEGIN", "BEGINO"} => status[t] = "none"
             /\ request'.type = "END" => t \in ended'
<1>2. Read /\ (HasTran(request') => \E t \in Tran : Asks(t))
  <2>1. ASSUME NEW t \in Tran, BeginLine(t) \/ EndLine(t)
        PROVE  Read /\ Asks(t)
    BY <2>1 DEF BeginLine, EndLine, AddInstruction, scriptVars
  <2>2. ASSUME NEW t \in Tran, NEW x, ReadLine(t, x) \/ \E v : WriteLine(t, x, v)
        PROVE  Read /\ Asks(t)
    BY <2>2 DEF ReadLine, WriteLine, AddInstruction, MoreOps
  <2>3. ASSUME NEW kind \in {"FAIL", "RECOVER"}, NEW s, FaultLine(kind, s)
        PROVE  Read /\ ~HasTran(request')
    BY <2>3 DEF FaultLine, AddInstruction, HasTran
  <2> HIDE DEF Read, Asks
  <2> QED BY <2>1, <2>2, <2>3 DEF ReadScript
<1>3. DbTypeOK /\ ControlTypeOK /\ ScriptTypeOK
  BY TypeParts DEF SafetyInv
<1>4. todo = {} /\ finishedSet = {} /\ retryQueue = {}
  BY <1>2 DEF SafetyInv, WalkInv
<1>5. Transactions' = Transactions
  BY <1>2 DEF Transactions, tranVars
<1>6. LockInv'
  BY <1>2, <1>3, <1>5, LocksUntouched DEF SafetyInv, tranVars, siteVars
<1>7. QueueInv'
  <2>1. currTimestamp' \in Nat /\ currTimestamp \in Nat /\ currTimestamp <= currTimestamp'
    BY <1>2, <1>3 DEF ScriptTypeOK
  <2>2. \A t \in Tran : Queued(t)' = Queued(t)
    BY <1>2 DEF Queued, loopVars
  <2> QED BY <1>2, <1>3, <2>1, <2>2, ShrinkKeepsQueue
          DEF SafetyInv, tranVars, DbTypeOK, ControlTypeOK
<1>8. WalkInv'
  BY <1>2, <1>4, <1>5 DEF SafetyInv, WalkInv, RetriesRun, loopVars
<1>9. BegunInv'
  BY <1>2, <1>4 DEF SafetyInv, BegunInv, loopVars, tranVars
<1>10. ASSUME HasTran(request')
       PROVE  /\ \A q \in blockedQueue'[request'.tran] :
                   q.timestamp < request'.timestamp /\ q.type # "END"
              /\ request'.type \in {"BEGIN", "BEGINO"} => status'[request'.tran] = "none"
              /\ request'.type = "END" => request'.tran \in ended'
  <2>1. PICK t \in Tran : Asks(t)
    BY <1>2, <1>10
  <2>2. ASSUME NEW q \in blockedQueue[t]
        PROVE  q.timestamp < currTimestamp + 1 /\ q.type # "END"
    <3>1. q \in Queued(t) /\ q \in TranRequest
      BY <1>3, <2>2 DEF Queued, DbTypeOK
    <3>2. status[t] # "none"
      BY <1>2, <3>1, NotBegun
    <3>3. q.timestamp \in Nat /\ currTimestamp \in Nat
      BY <1>3, <3>1, RequestFields DEF AnyRequest, ScriptTypeOK
    <3> QED BY <2>1, <3>1, <3>2, <3>3 DEF SafetyInv, QueueInv
  <2> QED BY <1>2, <2>1, <2>2 DEF tranVars
<1>11. RequestInv'
  BY <1>2, <1>10 DEF RequestInv
<1> QED BY <1>1, <1>6, <1>7, <1>8, <1>9, <1>11 DEF SafetyInv

(* Breaking a deadlock takes the victim out of every queue.                *)
LEMMA BreakDeadlockSafe ==
  ASSUME SafetyInv, BreakDeadlock, TypeOK', UNCHANGED <<currTimestamp, ended>>
  PROVE  SafetyInv'
<1>1. /\ pc = "execute" /\ todo = {} /\ finishedSet = {} /\ retryQueue = {}
      /\ UNCHANGED <<request, todo, finishedSet, retryQueue>>
  BY DEF SafetyInv, WalkInv, BreakDeadlock, loopVars
<1>2. DbTypeOK /\ DbTypeOK' /\ ControlTypeOK /\ WaitersActive
  BY DEF SafetyInv, TypeOK, TMTypeOK, DbTypeOK, ControlTypeOK, LockInv
<1>3. Transactions # {}
  <2>1. PICK C \in SUBSET Tran : C # {} /\ \A t \in C : waitForGraph[t] \cap C # {}
    BY DEF BreakDeadlock, DetectDeadlock, HasCycle
  <2> QED BY <1>2, <2>1 DEF WaitersActive
<1>4. PICK t \in Youngest : AbortTransactions({t}) /\ UNCHANGED <<siteVars, siteWaitingMap, pc>>
  BY <1>3 DEF BreakDeadlock
<1>5. t \in Tran
  BY DEF Youngest, Transactions
<1>6. \A u \in Tran : /\ blockedQueue'[u] = IF u = t THEN {} ELSE blockedQueue[u]
                      /\ status'[u] = IF u = t THEN "aborted" ELSE status[u]
                      /\ isReadOnly'[u] = isReadOnly[u]
  BY <1>2, <1>4, <1>5, AbortEffect
<1>7. LockInv'
  BY <1>2, <1>4, <1>5, AbortKeepsLocks DEF SafetyInv
<1>8. QueueInv'
  <2>1. \A u \in Tran : Queued(u)' \subseteq Queued(u)
    BY <1>1, <1>6 DEF Queued
  <2> QED BY <1>2, <1>6, <2>1, ShrinkKeepsQueue
          DEF SafetyInv, TypeOK, DbTypeOK, ControlTypeOK
<1>9. WalkInv'
  <2>1. \A u \in Tran : blockedQueue'[u] # {} => u \in Transactions'
    BY <1>1, <1>6, InTable DEF SafetyInv, WalkInv, RetriesRun
  <2> QED BY <1>1, <2>1 DEF WalkInv, RetriesRun
<1>10. BegunInv'
  BY <1>1, <1>4, <1>6 DEF SafetyInv, BegunInv
<1>11. RequestInv'
  <2>1. t \in Transactions
    BY DEF Youngest
  <2>2. request # None /\ HasTran(request) => request.tran \in Tran
    BY <1>2, RequestFields DEF ControlTypeOK
  <2> QED BY <1>1, <1>4, <1>6, <2>1, <2>2, InTable DEF SafetyInv, RequestInv
<1> QED BY <1>7, <1>8, <1>9, <1>10, <1>11 DEF SafetyInv

(* Outside of the walk.                                                    *)
LEMMA ExecuteState ==
  ASSUME SafetyInv, pc = "execute"
  PROVE  /\ todo = {} /\ finishedSet = {} /\ retryQueue = {}
         /\ DbTypeOK /\ ControlTypeOK /\ currTimestamp \in Nat
         /\ \A t \in Tran : Queued(t) = blockedQueue[t]
         /\ \A t \in Tran : blockedQueue[t] # {} => t \in Transactions
BY TypeParts DEF SafetyInv, WalkInv, RetriesRun, Queued, TypeOK

(* An end that has to wait is queued behind all the others.                *)
LEMMA QueueRequestSafe ==
  ASSUME SafetyInv, QueueRequest, TypeOK', UNCHANGED <<currTimestamp, ended>>
  PROVE  SafetyInv'
<1> DEFINE t == request.tran
<1>1. /\ pc = "execute" /\ pc' = "ready" /\ request # None /\ request' = None
      /\ HasTran(request) /\ request.type \notin {"READ", "WRITE"}
      /\ RequestMustWait /\ ~RequestIsStale
      /\ AddRequestToBlockedQueue(request)
      /\ UNCHANGED <<siteVars, lockVars, tranVars, siteWaitingMap, loopVars>>
  BY DEF QueueRequest, RequestMustWait
<1>2. /\ todo = {} /\ finishedSet = {} /\ retryQueue = {} /\ DbTypeOK
      /\ currTimestamp \in Nat /\ request \in AnyRequest
      /\ \A u \in Tran : Queued(u) = blockedQueue[u]
  BY <1>1, ExecuteState DEF ControlTypeOK
<1>3. t \in Tran /\ request \in TranRequest
  BY <1>1, <1>2, RequestFields
<1>4. status[t] # "none"
  BY <1>1, <1>2, <1>3, NotBegun
     DEF RequestMustWait, IsWaitingForLock, IsTransactionWaitingForSite
<1>5. request.type = "END" /\ t \in ended /\ request.timestamp = currTimestamp
  <2>1. request.type \in {"BEGIN", "BEGINO", "END"}
    BY <1>1, <1>3 DEF TranRequest, BeginRequest, ReadRequest, WriteRequest, EndRequest
  <2> QED BY <1>1, <1>4, <2>1 DEF SafetyInv, RequestInv
<1>6. t \in Transactions
  BY <1>1, <1>5 DEF RequestIsStale
<1>7. \A u \in Tran : blockedQueue'[u] = IF u = t THEN blockedQueue[u] \cup {request}
                                         ELSE blockedQueue[u]
  BY <1>1, <1>2, <1>3 DEF AddRequestToBlockedQueue, DbTypeOK
<1>8. Transactions' = Transactions
  BY <1>1 DEF Transactions, tranVars
<1>9. LockInv'
  BY <1>1, <1>2, <1>8, LocksUntouched DEF SafetyInv, tranVars, siteVars
<1>10. QueueInv'
  <2>1. \A q \in Queued(t) : q.type # "END" /\ q.timestamp < request.timestamp
    BY <1>1, <1>2, <1>3 DEF SafetyInv, RequestInv
  <2>2. \A u \in Tran : Queued(u)' \subseteq Queued(u) \cup (IF u = t THEN {request} ELSE {})
    BY <1>1, <1>2, <1>7 DEF Queued, loopVars
  <2> QED BY <1>1, <1>2, <1>3, <1>5, <2>1, <2>2, NewRequestQueued DEF SafetyInv, tranVars
<1>11. WalkInv'
  <2>1. \A u \in Tran : blockedQueue'[u] # {} => u \in Transactions'
    BY <1>1, <1>6, <1>7, <1>8, ExecuteState
  <2> QED BY <1>1, <1>2, <2>1 DEF WalkInv, RetriesRun, loopVars
<1>12. BegunInv' /\ RequestInv'
  BY <1>1, <1>2 DEF SafetyInv, BegunInv, RequestInv, tranVars, loopVars
<1> QED BY <1>9, <1>10, <1>11, <1>12 DEF SafetyInv

(* A request is executed outside of the walk.                              *)
LEMMA ExecOutsideWalk ==
  ASSUME SafetyInv, pc = "execute", request # None, ~RequestIsStale, Exec(request),
         RequestMustWait => request.type \in {"READ", "WRITE"},
         UNCHANGED <<currTimestamp, ended, retryQueue>>
  PROVE  /\ LockInv' /\ QueueInv'
         /\ \A t \in Tran : blockedQueue'[t] # {} => t \in Transactions'
         /\ \A t \in Tran : siteWaitingMap'[t] # None => status'[t] # "none"
<1> DEFINE t == request.tran
<1>1. /\ finishedSet = {} /\ retryQueue = {} /\ DbTypeOK
      /\ currTimestamp \in Nat /\ request \in AnyRequest
      /\ \A u \in Tran : Queued(u) = blockedQueue[u]
      /\ \A u \in Tran : blockedQueue[u] # {} => u \in Transactions
  BY ExecuteState DEF ControlTypeOK
<1>2. Effect(request)
  BY <1>1, ExecEffect
<1>3. request.type \in {"READ", "WRITE", "END"} =>
        t \in Transactions /\ request \in TranRequest /\ HasTran(request)
  BY <1>1, RequestFields DEF RequestIsStale, HasTran, TranRequest
<1>4. LockInv'
  BY <1>1, <1>3, ExecLocks DEF SafetyInv
<1>5. QueueInv'
  <2>1. \A u \in Tran : Queued(u)' = blockedQueue'[u]
    BY <1>1 DEF Queued
  <2>2. CASE request.type \in {"READ", "WRITE"} /\ request \in blockedQueue'[t]
    <3>1. t \in Tran /\ request.timestamp = currTimestamp
      BY <1>3, <2>2 DEF Transactions, SafetyInv, RequestInv
    <3>2. \A q \in Queued(t) : q.type # "END" /\ q.timestamp < request.timestamp
      BY <1>1, <1>3, <2>2, <3>1 DEF SafetyInv, RequestInv
    <3>3. request \notin Queued(t)
      BY <1>1, <3>1, <3>2
    <3>4. request.type = "READ" /\ isReadOnly[t] => IsOdd(request.var)
      BY <1>1, <1>2, <2>2, <3>1, <3>3 DEF Effect, QueueEffect
    <3>5. \A u \in Tran : Queued(u)' \subseteq Queued(u) \cup (IF u = t THEN {request} ELSE {})
      BY <1>1, <1>2, <2>1 DEF Effect, QueueEffect
    <3>6. isReadOnly' = isReadOnly
      <4>1. \A u \in Tran : isReadOnly'[u] = isReadOnly[u]
        BY <1>2, <2>2 DEF Effect, BegunEffect
      <4> QED BY <1>1, <4>1, ExecType DEF DbTypeOK, TranTypeOK
    <3> QED BY <1>1, <1>3, <2>2, <3>1, <3>2, <3>4, <3>5, <3>6, NewRequestQueued DEF SafetyInv
  <2>3. CASE ~(request.type \in {"READ", "WRITE"} /\ request \in blockedQueue'[t])
    <3>1. \A u \in Tran : Queued(u)' \subseteq Queued(u)
      BY <1>1, <1>2, <2>1, <2>3 DEF Effect, QueueEffect
    <3>2. ASSUME NEW u \in Tran, Queued(u) # {}
          PROVE  isReadOnly'[u] = isReadOnly[u]
      <4>1. status[u] # "none"
        BY <3>2, NotBegun
      <4>2. ~(request.type \in {"BEGIN", "BEGINO"} /\ request.tran = u)
        BY <4>1 DEF SafetyInv, RequestInv, HasTran
      <4> QED BY <1>2, <4>2 DEF Effect, BegunEffect
    <3> QED BY <1>1, <3>1, <3>2, ShrinkKeepsQueue DEF SafetyInv, DbTypeOK
  <2> QED BY <2>2, <2>3
<1>6. ASSUME NEW u \in Tran, blockedQueue'[u] # {}
      PROVE  u \in Transactions'
  <2>1. u \in Transactions
    BY <1>1, <1>2, <1>3, <1>6 DEF Effect, QueueEffect
  <2>2. CASE request.type = "END" /\ t = u
    <3>1. HasTran(request) /\ blockedQueue[u] = {}
      BY <1>3, <2>2 DEF RequestMustWait
    <3> QED BY <1>2, <1>6, <2>2, <3>1 DEF Effect, QueueEffect
  <2>3. CASE ~(request.type = "END" /\ t = u)
    BY <1>2, <1>6, <2>1, <2>3 DEF Effect, QueueEffect
  <2> QED BY <2>2, <2>3
<1>7. ASSUME NEW u \in Tran, siteWaitingMap'[u] # None
      PROVE  status'[u] # "none"
  <2>1. status[u] # "none"
    BY <1>2, <1>3, <1>7, InTable DEF Effect, BegunEffect, SafetyInv, BegunInv
  <2> QED BY <1>2, <2>1 DEF Effect, BegunEffect
<1> QED BY <1>4, <1>5, <1>6, <1>7

(* A read or write of a waiting transaction.                               *)
LEMMA ExecWhileWaitingSafe ==
  ASSUME SafetyInv, ExecWhileWaiting, TypeOK', UNCHANGED <<currTimestamp, ended>>
  PROVE  SafetyInv'
<1>1. /\ pc = "execute" /\ pc' = "ready" /\ request # None /\ request' = None
      /\ ~RequestIsStale /\ request.type \in {"READ", "WRITE"} /\ Exec(request)
      /\ UNCHANGED loopVars
  BY DEF ExecWhileWaiting, RequestMustWait
<1>2. /\ LockInv' /\ QueueInv'
      /\ \A t \in Tran : blockedQueue'[t] # {} => t \in Transactions'
      /\ \A t \in Tran : siteWaitingMap'[t] # None => status'[t] # "none"
  BY <1>1, ExecOutsideWalk DEF loopVars
<1>3. todo' = {} /\ finishedSet' = {} /\ retryQueue' = {}
  BY <1>1, ExecuteState DEF loopVars
<1>4. WalkInv' /\ BegunInv' /\ RequestInv'
  BY <1>1, <1>2, <1>3 DEF WalkInv, RetriesRun, BegunInv, RequestInv
<1> QED BY <1>2, <1>4 DEF SafetyInv

(* Any other request, or none in a drain pass.                             *)
LEMMA ExecRequestSafe ==
  ASSUME SafetyInv, ExecRequest, TypeOK', UNCHANGED <<currTimestamp, ended>>
  PROVE  SafetyInv'
<1>1. /\ pc = "execute" /\ pc' = "retry" /\ ~RequestIsStale /\ ~RequestMustWait
      /\ todo' = {t \in Tran : blockedQueue'[t] # {}}
      /\ UNCHANGED <<request, finishedSet, retryQueue>>
      /\ request = None => UNCHANGED dbVars
      /\ request # None => Exec(request)
  BY DEF ExecRequest
<1>2. /\ finishedSet = {} /\ retryQueue = {} /\ DbTypeOK /\ currTimestamp \in Nat
      /\ \A t \in Tran : Queued(t) = blockedQueue[t]
      /\ \A t \in Tran : blockedQueue[t] # {} => t \in Transactions
  BY <1>1, ExecuteState
<1>3. /\ LockInv' /\ QueueInv'
      /\ \A t \in Tran : blockedQueue'[t] # {} => t \in Transactions'
      /\ \A t \in Tran : siteWaitingMap'[t] # None => status'[t] # "none"
  <2>1. CASE request # None
    BY <1>1, <2>1, ExecOutsideWalk
  <2>2. CASE request = None
    <3>1. Transactions' = Transactions /\ UNCHANGED <<tranVars, siteVars, lockVars, blockedQueue,
                                                      siteWaitingMap>>
      BY <1>1, <2>2 DEF dbVars, tranVars, Transactions
    <3>2. LockInv'
      BY <1>2, <3>1, LocksUntouched DEF SafetyInv, tranVars, siteVars
    <3>3. \A t \in Tran : Queued(t)' = Queued(t)
      BY <1>1, <3>1 DEF Queued
    <3>4. QueueInv'
      BY <1>2, <3>1, <3>3, ShrinkKeepsQueue DEF SafetyInv, DbTypeOK, tranVars
    <3> QED BY <1>2, <3>1, <3>2, <3>4 DEF SafetyInv, BegunInv, tranVars
  <2> QED BY <2>1, <2>2
<1>4. WalkInv'
  BY <1>1, <1>2, <1>3 DEF WalkInv, RetriesRun
<1>5. BegunInv' /\ RequestInv'
  BY <1>1, <1>2, <1>3, InTable DEF BegunInv, RequestInv
<1> QED BY <1>3, <1>4, <1>5 DEF SafetyInv

(* The walk copies the queue of a running transaction.                     *)
LEMMA RetryVisitSafe ==
  ASSUME SafetyInv, RetryVisit, TypeOK', UNCHANGED <<currTimestamp, ended>>
  PROVE  SafetyInv'
<1>1. PICK t \in todo :
        /\ todo' = todo \ {t}
        /\ \/ UNCHANGED <<finishedSet, retryQueue>>
           \/ finishedSet' = finishedSet \cup {t} /\ retryQueue' = blockedQueue[t]
  BY DEF RetryVisit
<1>2. /\ pc = "retry" /\ retryQueue = {} /\ UNCHANGED <<dbVars, request, pc>>
      /\ UNCHANGED <<siteVars, lockVars, tranVars, blockedQueue, siteWaitingMap>>
  BY DEF RetryVisit, dbVars
<1>3. DbTypeOK /\ ControlTypeOK /\ currTimestamp \in Nat
  BY TypeParts DEF SafetyInv, TypeOK
<1>4. t \in Tran /\ t \notin finishedSet /\ Transactions' = Transactions
  BY <1>2, <1>3 DEF ControlTypeOK, SafetyInv, WalkInv, Transactions, tranVars
<1>5. \A r \in blockedQueue[t] : r.tran = t /\ t \in Transactions
  BY <1>4 DEF SafetyInv, QueueInv, Queued, WalkInv, RetriesRun
<1>6. LockInv'
  BY <1>2, <1>3, <1>4, LocksUntouched DEF SafetyInv, tranVars, siteVars
<1>7. QueueInv'
  <2>1. \A u \in Tran : Queued(u)' \subseteq Queued(u)
    BY <1>1, <1>2, <1>5 DEF Queued
  <2> QED BY <1>2, <1>3, <2>1, ShrinkKeepsQueue
          DEF SafetyInv, DbTypeOK, ControlTypeOK, tranVars
<1>8. WalkInv'
  <2>1. RetriesRun'
    BY <1>1, <1>2, <1>4, <1>5 DEF SafetyInv, WalkInv, RetriesRun
  <2>2. \A q, r \in retryQueue' : q.tran = r.tran /\ r.tran \in finishedSet'
    BY <1>1, <1>2, <1>5
  <2>3. todo' \cap finishedSet' = {} /\ pc' = "retry"
    BY <1>1, <1>2 DEF SafetyInv, WalkInv
  <2> QED BY <2>1, <2>2, <2>3 DEF WalkInv
<1>9. BegunInv' /\ RequestInv'
  BY <1>1, <1>2 DEF SafetyInv, BegunInv, RequestInv, tranVars
<1> QED BY <1>6, <1>7, <1>8, <1>9 DEF SafetyInv

(* A retried request is executed; an end is the last of its queue.         *)
LEMMA RetryExecSafe ==
  ASSUME SafetyInv, RetryExec, TypeOK', UNCHANGED <<currTimestamp, ended>>
  PROVE  SafetyInv'
<1>0. DbTypeOK /\ ControlTypeOK /\ currTimestamp \in Nat
  BY TypeParts DEF SafetyInv, TypeOK
<1>1. PICK r \in retryQueue :
        /\ \A q \in retryQueue : r.timestamp <= q.timestamp
        /\ Exec(r) /\ retryQueue' = retryQueue \ {r}
  BY <1>0, EarliestInQueue DEF RetryExec, ControlTypeOK
<1>2. /\ pc = "retry" /\ pc' \in {"retry", "undefined"} /\ todo' \subseteq todo
      /\ UNCHANGED <<request, finishedSet>>
  BY DEF RetryExec
<1>3. r \in AnyRequest /\ r \in TranRequest
  BY <1>0 DEF ControlTypeOK, AnyRequest
<1>4. r.tran \in Transactions /\ r.tran \in Tran /\ r.tran \in finishedSet
  BY DEF SafetyInv, WalkInv, RetriesRun, Transactions
<1>5. r \in Queued(r.tran) /\ \A q \in retryQueue : q.tran = r.tran /\ q \in Queued(r.tran)
  BY DEF Queued, SafetyInv, WalkInv
<1>6. /\ r.type \in {"READ", "WRITE", "END"}
      /\ r.type = "READ" /\ isReadOnly[r.tran] => IsOdd(r.var)
  BY <1>4, <1>5 DEF SafetyInv, QueueInv
<1>7. r.type = "END" => retryQueue = {r}
  <2>1. ASSUME NEW q \in retryQueue, q # r, r.type = "END"
        PROVE  FALSE
    <3>1. q.timestamp \in Nat /\ r.timestamp \in Nat
      BY <1>0, <1>3, RequestFields DEF ControlTypeOK, AnyRequest
    <3>2. q.timestamp < r.timestamp
      BY <1>4, <1>5, <2>1 DEF SafetyInv, QueueInv
    <3> QED BY <1>1, <3>1, <3>2
  <2> QED BY <2>1
<1>8. Effect(r)
  BY <1>0, <1>1, <1>3, ExecEffect
<1>9. /\ \A t \in Tran : isReadOnly'[t] = isReadOnly[t]
      /\ \A t \in Tran : Queued(t)' \subseteq Queued(t)
  BY <1>1, <1>5, <1>6, <1>8 DEF Effect, BegunEffect, QueueEffect, Queued
<1>10. LockInv'
  BY <1>0, <1>1, <1>3, <1>4, ExecLocks DEF SafetyInv
<1>11. QueueInv'
  BY <1>0, <1>9, ShrinkKeepsQueue DEF SafetyInv, DbTypeOK, ControlTypeOK
<1>12. WalkInv'
  <2>1. ASSUME NEW t \in Tran, blockedQueue'[t] # {}
        PROVE  t \in Transactions' \cup finishedSet'
    BY <1>2, <1>4, <1>8, <2>1 DEF Effect, QueueEffect, SafetyInv, WalkInv, RetriesRun
  <2>2. ASSUME NEW q \in retryQueue'
        PROVE  q.tran \in Transactions'
    BY <1>1, <1>4, <1>5, <1>6, <1>7, <1>8, <2>2 DEF Effect, LeaveEffect
  <2> QED BY <1>1, <1>2, <2>1, <2>2 DEF SafetyInv, WalkInv, RetriesRun
<1>13. BegunInv'
  <2>1. todo \subseteq Tran /\ finishedSet \subseteq Tran /\ status[r.tran] # "none"
    BY <1>0, <1>4, InTable DEF ControlTypeOK
  <2> QED BY <1>2, <1>8, <2>1 DEF SafetyInv, BegunInv, Effect, BegunEffect
<1>14. RequestInv'
  BY <1>2 DEF RequestInv
<1> QED BY <1>10, <1>11, <1>12, <1>13, <1>14 DEF SafetyInv

(* The walk ends.                                                          *)
LEMMA FinishRetrySafe ==
  ASSUME SafetyInv, FinishRetry, TypeOK', UNCHANGED <<currTimestamp, ended>>
  PROVE  SafetyInv'
<1>1. /\ pc' = "ready" /\ request' = None /\ todo' = {} /\ finishedSet' = {}
      /\ retryQueue' = {}
      /\ \A t \in Tran : blockedQueue'[t] = IF t \in finishedSet THEN {} ELSE blockedQueue[t]
      /\ UNCHANGED <<siteVars, lockVars, tranVars, siteWaitingMap>>
  BY DEF FinishRetry
<1>2. DbTypeOK /\ ControlTypeOK /\ currTimestamp \in Nat
  BY TypeParts DEF SafetyInv, TypeOK
<1>3. Transactions' = Transactions
  BY <1>1 DEF Transactions, tranVars
<1>4. LockInv'
  BY <1>1, <1>2, <1>3, LocksUntouched DEF SafetyInv, tranVars, siteVars
<1>5. QueueInv'
  <2>1. \A t \in Tran : Queued(t)' \subseteq Queued(t)
    BY <1>1 DEF Queued
  <2> QED BY <1>1, <1>2, <2>1, ShrinkKeepsQueue
          DEF SafetyInv, DbTypeOK, ControlTypeOK, tranVars
<1>6. WalkInv' /\ BegunInv' /\ RequestInv'
  BY <1>1, <1>3 DEF SafetyInv, WalkInv, RetriesRun, BegunInv, RequestInv, tranVars
<1> QED BY <1>4, <1>5, <1>6 DEF SafetyInv

(* A step that touches neither the data nor the queues.                    *)
LEMMA ControlSafe ==
  ASSUME SafetyInv, TypeOK', UNCHANGED <<dbVars, loopVars, currTimestamp, ended>>,
         \/ pc' \in {"thrown", "undefined"}
         \/ pc \in {"ready", "execute"} /\ pc' = "ready" /\ request' = None
         \/ pc = "ready" /\ pc' = "execute" /\ request' = None
         \/ pc = "ready" /\ pc' = "execute" /\ request'.timestamp = currTimestamp
            /\ ~HasTran(request')
         \/ UNCHANGED <<pc, request>>
  PROVE  SafetyInv'
<1>1. UNCHANGED <<siteVars, lockVars, tranVars, blockedQueue, siteWaitingMap,
                  todo, finishedSet, retryQueue>>
  BY DEF dbVars, loopVars
<1>2. DbTypeOK /\ ControlTypeOK /\ currTimestamp \in Nat
  BY TypeParts DEF SafetyInv, TypeOK
<1>3. Transactions' = Transactions
  BY <1>1 DEF Transactions, tranVars
<1>4. LockInv'
  BY <1>1, <1>2, <1>3, LocksUntouched DEF SafetyInv, tranVars, siteVars
<1>5. QueueInv'
  <2>1. \A t \in Tran : Queued(t)' \subseteq Queued(t)
    BY <1>1 DEF Queued
  <2> QED BY <1>1, <1>2, <2>1, ShrinkKeepsQueue
          DEF SafetyInv, DbTypeOK, ControlTypeOK, tranVars
<1>6. WalkInv' /\ BegunInv' /\ RequestInv'
  BY <1>1, <1>3 DEF SafetyInv, WalkInv, RetriesRun, BegunInv, RequestInv, tranVars
<1> QED BY <1>4, <1>5, <1>6 DEF SafetyInv

(* The program starts with nothing locked and nothing queued.              *)
LEMMA InitSafe == Init => SafetyInv
<1> SUFFICES ASSUME Init
             PROVE  SafetyInv
  OBVIOUS
<1>1. TypeOK
  BY InitType
<1>2. LockInv
  BY GlobalAssumption DEF Init, LockInit, TranInit, NoRecords, LockInv, LockExclusion,
     NoOrphanLocks, OneWriter, RecordsLocked, WaitersActive, Holders
<1>3. QueueInv /\ WalkInv /\ BegunInv /\ RequestInv
  BY DEF Init, TMInit, QueueInv, Queued, WalkInv, RetriesRun, BegunInv, RequestInv
<1> QED BY <1>1, <1>2, <1>3 DEF SafetyInv

(* Every step keeps the invariant.                                         *)
LEMMA NextSafe == SafetyInv /\ [Next]_vars => SafetyInv'
<1> SUFFICES ASSUME SafetyInv, [Next]_vars
             PROVE  SafetyInv'
  OBVIOUS
<1>1. TypeOK'
  BY NextType DEF SafetyInv
<1>2. CASE ReadScript
  BY <1>2, ReadScriptSafe
<1>3. CASE Execute
  <2>1. ExecuteInstructions /\ UNCHANGED <<currTimestamp, ended>>
    BY <1>3 DEF Execute, scriptVars
  <2>2. CASE DropRequest \/ ThrowInRequest \/ ThrowInRetry
    BY <1>1, <2>1, <2>2, ControlSafe DEF DropRequest, ThrowInRequest, ThrowInRetry
  <2> QED BY <1>1, <2>1, <2>2, BreakDeadlockSafe, QueueRequestSafe, ExecWhileWaitingSafe,
             ExecRequestSafe, RetryVisitSafe, RetryExecSafe, FinishRetrySafe
          DEF ExecuteInstructions
<1>4. CASE EndOfFile \/ Terminated \/ UNCHANGED vars
  BY <1>1, <1>4, ControlSafe DEF EndOfFile, Terminated, vars, tmVars, scriptVars
<1>5. CASE DrainPass
  <2>1. request' = None
    BY <1>5 DEF DrainPass, SafetyInv, RequestInv
  <2> QED BY <1>1, <1>5, <2>1, ControlSafe DEF DrainPass, scriptVars
<1>6. CASE Dump
  BY <1>1, <1>6, ControlSafe DEF Dump, scriptVars, HasTran
<1> QED BY <1>2, <1>3, <1>4, <1>5, <1>6 DEF Next

-----------------------------------------------------------------------------
(* The theorems. *)

(* Locks, pending writes, the blocked queue and the walk of it are         *)
(* consistent in every reachable state of the program.                     *)
THEOREM SafetyInvariant == Spec => []SafetyInv
BY InitSafe, NextSafe, PTL DEF Spec

(* The locks are exclusive: no two transactions hold locks on one copy.    *)
THEOREM LocksExclude == Spec => []LockExclusion
<1>1. SafetyInv => LockExclusion
  BY DEF SafetyInv, LockInv
<1> QED BY <1>1, SafetyInvariant, PTL

(* The exclusive locks on all copies of a variable have one owner, also if *)
(* they were granted while different sites were up.                        *)
THEOREM WritersAlone == Spec => []OneWriter
<1>1. SafetyInv => OneWriter
  BY DEF SafetyInv, LockInv
<1> QED BY <1>1, SafetyInvariant, PTL

(* Every holder of a lock runs and release_locks will find its locks.      *)
THEOREM LocksOwned == Spec => []NoOrphanLocks
<1>1. SafetyInv => NoOrphanLocks
  BY DEF SafetyInv, LockInv
<1> QED BY <1>1, SafetyInvariant, PTL

(* A transaction with a pending write runs and holds the exclusive lock of *)
(* the copy, at a site that is up: commit finds every written site up.     *)
THEOREM WritesCovered == Spec => []PendingWritesCovered
<1>1. SafetyInv => PendingWritesCovered
  <2> SUFFICES ASSUME SafetyInv, NEW t \in Tran, NEW s \in Site, NEW x \in Var,
                      writeRecords[t][s][x] # None
               PROVE  t \in Transactions /\ exclusiveOwner[s][x] = t /\ writeAvailable[s]
    BY DEF PendingWritesCovered
  <2>1. exclusiveOwner[s][x] = t /\ writeAvailable[s]
    BY DEF SafetyInv, LockInv, RecordsLocked
  <2>2. t \in Holders(s, x)
    BY <2>1, GlobalAssumption DEF Holders
  <2> QED BY <2>1, <2>2 DEF SafetyInv, LockInv, NoOrphanLocks
<1> QED BY <1>1, SafetyInvariant, PTL

(* Those who wait for a lock run; a deadlock has a transaction to abort.   *)
THEOREM DeadlocksHaveVictims == Spec => []WaitersRun
<1>1. SafetyInv => WaitersRun
  <2> SUFFICES ASSUME SafetyInv
               PROVE  WaitersRun
    OBVIOUS
  <2>1. \A t \in Tran : waitForGraph[t] # {} => t \in Transactions
    BY DEF SafetyInv, LockInv, WaitersActive
  <2>2. DetectDeadlock => Transactions # {}
    BY <2>1 DEF DetectDeadlock, HasCycle
  <2> QED BY <2>1, <2>2 DEF WaitersRun
<1> QED BY <1>1, SafetyInvariant, PTL

(* Those who are retried run: get_transaction finds them in the walk.      *)
THEOREM QueuesRun == Spec => []RetriesRun
<1>1. SafetyInv => RetriesRun
  BY DEF SafetyInv, WalkInv
<1> QED BY <1>1, SafetyInvariant, PTL

-----------------------------------------------------------------------------
(* Why the process may die. *)

(* handle_read_request throws for a transaction that has locked a copy of  *)
(* the variable already.                                                   *)
LEMMA ThrowerHoldsLock ==
  ASSUME NEW r, r.tran \in Tran, r.var \in Var, ThrowsErrorStatus(r)
  PROVE  r.type = "READ" /\ \E s \in Site : r.tran \in Holders(s, r.var)
<1> DEFINE t == r.tran
           x == r.var
<1>1. r.type = "READ" /\ LockStatus(t, x) \in {"HAS_READ_LOCK", "HAS_WRITE_LOCK"}
  BY DEF ThrowsErrorStatus
<1>2. None \notin Tran /\ UpCopies(x) \subseteq Site
  BY GlobalAssumption, CopyPlaces
<1>3. CASE StopCopies(t, x) # {}
  <2>1. FirstStop(t, x) \in StopCopies(t, x) /\ FirstStop(t, x) \in Site
    BY <1>3, FirstStopExists
  <2>2. ~MustWait(FirstStop(t, x), x, t)
    BY <1>1, <1>3 DEF LockStatus
  <2>3. exclusiveOwner[FirstStop(t, x)][x] = t
    BY <2>1, <2>2 DEF StopCopies, HasExclusiveLock
  <2> QED BY <1>1, <1>2, <2>1, <2>3 DEF Holders
<1>4. CASE StopCopies(t, x) = {}
  <2>1. PICK s \in UpCopies(x) : CanPromote(s, x, t)
    BY <1>1, <1>4 DEF LockStatus
  <2>2. t \in sharedOwners[s][x]
    BY <2>1 DEF CanPromote, HasSharedLock
  <2> QED BY <1>1, <1>2, <2>2 DEF Holders
<1> QED BY <1>3, <1>4

(* A queued end that cannot commit aborts a transaction under the iterator *)
(* of the walk: its entry is among the finished ones.                      *)
LEMMA RetryCrash ==
  ASSUME SafetyInv, RetryExec, UNCHANGED ended, pc' = "undefined"
  PROVE  \E t \in finishedSet' \cap ended' : status'[t] = "aborted"
<1> DEFINE r == Earliest(retryQueue)
           t == r.tran
<1>1. DbTypeOK /\ ControlTypeOK
  BY TypeParts DEF SafetyInv, TypeOK
<1>2. r \in retryQueue
  BY <1>1, EarliestInQueue DEF RetryExec, ControlTypeOK
<1>3. /\ pc = "retry" /\ Exec(r) /\ finishedSet' = finishedSet
      /\ r.type = "END" /\ ~CanCommit(t)
  BY DEF RetryExec, ErasesVisitedEntry
<1>4. t \in Tran /\ t \in finishedSet
  BY <1>2 DEF SafetyInv, WalkInv, RetriesRun, Transactions
<1>5. r \in Queued(t)
  BY <1>2 DEF Queued
<1>6. t \in ended
  BY <1>3, <1>4, <1>5 DEF SafetyInv, QueueInv
<1>7. AbortTransactions({t})
  BY <1>3 DEF Exec, ExecEnd
<1>8. status'[t] = "aborted"
  BY <1>1, <1>4, <1>7, AbortEffect
<1> QED BY <1>3, <1>4, <1>6, <1>8

(* Only two steps end the process, and it stays as they leave it.          *)
LEMMA NextCrashes ==
  ASSUME SafetyInv, CrashesExplained, [Next]_vars
  PROVE  CrashesExplained'
<1>1. CASE UNCHANGED vars
  BY <1>1 DEF CrashesExplained, Holders, vars, tmVars, dbVars, siteVars, lockVars, tranVars,
              loopVars, scriptVars
<1>2. CASE pc' \notin {"thrown", "undefined"}
  BY <1>2 DEF CrashesExplained
<1>3. CASE ~UNCHANGED vars /\ pc' \in {"thrown", "undefined"}
  <2>0. DbTypeOK /\ ControlTypeOK
    BY TypeParts DEF SafetyInv, TypeOK
  <2>1. ExecuteInstructions /\ UNCHANGED ended
    <3>1. ~(ReadScript \/ DrainPass \/ Dump)
      BY <1>3 DEF ReadScript, BeginLine, ReadLine, WriteLine, EndLine, FaultLine,
                  AddInstruction, DrainPass, Dump
    <3>2. ~EndOfFile
      BY <1>3 DEF EndOfFile, tmVars
    <3> QED BY <1>3, <3>1, <3>2 DEF Next, Terminated, Execute, scriptVars
  <2>2. ~(DropRequest \/ QueueRequest \/ ExecWhileWaiting \/ ExecRequest
          \/ RetryVisit \/ FinishRetry)
    BY <1>3 DEF DropRequest, QueueRequest, ExecWhileWaiting, ExecRequest, RetryVisit,
                FinishRetry
  <2>3. ~BreakDeadlock
    <3>1. DetectDeadlock => Transactions # {}
      BY DEF DetectDeadlock, HasCycle, SafetyInv, LockInv, WaitersActive
    <3> QED BY <1>3, <3>1 DEF BreakDeadlock
  <2>4. ASSUME NEW r, r \in ({request} \ {None}) \cup retryQueue, r.tran \in Tran,
               r.type = "READ" => r.var \in Var, ThrowsErrorStatus(r), pc' = "thrown",
               UNCHANGED <<dbVars, request, retryQueue>>
        PROVE  CrashesExplained'
    <3>1. r.type = "READ" /\ \E s \in Site : r.tran \in Holders(s, r.var)
      BY <2>4, ThrowerHoldsLock DEF ThrowsErrorStatus
    <3>2. \A s \in Site, x \in Var : Holders(s, x)' = Holders(s, x)
      BY <2>4 DEF Holders, dbVars, lockVars
    <3>3. r.var \in Var
      BY <2>4, <3>1
    <3>4. \E s \in Site : r.tran \in Holders(s, r.var)'
      BY <3>1, <3>2, <3>3
    <3> QED BY <2>4, <3>1, <3>4 DEF CrashesExplained
  <2>5. CASE ThrowInRequest
    <3>1. /\ request # None /\ ThrowsErrorStatus(request) /\ pc' = "thrown"
          /\ UNCHANGED <<dbVars, request, retryQueue>>
      BY <2>5 DEF ThrowInRequest, loopVars
    <3>2. request \in AnyRequest /\ request.type = "READ"
      BY <2>0, <3>1 DEF ControlTypeOK, ThrowsErrorStatus
    <3>3. request.tran \in Tran /\ request.var \in Var
      BY <3>2, RequestFields
    <3> QED BY <2>4, <3>1, <3>3
  <2>6. CASE ThrowInRetry
    <3> DEFINE r == Earliest(retryQueue)
    <3>1. /\ r \in retryQueue /\ ThrowsErrorStatus(r) /\ pc' = "thrown"
          /\ UNCHANGED <<dbVars, request, retryQueue>>
      BY <2>0, <2>6, EarliestInQueue DEF ThrowInRetry, ControlTypeOK, loopVars
    <3>2. r \in AnyRequest /\ r.type = "READ"
      BY <2>0, <3>1 DEF ControlTypeOK, AnyRequest, ThrowsErrorStatus
    <3>3. r.tran \in Tran /\ r.var \in Var
      BY <3>2, RequestFields
    <3> QED BY <2>4, <3>1, <3>3
  <2>7. CASE RetryExec
    <3>1. pc' = "undefined"
      BY <1>3, <2>7 DEF RetryExec
    <3> QED BY <2>1, <2>7, <3>1, RetryCrash DEF CrashesExplained
  <2> QED BY <2>1, <2>2, <2>3, <2>5, <2>6, <2>7 DEF ExecuteInstructions
<1> QED BY <1>1, <1>2, <1>3

(* The process dies in two situations only: a transaction reads again what *)
(* it has locked, or a queued commit fails under the iterator of the walk. *)
THEOREM CrashesKnown == Spec => []CrashesExplained
<1>1. Init => CrashesExplained
  BY DEF Init, TMInit, CrashesExplained
<1>2. SafetyInv /\ CrashesExplained /\ [Next]_vars => CrashesExplained'
  BY NextCrashes
<1> QED BY <1>1, <1>2, SafetyInvariant, PTL DEF Spec

-----------------------------------------------------------------------------
(* The ends. *)

\* The end line of a transaction comes after its begin line.
EndsBegun == \A t \in ended : status[t] # "none"

(* Who runs after a request was executed: not the one it has ended, and no *)
(* new one unless it began; and their queues have lost nothing.            *)
LEMMA ExecRuns ==
  ASSUME DbTypeOK, NEW r \in AnyRequest, Exec(r), NEW t \in Tran, t \in Transactions'
  PROVE  /\ r.type = "END" => r.tran # t
         /\ t \in Transactions \/ (r.type \in {"BEGIN", "BEGINO"} /\ r.tran = t)
         /\ blockedQueue[t] \subseteq blockedQueue'[t]
<1>1. ASSUME WaitForLock(r) \/ WaitForSite(r), r.tran \in Tran
      PROVE  t \in Transactions /\ blockedQueue[t] \subseteq blockedQueue'[t]
  BY <1>1, InTable
     DEF WaitForLock, WaitForSite, AddRequestToBlockedQueue, DbTypeOK, tranVars
<1>2. ASSUME NEW T \in SUBSET Tran, AbortTransactions(T)
      PROVE  t \in Transactions /\ t \notin T /\ blockedQueue[t] \subseteq blockedQueue'[t]
  BY <1>2, AbortEffect, InTable
<1>3. ASSUME UNCHANGED <<status, blockedQueue>>
      PROVE  t \in Transactions /\ blockedQueue[t] \subseteq blockedQueue'[t]
  BY <1>3, InTable
<1>4. CASE r.type \in {"BEGIN", "BEGINO"} /\ ExecBegin(r)
  <2>1. r.tran \in Tran
    BY <1>4, RequestFields
  <2> QED BY <1>4, <2>1, InTable DEF ExecBegin, AddTransaction, DbTypeOK, TranTypeOK
<1>5. CASE r.type = "READ" /\ ExecRead(r)
  <2>1. r.tran \in Tran
    BY <1>5, RequestFields
  <2>2. ASSUME NEW s, ReadOnlyAt(r, s)
        PROVE  UNCHANGED <<status, blockedQueue>>
    BY <2>2 DEF ReadOnlyAt, AddReadHistory
  <2>3. CASE ExecReadOnly(r)
    BY <1>1, <1>2, <1>3, <1>5, <2>1, <2>2, <2>3 DEF ExecReadOnly
  <2>4. CASE ExecReadLocked(r)
    BY <1>1, <1>3, <1>5, <2>1, <2>4 DEF ExecReadLocked, AddReadHistory, tranVars
  <2> QED BY <1>5, <2>3, <2>4 DEF ExecRead
<1>6. CASE r.type = "WRITE" /\ ExecWrite(r)
  <2>1. r.tran \in Tran
    BY <1>6, RequestFields
  <2> QED BY <1>1, <1>3, <1>6, <2>1 DEF ExecWrite, UpdateValues, dbVars, tranVars
<1>7. CASE r.type = "END" /\ ExecEnd(r)
  <2>1. r.tran \in Tran
    BY <1>7, RequestFields
  <2>2. CASE AbortTransactions({r.tran})
    BY <1>2, <1>7, <2>1, <2>2
  <2>3. CASE Evict({r.tran}, "committed") /\ UNCHANGED blockedQueue
    BY <1>7, <2>1, <2>3, InTable DEF Evict
  <2> QED BY <1>7, <2>2, <2>3 DEF ExecEnd
<1>8. CASE r.type = "FAIL" /\ ExecFail(r)
  BY <1>2, <1>8 DEF ExecFail, Transactions
<1>9. CASE r.type \in {"RECOVER", "DUMP"} /\ UNCHANGED <<status, blockedQueue>>
  BY <1>3, <1>9
<1> QED BY <1>4, <1>5, <1>6, <1>7, <1>8, <1>9 DEF Exec, ExecRecover, dbVars, tranVars

(* A request of the walk has been queued by a running transaction.         *)
LEMMA RetriedRequest ==
  ASSUME SafetyInv, NEW r \in retryQueue
  PROVE  r \in AnyRequest /\ r.tran \in Transactions /\ r.type \in {"READ", "WRITE", "END"}
<1>1. r \in AnyRequest
  BY TypeParts DEF SafetyInv, ControlTypeOK, AnyRequest
<1>2. r.tran \in Transactions /\ r.tran \in Tran
  BY DEF SafetyInv, WalkInv, RetriesRun, Transactions
<1> QED BY <1>1, <1>2 DEF SafetyInv, QueueInv, Queued

(* No step begins a transaction that has ended, or loses an end.           *)
LEMMA NextBegun == SafetyInv /\ EndsBegun /\ [Next]_vars => EndsBegun'
<1> SUFFICES ASSUME SafetyInv, EndsBegun, [Next]_vars
             PROVE  EndsBegun'
  OBVIOUS
<1>0. DbTypeOK /\ ControlTypeOK /\ ended \subseteq Tran
  BY TypeParts DEF SafetyInv, TypeOK, ScriptTypeOK
<1>1. ASSUME NEW r \in AnyRequest, Exec(r), UNCHANGED ended
      PROVE  EndsBegun'
  BY <1>0, <1>1, ExecEffect DEF EndsBegun, Effect, BegunEffect
<1>2. ASSUME NEW T \in SUBSET Tran, AbortTransactions(T), UNCHANGED ended
      PROVE  EndsBegun'
  BY <1>0, <1>2, AbortEffect DEF EndsBegun
<1>3. ASSUME UNCHANGED <<status, ended>>
      PROVE  EndsBegun'
  BY <1>3 DEF EndsBegun
<1>4. CASE ReadScript
  <2>1. UNCHANGED status
    BY <1>4 DEF ReadScript, BeginLine, ReadLine, WriteLine, EndLine, FaultLine,
                AddInstruction, tranVars
  <2>2. UNCHANGED ended \/ \E t \in Tran : status[t] # "none" /\ ended' = ended \cup {t}
    BY <1>4 DEF ReadScript, BeginLine, ReadLine, WriteLine, EndLine, FaultLine, scriptVars
  <2> QED BY <2>1, <2>2 DEF EndsBegun
<1>5. CASE ExecuteInstructions /\ UNCHANGED ended
  <2>1. CASE BreakDeadlock
    BY <1>2, <1>3, <1>5, <2>1 DEF BreakDeadlock, Youngest, Transactions, dbVars, tranVars
  <2>2. CASE ExecWhileWaiting \/ ExecRequest
    BY <1>0, <1>1, <1>3, <1>5, <2>2
       DEF ExecWhileWaiting, ExecRequest, RequestMustWait, ControlTypeOK, dbVars, tranVars
  <2>3. CASE RetryExec
    <3>1. Earliest(retryQueue) \in retryQueue
      BY <1>0, <2>3, EarliestInQueue DEF RetryExec, ControlTypeOK
    <3> QED BY <1>1, <1>5, <2>3, <3>1, RetriedRequest DEF RetryExec
  <2> QED BY <1>3, <1>5, <2>1, <2>2, <2>3
          DEF ExecuteInstructions, DropRequest, QueueRequest, ThrowInRequest, RetryVisit,
              ThrowInRetry, FinishRetry, dbVars, tranVars
<1>6. CASE EndOfFile \/ DrainPass \/ Dump \/ Terminated \/ UNCHANGED vars
  BY <1>3, <1>6 DEF EndOfFile, DrainPass, Dump, Terminated, vars, tmVars, dbVars, tranVars,
                    scriptVars
<1> QED BY <1>4, <1>5, <1>6 DEF Next, Execute, scriptVars

(* An end that waits in the blocked queue is left there by every step that *)
(* neither walks the queue nor ends its transaction.                       *)
LEMMA QueuedEndStays ==
  ASSUME NEW t \in Tran, EndPending(t), ~(pc = "execute" /\ request # None
                                          /\ request.type = "END" /\ request.tran = t),
         blockedQueue[t] \subseteq blockedQueue'[t], UNCHANGED <<finishedSet, retryQueue>>
  PROVE  EndPending(t)'
BY DEF EndPending

(* One step of execute_instructions.                                       *)
LEMMA ExecuteEnds ==
  ASSUME SafetyInv, EndsPending, EndsBegun, ExecuteInstructions, UNCHANGED ended,
         NEW t \in Tran, t \in ended, t \in Transactions'
  PROVE  EndPending(t)'
<1>0. DbTypeOK /\ ControlTypeOK
  BY TypeParts DEF SafetyInv, TypeOK
<1>1. t \in Transactions => EndPending(t)
  BY DEF EndsPending
<1> DEFINE Current == pc = "execute" /\ request # None /\ request.type = "END" /\ request.tran = t
<1>2. ASSUME NEW r \in AnyRequest, Exec(r),
             r.type \in {"BEGIN", "BEGINO"} => status[r.tran] = "none"
      PROVE  /\ t \in Transactions /\ blockedQueue[t] \subseteq blockedQueue'[t]
             /\ r.type = "END" => r.tran # t
  BY <1>0, <1>2, ExecRuns DEF EndsBegun
<1>3. ASSUME UNCHANGED <<status, blockedQueue>>
      PROVE  t \in Transactions /\ blockedQueue[t] \subseteq blockedQueue'[t]
  BY <1>3, InTable
<1>4. pc = "execute" /\ request # None =>
        /\ request \in AnyRequest
        /\ request.type \in {"BEGIN", "BEGINO"} => status[request.tran] = "none"
  BY <1>0 DEF ControlTypeOK, SafetyInv, RequestInv, HasTran
<1>5. CASE BreakDeadlock
  <2>1. ~UNCHANGED dbVars => \E u \in Tran : AbortTransactions({u}) /\ UNCHANGED pc
    BY <1>5 DEF BreakDeadlock, Youngest, Transactions
  <2>2. UNCHANGED dbVars => Transactions # {} /\ UNCHANGED <<status, blockedQueue>>
    BY InTable DEF dbVars, tranVars
  <2>3. UNCHANGED pc /\ t \in Transactions /\ blockedQueue[t] \subseteq blockedQueue'[t]
    <3>1. CASE UNCHANGED dbVars
      BY <1>3, <1>5, <2>2, <3>1 DEF BreakDeadlock
    <3>2. CASE ~UNCHANGED dbVars
      <4>1. PICK u \in Tran : AbortTransactions({u}) /\ UNCHANGED pc
        BY <2>1, <3>2
      <4> QED BY <1>0, <4>1, AbortEffect, InTable
    <3> QED BY <3>1, <3>2
  <2> QED BY <1>1, <1>5, <2>3 DEF BreakDeadlock, EndPending, loopVars
<1>6. CASE DropRequest \/ ThrowInRequest
  <2>1. /\ t \in Transactions /\ blockedQueue[t] \subseteq blockedQueue'[t]
        /\ UNCHANGED <<finishedSet, retryQueue>>
    BY <1>3, <1>6 DEF DropRequest, ThrowInRequest, dbVars, tranVars, loopVars
  <2>2. ~Current
    BY <1>6, <2>1 DEF DropRequest, ThrowInRequest, RequestIsStale, ThrowsErrorStatus
  <2> QED BY <1>1, <2>1, <2>2, QueuedEndStays
<1>7. CASE QueueRequest
  <2>1. /\ request # None /\ HasTran(request) /\ AddRequestToBlockedQueue(request)
        /\ UNCHANGED <<status, finishedSet, retryQueue>> /\ pc = "execute"
    BY <1>7 DEF QueueRequest, RequestMustWait, tranVars, loopVars
  <2>2. request.tran \in Tran
    BY <1>4, <2>1, RequestFields
  <2>3. /\ blockedQueue[t] \subseteq blockedQueue'[t]
        /\ request.tran = t => request \in blockedQueue'[t]
    BY <1>0, <2>1, <2>2 DEF AddRequestToBlockedQueue, DbTypeOK
  <2>4. finishedSet' = {}
    BY <2>1, ExecuteState
  <2>5. t \in Transactions
    BY <2>1, InTable
  <2> QED BY <1>1, <2>1, <2>3, <2>4, <2>5, QueuedEndStays DEF EndPending
<1>8. CASE ExecWhileWaiting \/ ExecRequest
  <2>1. CASE request = None
    <3>1. UNCHANGED <<status, blockedQueue, finishedSet, retryQueue>>
      BY <1>8, <2>1 DEF ExecWhileWaiting, ExecRequest, RequestMustWait, dbVars, tranVars
    <3> QED BY <1>1, <1>3, <2>1, <3>1, QueuedEndStays
  <2>2. CASE request # None
    <3>1. pc = "execute" /\ Exec(request) /\ UNCHANGED <<finishedSet, retryQueue>>
      BY <1>8, <2>2 DEF ExecWhileWaiting, ExecRequest, loopVars
    <3> QED BY <1>1, <1>2, <1>4, <2>2, <3>1, QueuedEndStays
  <2> QED BY <2>1, <2>2
<1>9. CASE RetryVisit
  <2>1. PICK u \in todo :
          \/ UNCHANGED <<finishedSet, retryQueue>>
          \/ finishedSet' = finishedSet \cup {u} /\ retryQueue' = blockedQueue[u]
    BY <1>9 DEF RetryVisit
  <2>2. pc = "retry" /\ retryQueue = {} /\ UNCHANGED <<status, blockedQueue>>
    BY <1>9 DEF RetryVisit, dbVars, tranVars
  <2>3. t \in Transactions
    BY <1>3, <2>2
  <2>4. PICK q \in blockedQueue[t] : q.type = "END" /\ t \notin finishedSet
    BY <1>1, <2>2, <2>3 DEF EndPending
  <2>5. q.tran = t
    BY <2>4 DEF SafetyInv, QueueInv, Queued
  <2> QED BY <2>1, <2>2, <2>4, <2>5 DEF EndPending
<1>10. CASE RetryExec
  <2> DEFINE r == Earliest(retryQueue)
  <2>1. /\ pc = "retry" /\ r \in retryQueue /\ Exec(r) /\ retryQueue' = retryQueue \ {r}
        /\ UNCHANGED finishedSet
    BY <1>0, <1>10, EarliestInQueue DEF RetryExec, ControlTypeOK
  <2>2. /\ t \in Transactions /\ blockedQueue[t] \subseteq blockedQueue'[t]
        /\ r.type = "END" => r.tran # t
    <3>1. r \in AnyRequest /\ r.type \in {"READ", "WRITE", "END"}
      BY <2>1, RetriedRequest
    <3> HIDE DEF r
    <3> QED BY <1>2, <2>1, <3>1
  <2> HIDE DEF r
  <2> QED BY <1>1, <2>1, <2>2 DEF EndPending
<1>11. CASE ThrowInRetry
  BY <1>1, <1>3, <1>11, QueuedEndStays DEF ThrowInRetry, dbVars, tranVars, loopVars
<1>12. CASE FinishRetry
  <2>1. /\ pc = "retry" /\ retryQueue = {} /\ UNCHANGED <<status, retryQueue>>
        /\ blockedQueue'[t] = IF t \in finishedSet THEN {} ELSE blockedQueue[t]
        /\ finishedSet' = {}
    BY <1>12 DEF FinishRetry, tranVars
  <2>2. t \in Transactions
    BY <2>1, InTable
  <2> QED BY <1>1, <2>1, <2>2 DEF EndPending
<1> QED BY <1>5, <1>6, <1>7, <1>8, <1>9, <1>10, <1>11, <1>12 DEF ExecuteInstructions

(* Every step.                                                             *)
LEMMA NextEnds == SafetyInv /\ EndsPending /\ EndsBegun /\ [Next]_vars => EndsPending'
<1> SUFFICES ASSUME SafetyInv, EndsPending, EndsBegun, [Next]_vars,
                    NEW t \in Tran, t \in ended', t \in Transactions'
             PROVE  EndPending(t)'
  BY DEF EndsPending, Transactions
<1>1. ASSUME pc = "ready", t \in ended, UNCHANGED <<status, blockedQueue, finishedSet, retryQueue>>
      PROVE  EndPending(t)'
  BY <1>1, InTable, QueuedEndStays DEF EndsPending
<1>2. CASE ReadScript
  <2>1. pc = "ready" /\ UNCHANGED <<status, blockedQueue, finishedSet, retryQueue>>
    BY <1>2 DEF ReadScript, BeginLine, ReadLine, WriteLine, EndLine, FaultLine,
                AddInstruction, tranVars, loopVars
  <2>2. t \in ended \/ EndLine(t)
    BY <1>2 DEF ReadScript, BeginLine, ReadLine, WriteLine, EndLine, FaultLine, scriptVars
  <2>3. CASE EndLine(t)
    <3>1. /\ pc' = "execute" /\ request'.type = "END" /\ request'.tran = t
          /\ request' \in EndRequest
      BY <2>3, TypeParts DEF EndLine, AddInstruction, EndRequest, SafetyInv, ScriptTypeOK
    <3>2. request' # None
      BY <3>1, RequestAssumption DEF AnyRequest, TranRequest
    <3> QED BY <3>1, <3>2 DEF EndPending
  <2> QED BY <1>1, <2>1, <2>2, <2>3
<1>3. CASE Execute
  BY <1>3, ExecuteEnds DEF Execute, scriptVars
<1>4. CASE EndOfFile \/ DrainPass \/ Dump
  BY <1>1, <1>4 DEF EndOfFile, DrainPass, Dump, tmVars, dbVars, tranVars, loopVars, scriptVars
<1>5. CASE Terminated \/ UNCHANGED vars
  BY <1>5, InTable DEF Terminated, EndsPending, EndPending, vars, tmVars, dbVars, tranVars, loopVars,
                       scriptVars
<1> QED BY <1>2, <1>3, <1>4, <1>5 DEF Next

(* No end is lost: as long as a transaction runs after its end line, its   *)
(* end is the request at hand, in the walk, or in the blocked queue.       *)
THEOREM EndsNotLost == Spec => []EndsPending
<1>1. Init => EndsPending /\ EndsBegun
  BY DEF Init, EndsPending, EndsBegun
<1>2. SafetyInv /\ EndsPending /\ EndsBegun /\ [Next]_vars => (EndsPending /\ EndsBegun)'
  BY NextEnds, NextBegun
<1> QED BY <1>1, <1>2, SafetyInvariant, PTL DEF Spec

(* The dump comes after every end: the drain loop asks only whether the    *)
(* blocked queue is empty, and that is enough.                             *)
THEOREM DumpWaitsForEnds == Spec => DumpAfterEnds
<1>1. SafetyInv /\ EndsPending /\ [Next]_vars => [DumpsLast]_vars
  <2> SUFFICES ASSUME SafetyInv, EndsPending, Next, phase # "dumped", phase' = "dumped"
               PROVE  Transactions \cap ended = {}
    BY DEF DumpsLast, vars
  <2>1. Dump
    BY DEF Next, ReadScript, BeginLine, ReadLine, WriteLine, EndLine, FaultLine, AddInstruction,
           Execute, EndOfFile, DrainPass, Terminated, vars
  <2>2. pc = "ready" /\ \A t \in Tran : blockedQueue[t] = {}
    BY <2>1 DEF Dump, IsAllInstructionsFinished
  <2>3. retryQueue = {}
    BY <2>2 DEF SafetyInv, WalkInv
  <2> QED BY <2>2, <2>3 DEF EndsPending, EndPending, Transactions
<1> QED BY <1>1, SafetyInvariant, EndsNotLost, PTL DEF Spec, DumpAfterEnds
=============================================================================
