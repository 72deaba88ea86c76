----------------------------- MODULE CopyProofs -----------------------------
(***************************************************************************)
(* What a copy shows: availability, current values, and the locks that     *)
(* protect them, for the whole program.                                    *)
(***************************************************************************)
EXTENDS RepCRecSafety, Snapshots

(* A recovering site gets back all odd variables that live on it: the two  *)
(* identifiers computed in RecoveryRequest::exec are exactly theirs.       *)
LEMMA HomeRecovers ==
  ASSUME NEW x \in Var, IsOdd(x)
  PROVE  x \in UniqueVars(HomeSite(x))
<1> DEFINE N == SITE_COUNT
<1>1. N \in Nat /\ N > 0 /\ x \in Nat /\ x >= 1 /\ x <= 2 * N /\ N % 2 = 0 /\ x % 2 = 1
  BY GlobalAssumption DEF Var, IsOdd
<1>2. PICK k \in Nat : N = 2 * k
  <2>1. N = 2 * (N \div 2) /\ N \div 2 \in Nat
    BY <1>1
  <2> QED BY <2>1
<1>3. x # N /\ x # 2 * N
  BY <1>1, <1>2
<1>4. CASE x < N
  <2>1. x % N = x
    BY <1>1, <1>4
  <2> QED BY <1>1, <2>1 DEF HomeSite, UniqueVars, IsOdd
<1>5. CASE x > N
  <2>1. x % N = x - N
    BY <1>1, <1>3, <1>5
  <2>2. (x - N) % 2 = 1
    BY <1>1, <1>2
  <2> QED BY <1>1, <2>1, <2>2 DEF HomeSite, UniqueVars, IsOdd
<1> QED BY <1>3, <1>4, <1>5, <1>1

(* A site stores an odd variable only if it is its home.                   *)
LEMMA CopyPlacement ==
  ASSUME NEW x \in Var
  PROVE  /\ CopySites(x) \subseteq Site
         /\ IsOdd(x) => CopySites(x) = {HomeSite(x)} /\ HomeSite(x) \in Site
BY HomeSiteType DEF CopySites

(* Transactions leave, sites fail: what is left is as current as before.   *)
LEMMA DropKeepsCopies ==
  ASSUME CopyInv, NEW T,
         \A t \in Tran, s \in Site, x \in Var :
           writeRecords'[t][s][x] = IF t \in T THEN None ELSE writeRecords[t][s][x],
         \A s \in Site, x \in Var : readAvailable'[s][x] => readAvailable[s][x],
         UNCHANGED <<value, lastCommitted>>, ReadabilityFollowsSites'
  PROVE  CopyInv'
<1>1. \A x \in Var : CopySites(x) \subseteq Site
  BY CopyPlacement
<1>2. ReadableCopiesCurrent' /\ HomesCurrent'
  BY <1>1 DEF CopyInv, ReadableCopiesCurrent, HomesCurrent
<1>3. RecordsComplete'
  BY <1>1 DEF CopyInv, RecordsComplete
<1> QED BY <1>2, <1>3 DEF CopyInv

(* An abort, with the sites as they are; with no transaction, nothing.     *)
LEMMA LeaveKeepsCopies ==
  ASSUME CopyInv, UNCHANGED siteVars,
         UNCHANGED <<writeRecords, lastCommitted>> \/ \E T \in SUBSET Tran : AbortTransactions(T)
  PROVE  CopyInv'
<1>1. ReadabilityFollowsSites' /\ UNCHANGED <<value, readAvailable>>
  BY DEF CopyInv, ReadabilityFollowsSites, siteVars
<1>2. CASE UNCHANGED <<writeRecords, lastCommitted>>
  <2>0. PICK T \in SUBSET Tran : T = {}
    OBVIOUS
  <2>1. \A t \in Tran, s \in Site, x \in Var :
          writeRecords'[t][s][x] = IF t \in T THEN None ELSE writeRecords[t][s][x]
    BY <1>2, <2>0
  <2>2. \A s \in Site, x \in Var : readAvailable'[s][x] => readAvailable[s][x]
    BY <1>1
  <2> QED BY <1>1, <1>2, <2>1, <2>2, DropKeepsCopies
<1>3. ASSUME NEW T \in SUBSET Tran, AbortTransactions(T)
      PROVE  CopyInv'
  <2>1. /\ lastCommitted' = lastCommitted
        /\ \A t \in Tran, s \in Site, x \in Var :
             writeRecords'[t][s][x] = IF t \in T THEN None ELSE writeRecords[t][s][x]
    BY <1>3 DEF AbortTransactions, Evict, NoRecords
  <2>2. \A s \in Site, x \in Var : readAvailable'[s][x] => readAvailable[s][x]
    BY <1>1
  <2> QED BY <1>1, <2>1, <2>2, DropKeepsCopies
<1> QED BY <1>2, <1>3

(* A failing site takes its copies out of reach.                           *)
LEMMA FailKeepsCopies ==
  ASSUME DbTypeOK, CopyInv, NEW r \in SiteRequest, ExecFail(r)
  PROVE  CopyInv'
<1> DEFINE T == {t \in Transactions : IsWrittenIntoSite(t, r.site)}
<1>1. AbortTransactions(T) /\ SetUnavailable(r.site)
  BY DEF ExecFail
<1>2. /\ lastCommitted' = lastCommitted
      /\ \A t \in Tran, s \in Site, x \in Var :
           writeRecords'[t][s][x] = IF t \in T THEN None ELSE writeRecords[t][s][x]
  BY <1>1 DEF AbortTransactions, Evict, NoRecords
<1>3. /\ UNCHANGED value
      /\ \A s \in Site : writeAvailable'[s] <=> (writeAvailable[s] /\ s # r.site)
      /\ \A s \in Site, x \in Var : readAvailable'[s][x] <=> (readAvailable[s][x] /\ s # r.site)
  BY <1>1 DEF SetUnavailable, DbTypeOK, SiteTypeOK
<1>4. ReadabilityFollowsSites'
  BY <1>3, CopyPlacement DEF CopyInv, ReadabilityFollowsSites
<1> HIDE DEF T
<1> QED BY <1>2, <1>3, <1>4, DropKeepsCopies

(* A recovering site makes its odd variables readable, and these are       *)
(* current: no commit can have missed their only copy.                     *)
LEMMA RecoverKeepsCopies ==
  ASSUME DbTypeOK, CopyInv, NEW r \in SiteRequest, ExecRecover(r)
  PROVE  CopyInv'
<1>1. /\ UNCHANGED <<value, writeRecords, lastCommitted>>
      /\ \A s \in Site : writeAvailable'[s] <=> (writeAvailable[s] \/ s = r.site)
      /\ \A s \in Site, x \in Var :
           readAvailable'[s][x] <=> (readAvailable[s][x] \/ (s = r.site /\ x \in UniqueVars(s)))
  BY DEF ExecRecover, SetWriteAvailable, SetReadAvailable, tranVars, DbTypeOK, SiteTypeOK
<1>2. ASSUME NEW x \in Var, NEW s \in CopySites(x), readAvailable'[s][x], ~readAvailable[s][x]
      PROVE  IsOdd(x) /\ s = HomeSite(x)
  <2>1. s \in Site /\ x \in UniqueVars(s)
    BY <1>1, <1>2, CopyPlacement
  <2>2. IsOdd(s - 1) /\ x \in {s - 1, s - 1 + SITE_COUNT}
    BY <2>1 DEF UniqueVars
  <2>3. IsOdd(x)
    BY <2>1, <2>2, GlobalAssumption DEF Site, IsOdd
  <2> QED BY <2>3, CopyPlacement
<1>3. ReadabilityFollowsSites'
  <2> SUFFICES ASSUME NEW x \in Var, NEW s \in CopySites(x)
               PROVE  /\ readAvailable'[s][x] => writeAvailable'[s]
                      /\ IsOdd(x) /\ writeAvailable'[s] => readAvailable'[s][x]
    BY DEF ReadabilityFollowsSites
  <2>1. s \in Site /\ (IsOdd(x) => x \in UniqueVars(s))
    BY CopyPlacement, HomeRecovers
  <2> QED BY <1>1, <2>1 DEF CopyInv, ReadabilityFollowsSites
<1>4. ReadableCopiesCurrent' /\ HomesCurrent'
  BY <1>1, <1>2 DEF CopyInv, ReadableCopiesCurrent, HomesCurrent
<1>5. RecordsComplete'
  BY <1>1, <1>2, CopyPlacement DEF CopyInv, RecordsComplete
<1> QED BY <1>3, <1>4, <1>5 DEF CopyInv

(* A write is recorded at every copy that can be read, over whatever its   *)
(* transaction had recorded there.                                         *)
LEMMA WriteKeepsCopies ==
  ASSUME DbTypeOK, LockInv, CopyInv, NEW r \in WriteRequest, ExecWrite(r)
  PROVE  CopyInv'
<1> DEFINE t == r.tran
           x == r.var
           answer == LockStatus(t, x)
           Home == IF IsOdd(x) THEN {HomeSite(x)} ELSE {}
<1>0. t \in Tran /\ x \in Var /\ r.value \in Value /\ None \notin Value
  BY GlobalAssumption DEF WriteRequest
<1>1. CASE UNCHANGED <<siteVars, writeRecords, lastCommitted>>
  BY <1>1, LeaveKeepsCopies
<1>2. ASSUME UNCHANGED siteVars, NEW S, UpdateValues(t, S, x, r.value),
             \A s \in CopySites(x) :
               readAvailable[s][x] \/ writeRecords[t][s][x] # None => s \in S
      PROVE  CopyInv'
  <2>1. /\ UNCHANGED <<value, readAvailable, writeAvailable, lastCommitted>>
        /\ \A u \in Tran, s \in Site, y \in Var :
             writeRecords'[u][s][y] = IF u = t /\ s \in S /\ y = x THEN r.value
                                      ELSE writeRecords[u][s][y]
    BY <1>0, <1>2 DEF UpdateValues, siteVars, DbTypeOK, TranTypeOK
  <2>2. ReadabilityFollowsSites' /\ ReadableCopiesCurrent' /\ HomesCurrent'
    BY <2>1 DEF CopyInv, ReadabilityFollowsSites, ReadableCopiesCurrent, HomesCurrent
  <2>3. RecordsComplete'
    <3> SUFFICES ASSUME NEW u \in Tran, NEW y \in Var, NEW s1 \in CopySites(y),
                        NEW s2 \in CopySites(y), writeRecords'[u][s1][y] # None,
                        readAvailable'[s2][y] \/ writeRecords'[u][s2][y] # None
                 PROVE  writeRecords'[u][s2][y] = writeRecords'[u][s1][y]
      BY DEF RecordsComplete
    <3>1. s1 \in Site /\ s2 \in Site
      BY CopyPlacement
    <3>2. CASE u = t /\ y = x
      <4>1. s1 \in S /\ s2 \in S
        BY <1>0, <1>2, <2>1, <3>1, <3>2
      <4> QED BY <1>0, <2>1, <3>1, <3>2, <4>1
    <3>3. CASE ~(u = t /\ y = x)
      BY <2>1, <3>1, <3>3 DEF CopyInv, RecordsComplete
    <3> QED BY <3>2, <3>3
  <2> QED BY <2>2, <2>3 DEF CopyInv
<1>3. \A s \in CopySites(x) :
        readAvailable[s][x] \/ writeRecords[t][s][x] # None => s \in UpCopies(x)
  BY <1>0, CopyPlacement
     DEF UpCopies, CopyInv, ReadabilityFollowsSites, LockInv, RecordsLocked
<1>4. CASE UNCHANGED siteVars /\ UpdateValues(t, UpCopies(x), x, r.value)
  BY <1>2, <1>3, <1>4
<1>5. CASE UNCHANGED siteVars /\ UpdateValues(t, Home, x, r.value) /\ IsOdd(x)
  <2>1. \A s \in CopySites(x) : s \in Home
    BY <1>0, <1>5, CopyPlacement
  <2> QED BY <1>2, <1>5, <2>1
<1>6. CASE UNCHANGED siteVars /\ UpdateValues(t, Home, x, r.value) /\ ~IsOdd(x)
  <2>1. UNCHANGED <<writeRecords, lastCommitted>>
    BY <1>0, <1>6 DEF UpdateValues, DbTypeOK, TranTypeOK, Records
  <2> QED BY <1>1, <1>6, <2>1
<1> QED BY <1>1, <1>4, <1>5, <1>6 DEF ExecWrite, WaitForLock, tranVars, dbVars

(* A commit installs, at every copy that can be read afterwards, the value *)
(* its transaction wrote.                                                  *)
LEMMA CommitKeepsCopies ==
  ASSUME DbTypeOK, LockInv, CopyInv, NEW t \in Tran, NEW ts,
         InstallWrites(t, ts), Evict({t}, "committed")
  PROVE  CopyInv'
<1> DEFINE w == writeRecords[t]
           Written(x) == \E s \in Site : w[s][x] # None
<1>1. \A s \in Site, x \in Var :
        /\ value'[s][x] = IF w[s][x] # None THEN w[s][x] ELSE value[s][x]
        /\ readAvailable'[s][x] <=> readAvailable[s][x] \/ w[s][x] # None
        /\ writeAvailable' = writeAvailable
  BY DEF InstallWrites, AssignVar, SetReadAvailable, DbTypeOK, SiteTypeOK
<1>2. \A u \in Tran, s \in Site, x \in Var :
        writeRecords'[u][s][x] = IF u = t THEN None ELSE writeRecords[u][s][x]
  BY DEF Evict, NoRecords
<1>3. \A s \in Site, x \in Var :
        w[s][x] # None => /\ writeAvailable[s] /\ s \in CopySites(x)
                          /\ exclusiveOwner[s][x] = t
  BY HoldersFacts DEF LockInv, RecordsLocked, LockedInTable, DbTypeOK
<1>4. \A x \in Var : CopySites(x) \subseteq Site
  BY CopyPlacement
<1>5. ASSUME NEW x \in Var
      PROVE  /\ ~Written(x) => lastCommitted'[x] = lastCommitted[x]
             /\ \A s \in CopySites(x) : readAvailable[s][x] \/ w[s][x] # None =>
                  (Written(x) => w[s][x] # None /\ w[s][x] = lastCommitted'[x])
  <2>1. lastCommitted'[x] = IF Written(x) THEN w[CHOOSE s \in Site : w[s][x] # None][x]
                            ELSE lastCommitted[x]
    BY DEF InstallWrites
  <2>2. ASSUME Written(x)
        PROVE  \E c \in CopySites(x) : w[c][x] # None /\ lastCommitted'[x] = w[c][x]
    BY <1>3, <2>1, <2>2
  <2> QED BY <2>1, <2>2 DEF CopyInv, RecordsComplete
<1>6. ReadabilityFollowsSites'
  BY <1>1, <1>3, <1>4 DEF CopyInv, ReadabilityFollowsSites
<1>7. ReadableCopiesCurrent'
  <2> SUFFICES ASSUME NEW x \in Var, NEW s \in CopySites(x), readAvailable'[s][x]
               PROVE  value'[s][x] = lastCommitted'[x]
    BY DEF ReadableCopiesCurrent
  <2>1. CASE Written(x)
    BY <1>1, <1>4, <1>5, <2>1
  <2>2. CASE ~Written(x)
    BY <1>1, <1>4, <1>5, <2>2 DEF CopyInv, ReadableCopiesCurrent
  <2> QED BY <2>1, <2>2
<1>8. HomesCurrent'
  <2> SUFFICES ASSUME NEW x \in Var, IsOdd(x)
               PROVE  value'[HomeSite(x)][x] = lastCommitted'[x]
    BY DEF HomesCurrent
  <2>1. CopySites(x) = {HomeSite(x)} /\ HomeSite(x) \in Site
    BY CopyPlacement
  <2>2. CASE Written(x)
    <3>1. w[HomeSite(x)][x] # None
      BY <1>3, <2>1, <2>2
    <3> QED BY <1>1, <1>5, <2>1, <2>2, <3>1
  <2>3. CASE ~Written(x)
    BY <1>1, <1>5, <2>1, <2>3 DEF CopyInv, HomesCurrent
  <2> QED BY <2>2, <2>3
<1>9. RecordsComplete'
  <2> SUFFICES ASSUME NEW u \in Tran, NEW x \in Var, NEW s1 \in CopySites(x),
                      NEW s2 \in CopySites(x), writeRecords'[u][s1][x] # None,
                      readAvailable'[s2][x] \/ writeRecords'[u][s2][x] # None
               PROVE  writeRecords'[u][s2][x] = writeRecords'[u][s1][x]
    BY DEF RecordsComplete
  <2>1. s1 \in Site /\ s2 \in Site /\ u # t /\ writeRecords[u][s1][x] # None
    BY <1>2, <1>4
  <2>2. w[s2][x] = None
    <3>1. exclusiveOwner[s1][x] = u
      BY <2>1 DEF LockInv, RecordsLocked
    <3>2. u # None /\ t # None
      BY GlobalAssumption
    <3> QED BY <1>3, <2>1, <3>1, <3>2 DEF LockInv, OneWriter
  <2> QED BY <1>1, <1>2, <2>1, <2>2 DEF CopyInv, RecordsComplete
<1> QED BY <1>6, <1>7, <1>8, <1>9 DEF CopyInv

(* Every request keeps the copies current.                                 *)
LEMMA ExecCopies ==
  ASSUME DbTypeOK, LockInv, CopyInv, NEW r \in AnyRequest, Exec(r)
  PROVE  CopyInv'
<1>1. CASE r.type \in {"BEGIN", "BEGINO"} /\ ExecBegin(r)
  BY <1>1, LeaveKeepsCopies DEF ExecBegin, AddTransaction
<1>2. CASE r.type = "READ" /\ ExecRead(r)
  <2>1. r.tran \in Tran
    BY <1>2, RequestFields
  <2>2. UNCHANGED siteVars
    BY <1>2 DEF ExecRead, ExecReadOnly, ExecReadLocked, WaitForSite, WaitForLock, ReadOnlyAt
  <2>3. \/ UNCHANGED <<writeRecords, lastCommitted>>
        \/ AbortTransactions({r.tran})
    BY <1>2 DEF ExecRead, ExecReadOnly, ExecReadLocked, WaitForSite, WaitForLock,
                ReadOnlyAt, AddReadHistory, tranVars
  <2> QED BY <2>1, <2>2, <2>3, LeaveKeepsCopies
<1>3. CASE r.type = "WRITE" /\ ExecWrite(r)
  BY <1>3, RequestFields, WriteKeepsCopies
<1>4. CASE r.type = "END" /\ ExecEnd(r)
  <2>1. r.tran \in Tran
    BY <1>4, RequestFields
  <2>2. CASE InstallWrites(r.tran, r.timestamp) /\ Evict({r.tran}, "committed")
    BY <2>1, <2>2, CommitKeepsCopies
  <2>3. CASE AbortTransactions({r.tran}) /\ UNCHANGED siteVars
    BY <2>1, <2>3, LeaveKeepsCopies
  <2> QED BY <1>4, <2>2, <2>3 DEF ExecEnd
<1>5. CASE r.type \in {"FAIL", "RECOVER"} /\ (ExecFail(r) \/ ExecRecover(r))
  <2>1. r \in SiteRequest
    BY <1>5 DEF AnyRequest, TranRequest, BeginRequest, ReadRequest, WriteRequest,
               EndRequest, DumpRequest
  <2> QED BY <1>5, <2>1, FailKeepsCopies, RecoverKeepsCopies
<1>6. CASE UNCHANGED dbVars
  BY <1>6, LeaveKeepsCopies DEF dbVars, tranVars
<1> QED BY <1>1, <1>2, <1>3, <1>4, <1>5, <1>6 DEF Exec

-----------------------------------------------------------------------------
(* The steps of the program. *)

(* What the loop makes sure of before it executes a request: a transaction *)
(* begins once and runs when it reads, writes and ends; it begins, and     *)
(* sites fail and recover, by the current line; an end may be an old one.  *)
Applicable(r) ==
  /\ r = Executing /\ pc \in {"execute", "retry"}
  /\ r.type \in {"READ", "WRITE", "END"} => r.tran \in Transactions
  /\ r.type \in {"BEGIN", "BEGINO"} => status[r.tran] = "none" /\ r.timestamp = currTimestamp
  /\ r.type \in {"BEGIN", "BEGINO", "FAIL", "RECOVER"} => r = request /\ request # None
  /\ r.type = "END" =>
       /\ r \in Pending /\ r.timestamp = EndStamp /\ r.timestamp <= currTimestamp
       /\ pc = "retry" \/ (pc = "execute" /\ r = request /\ request # None)

(* A step executes a request, aborts the victim of a deadlock, or leaves   *)
(* sites, locks and transactions alone; only a request changes waiters or  *)
(* reads.                                                                  *)
LEMMA StepKinds ==
  ASSUME SafetyInv, [Next]_vars
  PROVE  \/ \E r \in AnyRequest : Exec(r) /\ Applicable(r)
         \/ \E T \in SUBSET Tran : /\ T \subseteq Transactions
                                  /\ pc = "execute" /\ DetectDeadlock
                                  /\ \E t \in Youngest : T = {t}
                                  /\ AbortTransactions(T)
                                  /\ UNCHANGED <<siteVars, siteWaitingMap, lastRead>>
         \/ /\ UNCHANGED <<siteVars, lockVars, tranVars, siteWaitingMap>>
            /\ lastRead' \in {lastRead, None}
<1> DEFINE Executes(r) == Exec(r) /\ Applicable(r)
           Rests == /\ UNCHANGED <<siteVars, lockVars, tranVars, siteWaitingMap>>
                    /\ lastRead' \in {lastRead, None}
<1>0. DbTypeOK /\ ControlTypeOK
  BY TypeParts DEF SafetyInv
<1>1. CASE ReadScript
  <2>1. Rests
    BY <1>1 DEF ReadScript, BeginLine, EndLine, ReadLine, WriteLine, FaultLine, AddInstruction
  <2> QED BY <2>1
<1>2. CASE BreakDeadlock
  <2>1. CASE Transactions = {}
    BY <1>2, <2>1 DEF BreakDeadlock, dbVars
  <2>2. CASE Transactions # {}
    BY <1>2, <2>2 DEF BreakDeadlock, Youngest, Transactions
  <2> QED BY <2>1, <2>2
<1>3. CASE ExecWhileWaiting \/ ExecRequest
  <2>1. CASE request = None
    BY <1>3, <2>1 DEF ExecWhileWaiting, RequestMustWait, ExecRequest, dbVars
  <2>2. CASE request # None
    <3>1. request \in AnyRequest /\ Exec(request) /\ ~RequestIsStale /\ pc = "execute"
      BY <1>0, <1>3, <2>2 DEF ExecWhileWaiting, ExecRequest, ControlTypeOK
    <3>2. /\ request.type \in {"BEGIN", "BEGINO"} => status[request.tran] = "none"
          /\ request.timestamp = currTimestamp /\ currTimestamp \in Nat
      BY <2>2, <3>1, TypeParts DEF SafetyInv, RequestInv, HasTran, ScriptTypeOK
    <3>3. EndStamp = request.timestamp /\ Executing = request
      BY <3>1 DEF EndStamp, Executing
    <3>4. request.type = "END" => request \in Pending
      <4>1. request.type = "END" => HasTran(request)
        BY DEF HasTran
      <4> QED BY <2>2, <3>1, <4>1 DEF Pending
    <3>5. Executes(request)
      BY <2>2, <3>1, <3>2, <3>3, <3>4, RequestFields DEF RequestIsStale, HasTran, Applicable
    <3> QED BY <3>1, <3>5
  <2> QED BY <2>1, <2>2
<1>4. CASE RetryExec
  <2>1. PICK r \in retryQueue : Exec(r) /\ r = Earliest(retryQueue)
    BY <1>0, <1>4, EarliestInQueue DEF RetryExec, ControlTypeOK
  <2>2. r \in AnyRequest /\ r.tran \in Transactions
    BY <1>0 DEF ControlTypeOK, AnyRequest, SafetyInv, WalkInv, RetriesRun
  <2>3. r.type \in {"READ", "WRITE", "END"} /\ r.timestamp <= currTimestamp
    BY <2>2 DEF SafetyInv, WalkInv, RetriesRun, QueueInv, Queued, Transactions
  <2>4. r.timestamp = EndStamp /\ pc = "retry" /\ r = Executing
    BY <1>4, <2>1 DEF RetryExec, EndStamp, Executing
  <2>5. r \in Pending
    <3>1. r.tran \in Tran /\ r \in Queued(r.tran)
      BY <2>2 DEF Queued, Transactions
    <3> QED BY <3>1 DEF Pending
  <2> QED BY <2>1, <2>2, <2>3, <2>4, <2>5 DEF Applicable
<1>5. CASE DropRequest \/ QueueRequest \/ ThrowInRequest \/ RetryVisit \/ ThrowInRetry \/ FinishRetry
  <2>1. Rests
    BY <1>5 DEF DropRequest, QueueRequest, ThrowInRequest, RetryVisit, ThrowInRetry,
                FinishRetry, dbVars
  <2> QED BY <2>1
<1>6. CASE EndOfFile \/ DrainPass \/ Dump \/ Terminated \/ UNCHANGED vars
  <2>1. Rests
    BY <1>6 DEF EndOfFile, DrainPass, Dump, Terminated, vars, tmVars, dbVars
  <2> QED BY <2>1
<1> QED BY <1>1, <1>2, <1>3, <1>4, <1>5, <1>6 DEF Next, Execute, ExecuteInstructions

(* A request aborts nobody without a cause.                                *)
LEMMA ExecAborts ==
  ASSUME SafetyInv, NEW r \in AnyRequest, Exec(r), r = Executing
  PROVE  AbortsHaveCause
<1> SUFFICES ASSUME Aborted # {}
             PROVE  \/ /\ r.type = "FAIL" /\ writeAvailable[r.site]
                       /\ \A t \in Aborted : IsWrittenIntoSite(t, r.site)
                    \/ /\ r.type = "END" /\ Aborted = {r.tran}
                       /\ \E s \in Site, x \in Var :
                            readRecords[r.tran][s][x] # None /\ ~readAvailable[s][x]
                    \/ /\ r.type = "READ" /\ Aborted = {r.tran}
                       /\ isReadOnly[r.tran] /\ NoReadableCopy(r.var)
  BY DEF AbortsHaveCause
<1>1. DbTypeOK /\ \A t \in Aborted : t \in Tran /\ status[t] = "active"
  BY TypeParts DEF SafetyInv, Aborted, Transactions
<1>2. \A t \in Tran, s \in Site : IsWrittenIntoSite(t, s) => writeAvailable[s]
  BY <1>1 DEF SafetyInv, LockInv, RecordsLocked, IsWrittenIntoSite
<1>3. status' # status
  BY <1>1 DEF Aborted
<1>4. ASSUME NEW T \in SUBSET Tran, AbortTransactions(T)
      PROVE  Aborted \subseteq T
  BY <1>1, <1>4, AbortEffect DEF Aborted
<1>5. CASE r.type = "FAIL" /\ ExecFail(r)
  <2>1. r.site \in Site
    BY <1>5, RequestFields
  <2>2. \A t \in Aborted : IsWrittenIntoSite(t, r.site)
    BY <1>4, <1>5 DEF ExecFail, Transactions
  <2> QED BY <1>1, <1>2, <1>5, <2>1, <2>2
<1>6. CASE r.type = "END" /\ ExecEnd(r)
  <2>1. r.tran \in Tran
    BY <1>6, RequestFields
  <2>2. ~CanCommit(r.tran) /\ AbortTransactions({r.tran})
    BY <1>1, <1>6, <2>1 DEF ExecEnd, Evict, Aborted
  <2>3. Aborted = {r.tran}
    BY <1>4, <2>1, <2>2
  <2> QED BY <1>2, <1>6, <2>1, <2>2, <2>3 DEF CanCommit
<1>7. CASE r.type = "READ" /\ ExecRead(r)
  <2>1. r.tran \in Tran /\ r.var \in Var
    BY <1>7, RequestFields
  <2>2. isReadOnly[r.tran] /\ NoReadableCopy(r.var) /\ AbortTransactions({r.tran})
    BY <1>3, <1>7 DEF ExecRead, ExecReadOnly, ExecReadLocked, ReadOnlyAt, AddReadHistory,
                      WaitForSite, WaitForLock, tranVars
  <2> QED BY <1>4, <1>7, <2>1, <2>2
<1>8. CASE r.type \in {"BEGIN", "BEGINO"} /\ ExecBegin(r)
  <2>1. r.tran \in Tran
    BY <1>8, RequestFields
  <2> QED BY <1>1, <1>8, <2>1 DEF ExecBegin, AddTransaction, DbTypeOK, TranTypeOK, Aborted
<1> QED BY <1>3, <1>5, <1>6, <1>7, <1>8
        DEF Exec, ExecWrite, UpdateValues, WaitForLock, ExecRecover, dbVars, tranVars

(* Neither does any other step: a deadlock takes the youngest of all.      *)
LEMMA NextAborts == SafetyInv /\ [Next]_vars => AbortsHaveCause
<1> SUFFICES ASSUME SafetyInv, [Next]_vars
             PROVE  AbortsHaveCause
  OBVIOUS
<1>1. DbTypeOK
  BY TypeParts DEF SafetyInv
<1>2. ASSUME NEW t \in Youngest, pc = "execute", DetectDeadlock, AbortTransactions({t})
      PROVE  AbortsHaveCause
  <2>1. {t} \in SUBSET Tran
    BY <1>2 DEF Youngest, Transactions
  <2>2. Aborted \subseteq {t}
    BY <1>1, <1>2, <2>1, AbortEffect DEF Aborted, Transactions
  <2> QED BY <1>2, <2>2 DEF AbortsHaveCause
<1>3. CASE UNCHANGED tranVars
  BY <1>3 DEF AbortsHaveCause, Aborted, Transactions, tranVars
<1> QED BY <1>2, <1>3, StepKinds, ExecAborts DEF Applicable

(* At the start all copies are readable and hold the initial values.       *)
LEMMA InitCopies == Init => CopyInv
BY CopyPlacement DEF Init, SiteInit, TranInit, NoRecords, CopyInv, ReadabilityFollowsSites,
   ReadableCopiesCurrent, HomesCurrent, RecordsComplete

(* Every step keeps the copies current.                                    *)
LEMMA NextCopies == SafetyInv /\ CopyInv /\ [Next]_vars => CopyInv'
<1> SUFFICES ASSUME SafetyInv, CopyInv, [Next]_vars
             PROVE  CopyInv'
  OBVIOUS
<1>1. DbTypeOK /\ LockInv
  BY TypeParts DEF SafetyInv
<1> QED BY <1>1, StepKinds, ExecCopies, LeaveKeepsCopies DEF tranVars

(* A transaction that aborts or commits takes only its own locks along.    *)
LEMMA LeaveKeepsOthersLocks ==
  ASSUME DbTypeOK, NEW T \in SUBSET Tran, NEW outcome \in {"committed", "aborted"},
         Evict(T, outcome), ReleaseLocks(T)
  PROVE  KeepsLocks
<1> SUFFICES ASSUME NEW t \in Transactions, t \in Transactions', NEW s \in Site, NEW x \in Var
             PROVE  /\ t \in Holders(s, x) => t \in Holders(s, x)'
                    /\ exclusiveOwner[s][x] = t => exclusiveOwner'[s][x] = t
  BY DEF KeepsLocks
<1>1. t \in Tran /\ t \notin T /\ t # None
  BY GlobalAssumption DEF Transactions, Evict
<1>2. /\ t \in sharedOwners[s][x] => t \in sharedOwners'[s][x]
      /\ exclusiveOwner[s][x] = t => exclusiveOwner'[s][x] = t
  BY <1>1 DEF ReleaseLocks
<1> QED BY <1>1, <1>2 DEF Holders

(* A granted lock takes none away: the sharer that is replaced becomes the *)
(* owner.                                                                  *)
LEMMA GrantKeepsLocks ==
  ASSUME DbTypeOK, LockInv, NEW t \in Tran, NEW x \in Var, StopCopies(t, x) = {},
         AssignWriteLock(t, x)
  PROVE  KeepsLocks
<1> SUFFICES ASSUME NEW u \in Transactions, NEW s \in Site, NEW y \in Var
             PROVE  /\ u \in Holders(s, y) => u \in Holders(s, y)'
                    /\ exclusiveOwner[s][y] = u => exclusiveOwner'[s][y] = u
  BY DEF KeepsLocks
<1>1. u \in Tran /\ u # None /\ t # None
  BY GlobalAssumption DEF Transactions
<1>2. CASE y = x /\ s \in UpCopies(x)
  <2>1. sharedOwners[s][x] \subseteq {t} /\ exclusiveOwner[s][x] \in {None, t}
    BY <1>2, GrantedCopies
  <2>2. exclusiveOwner'[s][x] = t
    BY <1>2, <2>1 DEF AssignWriteLock
  <2> QED BY <1>1, <1>2, <2>1, <2>2 DEF Holders
<1>3. CASE ~(y = x /\ s \in UpCopies(x))
  <2>1. sharedOwners'[s][y] = sharedOwners[s][y] /\ exclusiveOwner'[s][y] = exclusiveOwner[s][y]
    BY <1>3 DEF AssignWriteLock
  <2> QED BY <2>1 DEF Holders
<1> QED BY <1>2, <1>3

(* No request takes a lock away from a transaction that goes on.           *)
LEMMA ExecKeepsLocks ==
  ASSUME DbTypeOK, LockInv, NEW r \in AnyRequest, Exec(r)
  PROVE  KeepsLocks
<1>1. CASE UNCHANGED <<sharedOwners, exclusiveOwner>>
  BY <1>1 DEF KeepsLocks, Holders
<1>2. ASSUME NEW T \in SUBSET Tran, AbortTransactions(T)
      PROVE  KeepsLocks
  BY <1>2, LeaveKeepsOthersLocks DEF AbortTransactions
<1>3. CASE r.type = "READ" /\ ExecRead(r)
  <2>1. r.tran \in Tran /\ r.var \in Var
    BY <1>3, RequestFields
  <2>2. CASE AssignShareLock(r.tran, r.var)
    <3>1. \A s \in Site, x \in Var : sharedOwners[s][x] \subseteq sharedOwners'[s][x]
      BY <2>2 DEF AssignShareLock
    <3>2. exclusiveOwner' = exclusiveOwner
      BY <2>2 DEF AssignShareLock
    <3> QED BY <3>1, <3>2 DEF KeepsLocks, Holders
  <2>3. CASE AbortTransactions({r.tran})
    BY <1>2, <2>1, <2>3
  <2> QED BY <1>1, <1>3, <2>2, <2>3
          DEF ExecRead, ExecReadOnly, ExecReadLocked, WaitForSite, WaitForLock,
              AssignWaitForGraph, ReadOnlyAt, lockVars
<1>4. CASE r.type = "WRITE" /\ ExecWrite(r)
  <2>1. r.tran \in Tran /\ r.var \in Var
    BY <1>4, RequestFields
  <2>2. CASE /\ LockStatus(r.tran, r.var) \in {"HAS_READ_LOCK", "AVAILABLE_TO_ASSIGN"}
             /\ AssignWriteLock(r.tran, r.var)
    <3>1. StopCopies(r.tran, r.var) = {}
      BY <2>2 DEF LockStatus
    <3> QED BY <2>1, <2>2, <3>1, GrantKeepsLocks
  <2> QED BY <1>1, <1>4, <2>2 DEF ExecWrite, WaitForLock, AssignWaitForGraph, dbVars, lockVars
<1>5. CASE r.type = "END" /\ ExecEnd(r)
  <2>1. r.tran \in Tran
    BY <1>5, RequestFields
  <2> QED BY <1>2, <1>5, <2>1, LeaveKeepsOthersLocks DEF ExecEnd
<1>6. CASE r.type = "FAIL" /\ ExecFail(r)
  BY <1>2, <1>6 DEF ExecFail, Transactions
<1>7. CASE ExecBegin(r) \/ ExecRecover(r) \/ UNCHANGED dbVars
  BY <1>1, <1>7 DEF ExecBegin, ExecRecover, dbVars, lockVars
<1> QED BY <1>3, <1>4, <1>5, <1>6, <1>7 DEF Exec

(* No step of the program takes a lock from who goes on running.           *)
LEMMA NextKeepsLocks ==
  ASSUME SafetyInv, [Next]_vars
  PROVE  KeepsLocks
<1>1. DbTypeOK /\ LockInv
  BY TypeParts DEF SafetyInv
<1>2. CASE UNCHANGED <<siteVars, lockVars, tranVars, siteWaitingMap>>
  BY <1>2 DEF KeepsLocks, Holders, lockVars
<1>3. ASSUME NEW T \in SUBSET Tran, AbortTransactions(T)
      PROVE  KeepsLocks
  BY <1>1, <1>3, LeaveKeepsOthersLocks DEF AbortTransactions
<1> QED BY <1>1, <1>2, <1>3, StepKinds, ExecKeepsLocks

(* Every request keeps those who wait for a site waiting for one that is   *)
(* down: a read waits only if the copy cannot be read, and the recovery of *)
(* the site wakes all of them.                                             *)
LEMMA ExecWaiters ==
  ASSUME DbTypeOK, CopyInv, WaitedSitesDown, NEW r \in AnyRequest, Exec(r)
  PROVE  WaitedSitesDown'
<1>0. None \notin Site
  BY GlobalAssumption
<1>1. CASE UNCHANGED <<writeAvailable, siteWaitingMap>>
  BY <1>1 DEF WaitedSitesDown
<1>2. CASE r.type = "READ" /\ ExecRead(r)
  <2>1. r.tran \in Tran /\ r.var \in Var /\ UNCHANGED siteVars
    BY <1>2, RequestFields
       DEF ExecRead, ExecReadOnly, ExecReadLocked, WaitForSite, WaitForLock, ReadOnlyAt
  <2>2. CASE WaitForSite(r) /\ IsOdd(r.var) /\ ~readAvailable[HomeSite(r.var)][r.var]
    <3>1. ~writeAvailable[HomeSite(r.var)]
      BY <2>1, <2>2, CopyPlacement DEF CopyInv, ReadabilityFollowsSites
    <3> QED BY <2>1, <2>2, <3>1 DEF WaitForSite, WaitedSitesDown, siteVars, DbTypeOK
  <2>3. CASE UNCHANGED siteWaitingMap
    BY <1>1, <2>1, <2>3 DEF siteVars
  <2> QED BY <1>2, <2>2, <2>3
          DEF ExecRead, ExecReadOnly, ExecReadLocked, WaitForLock, ReadOnlyAt
<1>3. CASE r.type = "WRITE" /\ ExecWrite(r)
  BY <1>1, <1>3 DEF ExecWrite, WaitForLock, dbVars, siteVars
<1>4. CASE r.type = "END" /\ ExecEnd(r)
  BY <1>1, <1>4 DEF ExecEnd, InstallWrites, siteVars
<1>5. CASE ExecFail(r)
  <2>1. siteWaitingMap' = siteWaitingMap /\ \A s \in Site : writeAvailable'[s] => writeAvailable[s]
    BY <1>5 DEF ExecFail, SetUnavailable, DbTypeOK, SiteTypeOK
  <2> QED BY <2>1 DEF WaitedSitesDown, DbTypeOK
<1>6. CASE ExecRecover(r)
  <2>1. \A s \in Site : s # r.site => writeAvailable'[s] = writeAvailable[s]
    BY <1>6 DEF ExecRecover, SetWriteAvailable, DbTypeOK, SiteTypeOK
  <2>2. \A t \in Tran : siteWaitingMap'[t] # None =>
          siteWaitingMap'[t] = siteWaitingMap[t] /\ siteWaitingMap[t] # r.site
    BY <1>6 DEF ExecRecover, RemoveFromSiteWaitingMap
  <2> QED BY <2>1, <2>2 DEF WaitedSitesDown, DbTypeOK
<1>7. CASE ExecBegin(r) \/ UNCHANGED dbVars
  BY <1>1, <1>7 DEF ExecBegin, dbVars, siteVars
<1> QED BY <1>2, <1>3, <1>4, <1>5, <1>6, <1>7 DEF Exec

-----------------------------------------------------------------------------
(* The theorems. *)

(* A copy that can be read is current, read availability follows the       *)
(* sites, and a transaction's records cover every copy that can be read.   *)
THEOREM CopyInvariant == Spec => []CopyInv
BY InitCopies, NextCopies, SafetyInvariant, PTL DEF Spec

(* A readable copy holds the value committed last, whatever failures,      *)
(* recoveries and commits it went through or missed.                       *)
THEOREM CopiesCurrent == Spec => []ReadableCopiesCurrent
<1>1. CopyInv => ReadableCopiesCurrent
  BY DEF CopyInv
<1> QED BY <1>1, CopyInvariant, PTL

(* A site that is down serves no read; an odd variable is readable as soon *)
(* as its home site is up.                                                 *)
THEOREM SitesReadable == Spec => []ReadabilityFollowsSites
<1>1. CopyInv => ReadabilityFollowsSites
  BY DEF CopyInv
<1> QED BY <1>1, CopyInvariant, PTL

(* Locking is strict two-phase: no step takes a lock from a transaction    *)
(* that goes on running.                                                   *)
THEOREM LocksKept == Spec => StrictTwoPhase
<1>1. SafetyInv /\ [Next]_vars => [KeepsLocks]_vars
  BY NextKeepsLocks
<1> QED BY <1>1, SafetyInvariant, PTL DEF Spec, StrictTwoPhase

(* Every abort has one of four causes; an end never fails for a site that  *)
(* its transaction has written to.                                         *)
THEOREM AbortsCaused == Spec => AbortsExplained
<1>1. SafetyInv /\ [Next]_vars => [AbortsHaveCause]_vars
  BY NextAborts
<1> QED BY <1>1, SafetyInvariant, PTL DEF Spec, AbortsExplained

(* Whoever waits for a site waits for one that is down.                    *)
THEOREM WaitersOfDownSites == Spec => []WaitedSitesDown
<1>1. Init => WaitedSitesDown
  BY DEF Init, TMInit, WaitedSitesDown
<1>2. SafetyInv /\ CopyInv /\ WaitedSitesDown /\ [Next]_vars => WaitedSitesDown'
  <2> SUFFICES ASSUME SafetyInv, CopyInv, WaitedSitesDown, [Next]_vars
               PROVE  WaitedSitesDown'
    OBVIOUS
  <2>1. DbTypeOK
    BY TypeParts DEF SafetyInv
  <2>2. CASE UNCHANGED <<siteVars, siteWaitingMap>>
    BY <2>2 DEF WaitedSitesDown, siteVars
  <2> QED BY <2>1, <2>2, StepKinds, ExecWaiters
<1> QED BY <1>1, <1>2, SafetyInvariant, CopyInvariant, PTL DEF Spec

-----------------------------------------------------------------------------
(* Snapshots. *)

\* The step commits t; its end may have waited.
CommitStep(t) ==
  /\ t \in Transactions
  /\ Executing.type = "END" /\ Executing.tran = t
  /\ InstallWrites(t, EndStamp) /\ Evict({t}, "committed")
  /\ EndStamp \in Nat /\ EndStamp <= currTimestamp
  /\ \E r \in Pending : r.type = "END" /\ r.tran = t /\ r.timestamp = EndStamp
  /\ pc = "retry" \/ (pc = "execute" /\ request # None /\ request.type = "END")

\* The step begins t at the current line.
BeginStep(t) ==
  /\ t \in Tran /\ status[t] = "none"
  /\ AddTransaction(t, currTimestamp, request.type = "BEGINO")
  /\ request # None /\ request.tran = t /\ request.type \in {"BEGIN", "BEGINO"}
  /\ UNCHANGED siteVars

\* The step neither commits nor begins a transaction.
QuietStep ==
  /\ UNCHANGED <<value, versions, lastCommitted, beginTime, isReadOnly>>
  /\ \A t \in Tran : status'[t] = status[t] \/ (status[t] = "active" /\ status'[t] = "aborted")

(* One of the three happens in every step.                                 *)
LEMMA SnapshotSteps ==
  ASSUME SafetyInv, [Next]_vars
  PROVE  (\E t \in Tran : CommitStep(t) \/ BeginStep(t)) \/ QuietStep
<1>0. DbTypeOK
  BY TypeParts DEF SafetyInv
<1>1. ASSUME NEW T \in SUBSET Tran, T \subseteq Transactions, AbortTransactions(T),
             UNCHANGED <<value, versions>>
      PROVE  QuietStep
  BY <1>1 DEF AbortTransactions, Evict, QuietStep, Transactions
<1>2. CASE UNCHANGED <<value, versions, tranVars>>
  BY <1>2 DEF tranVars, QuietStep
<1>3. ASSUME NEW r \in AnyRequest, Exec(r), Applicable(r)
      PROVE  (\E t \in Tran : CommitStep(t) \/ BeginStep(t)) \/ QuietStep
  <2>1. CASE r.type \in {"BEGIN", "BEGINO"} /\ ExecBegin(r)
    <3>1. BeginStep(r.tran)
      BY <1>3, <2>1, RequestFields DEF Applicable, ExecBegin, BeginStep
    <3> QED BY <2>1, <3>1, RequestFields
  <2>2. CASE r.type \in {"READ", "WRITE"} /\ (ExecRead(r) \/ ExecWrite(r))
    <3>1. {r.tran} \in SUBSET Tran /\ {r.tran} \subseteq Transactions
      BY <1>3, <2>2, RequestFields DEF Applicable
    <3>2. UNCHANGED <<value, versions>>
      BY <2>2 DEF ExecRead, ExecReadOnly, ExecReadLocked, WaitForSite, WaitForLock, ReadOnlyAt,
                  ExecWrite, siteVars, dbVars
    <3>3. \/ AbortTransactions({r.tran})
          \/ UNCHANGED <<status, beginTime, isReadOnly, lastCommitted>>
      BY <2>2 DEF ExecRead, ExecReadOnly, ExecReadLocked, WaitForSite, WaitForLock, ReadOnlyAt,
                  ExecWrite, tranVars, dbVars, AddReadHistory, UpdateValues
    <3> QED BY <1>1, <3>1, <3>2, <3>3 DEF QuietStep
  <2>3. CASE r.type = "END" /\ ExecEnd(r)
    <3>1. /\ r.tran \in Tran /\ r.tran \in Transactions /\ r.timestamp \in Nat
          /\ r = Executing /\ r \in Pending
          /\ r.timestamp = EndStamp /\ EndStamp <= currTimestamp
          /\ pc = "retry" \/ (pc = "execute" /\ request # None /\ request.type = "END")
      BY <1>3, <2>3, RequestFields DEF Applicable
    <3>2. CASE InstallWrites(r.tran, r.timestamp) /\ Evict({r.tran}, "committed")
      <4>1. CommitStep(r.tran)
        BY <2>3, <3>1, <3>2 DEF CommitStep
      <4> QED BY <3>1, <4>1
    <3>3. CASE AbortTransactions({r.tran}) /\ UNCHANGED siteVars
      <4>1. {r.tran} \in SUBSET Tran /\ {r.tran} \subseteq Transactions
        BY <3>1
      <4> QED BY <1>1, <3>3, <4>1 DEF siteVars
    <3> QED BY <2>3, <3>2, <3>3 DEF ExecEnd
  <2>4. CASE ExecFail(r)
    <3>1. UNCHANGED <<value, versions>>
      BY <2>4 DEF ExecFail, SetUnavailable
    <3> QED BY <1>1, <2>4, <3>1 DEF ExecFail, Transactions
  <2>5. CASE ExecRecover(r) \/ UNCHANGED dbVars
    BY <1>2, <2>5 DEF ExecRecover, dbVars, siteVars
  <2> QED BY <1>3, <2>1, <2>2, <2>3, <2>4, <2>5 DEF Exec
<1> QED BY <1>1, <1>2, <1>3, StepKinds DEF siteVars

(* The clock moves when a line is read, and only then is an end executed   *)
(* that was not there before.                                              *)
LEMMA ClockSteps ==
  ASSUME SafetyInv, [Next]_vars
  PROVE  /\ currTimestamp' \in {currTimestamp, currTimestamp + 1}
         /\ currTimestamp' # currTimestamp => UNCHANGED <<siteVars, tranVars>>
         /\ pc' = "execute" /\ request' # None /\ request'.type = "END" =>
              \/ currTimestamp' = currTimestamp + 1
              \/ /\ pc = "execute" /\ request' = request
                 /\ UNCHANGED <<versions, beginTime>>
                 /\ \A t \in Tran : status[t] = "none" => status'[t] = "none"
<1>1. CASE ReadScript
  BY <1>1 DEF ReadScript, BeginLine, EndLine, ReadLine, WriteLine, FaultLine, AddInstruction
<1>2. CASE Execute
  <2>1. CASE BreakDeadlock
    <3>1. \/ UNCHANGED <<versions, beginTime, status>>
          \/ \E t \in Transactions : AbortTransactions({t}) /\ UNCHANGED versions
      BY <2>1 DEF BreakDeadlock, Youngest, dbVars, siteVars, tranVars
    <3>2. UNCHANGED <<versions, beginTime>> /\ \A t \in Tran : status[t] = "none" => status'[t] = "none"
      BY <3>1 DEF AbortTransactions, Evict, Transactions
    <3> QED BY <1>2, <2>1, <3>2 DEF BreakDeadlock, Execute
  <2>2. CASE ~BreakDeadlock
    <3>1. pc' # "execute"
      BY <1>2, <2>2 DEF Execute, ExecuteInstructions, DropRequest, QueueRequest, ExecWhileWaiting,
         ExecRequest, ThrowInRequest, RetryVisit, RetryExec, ThrowInRetry, FinishRetry
    <3> QED BY <1>2, <3>1 DEF Execute
  <2> QED BY <2>1, <2>2
<1>3. CASE EndOfFile \/ DrainPass \/ Dump
  BY <1>3 DEF EndOfFile, DrainPass, Dump, SafetyInv, RequestInv, tmVars
<1>4. CASE Terminated \/ UNCHANGED vars
  BY <1>4 DEF Terminated, vars, tmVars, dbVars, siteVars, tranVars
<1> QED BY <1>1, <1>2, <1>3, <1>4 DEF Next

(* What a commit does to the copies of x: none of them changes, or one is  *)
(* written and each that is written gets a version with the stamp.         *)
LEMMA CommitVersions ==
  ASSUME DbTypeOK, LockInv, NEW t \in Tran, CommitStep(t), NEW x \in Var
  PROVE  \/ /\ ~CommitsWrite(x) /\ lastCommitted'[x] = lastCommitted[x]
            /\ \A s \in Site : versions'[s][x] = versions[s][x]
         \/ /\ CommitsWrite(x)
            /\ \A s \in Site :
                 \/ versions'[s][x] = versions[s][x]
                 \/ \E n : /\ n.ts = EndStamp
                           /\ versions'[s][x] = {v \in versions[s][x] : v.ts # EndStamp} \cup {n}
            /\ \E w \in CopySites(x) : \E n \in versions'[w][x] :
                 n.ts = EndStamp /\ n.val = lastCommitted'[x]
<1> DEFINE W == writeRecords[t]
           new(s) == [ts |-> EndStamp, val |-> W[s][x]]
<1>1. \A s \in Site : versions'[s][x] = IF W[s][x] # None
                                        THEN {v \in versions[s][x] : v.ts # EndStamp} \cup {new(s)}
                                        ELSE versions[s][x]
  BY DEF CommitStep, InstallWrites, AssignVar
<1>2. Commits(t) /\ \A u \in Tran : Commits(u) => u = t
  BY DEF Commits, CommitStep, Evict, Transactions
<1>3. CommitsWrite(x) <=> \E s \in Site : W[s][x] # None
  BY <1>2 DEF CommitsWrite
<1>4. CASE ~CommitsWrite(x)
  <2>1. lastCommitted'[x] = lastCommitted[x]
    BY <1>3, <1>4 DEF CommitStep, InstallWrites
  <2> QED BY <1>1, <1>3, <1>4, <2>1
<1>5. CASE CommitsWrite(x)
  <2>1. PICK w \in Site : W[w][x] # None /\ lastCommitted'[x] = W[w][x]
    <3> DEFINE c == CHOOSE s \in Site : W[s][x] # None
    <3>1. c \in Site /\ W[c][x] # None
      BY <1>3, <1>5
    <3>2. lastCommitted'[x] = W[c][x]
      BY <1>3, <1>5 DEF CommitStep, InstallWrites
    <3> QED BY <3>1, <3>2
  <2>2. w \in CopySites(x)
    BY <2>1, HoldersFacts DEF LockInv, RecordsLocked, LockedInTable, DbTypeOK
  <2>3. new(w) \in versions'[w][x] /\ new(w).ts = EndStamp /\ new(w).val = lastCommitted'[x]
    BY <1>1, <2>1
  <2>4. \A s \in Site : new(s).ts = EndStamp
    OBVIOUS
  <2>5. \A s \in Site :
          \/ versions'[s][x] = versions[s][x]
          \/ \E n : /\ n.ts = EndStamp
                    /\ versions'[s][x] = {v \in versions[s][x] : v.ts # EndStamp} \cup {n}
    BY <1>1, <2>4
  <2> QED BY <1>5, <2>2, <2>3, <2>5
<1> QED BY <1>4, <1>5

(* Nothing becomes late in a step that commits nothing.                    *)
LEMMA LateStays ==
  ASSUME SnapshotNext, \A t \in Tran : ~Commits(t), NEW t \in ReadOnlyTran,
         status'[t] \in {"none", "active"}
  PROVE  late'[t] = late[t] \cap Var
BY ScriptAssumption DEF SnapshotNext, LateNext, CommitsWrite

(* The stamps stay in the past.                                            *)
LEMMA NextStamps ==
  ASSUME SafetyInv, StampsPast, [Next]_vars
  PROVE  StampsPast'
<1>0. DbTypeOK /\ LockInv /\ currTimestamp \in Nat
  BY TypeParts DEF SafetyInv, ScriptTypeOK
<1>1. /\ \A s \in Site, x \in Var : \A v \in versions[s][x] : v.ts \in Int /\ v.ts <= currTimestamp
      /\ \A t \in Tran : beginTime[t] \in Nat /\ (status[t] # "none" => beginTime[t] <= currTimestamp)
  BY <1>0 DEF StampsPast, DbTypeOK, SiteTypeOK, Version, TranTypeOK
<1>2. currTimestamp' \in Nat /\ currTimestamp <= currTimestamp'
  BY <1>0, ClockSteps
<1>3. /\ \A s \in Site, x \in Var : \A v \in versions'[s][x] : v.ts \in Int /\ v.ts <= currTimestamp'
      /\ \A t \in Tran : beginTime'[t] \in Nat /\ (status'[t] # "none" => beginTime'[t] <= currTimestamp')
  <2>1. ASSUME NEW t \in Tran, CommitStep(t)
        PROVE  <1>3
    <3>1. \A u \in Tran : beginTime'[u] = beginTime[u] /\ (status'[u] # "none" => status[u] # "none")
      BY <2>1 DEF CommitStep, Evict, Transactions
    <3>2. EndStamp \in Nat /\ EndStamp <= currTimestamp
      BY <2>1 DEF CommitStep
    <3>3. ASSUME NEW s \in Site, NEW x \in Var, NEW v \in versions'[s][x]
          PROVE  v.ts \in Int /\ v.ts <= currTimestamp
      <4>1. v \in versions[s][x] \/ v.ts = EndStamp
        BY <1>0, <2>1, <3>3, CommitVersions
      <4> QED BY <1>0, <1>1, <3>2, <4>1
    <3> QED BY <1>0, <1>1, <1>2, <3>1, <3>3
  <2>2. ASSUME NEW t \in Tran, BeginStep(t)
        PROVE  <1>3
    <3>1. /\ versions' = versions
          /\ \A u \in Tran : \/ beginTime'[u] = beginTime[u] /\ (status'[u] # "none" => status[u] # "none")
                             \/ beginTime'[u] = currTimestamp
      BY <1>0, <2>2 DEF BeginStep, AddTransaction, siteVars, DbTypeOK, TranTypeOK
    <3> QED BY <1>0, <1>1, <1>2, <3>1
  <2>3. CASE QuietStep
    <3>1. versions' = versions /\ beginTime' = beginTime
          /\ \A u \in Tran : status'[u] # "none" => status[u] # "none"
      BY <2>3 DEF QuietStep
    <3> QED BY <1>0, <1>1, <1>2, <3>1
  <2> QED BY <2>1, <2>2, <2>3, SnapshotSteps
<1>4. ASSUME pc' = "execute", request' # None, request'.type = "END"
      PROVE  /\ \A s \in Site, x \in Var : \A v \in versions'[s][x] : v.ts < currTimestamp'
             /\ \A t \in Tran : status'[t] # "none" => beginTime'[t] < currTimestamp'
  <2>1. CASE currTimestamp' = currTimestamp + 1
    <3>1. UNCHANGED <<versions, beginTime, status>>
      BY <1>0, <2>1, ClockSteps DEF siteVars, tranVars
    <3> QED BY <1>0, <1>1, <2>1, <3>1
  <2>2. CASE currTimestamp' # currTimestamp + 1
    <3>1. /\ pc = "execute" /\ request' = request /\ currTimestamp' = currTimestamp
          /\ UNCHANGED <<versions, beginTime>>
          /\ \A t \in Tran : status'[t] # "none" => status[t] # "none"
      BY <1>4, <2>2, ClockSteps
    <3> QED BY <1>4, <3>1 DEF StampsPast
  <2> QED BY <2>1, <2>2
<1> QED BY <1>3, <1>4 DEF StampsPast

(* Only beginRO lines make readers of snapshots.                           *)
LEMMA NextReaders ==
  ASSUME SafetyInv, ReadersKnown, [Next]_vars
  PROVE  ReadersKnown'
<1>0. DbTypeOK /\ \A t \in Tran : isReadOnly[t] \in BOOLEAN
  BY TypeParts DEF SafetyInv, DbTypeOK, TranTypeOK
<1>1. \A t \in Tran : isReadOnly'[t] => t \in ReadOnlyTran
  <2>1. ASSUME NEW t \in Tran, CommitStep(t)
        PROVE  <1>1
    BY <2>1 DEF CommitStep, Evict, ReadersKnown
  <2>2. ASSUME NEW t \in Tran, BeginStep(t)
        PROVE  <1>1
    BY <1>0, <2>2 DEF BeginStep, AddTransaction, ReadersKnown, DbTypeOK, TranTypeOK
  <2>3. CASE QuietStep
    BY <2>3 DEF QuietStep, ReadersKnown
  <2> QED BY <2>1, <2>2, <2>3, SnapshotSteps
<1>2. request' # None /\ request'.type = "BEGINO" => request'.tran \in ReadOnlyTran
  <2>1. CASE ReadScript
    <3>1. ASSUME NEW t \in Tran, BeginLine(t)
          PROVE  <1>2
      BY <3>1 DEF BeginLine, AddInstruction
    <3>2. CASE \A t \in Tran : ~BeginLine(t)
      BY <2>1, <3>2 DEF ReadScript, EndLine, ReadLine, WriteLine, FaultLine, AddInstruction
    <3> QED BY <3>1, <3>2
  <2>2. CASE request' \in {request, None}
    BY <2>2 DEF ReadersKnown
  <2>3. CASE Execute
    <3>1. request' \in {request, None}
      BY <2>3 DEF Execute, ExecuteInstructions, BreakDeadlock, DropRequest, QueueRequest,
         ExecWhileWaiting, ExecRequest, ThrowInRequest, RetryVisit, RetryExec, ThrowInRetry, FinishRetry
    <3> QED BY <2>2, <3>1
  <2>4. CASE Dump
    BY <2>4 DEF Dump
  <2> QED BY <2>1, <2>2, <2>3, <2>4 DEF Next, EndOfFile, DrainPass, Terminated, vars, tmVars
<1> QED BY <1>1, <1>2 DEF ReadersKnown

\* The versions of a copy up to a timestamp, and the value of the last one.
Upto(s, x, ts) == {v \in versions[s][x] : v.ts <= ts}
LastOf(V) == (CHOOSE v \in V : \A u \in V : u.ts <= v.ts).val

\* Does the copy at s have the versions of all copies, up to a timestamp?
Complete(s, x, ts) == \A u \in CopySites(x) : Upto(u, x, ts) \subseteq Upto(s, x, ts)

(* What a snapshot read sees depends on the versions up to its timestamp.  *)
LEMMA UptoDecides ==
  ASSUME NEW t \in Tran, NEW x \in Var, NEW s \in CopySites(x)
  PROVE  /\ GetValue(s, x, currTimestamp) = LastOf(Upto(s, x, currTimestamp))
         /\ GetValue(s, x, beginTime[t]) = LastOf(Upto(s, x, beginTime[t]))
         /\ Missed(s, x, currTimestamp) <=> ~Complete(s, x, currTimestamp)
         /\ Missed(s, x, beginTime[t]) <=> ~Complete(s, x, beginTime[t])
BY DEF GetValue, LastOf, Upto, Missed, Complete

(* The same after the step.                                                *)
LEMMA UptoDecidesNext ==
  ASSUME NEW t \in Tran, NEW x \in Var, NEW s \in CopySites(x)
  PROVE  /\ GetValue(s, x, currTimestamp)' = LastOf(Upto(s, x, currTimestamp)')
         /\ GetValue(s, x, beginTime[t])' = LastOf(Upto(s, x, beginTime[t])')
         /\ Missed(s, x, currTimestamp)' <=> ~Complete(s, x, currTimestamp)'
         /\ Missed(s, x, beginTime[t])' <=> ~Complete(s, x, beginTime[t])'
BY DEF GetValue, LastOf, Upto, Missed, Complete

(* The youngest version decides, if it is the only one with its stamp.     *)
LEMMA LastIsNewest ==
  ASSUME NEW V, NEW n \in V, n.ts \in Int,
         \A v \in V : v.ts \in Int /\ (v = n \/ v.ts < n.ts)
  PROVE  LastOf(V) = n.val
<1> DEFINE c == CHOOSE v \in V : \A u \in V : u.ts <= v.ts
<1>1. n \in V /\ \A u \in V : u.ts <= n.ts
  OBVIOUS
<1>2. c \in V /\ \A u \in V : u.ts <= c.ts
  BY <1>1
<1>3. c = n
  <2>1. n.ts <= c.ts
    BY <1>2
  <2> QED BY <1>2, <2>1
<1> QED BY <1>3 DEF LastOf

(* Where nothing up to its timestamp changes, a snapshot stays as it was.  *)
LEMMA SameUpto ==
  ASSUME NEW t \in Tran, NEW x \in Var, NEW s \in CopySites(x),
         beginTime'[t] = beginTime[t],
         \A u \in CopySites(x) : Upto(u, x, beginTime[t])' = Upto(u, x, beginTime[t])
  PROVE  /\ Missed(s, x, beginTime[t])' <=> Missed(s, x, beginTime[t])
         /\ GetValue(s, x, beginTime[t])' = GetValue(s, x, beginTime[t])
<1>1. Complete(s, x, beginTime[t])' <=> Complete(s, x, beginTime[t])
  BY DEF Complete
<1>2. LastOf(Upto(s, x, beginTime[t])') = LastOf(Upto(s, x, beginTime[t]))
  OBVIOUS
<1> QED BY <1>1, <1>2, UptoDecides, UptoDecidesNext

\* The types the arguments about snapshots rest on.
StampTypes ==
  /\ currTimestamp \in Nat /\ beginTime \in [Tran -> Nat]
  /\ \A s \in Site, x \in Var : \A v \in versions[s][x] : v.ts \in Int

(* They follow from the safety and snapshot invariants.                    *)
LEMMA StampsTyped == SafetyInv => StampTypes
BY TypeParts DEF SafetyInv, DbTypeOK, ScriptTypeOK, TranTypeOK, SiteTypeOK, Version, StampTypes

(* A commit that is not too late leaves the snapshot of who runs alone.    *)
LEMMA CommitKeepsSnapshot ==
  ASSUME SafetyInv, SnapshotInv, SnapshotNext, NEW w \in Tran, CommitStep(w),
         NEW t \in ReadOnlyTran, NEW x \in Var, x \notin late'[t], NEW s \in CopySites(x),
         status'[t] = "active", ~Missed(s, x, beginTime[t])'
  PROVE  GetValue(s, x, beginTime[t])' = snapshot'[t][x]
<1>0. DbTypeOK /\ LockInv /\ StampTypes /\ CopySites(x) \subseteq Site /\ t \in Tran
  BY TypeParts, StampsTyped, CopyPlacement, ScriptAssumption DEF SafetyInv
<1>1. status[t] = "active" /\ beginTime' = beginTime
  BY <1>0 DEF CommitStep, Evict
<1>2. /\ x \in late[t] => CommitsWrite(x) /\ status[t] # "active"
      /\ CommitsWrite(x) => ~TooLate(t, x, EndStamp)
      /\ snapshot'[t] = snapshot[t]
  BY <1>0, <1>1 DEF SnapshotNext, LateNext
<1>3. x \notin late[t] /\ (CommitsWrite(x) => EndStamp > beginTime[t])
  <2>1. EndStamp \in Nat /\ beginTime[t] \in Nat
    BY <1>0 DEF CommitStep, StampTypes
  <2> QED BY <1>1, <1>2, <2>1 DEF TooLate
<1>4. ASSUME NEW u \in CopySites(x)
      PROVE  Upto(u, x, beginTime[t])' = Upto(u, x, beginTime[t])
  <2>1. CASE versions'[u][x] = versions[u][x]
    BY <1>1, <2>1 DEF Upto
  <2>2. ASSUME CommitsWrite(x), NEW n, n.ts = EndStamp,
               versions'[u][x] = {v \in versions[u][x] : v.ts # EndStamp} \cup {n}
        PROVE  Upto(u, x, beginTime[t])' = Upto(u, x, beginTime[t])
    <3>1. EndStamp \in Nat /\ beginTime[t] \in Nat /\ EndStamp > beginTime[t]
      BY <1>0, <1>3, <2>2 DEF CommitStep, StampTypes
    <3>2. ~(n.ts <= beginTime[t])
      BY <2>2, <3>1
    <3>3. \A v \in versions[u][x] : v.ts <= beginTime[t] => v.ts # EndStamp
      BY <3>1
    <3> QED BY <1>1, <2>2, <3>2, <3>3 DEF Upto
  <2> QED BY <1>0, <2>1, <2>2, CommitVersions
<1>5. /\ Missed(s, x, beginTime[t])' <=> Missed(s, x, beginTime[t])
      /\ GetValue(s, x, beginTime[t])' = GetValue(s, x, beginTime[t])
  BY <1>0, <1>1, <1>4, SameUpto
<1> QED BY <1>1, <1>2, <1>3, <1>5 DEF SnapshotInv, SnapshotsKept

(* Whoever begins after the commit will find what it installed.            *)
LEMMA CommitReadiesSnapshot ==
  ASSUME SafetyInv, SnapshotInv, SnapshotNext, NEW w \in Tran, CommitStep(w),
         currTimestamp' = currTimestamp,
         NEW t \in ReadOnlyTran, NEW x \in Var, x \notin late'[t], NEW s \in CopySites(x),
         status'[t] = "none", ~Missed(s, x, currTimestamp)'
  PROVE  GetValue(s, x, currTimestamp)' = lastCommitted'[x]
<1>0. DbTypeOK /\ LockInv /\ StampTypes /\ CopySites(x) \subseteq Site /\ t \in Tran
  BY TypeParts, StampsTyped, CopyPlacement, ScriptAssumption DEF SafetyInv
<1>1. status[t] = "none"
  BY <1>0 DEF CommitStep, Evict
<1>2. /\ x \in late[t] => CommitsWrite(x)
      /\ CommitsWrite(x) => ~TooLate(t, x, EndStamp)
  BY <1>0, <1>1 DEF SnapshotNext, LateNext
<1>3. CASE ~CommitsWrite(x)
  <2>1. lastCommitted'[x] = lastCommitted[x] /\ \A u \in CopySites(x) : versions'[u][x] = versions[u][x]
    BY <1>0, <1>3, CommitVersions
  <2>2. \A u \in CopySites(x) : Upto(u, x, currTimestamp)' = Upto(u, x, currTimestamp)
    BY <2>1 DEF Upto
  <2>3. Complete(s, x, currTimestamp)' <=> Complete(s, x, currTimestamp)
    BY <2>2 DEF Complete
  <2>4. GetValue(s, x, currTimestamp)' = GetValue(s, x, currTimestamp)
    BY <1>0, <2>2, UptoDecides, UptoDecidesNext
  <2>5. ~Missed(s, x, currTimestamp)
    BY <1>0, <2>3, UptoDecides, UptoDecidesNext
  <2> QED BY <1>1, <1>2, <1>3, <2>1, <2>4, <2>5 DEF SnapshotInv, SnapshotsReady
<1>4. CASE CommitsWrite(x)
  <2>1. EndStamp \in Nat /\ EndStamp <= currTimestamp /\ currTimestamp \in Nat
    BY <1>0 DEF CommitStep, StampTypes
  <2>2. \A u \in CopySites(x) : \A v \in versions[u][x] : v.ts \in Int /\ v.ts < EndStamp
    BY <1>0, <1>1, <1>2, <1>4, <2>1 DEF TooLate, StampTypes
  <2>3. PICK c \in CopySites(x) : \E n \in versions'[c][x] :
          n.ts = EndStamp /\ n.val = lastCommitted'[x]
    BY <1>0, <1>4, CommitVersions
  <2>4. PICK n \in versions'[c][x] : n.ts = EndStamp /\ n.val = lastCommitted'[x]
    BY <2>3
  <2>5. n \in versions'[s][x]
    BY <2>1, <2>3, <2>4 DEF Missed
  <2>6. ~(versions'[s][x] = versions[s][x])
    BY <2>1, <2>2, <2>4, <2>5
  <2>7. PICK m : versions'[s][x] = {v \in versions[s][x] : v.ts # EndStamp} \cup {m}
    BY <1>0, <1>4, <2>6, CommitVersions
  <2>8. n = m /\ \A v \in versions'[s][x] : v.ts \in Int /\ (v = n \/ v.ts < n.ts)
    BY <2>1, <2>2, <2>4, <2>5, <2>7
  <2> DEFINE V == {v \in versions'[s][x] : v.ts <= currTimestamp}
  <2>9. n \in V
    BY <2>1, <2>4, <2>5
  <2>10. LastOf(V) = n.val
    <3>1. n.ts \in Int /\ \A v \in V : v.ts \in Int /\ (v = n \/ v.ts < n.ts)
      BY <2>1, <2>4, <2>8
    <3> HIDE DEF V
    <3> QED BY <2>9, <3>1, LastIsNewest
  <2>11. Upto(s, x, currTimestamp)' = V
    BY DEF Upto
  <2> QED BY <1>0, <2>4, <2>10, <2>11, UptoDecidesNext
<1> QED BY <1>3, <1>4

(* A step that commits nothing leaves every snapshot alone; a transaction  *)
(* that begins takes what was committed last as its own.                   *)
LEMMA RestKeepsSnapshots ==
  ASSUME SafetyInv, SnapshotInv, [Next]_vars, SnapshotNext,
         QuietStep \/ \E t \in Tran : BeginStep(t)
  PROVE  SnapshotsReady' /\ SnapshotsKept'
<1>0. DbTypeOK /\ StampTypes
  BY TypeParts, StampsTyped DEF SafetyInv
<1>1. \A t \in Tran : ~Commits(t)
  BY <1>0 DEF QuietStep, BeginStep, AddTransaction, Commits, Transactions, DbTypeOK, TranTypeOK
<1>2. /\ versions' = versions /\ lastCommitted' = lastCommitted
      /\ \A t \in Tran :
           \/ status'[t] = status[t] /\ beginTime'[t] = beginTime[t]
           \/ status[t] = "none" /\ status'[t] = "active" /\ beginTime'[t] = currTimestamp
           \/ status'[t] = "aborted"
  BY <1>0 DEF QuietStep, BeginStep, AddTransaction, siteVars, DbTypeOK, TranTypeOK
<1>3. ASSUME NEW t \in ReadOnlyTran, status'[t] \in {"none", "active"}, NEW x \in Var, x \notin late'[t]
      PROVE  t \in Tran /\ x \notin late[t]
  BY <1>1, <1>3, LateStays, ScriptAssumption
<1>4. \A x \in Var : CopySites(x) \subseteq Site
  BY CopyPlacement
<1>5. ASSUME NEW x \in Var, NEW s \in CopySites(x), NEW ts \in {currTimestamp, currTimestamp + 1}
      PROVE  {v \in versions[s][x] : v.ts <= ts} = versions[s][x]
  <2>1. \A v \in versions[s][x] : v.ts \in Int /\ v.ts <= currTimestamp
    BY <1>0, <1>4 DEF StampTypes, SnapshotInv, StampsPast
  <2> QED BY <1>0, <2>1 DEF StampTypes
<1>6. SnapshotsReady'
  <2> SUFFICES ASSUME NEW t \in ReadOnlyTran, NEW x \in Var, x \notin late'[t], NEW s \in CopySites(x),
                      status'[t] = "none", ~Missed(s, x, currTimestamp)'
               PROVE  GetValue(s, x, currTimestamp)' = lastCommitted'[x]
    BY DEF SnapshotsReady
  <2>1. t \in Tran /\ x \notin late[t] /\ status[t] = "none"
    BY <1>2, <1>3
  <2>2. \A u \in CopySites(x) : Upto(u, x, currTimestamp)' = Upto(u, x, currTimestamp)
    <3>1. currTimestamp' \in {currTimestamp, currTimestamp + 1}
      BY ClockSteps
    <3> QED BY <1>2, <1>5, <3>1 DEF Upto
  <2>3. Complete(s, x, currTimestamp)' <=> Complete(s, x, currTimestamp)
    BY <2>2 DEF Complete
  <2>4. LastOf(Upto(s, x, currTimestamp)') = LastOf(Upto(s, x, currTimestamp))
    BY <2>2
  <2>5. /\ ~Missed(s, x, currTimestamp)
        /\ GetValue(s, x, currTimestamp)' = GetValue(s, x, currTimestamp)
    BY <2>1, <2>3, <2>4, UptoDecides, UptoDecidesNext
  <2> QED BY <1>2, <2>1, <2>5 DEF SnapshotInv, SnapshotsReady
<1>7. SnapshotsKept'
  <2> SUFFICES ASSUME NEW t \in ReadOnlyTran, NEW x \in Var, x \notin late'[t], NEW s \in CopySites(x),
                      status'[t] = "active", ~Missed(s, x, beginTime[t])'
               PROVE  GetValue(s, x, beginTime[t])' = snapshot'[t][x]
    BY DEF SnapshotsKept
  <2>1. t \in Tran /\ x \notin late[t]
    BY <1>3
  <2>2. CASE status[t] = "active" /\ beginTime'[t] = beginTime[t]
    <3>1. snapshot'[t] = snapshot[t]
      BY <2>1, <2>2 DEF SnapshotNext
    <3>2. \A u \in CopySites(x) : Upto(u, x, beginTime[t])' = Upto(u, x, beginTime[t])
      BY <1>2, <2>2 DEF Upto
    <3>3. /\ Missed(s, x, beginTime[t])' <=> Missed(s, x, beginTime[t])
          /\ GetValue(s, x, beginTime[t])' = GetValue(s, x, beginTime[t])
      BY <2>1, <2>2, <3>2, SameUpto
    <3> QED BY <2>1, <2>2, <3>1, <3>3 DEF SnapshotInv, SnapshotsKept
  <2>3. CASE status[t] = "none" /\ beginTime'[t] = currTimestamp
    <3>1. snapshot'[t] = lastCommitted
      BY <1>2, <2>1, <2>3 DEF SnapshotNext
    <3>2. \A u \in CopySites(x) : Upto(u, x, beginTime[t])' = Upto(u, x, currTimestamp)
      BY <1>2, <2>3 DEF Upto
    <3>3. Complete(s, x, beginTime[t])' <=> Complete(s, x, currTimestamp)
      BY <3>2 DEF Complete
    <3>4. LastOf(Upto(s, x, beginTime[t])') = LastOf(Upto(s, x, currTimestamp))
      BY <3>2
    <3>5. /\ ~Missed(s, x, currTimestamp)
          /\ GetValue(s, x, beginTime[t])' = GetValue(s, x, currTimestamp)
      BY <2>1, <3>3, <3>4, UptoDecides, UptoDecidesNext
    <3> QED BY <2>1, <2>3, <3>1, <3>5 DEF SnapshotInv, SnapshotsReady
  <2> QED BY <1>2, <2>1, <2>2, <2>3
<1> QED BY <1>6, <1>7

(* Every step keeps the snapshots.                                         *)
LEMMA NextSnapshots ==
  ASSUME SafetyInv, SnapshotInv, [Next /\ SnapshotNext]_<<vars, snapshotVars>>
  PROVE  SnapshotInv'
<1>1. [Next]_vars
  OBVIOUS
<1>2. StampsPast' /\ ReadersKnown'
  BY <1>1, NextStamps, NextReaders DEF SnapshotInv
<1>3. CASE UNCHANGED <<vars, snapshotVars>>
  BY <1>3 DEF SnapshotInv, StampsPast, ReadersKnown, SnapshotsReady, SnapshotsKept, Missed, GetValue,
              vars, tmVars, dbVars, siteVars, tranVars, snapshotVars
<1>4. CASE Next /\ SnapshotNext
  <2>1. CASE QuietStep \/ \E t \in Tran : BeginStep(t)
    BY <1>1, <1>2, <1>4, <2>1, RestKeepsSnapshots DEF SnapshotInv
  <2>2. ASSUME NEW w \in Tran, CommitStep(w)
        PROVE  SnapshotsReady' /\ SnapshotsKept'
    <3>1. currTimestamp' = currTimestamp
      <4>1. status'[w] # status[w]
        BY <2>2 DEF CommitStep, Evict, Transactions
      <4> QED BY <1>1, <4>1, ClockSteps DEF tranVars
    <3>2. SnapshotsReady'
      BY <1>4, <2>2, <3>1, CommitReadiesSnapshot DEF SnapshotsReady
    <3>3. SnapshotsKept'
      BY <1>4, <2>2, CommitKeepsSnapshot DEF SnapshotsKept
    <3> QED BY <3>2, <3>3
  <2> QED BY <1>1, <1>2, <2>1, <2>2, SnapshotSteps DEF SnapshotInv
<1> QED BY <1>3, <1>4

(* At the start there is the initial version of everything.                *)
LEMMA InitSnapshots == Init /\ SnapshotInit => SnapshotInv
<1> SUFFICES ASSUME Init, SnapshotInit
             PROVE  SnapshotInv
  OBVIOUS
<1>1. \A s \in Site, x \in Var : versions[s][x] = {[ts |-> -1, val |-> InitialValue(x)]}
  BY DEF Init, SiteInit
<1>2. currTimestamp = 0 /\ request = None /\ status = [t \in Tran |-> "none"]
      /\ isReadOnly = [t \in Tran |-> FALSE] /\ lastCommitted = [x \in Var |-> InitialValue(x)]
  BY DEF Init, TMInit, TranInit
<1>3. StampsPast
  BY <1>1, <1>2 DEF StampsPast
<1>4. SnapshotsReady
  <2> SUFFICES ASSUME NEW t \in ReadOnlyTran, NEW x \in Var, NEW s \in CopySites(x)
               PROVE  GetValue(s, x, currTimestamp) = lastCommitted[x]
    BY DEF SnapshotsReady
  <2> DEFINE n == [ts |-> -1, val |-> InitialValue(x)]
  <2>1. Upto(s, x, currTimestamp) = {n}
    BY <1>1, <1>2, CopyPlacement DEF Upto
  <2>2. LastOf({n}) = n.val
    <3> DEFINE V == {n}
    <3>1. n \in V /\ n.ts \in Int
      OBVIOUS
    <3>2. \A v \in V : v.ts \in Int /\ (v = n \/ v.ts < n.ts)
      OBVIOUS
    <3> HIDE DEF n, V
    <3>3. LastOf(V) = n.val
      BY <3>1, <3>2, LastIsNewest
    <3> QED BY <3>3 DEF V
  <2>3. n.val = lastCommitted[x]
    BY <1>2
  <2>4. GetValue(s, x, currTimestamp) = LastOf(Upto(s, x, currTimestamp))
    BY ScriptAssumption, UptoDecides
  <2> HIDE DEF n
  <2> QED BY <2>1, <2>2, <2>3, <2>4
<1> QED BY <1>2, <1>3, <1>4, ScriptAssumption DEF SnapshotInv, ReadersKnown, SnapshotsKept

\* A snapshot read is served by a readable copy.
SnapshotServed ==
  LET t == lastRead'.tran
      s == lastRead'.site
      x == lastRead'.var
  IN lastRead' \notin {lastRead, None} /\ isReadOnly[t] =>
       t \in Transactions /\ x \in Var /\ s \in CopySites(x) /\ readAvailable[s][x]

(* A read of a read-only transaction prints the version its copy had when  *)
(* the transaction began.                                                  *)
LEMMA ExecPrintsSnapshot ==
  ASSUME SafetyInv, SnapshotInv, NEW r \in AnyRequest, Exec(r), Applicable(r)
  PROVE  PrintsSnapshot /\ SnapshotServed
<1>0. DbTypeOK
  BY TypeParts DEF SafetyInv
<1>1. CASE lastRead' = lastRead
  BY <1>1 DEF PrintsSnapshot, SnapshotServed
<1>2. CASE lastRead' # lastRead
  <2>1. r.type = "READ" /\ ExecRead(r)
    BY <1>2 DEF Exec, ExecBegin, ExecWrite, ExecEnd, ExecFail, ExecRecover, WaitForLock, dbVars
  <2>2. r.tran \in Tran /\ r.var \in Var /\ status[r.tran] = "active"
    BY <2>1, RequestFields DEF Applicable, Transactions
  <2>3. CASE isReadOnly[r.tran]
    <3>1. PICK s \in CopySites(r.var) : ReadOnlyAt(r, s)
      BY <1>2, <2>1, <2>2, <2>3 DEF ExecRead, ExecReadOnly, WaitForSite, CopySites
    <3>2. /\ readAvailable[s][r.var]
          /\ lastRead'.tran = r.tran /\ lastRead'.var = r.var /\ lastRead'.site = s
          /\ lastRead'.val = GetValue(s, r.var, beginTime[r.tran])
      BY <3>1 DEF ReadOnlyAt, PrintRead
    <3>3. r.tran \in ReadOnlyTran
      BY <2>2, <2>3 DEF SnapshotInv, ReadersKnown
    <3>4. SnapshotServed
      BY <2>2, <3>2 DEF SnapshotServed, Transactions
    <3> QED BY <2>2, <3>2, <3>3, <3>4 DEF PrintsSnapshot, SnapshotInv, SnapshotsKept
  <2>4. CASE ~isReadOnly[r.tran]
    <3>1. lastRead' # None => lastRead'.tran = r.tran
      BY <1>2, <2>1, <2>2, <2>4 DEF ExecRead, ExecReadLocked, WaitForSite, WaitForLock, PrintRead
    <3> QED BY <2>4, <3>1 DEF PrintsSnapshot, SnapshotServed
  <2> QED BY <2>3, <2>4
<1> QED BY <1>1, <1>2

(* The same of every step.                                                 *)
LEMMA NextPrintsSnapshot ==
  ASSUME SafetyInv, SnapshotInv, [Next]_vars
  PROVE  PrintsSnapshot /\ SnapshotServed
<1>1. CASE lastRead' \in {lastRead, None}
  BY <1>1 DEF PrintsSnapshot, SnapshotServed
<1> QED BY <1>1, StepKinds, ExecPrintsSnapshot

(* What a line executes when it is read is not late for any snapshot.      *)
LEMMA LateWaits ==
  ASSUME SafetyInv, SnapshotInv, [Next]_vars, SnapshotNext, pc # "retry", NEW t \in Tran
  PROVE  late'[t] \subseteq late[t]
<1>0. DbTypeOK /\ LockInv /\ StampTypes
  BY TypeParts, StampsTyped DEF SafetyInv
<1>1. SUFFICES ASSUME NEW x \in Var, CommitsWrite(x), TooLate(t, x, EndStamp)
               PROVE  FALSE
  BY DEF SnapshotNext, LateNext
<1>2. PICK w \in Tran : Commits(w)
  BY <1>1 DEF CommitsWrite
<1>3. ~QuietStep /\ \A u \in Tran : ~BeginStep(u)
  BY <1>0, <1>2 DEF QuietStep, BeginStep, AddTransaction, Commits, Transactions, DbTypeOK, TranTypeOK
<1>4. PICK u \in Tran : CommitStep(u)
  BY <1>3, SnapshotSteps
<1>5. pc = "execute" /\ request # None /\ request.type = "END"
  BY <1>4 DEF CommitStep
<1>6. EndStamp = currTimestamp
  BY <1>5 DEF EndStamp, Executing, SafetyInv, RequestInv
<1>7. /\ \A s \in Site : \A v \in versions[s][x] : v.ts < currTimestamp
      /\ status[t] = "active" => beginTime[t] < currTimestamp
  BY <1>5 DEF SnapshotInv, StampsPast
<1> QED BY <1>0, <1>1, <1>6, <1>7, CopyPlacement DEF TooLate, StampTypes

(* The invariant that explains snapshot reads holds throughout.            *)
THEOREM SnapshotInvariant == SnapshotSpec => []SnapshotInv
<1>1. Init /\ SnapshotInit => SafetyInv /\ SnapshotInv
  BY InitSafe, InitSnapshots
<1>2. SafetyInv /\ SnapshotInv /\ [Next /\ SnapshotNext]_<<vars, snapshotVars>> => (SafetyInv /\ SnapshotInv)'
  BY NextSafe, NextSnapshots
<1> QED BY <1>1, <1>2, PTL DEF SnapshotSpec

(* A snapshot read is what was committed when its transaction began,       *)
(* unless a commit came too late for it or its copy missed one.            *)
THEOREM SnapshotReadsExplained == SnapshotSpec => SnapshotsExplained
<1>1. SafetyInv /\ SnapshotInv /\ [Next /\ SnapshotNext]_<<vars, snapshotVars>> => [PrintsSnapshot]_vars
  BY NextPrintsSnapshot
<1>2. Init /\ SnapshotInit => SafetyInv
  BY InitSafe
<1>3. SafetyInv /\ [Next /\ SnapshotNext]_<<vars, snapshotVars>> => SafetyInv'
  BY NextSafe
<1> QED BY <1>1, <1>2, <1>3, SnapshotInvariant, PTL DEF SnapshotSpec, SnapshotsExplained

(* Only an end that waited in the blocked queue comes too late for a       *)
(* snapshot.                                                               *)
THEOREM LateEndsHaveWaited == SnapshotSpec => LateEndsWaited
<1>1. SafetyInv /\ SnapshotInv /\ [Next /\ SnapshotNext]_<<vars, snapshotVars>>
        => [pc # "retry" => \A t \in Tran : late'[t] \subseteq late[t]]_vars
  BY LateWaits
<1>2. Init /\ SnapshotInit => SafetyInv
  BY InitSafe
<1>3. SafetyInv /\ [Next /\ SnapshotNext]_<<vars, snapshotVars>> => SafetyInv'
  BY NextSafe
<1> QED BY <1>1, <1>2, <1>3, SnapshotInvariant, PTL DEF SnapshotSpec, LateEndsWaited
-----------------------------------------------------------------------------
(* Before the first failure. *)

(* A script without fail and recover lines counts none.                    *)
LEMMA NoFaults == SafetyInv => (MaxFaults = 0 => faultCount = 0)
BY DEF SafetyInv, TypeOK

(* Only fail and recover lines are counted.                                *)
LEMMA FaultSteps ==
  ASSUME SafetyInv, [Next]_vars, faultCount' = 0
  PROVE  /\ faultCount = 0
         /\ \/ request' \in {request, None}
            \/ request'.type \notin {"FAIL", "RECOVER"}
<1>0. faultCount \in Nat
  BY ScriptAssumption DEF SafetyInv, TypeOK
<1>1. CASE ReadScript
  <2>1. ASSUME NEW kind \in {"FAIL", "RECOVER"}, NEW s \in Site, FaultLine(kind, s)
        PROVE  FALSE
    BY <1>0, <2>1 DEF FaultLine
  <2> QED BY <1>1, <2>1
          DEF ReadScript, BeginLine, EndLine, ReadLine, WriteLine, AddInstruction, scriptVars
<1>2. CASE Execute
  <2>1. faultCount' = faultCount
    BY <1>2 DEF Execute, scriptVars
  <2>2. request' \in {request, None}
    BY <1>2 DEF Execute, ExecuteInstructions, BreakDeadlock, DropRequest, QueueRequest,
       ExecWhileWaiting, ExecRequest, ThrowInRequest, RetryVisit, RetryExec, ThrowInRetry, FinishRetry
  <2> QED BY <2>1, <2>2
<1>3. CASE EndOfFile \/ DrainPass \/ Terminated \/ UNCHANGED vars
  BY <1>3 DEF EndOfFile, DrainPass, Terminated, vars, tmVars, scriptVars
<1>4. CASE Dump
  BY <1>4 DEF Dump, scriptVars
<1> QED BY <1>1, <1>2, <1>3, <1>4 DEF Next

(* Until then all copies stay up.                                          *)
LEMMA NothingGoesDown ==
  ASSUME SafetyInv, NothingDown, [Next]_vars
  PROVE  NothingDown'
<1> SUFFICES ASSUME faultCount' = 0
             PROVE  NothingDown'
  BY DEF NothingDown
<1>0. /\ request # None => request.type \notin {"FAIL", "RECOVER"}
      /\ \A s \in Site : writeAvailable[s] /\ \A x \in Var : readAvailable[s][x]
  BY FaultSteps DEF NothingDown
<1>1. request' # None => request'.type \notin {"FAIL", "RECOVER"}
  BY <1>0, FaultSteps
<1>2. \A s \in Site : writeAvailable'[s] /\ \A x \in Var : readAvailable'[s][x]
  <2>1. CASE UNCHANGED siteVars
    BY <1>0, <2>1 DEF siteVars
  <2>2. ASSUME NEW r \in AnyRequest, Exec(r), Applicable(r)
        PROVE  UNCHANGED siteVars \/ \E t, ts : InstallWrites(t, ts)
    <3>1. r.type \notin {"FAIL", "RECOVER"}
      BY <1>0, <2>2 DEF Applicable
    <3> QED BY <2>2, <3>1 DEF Exec, ExecBegin, ExecRead, ExecReadOnly, ExecReadLocked,
            WaitForSite, WaitForLock, ReadOnlyAt, ExecWrite, ExecEnd, dbVars
  <2>3. ASSUME NEW t, NEW ts, InstallWrites(t, ts)
        PROVE  \A s \in Site : writeAvailable'[s] /\ \A x \in Var : readAvailable'[s][x]
    <3>1. DbTypeOK
      BY TypeParts DEF SafetyInv
    <3> QED BY <1>0, <2>3, <3>1
            DEF InstallWrites, SetReadAvailable, DbTypeOK, SiteTypeOK
  <2> QED BY <2>1, <2>2, <2>3, StepKinds
<1> QED BY <1>1, <1>2 DEF NothingDown

(* And each commit reaches all of them.                                    *)
LEMMA CopiesStayAlike ==
  ASSUME SafetyInv, CopyInv, NothingDown, CopiesAlike, [Next]_vars
  PROVE  CopiesAlike'
<1> SUFFICES ASSUME faultCount' = 0, NEW x \in Var, NEW s1 \in CopySites(x), NEW s2 \in CopySites(x)
             PROVE  versions'[s1][x] = versions'[s2][x]
  BY DEF CopiesAlike, CopySites
<1>1. faultCount = 0 /\ s1 \in Site /\ s2 \in Site
  BY FaultSteps, CopyPlacement
<1>2. versions[s1][x] = versions[s2][x] /\ readAvailable[s1][x] /\ readAvailable[s2][x]
  BY <1>1 DEF CopiesAlike, NothingDown
<1>3. ASSUME NEW t \in Tran, CommitStep(t)
      PROVE  versions'[s1][x] = versions'[s2][x]
  <2>1. writeRecords[t][s1][x] = writeRecords[t][s2][x]
    BY <1>2 DEF CopyInv, RecordsComplete
  <2> QED BY <1>1, <1>2, <1>3, <2>1 DEF CommitStep, InstallWrites, AssignVar
<1>4. CASE QuietStep \/ \E t \in Tran : BeginStep(t)
  BY <1>2, <1>4 DEF QuietStep, BeginStep, siteVars
<1> QED BY <1>3, <1>4, SnapshotSteps

(* Until the first fail line all copies of a variable have the same        *)
(* versions.                                                               *)
THEOREM AlikeUntilFailure == Spec => [](CopiesAlike /\ NothingDown)
<1>1. Init => SafetyInv /\ CopyInv /\ NothingDown /\ CopiesAlike
  <2>1. ASSUME Init
        PROVE  NothingDown /\ CopiesAlike
    BY <2>1, CopyPlacement DEF Init, SiteInit, TMInit, NothingDown, CopiesAlike
  <2> QED BY <2>1, InitSafe, InitCopies
<1>2. SafetyInv /\ CopyInv /\ NothingDown /\ CopiesAlike /\ [Next]_vars
        => (SafetyInv /\ CopyInv /\ NothingDown /\ CopiesAlike)'
  BY NextSafe, NextCopies, NothingGoesDown, CopiesStayAlike
<1> QED BY <1>1, <1>2, PTL DEF Spec

-----------------------------------------------------------------------------
(* The drain loop advances. *)

\* The members of T leave the table, or an edge is added to one that runs.
EdgeStep ==
  \/ \E T \in SUBSET Tran : /\ waitForGraph' = WaitForGraphWithout(T)
                            /\ Transactions \subseteq Transactions' \cup T
  \/ /\ Transactions \subseteq Transactions'
     /\ \A t \in Tran : /\ waitForGraph[t] \subseteq waitForGraph'[t]
                        /\ waitForGraph'[t] \subseteq waitForGraph[t] \cup Transactions

(* Who is reported as the owner of a lock runs.                            *)
LEMMA OwnersRun ==
  ASSUME DbTypeOK, LockInv, NEW t \in Tran, NEW x \in Var, LockStatus(t, x) = "NEED_TO_WAIT"
  PROVE  LockOwners(t, x) \subseteq Transactions
<1> DEFINE s == FirstStop(t, x)
<1>1. s \in Site
  BY FirstStopExists DEF LockStatus
<1>2. OwnersAt(s, x, t) \subseteq Holders(s, x)
  BY <1>1 DEF OwnersAt, Holders, HasExclusiveLockExcludeSelf, HasSharedLockExcludeSelf, HasSharedLock
<1> QED BY <1>1, <1>2 DEF LockOwners, LockInv, NoOrphanLocks

(* What a request does to the wait-for graph.                              *)
LEMMA ExecEdges ==
  ASSUME DbTypeOK, LockInv, NEW r \in AnyRequest, Exec(r)
  PROVE  EdgeStep
<1>1. CASE UNCHANGED waitForGraph /\ Transactions \subseteq Transactions'
  BY <1>1 DEF EdgeStep
<1>2. ASSUME NEW T \in SUBSET Tran, ReleaseLocks(T),
             \E outcome \in {"committed", "aborted"} : Evict(T, outcome)
      PROVE  EdgeStep
  BY <1>2 DEF ReleaseLocks, Evict, EdgeStep, Transactions
<1>3. ASSUME r.tran \in Tran, r.var \in Var, LockStatus(r.tran, r.var) = "NEED_TO_WAIT",
             WaitForLock(r)
      PROVE  EdgeStep
  <2>1. LockOwners(r.tran, r.var) \subseteq Transactions
    BY <1>3, OwnersRun
  <2>2. \A t \in Tran : waitForGraph'[t] = IF t = r.tran
                                          THEN waitForGraph[t] \cup LockOwners(r.tran, r.var)
                                          ELSE waitForGraph[t]
    BY <1>3 DEF WaitForLock, AssignWaitForGraph, DbTypeOK, LockTypeOK
  <2>3. Transactions' = Transactions
    BY <1>3 DEF WaitForLock, tranVars, Transactions
  <2> QED BY <2>1, <2>2, <2>3 DEF EdgeStep
<1>4. CASE r.type \in {"BEGIN", "BEGINO"}
  BY <1>1, <1>4 DEF Exec, ExecBegin, AddTransaction, lockVars, Transactions, DbTypeOK, TranTypeOK
<1>5. CASE r.type = "READ"
  <2>0. r.tran \in Tran /\ r.var \in Var /\ ExecRead(r)
    BY <1>5, RequestFields DEF Exec
  <2>1. CASE isReadOnly[r.tran]
    BY <1>1, <1>2, <2>0, <2>1 DEF ExecRead, ExecReadOnly, ReadOnlyAt, WaitForSite, AbortTransactions,
       AddReadHistory, lockVars, tranVars, Transactions
  <2>2. CASE ~isReadOnly[r.tran]
    BY <1>1, <1>3, <2>0, <2>2 DEF ExecRead, ExecReadLocked, WaitForSite, AssignShareLock,
       AddReadHistory, lockVars, tranVars, Transactions
  <2> QED BY <2>1, <2>2
<1>6. CASE r.type = "WRITE"
  <2>0. r.tran \in Tran /\ r.var \in Var /\ ExecWrite(r)
    BY <1>6, RequestFields DEF Exec
  <2> QED BY <1>1, <1>3, <2>0 DEF ExecWrite, UpdateValues, AssignWriteLock, dbVars, lockVars,
             tranVars, Transactions
<1>7. CASE r.type = "END"
  BY <1>2, <1>7, RequestFields DEF Exec, ExecEnd, AbortTransactions
<1>8. CASE r.type = "FAIL"
  BY <1>2, <1>8 DEF Exec, ExecFail, AbortTransactions, Transactions
<1>9. CASE r.type \in {"RECOVER", "DUMP"}
  BY <1>1, <1>9 DEF Exec, ExecRecover, dbVars, lockVars, tranVars, Transactions
<1> QED BY <1>4, <1>5, <1>6, <1>7, <1>8, <1>9 DEF Exec

(* An edge that is the last one of its transaction leads to one that runs. *)
LEMMA NextEdges ==
  ASSUME SafetyInv, EdgesCurrent, [Next]_vars
  PROVE  EdgesCurrent'
<1>0. DbTypeOK /\ LockInv
  BY TypeParts DEF SafetyInv
<1>1. EdgeStep
  <2>1. ASSUME NEW T \in SUBSET Tran, AbortTransactions(T)
        PROVE  EdgeStep
    BY <2>1 DEF AbortTransactions, ReleaseLocks, Evict, EdgeStep, Transactions
  <2>2. CASE UNCHANGED <<lockVars, tranVars>>
    BY <2>2 DEF lockVars, tranVars, EdgeStep, Transactions
  <2> QED BY <1>0, <2>1, <2>2, ExecEdges, StepKinds
<1> SUFFICES ASSUME NEW t \in Tran, NEW u \in Tran, waitForGraph'[t] = {u}
             PROVE  u \in Transactions'
  BY DEF EdgesCurrent, Transactions
<1>2. CASE \E T \in SUBSET Tran : /\ waitForGraph' = WaitForGraphWithout(T)
                                  /\ Transactions \subseteq Transactions' \cup T
  BY <1>2 DEF WaitForGraphWithout, EdgesCurrent
<1>3. CASE /\ Transactions \subseteq Transactions'
           /\ waitForGraph[t] \subseteq waitForGraph'[t]
           /\ waitForGraph'[t] \subseteq waitForGraph[t] \cup Transactions
  BY <1>3 DEF EdgesCurrent
<1> QED BY <1>1, <1>2, <1>3 DEF EdgeStep

(* Who is still to be visited in a walk has a queue, and keeps it.         *)
LEMMA NextTodo ==
  ASSUME SafetyInv, DrainInv, [Next]_vars
  PROVE  \A t \in todo' : blockedQueue'[t] # {}
<1>0. DbTypeOK /\ ControlTypeOK /\ todo \subseteq Tran
  BY TypeParts DEF SafetyInv, ControlTypeOK
<1>1. \A t \in todo : blockedQueue[t] # {}
  BY DEF DrainInv
<1>2. pc \in {"ready", "execute"} => todo = {}
  BY DEF SafetyInv, WalkInv
<1>3. CASE ReadScript
  BY <1>2, <1>3 DEF ReadScript, BeginLine, EndLine, ReadLine, WriteLine, FaultLine,
     AddInstruction, loopVars
<1>4. CASE Execute
  <2>1. CASE BreakDeadlock \/ DropRequest \/ QueueRequest \/ ExecWhileWaiting \/ ThrowInRequest
    BY <1>2, <2>1 DEF BreakDeadlock, DropRequest, QueueRequest, ExecWhileWaiting, ThrowInRequest,
       loopVars
  <2>2. CASE ExecRequest
    BY <2>2 DEF ExecRequest
  <2>3. CASE RetryVisit \/ ThrowInRetry
    BY <1>1, <2>3 DEF RetryVisit, ThrowInRetry, dbVars, loopVars
  <2>4. CASE RetryExec
    <3> DEFINE r == Earliest(retryQueue)
    <3>1. r \in retryQueue /\ Exec(r) /\ todo' \subseteq todo
      BY <1>0, <2>4, EarliestInQueue DEF RetryExec, ControlTypeOK
    <3>2. r \in AnyRequest /\ r.type \in {"READ", "WRITE", "END"} /\ r.tran \in finishedSet
      BY <3>1, RetriedRequest DEF SafetyInv, WalkInv
    <3> HIDE DEF r
    <3> SUFFICES ASSUME NEW t \in todo
                 PROVE  blockedQueue'[t] # {}
      BY <3>1
    <3>3. t \in Tran /\ t # r.tran /\ t \in Transactions
      BY <1>0, <1>1, <3>2 DEF SafetyInv, WalkInv, RetriesRun
    <3>4. t \in Transactions'
      BY <1>0, <3>1, <3>2, <3>3, ExecEffect DEF Effect, LeaveEffect
    <3> QED BY <1>0, <1>1, <3>1, <3>2, <3>3, <3>4, ExecRuns
  <2>5. CASE FinishRetry
    BY <2>5 DEF FinishRetry
  <2> QED BY <1>4, <2>1, <2>2, <2>3, <2>4, <2>5 DEF Execute, ExecuteInstructions
<1>5. CASE EndOfFile \/ DrainPass \/ Dump
  BY <1>2, <1>5 DEF EndOfFile, DrainPass, Dump, tmVars, loopVars
<1>6. CASE Terminated \/ UNCHANGED vars
  BY <1>1, <1>6 DEF Terminated, vars, tmVars, dbVars, loopVars
<1> QED BY <1>3, <1>4, <1>5, <1>6 DEF Next

(* While the queue is drained there is no request.                         *)
LEMMA DrainRequest ==
  ASSUME SafetyInv, phase = "draining" => request = None, [Next]_vars, phase' = "draining"
  PROVE  request' = None /\ (phase = "draining" \/ pc = "ready")
<1>1. CASE Execute
  BY <1>1 DEF Execute, ExecuteInstructions, BreakDeadlock, DropRequest, QueueRequest, ExecWhileWaiting,
     ExecRequest, ThrowInRequest, RetryVisit, RetryExec, ThrowInRetry, FinishRetry
<1>2. CASE EndOfFile \/ DrainPass \/ Dump
  BY <1>2 DEF EndOfFile, DrainPass, Dump, tmVars, SafetyInv, RequestInv
<1>3. CASE Terminated \/ UNCHANGED vars
  BY <1>3 DEF Terminated, vars, tmVars
<1>4. CASE ReadScript
  BY <1>4 DEF ReadScript, BeginLine, EndLine, ReadLine, WriteLine, FaultLine, AddInstruction
<1> QED BY <1>1, <1>2, <1>3, <1>4 DEF Next

(* Every step.                                                             *)
LEMMA NextDrain ==
  ASSUME SafetyInv, DrainInv, [Next]_vars
  PROVE  DrainInv'
<1> DEFINE Settled == /\ ~DetectDeadlock
                      /\ \A t \in Tran : blockedQueue[t] # {} =>
                           t \in todo \/ IsWaitingForLock(t) \/ IsTransactionWaitingForSite(t)
<1>1. EdgesCurrent' /\ \A t \in todo' : blockedQueue'[t] # {}
  BY NextEdges, NextTodo DEF DrainInv
<1>2. phase' = "draining" => request' = None
  BY DrainRequest DEF DrainInv
<1>3. ASSUME phase' = "draining", pc' = "retry", finishedSet' = {}
      PROVE  Settled'
  <2>0. phase = "draining" \/ pc = "ready"
    BY <1>3, DrainRequest DEF DrainInv
  <2>1. CASE ExecRequest
    <3>1. phase = "draining" /\ request = None
      BY <2>0, <2>1 DEF ExecRequest, DrainInv
    <3>2. UNCHANGED waitForGraph /\ ~DetectDeadlock /\ todo' = {t \in Tran : blockedQueue'[t] # {}}
      BY <2>1, <3>1 DEF ExecRequest, dbVars, lockVars
    <3> QED BY <3>2 DEF DetectDeadlock
  <2>2. ASSUME pc = "retry", finishedSet = {}, UNCHANGED <<waitForGraph, blockedQueue, siteWaitingMap>>,
               \A t \in todo : t \in todo' \/ IsWaitingForLock(t) \/ IsTransactionWaitingForSite(t)
        PROVE  Settled'
    <3>1. Settled
      BY <2>0, <2>2 DEF DrainInv
    <3> QED BY <2>2, <3>1 DEF DetectDeadlock, IsWaitingForLock, IsTransactionWaitingForSite
  <2>3. CASE RetryVisit
    BY <1>3, <2>2, <2>3 DEF RetryVisit, dbVars, lockVars, loopVars
  <2>4. CASE RetryExec
    <3>1. PICK r \in retryQueue : TRUE
      BY <2>4 DEF RetryExec
    <3> QED BY <1>3, <2>4, <3>1 DEF RetryExec, SafetyInv, WalkInv
  <2>5. CASE Terminated \/ UNCHANGED vars
    BY <1>3, <2>2, <2>5 DEF Terminated, vars, tmVars, dbVars, lockVars, loopVars
  <2>6. CASE ReadScript \/ EndOfFile \/ DrainPass \/ Dump
    BY <1>3, <2>6 DEF ReadScript, BeginLine, EndLine, ReadLine, WriteLine, FaultLine, AddInstruction,
       EndOfFile, DrainPass, Dump, tmVars
  <2>7. CASE Execute /\ ~ExecRequest /\ ~RetryVisit /\ ~RetryExec
    BY <1>3, <2>7 DEF Execute, ExecuteInstructions, BreakDeadlock, DropRequest, QueueRequest,
       ExecWhileWaiting, ThrowInRequest, ThrowInRetry, FinishRetry
  <2> QED BY <2>1, <2>3, <2>4, <2>5, <2>6, <2>7 DEF Next
<1> QED BY <1>1, <1>2, <1>3 DEF DrainInv

(* A walk that has retried nobody leaves somebody whom nothing wakes: not  *)
(* all of those left can wait for each other.                              *)
LEMMA SpinsForReason ==
  ASSUME SafetyInv, EndsPending, WaitedSitesDown, DrainInv,
         phase = "draining", pc = "retry", todo = {}, finishedSet = {}, retryQueue = {},
         Unretried # {}
  PROVE  \E t \in Unretried : NothingWakes(t)
<1>0. /\ waitForGraph \in [Tran -> SUBSET Tran]
      /\ \A t \in Tran : siteWaitingMap[t] # None => ~writeAvailable[siteWaitingMap[t]]
  BY TypeParts DEF SafetyInv, DbTypeOK, LockTypeOK, WaitedSitesDown
<1>1. Unretried = {t \in Tran : blockedQueue[t] # {}}
  BY DEF Unretried
<1>2. PICK t \in Unretried : waitForGraph[t] \cap Unretried = {}
  <2>1. Unretried \in SUBSET Tran /\ ~HasCycle(waitForGraph)
    BY <1>1 DEF DrainInv, DetectDeadlock
  <2> QED BY <2>1 DEF HasCycle
<1>3. t \in Tran /\ (waitForGraph[t] # {} \/ siteWaitingMap[t] # None)
  BY <1>1 DEF DrainInv, IsWaitingForLock, IsTransactionWaitingForSite
<1>4. CASE siteWaitingMap[t] # None
  BY <1>0, <1>3, <1>4 DEF NothingWakes
<1>5. ASSUME NEW u \in waitForGraph[t], u \in Transactions
      PROVE  NothingWakes(t)
  <2>1. u \in Tran /\ blockedQueue[u] = {}
    BY <1>0, <1>1, <1>2, <1>3
  <2>2. u \notin ended
    BY <1>5, <2>1 DEF EndsPending, EndPending
  <2> QED BY <1>5, <2>1, <2>2 DEF NothingWakes
<1>6. CASE waitForGraph[t] # {} /\ waitForGraph[t] \cap Transactions = {}
  <2>1. PICK u \in waitForGraph[t] : u \notin Transactions
    BY <1>6
  <2>2. waitForGraph[t] # {u}
    BY <1>0, <1>3, <2>1 DEF DrainInv, EdgesCurrent
  <2> QED BY <1>6, <2>1, <2>2 DEF NothingWakes
<1> QED BY <1>3, <1>4, <1>5, <1>6

(* Every step of the drain loop.                                           *)
LEMMA DrainStep ==
  ASSUME SafetyInv, EndsPending, WaitedSitesDown, DrainInv, [Next]_vars
  PROVE  DrainMoves
<1> SUFFICES ASSUME phase = "draining", phase' = "draining"
             PROVE  /\ Unretried' \subseteq Unretried
                    /\ finishedSet' \notin {finishedSet, {}} => Unretried' # Unretried
                    /\ pc = "retry" /\ pc' = "ready" /\ finishedSet = {} =>
                         Unretried = {} \/ \E t \in Unretried : NothingWakes(t)
  BY DEF DrainMoves
<1>0. DbTypeOK /\ ControlTypeOK /\ request = None
  BY TypeParts DEF SafetyInv, DrainInv
<1>1. CASE UNCHANGED <<blockedQueue, finishedSet>> /\ ~(pc = "retry" /\ pc' = "ready")
  BY <1>1 DEF Unretried
<1>2. CASE BreakDeadlock
  <2>1. \/ UNCHANGED <<blockedQueue, finishedSet>>
        \/ \E t \in Transactions : AbortTransactions({t}) /\ UNCHANGED finishedSet
    BY <1>2 DEF BreakDeadlock, Youngest, dbVars, loopVars
  <2>2. \A t \in Tran : blockedQueue'[t] \subseteq blockedQueue[t]
    BY <2>1 DEF AbortTransactions
  <2>3. UNCHANGED finishedSet /\ pc # "retry"
    BY <1>2 DEF BreakDeadlock, loopVars
  <2> QED BY <2>2, <2>3 DEF Unretried
<1>3. CASE RetryVisit
  <2>1. PICK t \in todo : finishedSet' = finishedSet \/ finishedSet' = finishedSet \cup {t}
    BY <1>3 DEF RetryVisit
  <2>2. t \in Tran /\ t \notin finishedSet /\ blockedQueue[t] # {} /\ UNCHANGED <<blockedQueue, pc>>
    BY <1>0, <1>3, <2>1 DEF RetryVisit, dbVars, ControlTypeOK, SafetyInv, WalkInv, DrainInv
  <2> QED BY <2>1, <2>2 DEF Unretried
<1>4. CASE RetryExec
  <2> DEFINE r == Earliest(retryQueue)
  <2>1. /\ r \in retryQueue /\ Exec(r) /\ UNCHANGED finishedSet
        /\ pc' # "ready"
    BY <1>0, <1>4, EarliestInQueue DEF RetryExec, ControlTypeOK
  <2>2. r \in AnyRequest /\ r.tran \in finishedSet
    BY <2>1, RetriedRequest DEF SafetyInv, WalkInv
  <2> HIDE DEF r
  <2>3. QueueEffect(r)
    BY <1>0, <2>1, <2>2, ExecEffect DEF Effect
  <2>4. Unretried' \subseteq Unretried
    BY <2>1, <2>2, <2>3 DEF Unretried, QueueEffect
  <2> QED BY <2>1, <2>4
<1>5. CASE FinishRetry
  <2>1. /\ finishedSet' = {} /\ pc = "retry" /\ todo = {} /\ retryQueue = {}
        /\ Unretried' = Unretried
    BY <1>5 DEF FinishRetry, Unretried
  <2>2. finishedSet = {} /\ Unretried # {} => \E t \in Unretried : NothingWakes(t)
    BY <2>1, SpinsForReason
  <2> QED BY <2>1, <2>2
<1>6. CASE Execute /\ ~BreakDeadlock /\ ~RetryVisit /\ ~RetryExec /\ ~FinishRetry
  <2>1. CASE ExecRequest
    BY <1>0, <1>1, <2>1 DEF ExecRequest, dbVars
  <2>2. CASE ThrowInRetry
    BY <1>1, <2>2 DEF ThrowInRetry, dbVars, loopVars
  <2>3. CASE DropRequest \/ QueueRequest \/ ExecWhileWaiting \/ ThrowInRequest
    BY <1>0, <2>3 DEF DropRequest, RequestIsStale, QueueRequest, ExecWhileWaiting, RequestMustWait,
       ThrowInRequest
  <2> QED BY <1>6, <2>1, <2>2, <2>3 DEF Execute, ExecuteInstructions
<1>7. CASE DrainPass \/ Terminated \/ UNCHANGED vars
  <2>1. UNCHANGED <<blockedQueue, finishedSet>>
    BY <1>7 DEF DrainPass, Terminated, vars, tmVars, dbVars, loopVars
  <2>2. ~(pc = "retry" /\ pc' = "ready")
    BY <1>7 DEF DrainPass, Terminated, vars, tmVars
  <2> QED BY <1>1, <2>1, <2>2
<1>8. CASE ReadScript \/ EndOfFile \/ Dump
  BY <1>8 DEF ReadScript, BeginLine, EndLine, ReadLine, WriteLine, FaultLine, AddInstruction,
     EndOfFile, Dump
<1> QED BY <1>2, <1>3, <1>4, <1>5, <1>6, <1>7, <1>8 DEF Next

(* What the drain loop has to wait for.                                    *)
THEOREM DrainInvariant == Spec => []DrainInv
<1>1. Init => SafetyInv /\ DrainInv
  <2>1. ASSUME Init
        PROVE  DrainInv
    BY <2>1 DEF Init, LockInit, TMInit, DrainInv, EdgesCurrent
  <2> QED BY <2>1, InitSafe
<1>2. SafetyInv /\ DrainInv /\ [Next]_vars => (SafetyInv /\ DrainInv)'
  BY NextSafe, NextDrain
<1> QED BY <1>1, <1>2, PTL DEF Spec

(* Each pass of the drain loop retries a transaction that is then done     *)
(* with, or spins for one of the three reasons.                            *)
THEOREM DrainsAdvance == Spec => DrainAdvances
<1>1. SafetyInv /\ EndsPending /\ WaitedSitesDown /\ DrainInv /\ [Next]_vars => DrainMoves
  BY DrainStep
<1> QED BY <1>1, SafetyInvariant, EndsNotLost, WaitersOfDownSites, DrainInvariant, PTL
        DEF Spec, DrainAdvances

\* A pass of the drain loop that retries nobody leaves nobody.
DrainsFreely ==
  LET AllCanRun == Transactions \subseteq ended /\ (\A s \in Site : writeAvailable[s])
      Spins == pc = "retry" /\ pc' = "ready" /\ finishedSet = {}
  IN phase = "draining" /\ phase' = "draining" /\ AllCanRun /\ Spins => Unretried = {}

(* With two transactions only, edges that outlive their owners never keep  *)
(* one from being retried: once both have ended and all sites are up, the  *)
(* drain loop never spins.  It takes three for the queue to hang.          *)
THEOREM TwoDrainFreely ==
  ASSUME \E a, b : Tran \subseteq {a, b}
  PROVE  Spec => [][DrainsFreely]_vars
<1>1. ASSUME SafetyInv, EndsPending, WaitedSitesDown, DrainInv, [Next]_vars
      PROVE  DrainsFreely
  <2> SUFFICES ASSUME pc = "retry", finishedSet = {}, Transactions \subseteq ended,
                      \A s \in Site : writeAvailable[s],
                      NEW t \in Unretried, NothingWakes(t)
               PROVE  FALSE
    BY <1>1, DrainStep DEF DrainMoves, DrainsFreely
  <2>1. /\ waitForGraph \in [Tran -> SUBSET Tran]
        /\ siteWaitingMap[t] # None => siteWaitingMap[t] \in Site
    BY <1>1, TypeParts DEF SafetyInv, DbTypeOK, LockTypeOK, Unretried
  <2>2. t \in Tran /\ t \in Transactions
    BY <1>1 DEF Unretried, SafetyInv, WalkInv, RetriesRun
  <2>3. PICK u \in waitForGraph[t], v \in waitForGraph[t] : u # v /\ waitForGraph[t] \cap Transactions = {}
    BY <2>1 DEF NothingWakes
  <2>4. t \in {u, v}
    BY <2>1, <2>2, <2>3
  <2> QED BY <2>2, <2>3, <2>4
<1> QED BY <1>1, SafetyInvariant, EndsNotLost, WaitersOfDownSites, DrainInvariant, PTL
        DEF Spec

-----------------------------------------------------------------------------
(* Timestamps tell things apart. *)

(* What is still to be executed has a stamp of a line that was read.       *)
LEMMA PendingParts ==
  ASSUME SafetyInv
  PROVE  /\ \A r \in Pending : /\ r \in AnyRequest /\ r.tran \in Tran
                               /\ r.timestamp \in Nat /\ r.timestamp <= currTimestamp
         /\ \A r : r \in Pending <=>
              \/ \E t \in Tran : r \in blockedQueue[t]
              \/ r \in retryQueue
              \/ pc = "execute" /\ request # None /\ HasTran(request) /\ r = request
<1>0. DbTypeOK /\ ControlTypeOK /\ currTimestamp \in Nat
  BY TypeParts DEF SafetyInv, ScriptTypeOK
<1>1. \A r \in retryQueue : r.tran \in Tran
  BY RetriedRequest DEF Transactions
<1>2. \A r : r \in Pending <=>
        \/ \E t \in Tran : r \in blockedQueue[t]
        \/ r \in retryQueue
        \/ pc = "execute" /\ request # None /\ HasTran(request) /\ r = request
  BY <1>1 DEF Pending, Queued
<1>3. ASSUME NEW r \in Pending
      PROVE  r \in AnyRequest /\ r.tran \in Tran /\ r.timestamp \in Nat /\ r.timestamp <= currTimestamp
  <2>1. CASE \E t \in Tran : r \in Queued(t)
    <3>1. r \in AnyRequest /\ r.tran \in Tran /\ r.timestamp <= currTimestamp
      BY <1>0, <2>1 DEF SafetyInv, QueueInv, Queued, DbTypeOK, ControlTypeOK, AnyRequest
    <3> QED BY <3>1, RequestFields
  <2>2. CASE pc = "execute" /\ request # None /\ HasTran(request) /\ r = request
    <3>1. r \in AnyRequest /\ r.timestamp = currTimestamp
      BY <1>0, <2>2 DEF ControlTypeOK, SafetyInv, RequestInv
    <3> QED BY <1>0, <2>2, <3>1, RequestFields
  <2> QED BY <1>3, <2>1, <2>2 DEF Pending
<1> QED BY <1>2, <1>3

(* A line adds one request; nothing else adds any.                         *)
LEMMA PendingSteps ==
  ASSUME SafetyInv, [Next]_vars
  PROVE  \/ Pending' \subseteq Pending
         \/ /\ currTimestamp' = currTimestamp + 1
            /\ \A r \in Pending' : r \in Pending \/ (r = request' /\ r.timestamp = currTimestamp')
<1>0. /\ DbTypeOK /\ ControlTypeOK /\ SafetyInv'
      /\ pc = "ready" => request = None
  BY TypeParts, NextSafe DEF SafetyInv, RequestInv
<1>1. \A r : r \in Pending <=>
        \/ \E t \in Tran : r \in blockedQueue[t]
        \/ r \in retryQueue
        \/ pc = "execute" /\ request # None /\ HasTran(request) /\ r = request
  BY PendingParts
<1>2. \A r : r \in Pending' <=>
        \/ \E t \in Tran : r \in blockedQueue'[t]
        \/ r \in retryQueue'
        \/ pc' = "execute" /\ request' # None /\ HasTran(request') /\ r = request'
  <2>1. \A r \in retryQueue' : r.tran \in Tran
    BY <1>0 DEF SafetyInv, WalkInv, RetriesRun, Transactions
  <2> QED BY <2>1 DEF Pending, Queued, HasTran
<1> HIDE DEF Pending
<1>3. CASE ReadScript
  <2>1. /\ UNCHANGED <<blockedQueue, retryQueue>>
        /\ currTimestamp' = currTimestamp + 1 /\ request'.timestamp = currTimestamp'
    BY <1>3 DEF ReadScript, BeginLine, EndLine, ReadLine, WriteLine, FaultLine, AddInstruction, loopVars
  <2> QED BY <1>1, <1>2, <2>1
<1>4. CASE BreakDeadlock
  <2>1. \A t \in Tran : blockedQueue'[t] \subseteq blockedQueue[t]
    BY <1>4 DEF BreakDeadlock, AbortTransactions, dbVars
  <2> QED BY <1>1, <1>2, <1>4, <2>1 DEF BreakDeadlock, loopVars
<1>5. CASE DropRequest \/ ThrowInRequest \/ ThrowInRetry
  BY <1>1, <1>2, <1>5 DEF DropRequest, ThrowInRequest, ThrowInRetry, dbVars, loopVars
<1>6. CASE QueueRequest
  <2>1. \A t \in Tran : blockedQueue'[t] \subseteq blockedQueue[t] \cup {request}
    BY <1>0, <1>6 DEF QueueRequest, AddRequestToBlockedQueue, DbTypeOK
  <2>2. request # None /\ HasTran(request)
    BY <1>6 DEF QueueRequest, RequestMustWait
  <2> QED BY <1>1, <1>2, <1>6, <2>1, <2>2 DEF QueueRequest, loopVars
<1>7. ASSUME NEW r \in AnyRequest, Exec(r), r \in Pending \/ ~HasTran(r),
             retryQueue' \subseteq retryQueue, pc' # "execute"
      PROVE  Pending' \subseteq Pending
  <2>1. QueueEffect(r)
    BY <1>0, <1>7, ExecEffect DEF Effect
  <2>2. \A t \in Tran : \A q \in blockedQueue'[t] : q \in blockedQueue[t] \/ (q = r /\ HasTran(r))
    BY <2>1 DEF QueueEffect, HasTran
  <2> QED BY <1>1, <1>2, <1>7, <2>2
<1>8. CASE ExecWhileWaiting \/ ExecRequest
  <2>1. CASE request = None
    BY <1>1, <1>2, <1>8, <2>1 DEF ExecWhileWaiting, ExecRequest, RequestMustWait, dbVars
  <2>2. CASE request # None
    <3>1. /\ request \in AnyRequest /\ Exec(request) /\ pc = "execute" /\ pc' # "execute"
          /\ retryQueue' = retryQueue
      BY <1>0, <1>8, <2>2 DEF ExecWhileWaiting, ExecRequest, loopVars, ControlTypeOK
    <3>2. request \in Pending \/ ~HasTran(request)
      BY <1>1, <2>2, <3>1
    <3> QED BY <1>7, <3>1, <3>2
  <2> QED BY <2>1, <2>2
<1>9. CASE RetryVisit
  <2>1. /\ pc' # "execute" /\ UNCHANGED blockedQueue
        /\ \E t \in todo : retryQueue' \in {retryQueue, blockedQueue[t]}
    BY <1>9 DEF RetryVisit, dbVars
  <2> QED BY <1>0, <1>1, <1>2, <2>1 DEF ControlTypeOK
<1>10. CASE RetryExec
  <2> DEFINE r == Earliest(retryQueue)
  <2>1. r \in retryQueue /\ Exec(r) /\ retryQueue' \subseteq retryQueue /\ pc' # "execute"
    BY <1>0, <1>10, EarliestInQueue DEF RetryExec, ControlTypeOK
  <2>2. r \in AnyRequest /\ r \in Pending
    BY <1>1, <2>1, RetriedRequest
  <2> HIDE DEF r
  <2> QED BY <1>7, <2>1, <2>2
<1>11. CASE FinishRetry
  <2>1. \A t \in Tran : blockedQueue'[t] \subseteq blockedQueue[t]
    BY <1>11 DEF FinishRetry
  <2> QED BY <1>1, <1>2, <1>11, <2>1 DEF FinishRetry
<1>12. CASE EndOfFile \/ DrainPass
  BY <1>0, <1>1, <1>2, <1>12 DEF EndOfFile, DrainPass, tmVars, dbVars, loopVars
<1>13. CASE Dump
  <2>1. UNCHANGED <<blockedQueue, retryQueue>> /\ ~HasTran(request')
    BY <1>13 DEF Dump, dbVars, loopVars, HasTran
  <2> QED BY <1>1, <1>2, <2>1
<1>14. CASE Terminated \/ UNCHANGED vars
  BY <1>1, <1>2, <1>14 DEF Terminated, vars, tmVars, dbVars, loopVars
<1> QED BY <1>3, <1>4, <1>5, <1>6, <1>8, <1>9, <1>10, <1>11, <1>12, <1>13, <1>14
        DEF Next, Execute, ExecuteInstructions

(* A transaction begins at a line of its own.                              *)
LEMMA NextBegins ==
  ASSUME SafetyInv, StampsPast, BeginsLater, [Next]_vars
  PROVE  BeginsLater'
<1>0. DbTypeOK /\ currTimestamp \in Nat
  BY TypeParts DEF SafetyInv, ScriptTypeOK
<1> SUFFICES ASSUME request' # None, request'.type \in {"BEGIN", "BEGINO"},
                    status'[request'.tran] = "none",
                    NEW t \in Tran, status'[t] # "none"
             PROVE  beginTime'[t] < currTimestamp'
  BY DEF BeginsLater
<1>1. \/ currTimestamp' = currTimestamp + 1
      \/ currTimestamp' = currTimestamp /\ request' = request
  <2>1. CASE ReadScript
    BY <2>1 DEF ReadScript, BeginLine, EndLine, ReadLine, WriteLine, FaultLine, AddInstruction
  <2>2. CASE Execute
    BY <2>2 DEF Execute, ExecuteInstructions, BreakDeadlock, DropRequest, QueueRequest,
       ExecWhileWaiting, ExecRequest, ThrowInRequest, RetryVisit, RetryExec, ThrowInRetry, FinishRetry
  <2>3. CASE EndOfFile \/ DrainPass \/ Dump \/ Terminated \/ UNCHANGED vars
    BY <2>3 DEF EndOfFile, DrainPass, Dump, Terminated, vars, tmVars
  <2> QED BY <2>1, <2>2, <2>3 DEF Next
<1>2. CASE currTimestamp' = currTimestamp + 1
  <2>1. UNCHANGED <<status, beginTime>>
    BY <1>0, <1>2, ClockSteps DEF tranVars
  <2>2. beginTime[t] \in Nat /\ beginTime[t] <= currTimestamp
    BY <1>0, <2>1 DEF StampsPast, DbTypeOK, TranTypeOK
  <2> QED BY <1>0, <1>2, <2>1, <2>2
<1>3. CASE currTimestamp' = currTimestamp /\ request' = request
  <2>1. ASSUME NEW u \in Tran, BeginStep(u)
        PROVE  FALSE
    <3>1. u = request'.tran /\ status'[u] = "active"
      BY <1>0, <1>3, <2>1 DEF BeginStep, AddTransaction, DbTypeOK, TranTypeOK
    <3> QED BY <3>1
  <2>2. \A u \in Tran : beginTime'[u] = beginTime[u] /\ (status'[u] # "none" <=> status[u] # "none")
    BY <1>0, <2>1, SnapshotSteps DEF CommitStep, Evict, QuietStep, Transactions, DbTypeOK, TranTypeOK
  <2>3. request'.tran \in Tran
    BY <1>0, <1>3, TypeParts, RequestFields DEF SafetyInv, ControlTypeOK
  <2> QED BY <1>3, <2>2, <2>3 DEF BeginsLater
<1> QED BY <1>1, <1>2, <1>3

(* No two transactions are as young.                                       *)
LEMMA NextBeginTimes ==
  ASSUME SafetyInv, StampsUnique, BeginsLater, [Next]_vars,
         NEW t \in Transactions', NEW u \in Transactions', beginTime'[t] = beginTime'[u]
  PROVE  t = u
<1>0. DbTypeOK /\ t \in Tran /\ u \in Tran /\ status'[t] = "active" /\ status'[u] = "active"
  BY TypeParts DEF SafetyInv, Transactions
<1>1. CASE QuietStep \/ \E w \in Tran : CommitStep(w)
  <2>1. UNCHANGED beginTime /\ t \in Transactions /\ u \in Transactions
    BY <1>0, <1>1 DEF QuietStep, CommitStep, Evict, Transactions
  <2> QED BY <2>1 DEF StampsUnique
<1>2. ASSUME NEW w \in Tran, BeginStep(w)
      PROVE  t = u
  <2>1. \A v \in Tran : status[v] # "none" => beginTime[v] < currTimestamp
    BY <1>2 DEF BeginStep, BeginsLater
  <2>2. /\ beginTime'[w] = currTimestamp
        /\ \A v \in Tran \ {w} : beginTime'[v] = beginTime[v] /\ status'[v] = status[v]
    BY <1>0, <1>2 DEF BeginStep, AddTransaction, DbTypeOK, TranTypeOK
  <2>3. CASE t # w /\ u # w
    BY <1>0, <2>2, <2>3 DEF StampsUnique, Transactions
  <2>4. CASE t = w /\ u # w
    BY <1>0, <2>1, <2>2, <2>4, TypeParts DEF SafetyInv, ScriptTypeOK
  <2>5. CASE t # w /\ u = w
    BY <1>0, <2>1, <2>2, <2>5, TypeParts DEF SafetyInv, ScriptTypeOK
  <2> QED BY <2>3, <2>4, <2>5
<1> QED BY <1>1, <1>2, SnapshotSteps

(* No version has the stamp of an end that is still to be executed.        *)
LEMMA NextVersionStamps ==
  ASSUME SafetyInv, StampsPast, StampsUnique, [Next]_vars,
         NEW r \in Pending', r.type = "END", r.tran \in Transactions',
         NEW s \in Site, NEW x \in Var, NEW v \in versions'[s][x]
  PROVE  v.ts # r.timestamp
<1>0. DbTypeOK /\ LockInv /\ currTimestamp \in Nat
  BY TypeParts DEF SafetyInv, ScriptTypeOK
<1>1. CASE r \notin Pending
  <2>1. r.timestamp = currTimestamp + 1 /\ currTimestamp' = currTimestamp + 1
    BY <1>1, PendingSteps
  <2>2. versions' = versions
    BY <1>0, <2>1, ClockSteps DEF siteVars
  <2>3. v.ts \in Int /\ v.ts <= currTimestamp
    BY <1>0, <2>2 DEF StampsPast, DbTypeOK, SiteTypeOK, Version
  <2> QED BY <1>0, <2>1, <2>3
<1>2. CASE r \in Pending
  <2>0. r.tran \in Tran
    BY <1>2, PendingParts
  <2>1. ASSUME NEW t \in Tran, BeginStep(t)
        PROVE  versions' = versions /\ r.tran \in Transactions
    <3>1. request.type # "END" /\ versions' = versions
      BY <2>1 DEF BeginStep, siteVars
    <3>2. r \in retryQueue \/ \E u \in Tran : r \in blockedQueue[u]
      BY <1>2, <3>1, PendingParts
    <3>3. status[r.tran] # "none"
      BY <1>0, <2>0, <3>2 DEF SafetyInv, WalkInv, RetriesRun, BegunInv, QueueInv, Queued, Transactions
    <3>4. r.tran # t /\ status'[r.tran] = status[r.tran]
      BY <1>0, <2>0, <2>1, <3>3 DEF BeginStep, AddTransaction, DbTypeOK, TranTypeOK
    <3> QED BY <2>0, <3>1, <3>4 DEF Transactions
  <2>2. ASSUME NEW t \in Tran, CommitStep(t)
        PROVE  v.ts # r.timestamp
    <3>1. PICK e \in Pending : e.type = "END" /\ e.tran = t /\ e.timestamp = EndStamp
      BY <2>2 DEF CommitStep
    <3>2. r.tran # t /\ r.tran \in Transactions
      BY <2>0, <2>2 DEF CommitStep, Evict, Transactions
    <3>3. e.timestamp # r.timestamp
      BY <1>2, <3>1, <3>2 DEF StampsUnique
    <3>4. v \in versions[s][x] \/ v.ts = EndStamp
      BY <1>0, <2>2, CommitVersions
    <3> QED BY <1>2, <3>1, <3>2, <3>3, <3>4 DEF StampsUnique
  <2>3. CASE QuietStep
    <3>1. versions' = versions /\ r.tran \in Transactions
      BY <2>0, <2>3 DEF QuietStep, Transactions
    <3> QED BY <1>2, <3>1 DEF StampsUnique
  <2> QED BY <1>2, <2>1, <2>2, <2>3, SnapshotSteps DEF StampsUnique
<1> QED BY <1>1, <1>2

(* Every step.                                                             *)
LEMMA NextStampsUnique ==
  ASSUME SafetyInv, StampsPast, BeginsLater, StampsUnique, [Next]_vars
  PROVE  StampsUnique'
<1>1. \A t, u \in Transactions' : beginTime'[t] = beginTime'[u] => t = u
  BY NextBeginTimes
<1>2. ASSUME NEW q \in Pending', NEW r \in Pending', q.timestamp = r.timestamp
      PROVE  q = r
  <2>1. currTimestamp \in Nat
    BY TypeParts DEF SafetyInv, ScriptTypeOK
  <2>2. CASE q \in Pending /\ r \in Pending
    BY <1>2, <2>2 DEF StampsUnique
  <2>3. CASE q \notin Pending \/ r \notin Pending
    BY <1>2, <2>1, <2>3, PendingSteps, PendingParts
  <2> QED BY <2>2, <2>3
<1>3. \A r \in Pending' : r.type = "END" /\ r.tran \in Transactions' =>
        \A s \in Site, x \in Var : \A v \in versions'[s][x] : v.ts # r.timestamp
  BY NextVersionStamps
<1> QED BY <1>1, <1>2, <1>3 DEF StampsUnique

\* The invariants that bear on timestamps.
StampInv == StampsPast /\ BeginsLater /\ StampsUnique

(* The initial state and every step.                                       *)
LEMMA StampInvHolds == Spec => [](SafetyInv /\ StampInv)
<1>1. Init => SafetyInv /\ StampInv
  <2>1. ASSUME Init
        PROVE  StampInv
    <3>1. /\ \A t \in Tran : status[t] = "none" /\ blockedQueue[t] = {}
          /\ retryQueue = {} /\ request = None /\ currTimestamp = 0 /\ Transactions = {}
          /\ \A s \in Site, x \in Var : \A v \in versions[s][x] : v.ts = -1
      BY <2>1 DEF Init, SiteInit, TranInit, TMInit, Transactions
    <3>2. Pending = {}
      BY <3>1 DEF Pending, Queued
    <3> QED BY <3>1, <3>2 DEF StampInv, StampsPast, BeginsLater, StampsUnique
  <2> QED BY <2>1, InitSafe
<1>2. SafetyInv /\ StampInv /\ [Next]_vars => (SafetyInv /\ StampInv)'
  BY NextSafe, NextStamps, NextBegins, NextStampsUnique DEF StampInv
<1> QED BY <1>1, <1>2, PTL DEF Spec

(* No two transactions in the table, no two requests still to be executed  *)
(* and no version and pending end have the same stamp: what the comparator *)
(* of transactions_set_ or of a request set takes for the same is the same.*)
THEOREM StampsAreUnique == Spec => []StampsUnique
<1>1. StampInv => StampsUnique
  BY DEF StampInv
<1> QED BY <1>1, StampInvHolds, PTL

(* A commit never overwrites a version.                                    *)
THEOREM VersionsStay == Spec => VersionsKept
<1>1. ASSUME SafetyInv, StampInv, [Next]_vars, NEW s \in Site, NEW x \in Var
      PROVE  versions[s][x] \subseteq versions'[s][x]
  <2>0. DbTypeOK /\ LockInv
    BY <1>1, TypeParts DEF SafetyInv
  <2>1. ASSUME NEW t \in Tran, CommitStep(t)
        PROVE  versions[s][x] \subseteq versions'[s][x]
    <3>1. PICK e \in Pending : e.type = "END" /\ e.tran \in Transactions /\ e.timestamp = EndStamp
      BY <2>1 DEF CommitStep
    <3>2. \A v \in versions[s][x] : v.ts # EndStamp
      BY <1>1, <3>1 DEF StampInv, StampsUnique
    <3> QED BY <2>0, <2>1, <3>2, CommitVersions
  <2> QED BY <1>1, <2>1, SnapshotSteps DEF BeginStep, QuietStep, siteVars
<1>2. SafetyInv /\ StampInv /\ [Next]_vars
        => \A s \in Site, x \in Var : versions[s][x] \subseteq versions'[s][x]
  BY <1>1
<1> QED BY <1>2, StampInvHolds, PTL DEF Spec, VersionsKept

(* A commit writes the same value to every copy it writes, and installs it *)
(* as the version with its stamp.                                          *)
LEMMA CommitWrites ==
  ASSUME DbTypeOK, LockInv, CopyInv, NEW t \in Tran, CommitStep(t), NEW x \in Var,
         NEW s \in CopySites(x), CommitsWrite(x)
  PROVE  \/ value'[s][x] = lastCommitted'[x]
         \/ versions'[s][x] = versions[s][x]
<1> DEFINE W == writeRecords[t]
<1>1. s \in Site
  BY CopyPlacement
<1>2. CASE W[s][x] = None
  BY <1>1, <1>2 DEF CommitStep, InstallWrites, AssignVar
<1>3. CASE W[s][x] # None
  <2> DEFINE c == CHOOSE u \in Site : W[u][x] # None
  <2>1. c \in Site /\ W[c][x] # None
    BY <1>1, <1>3
  <2>2. value'[s][x] = W[s][x] /\ lastCommitted'[x] = W[c][x]
    <3>1. value'[s][x] = W[s][x]
      BY <1>1, <1>3 DEF CommitStep, InstallWrites, AssignVar
    <3>2. \E u \in Site : W[u][x] # None
      BY <2>1
    <3>3. lastCommitted'[x] = W[c][x]
      BY <3>2 DEF CommitStep, InstallWrites
    <3> QED BY <3>1, <3>3
  <2> HIDE DEF c
  <2>3. c \in CopySites(x)
    BY <2>1, HoldersFacts DEF LockInv, RecordsLocked, LockedInTable, DbTypeOK
  <2>4. W[s][x] = W[c][x]
    BY <1>3, <2>1, <2>3 DEF CopyInv, RecordsComplete
  <2> QED BY <2>2, <2>4
<1> QED BY <1>2, <1>3

(* A copy is stale only when the last commit of its variable missed it: in *)
(* every reachable state, for the readable copies and for the others.      *)
THEOREM StaleCopiesExplained == Spec => []StaleCopiesMissedCommit
<1>1. Init => StaleCopiesMissedCommit
  BY CopyPlacement DEF Init, SiteInit, TranInit, StaleCopiesMissedCommit
<1>2. ASSUME SafetyInv, StampInv, CopyInv, StaleCopiesMissedCommit, [Next]_vars
      PROVE  StaleCopiesMissedCommit'
  <2>0. DbTypeOK /\ LockInv
    BY <1>2, TypeParts DEF SafetyInv
  <2> SUFFICES ASSUME NEW x \in Var, NEW s \in CopySites(x),
                      value'[s][x] # lastCommitted'[x]
               PROVE  \E u \in CopySites(x) : \E v \in versions'[u][x] \ versions'[s][x] :
                        v.val = lastCommitted'[x]
    BY DEF StaleCopiesMissedCommit
  <2>1. CopySites(x) \subseteq Site
    BY CopyPlacement
  <2>2. ASSUME NEW t \in Tran, CommitStep(t), CommitsWrite(x)
        PROVE  \E u \in CopySites(x) : \E v \in versions'[u][x] \ versions'[s][x] :
                 v.val = lastCommitted'[x]
    <3>1. PICK e \in Pending : e.type = "END" /\ e.tran \in Transactions /\ e.timestamp = EndStamp
      BY <2>2 DEF CommitStep
    <3>2. \A v \in versions[s][x] : v.ts # EndStamp
      BY <1>2, <2>1, <3>1 DEF StampInv, StampsUnique
    <3>3. versions'[s][x] = versions[s][x]
      BY <1>2, <2>0, <2>2, CommitWrites
    <3>4. PICK u \in CopySites(x) : \E n \in versions'[u][x] :
            n.ts = EndStamp /\ n.val = lastCommitted'[x]
      BY <2>0, <2>2, CommitVersions
    <3> QED BY <3>2, <3>3, <3>4
  <2>3. ASSUME NEW t \in Tran, CommitStep(t), ~CommitsWrite(x)
        PROVE  /\ lastCommitted'[x] = lastCommitted[x]
               /\ \A u \in Site : value'[u][x] = value[u][x] /\ versions'[u][x] = versions[u][x]
    <3>1. \A u \in Site : writeRecords[t][u][x] = None
      <4>1. Commits(t)
        BY <2>3 DEF CommitStep, Evict, Commits, Transactions
      <4> QED BY <2>3, <4>1 DEF CommitsWrite
    <3> QED BY <2>3, <3>1 DEF CommitStep, InstallWrites, AssignVar
  <2>4. CASE \/ QuietStep \/ \E t \in Tran : BeginStep(t)
             \/ \E t \in Tran : CommitStep(t) /\ ~CommitsWrite(x)
    <3>1. /\ lastCommitted'[x] = lastCommitted[x]
          /\ \A u \in Site : value'[u][x] = value[u][x] /\ versions'[u][x] = versions[u][x]
      BY <2>3, <2>4 DEF QuietStep, BeginStep, AddTransaction, siteVars
    <3> QED BY <1>2, <2>1, <3>1 DEF StaleCopiesMissedCommit
  <2> QED BY <1>2, <2>2, <2>4, SnapshotSteps
<1> QED BY <1>1, <1>2, StampInvHolds, CopyInvariant, PTL DEF Spec

-----------------------------------------------------------------------------
(* Each call of execute_instructions comes to its end. *)

\* The measure of a call: breaking deadlocks costs transactions, a walk uses
\* up those to be visited and, for one of them, its requests.
CallMoves ==
  LET Fewer(S, T) == S \subseteq T /\ S # T
      Goes == pc' \notin {"ready", "thrown", "undefined"}
  IN /\ pc = "execute" /\ Goes =>
          pc' = "retry" \/ (pc' = "execute" /\ Fewer(Transactions', Transactions))
     /\ pc = "retry" /\ Goes =>
          pc' = "retry" /\ \/ Fewer(todo', todo)
                           \/ todo' = todo /\ Fewer(retryQueue', retryQueue)

(* No step of a call leaves its measure as it was: the loop over deadlocks *)
(* always has a victim, and no request that the walk of the queue executes *)
(* adds to what is to be walked.  This is the safety half of               *)
(* ExecuteReturns and DeadlockBroken.                                      *)
THEOREM CallsAdvance == Spec => [][CallMoves]_vars
<1>1. ASSUME SafetyInv, Next
      PROVE  CallMoves
  <2>0. /\ DbTypeOK /\ ControlTypeOK
        /\ DetectDeadlock => Transactions # {}
    <3>1. DetectDeadlock => \E t \in Tran : waitForGraph[t] # {}
      <4>1. ASSUME NEW C \in SUBSET Tran, C # {}, \A t \in C : waitForGraph[t] \cap C # {}
            PROVE  \E t \in Tran : waitForGraph[t] # {}
        BY <4>1
      <4> QED BY <4>1 DEF DetectDeadlock, HasCycle
    <3>2. \A t \in Tran : waitForGraph[t] # {} => t \in Transactions
      BY <1>1 DEF SafetyInv, LockInv, WaitersActive
    <3> QED BY <1>1, <3>1, <3>2, TypeParts DEF SafetyInv
  <2>1. CASE pc \notin {"execute", "retry"}
    BY <2>1 DEF CallMoves
  <2>2. CASE pc \in {"execute", "retry"}
    <3>1. Execute
      BY <1>1, <2>2 DEF Next, ReadScript, BeginLine, EndLine, ReadLine, WriteLine, FaultLine,
         AddInstruction, EndOfFile, DrainPass, Dump, Terminated
    <3>2. CASE BreakDeadlock
      <4>1. PICK t \in Transactions : AbortTransactions({t}) /\ pc' = "execute"
        BY <2>0, <3>2 DEF BreakDeadlock, Youngest
      <4>2. Transactions' = Transactions \ {t}
        BY <4>1 DEF AbortTransactions, Evict, Transactions
      <4> QED BY <3>2, <4>1, <4>2 DEF CallMoves, BreakDeadlock
    <3>3. CASE DropRequest \/ QueueRequest \/ ExecWhileWaiting \/ ExecRequest \/ ThrowInRequest
      BY <3>3 DEF DropRequest, QueueRequest, ExecWhileWaiting, ExecRequest, ThrowInRequest, CallMoves
    <3>4. CASE RetryVisit
      BY <3>4 DEF RetryVisit, CallMoves
    <3>5. CASE RetryExec
      <4>1. Earliest(retryQueue) \in retryQueue
        BY <2>0, <3>5, EarliestInQueue DEF RetryExec, ControlTypeOK
      <4>2. /\ pc = "retry" /\ pc' \in {"retry", "undefined"}
            /\ todo' = todo \/ (todo' = {} /\ todo # {})
            /\ retryQueue' = retryQueue \ {Earliest(retryQueue)}
        BY <3>5 DEF RetryExec
      <4> QED BY <4>1, <4>2 DEF CallMoves
    <3>6. CASE ThrowInRetry \/ FinishRetry
      BY <3>6 DEF ThrowInRetry, FinishRetry, CallMoves
    <3> QED BY <3>1, <3>2, <3>3, <3>4, <3>5, <3>6 DEF Execute, ExecuteInstructions
  <2> QED BY <2>1, <2>2
<1>2. SafetyInv /\ [Next]_vars => [CallMoves]_vars
  BY <1>1
<1> QED BY <1>2, SafetyInvariant, PTL DEF Spec
=============================================================================
