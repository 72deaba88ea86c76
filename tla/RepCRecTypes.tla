---------------------------- MODULE RepCRecTypes ----------------------------
(***************************************************************************)
(* Type correctness of the whole program: RepCRec keeps TypeOK, for every  *)
(* number of sites, set of transactions and set of values.                 *)
(***************************************************************************)
EXTENDS RepCRec, WellFoundedInduction, TLAPS

(* Any nonempty set of naturals has a least element.                       *)
LEMMA LeastNatural ==
  ASSUME NEW T \in SUBSET Nat, T # {}
  PROVE  \E n \in T : \A m \in T : n <= m
<1>1. PICK n \in T : \A m \in T : <<m, n>> \notin OpToRel(<, Nat)
  BY NatLessThanWellFounded, WFMin, Zenon
<1>2. \A m \in T : ~(m < n)
  BY <1>1, Zenon DEF OpToRel
<1>3. n \in Nat /\ \A m \in T : m \in Nat
  OBVIOUS
<1> QED BY <1>2, <1>3

(* A queue that is not empty has an earliest request.                      *)
LEMMA EarliestInQueue ==
  ASSUME NEW Q \in SUBSET TranRequest, Q # {}
  PROVE  Earliest(Q) \in Q /\ \A q \in Q : Earliest(Q).timestamp <= q.timestamp
<1> DEFINE T == {q.timestamp : q \in Q}
<1>1. \A q \in TranRequest : q.timestamp \in Nat
  BY DEF TranRequest, BeginRequest, ReadRequest, WriteRequest, EndRequest
<1>2. T \in SUBSET Nat /\ T # {}
  BY <1>1
<1>3. PICK n \in T : \A m \in T : n <= m
  BY <1>2, LeastNatural
<1>4. PICK r \in Q : r.timestamp = n
  OBVIOUS
<1>5. \A q \in Q : r.timestamp <= q.timestamp
  BY <1>3, <1>4
<1> QED BY <1>5 DEF Earliest

(* get_value(timestamp) finds a version: the constructor's at least.       *)
LEMMA GetValueType ==
  ASSUME SiteTypeOK, NEW s \in Site, NEW x \in Var, NEW ts \in Nat
  PROVE  GetValue(s, x, ts) \in Value
<1> DEFINE old == {v \in versions[s][x] : v.ts <= ts}
           T == {ts - v.ts : v \in old}
<1>1. \A v \in versions[s][x] : v.ts \in Int /\ v.val \in Value
  BY DEF SiteTypeOK, Version
<1>2. PICK w \in versions[s][x] : w.ts = -1
  BY DEF SiteTypeOK
<1>3. w \in old
  BY <1>2
<1>4. T \in SUBSET Nat /\ T # {}
  BY <1>1, <1>3
<1>5. PICK n \in T : \A m \in T : n <= m
  BY <1>4, LeastNatural
<1>6. PICK v \in old : n = ts - v.ts
  OBVIOUS
<1>7. \A u \in old : u.ts <= v.ts
  <2> SUFFICES ASSUME NEW u \in old
               PROVE  u.ts <= v.ts
    OBVIOUS
  <2>1. n <= ts - u.ts
    BY <1>5
  <2> QED BY <2>1, <1>1, <1>6
<1>8. \E c \in old : \A u \in old : u.ts <= c.ts
  BY <1>7
<1> DEFINE c == CHOOSE c \in old : \A u \in old : u.ts <= c.ts
<1>9. c \in old
  BY <1>8
<1>10. GetValue(s, x, ts) = c.val
  BY DEF GetValue
<1> QED BY <1>1, <1>9, <1>10

-----------------------------------------------------------------------------
(* The part of the state that executing a request can change. *)
DbTypeOK ==
  /\ SiteTypeOK /\ LockTypeOK /\ TranTypeOK
  /\ blockedQueue \in [Tran -> SUBSET TranRequest]
  /\ siteWaitingMap \in [Tran -> Site \cup {None}]
  /\ lastRead \in ReadEvent \cup {None}

(* A site that is not accessed keeps its type.                             *)
LEMMA StutterTypes ==
  /\ SiteTypeOK /\ UNCHANGED siteVars => SiteTypeOK'
  /\ LockTypeOK /\ UNCHANGED lockVars => LockTypeOK'
  /\ TranTypeOK /\ UNCHANGED tranVars => TranTypeOK'
  /\ DbTypeOK /\ UNCHANGED dbVars => DbTypeOK'
<1>1. SiteTypeOK /\ UNCHANGED siteVars => SiteTypeOK'
  BY DEF SiteTypeOK, siteVars
<1>2. LockTypeOK /\ UNCHANGED lockVars => LockTypeOK'
  BY DEF LockTypeOK, lockVars
<1>3. TranTypeOK /\ UNCHANGED tranVars => TranTypeOK'
  BY DEF TranTypeOK, tranVars
<1> QED BY <1>1, <1>2, <1>3 DEF DbTypeOK, dbVars

(* The fields of a request, by its type.                                   *)
LEMMA RequestFields ==
  ASSUME NEW r \in AnyRequest
  PROVE  /\ r.timestamp \in Nat
         /\ HasTran(r) <=> r \in TranRequest
         /\ HasTran(r) => r.tran \in Tran
         /\ r.type = "READ" => r \in ReadRequest /\ r.tran \in Tran /\ r.var \in Var
         /\ r.type = "WRITE" => r \in WriteRequest /\ r.tran \in Tran
                                  /\ r.var \in Var /\ r.value \in Value
         /\ r.type \in {"BEGIN", "BEGINO", "END"} => r.tran \in Tran /\ r \in TranRequest
         /\ r.type \in {"FAIL", "RECOVER"} => r.site \in Site
BY DEF AnyRequest, TranRequest, BeginRequest, ReadRequest, WriteRequest, EndRequest,
       SiteRequest, DumpRequest, HasTran

(* An odd variable lives on an existing site.                              *)
LEMMA HomeSiteType ==
  ASSUME NEW x \in Var
  PROVE  HomeSite(x) \in Site
<1>1. x \in Nat /\ SITE_COUNT \in Nat /\ SITE_COUNT > 0
  BY GlobalAssumption DEF Var
<1>2. x % SITE_COUNT \in 0 .. SITE_COUNT - 1
  BY <1>1
<1> QED BY <1>1, <1>2 DEF HomeSite, Site

-----------------------------------------------------------------------------
(* The lock manager. *)

(* Releasing locks keeps the type of the lock manager.                     *)
LEMMA ReleaseLocksType ==
  ASSUME LockTypeOK, NEW T \in SUBSET Tran, ReleaseLocks(T)
  PROVE  LockTypeOK'
<1>1. sharedOwners' \in [Site -> [Var -> SUBSET Tran]]
  BY DEF LockTypeOK, ReleaseLocks
<1>2. exclusiveOwner' \in [Site -> [Var -> Tran \cup {None}]]
  BY DEF LockTypeOK, ReleaseLocks
<1>3. lockTable' \in [Tran -> SUBSET Var] /\ waitForGraph' \in [Tran -> SUBSET Tran]
  BY DEF LockTypeOK, ReleaseLocks, WaitForGraphWithout
<1> QED BY <1>1, <1>2, <1>3 DEF LockTypeOK

(* So does assigning the exclusive lock,                                   *)
LEMMA AssignWriteLockType ==
  ASSUME LockTypeOK, NEW t \in Tran, NEW x \in Var, AssignWriteLock(t, x)
  PROVE  LockTypeOK'
<1>1. sharedOwners' \in [Site -> [Var -> SUBSET Tran]]
  BY DEF LockTypeOK, AssignWriteLock
<1>2. exclusiveOwner' \in [Site -> [Var -> Tran \cup {None}]]
  BY DEF LockTypeOK, AssignWriteLock
<1>3. lockTable' \in [Tran -> SUBSET Var] /\ waitForGraph' \in [Tran -> SUBSET Tran]
  BY DEF LockTypeOK, AssignWriteLock
<1> QED BY <1>1, <1>2, <1>3 DEF LockTypeOK

(* the shared lock,                                                        *)
LEMMA AssignShareLockType ==
  ASSUME LockTypeOK, NEW t \in Tran, NEW x \in Var, AssignShareLock(t, x)
  PROVE  LockTypeOK'
<1>1. sharedOwners' \in [Site -> [Var -> SUBSET Tran]]
  BY DEF LockTypeOK, AssignShareLock
<1>2. lockTable' \in [Tran -> SUBSET Var]
  BY DEF LockTypeOK, AssignShareLock
<1> QED BY <1>1, <1>2 DEF LockTypeOK, AssignShareLock

(* and waiting: the scan that answers NEED_TO_WAIT stopped at some copy,   *)
LEMMA FirstStopExists ==
  ASSUME NEW t \in Tran, NEW x \in Var, StopCopies(t, x) # {}
  PROVE  FirstStop(t, x) \in StopCopies(t, x) /\ FirstStop(t, x) \in Site
<1>1. UpCopies(x) \subseteq Site
  BY HomeSiteType DEF UpCopies, CopySites
<1>2. StopCopies(t, x) \in SUBSET Site
  BY <1>1 DEF StopCopies
<1>3. StopCopies(t, x) \in SUBSET Nat
  BY <1>2, GlobalAssumption DEF Site
<1>4. \E s \in StopCopies(t, x) : \A u \in StopCopies(t, x) : s <= u
  BY <1>3, LeastNatural
<1>5. FirstStop(t, x) \in StopCopies(t, x)
  BY <1>4 DEF FirstStop
<1> QED BY <1>2, <1>5

(* and the owners of that copy are transactions.                           *)
LEMMA AssignWaitForGraphType ==
  ASSUME LockTypeOK, NEW t \in Tran, NEW x \in Var, AssignWaitForGraph(t, x),
         LockStatus(t, x) = "NEED_TO_WAIT"
  PROVE  LockTypeOK'
<1>1. StopCopies(t, x) # {}
  BY DEF LockStatus
<1>2. FirstStop(t, x) \in Site
  BY <1>1, FirstStopExists
<1>3. LockOwners(t, x) \subseteq Tran
  BY <1>2 DEF LockOwners, OwnersAt, LockTypeOK, HasExclusiveLockExcludeSelf
<1>4. waitForGraph' \in [Tran -> SUBSET Tran]
  BY <1>3 DEF LockTypeOK, AssignWaitForGraph
<1> QED BY <1>4 DEF LockTypeOK, AssignWaitForGraph

-----------------------------------------------------------------------------
(* Transactions and requests. *)

(* Aborting transactions keeps the types of everything it touches.         *)
LEMMA AbortTransactionsType ==
  ASSUME DbTypeOK, NEW T \in SUBSET Tran, AbortTransactions(T)
  PROVE  LockTypeOK' /\ TranTypeOK' /\ blockedQueue' \in [Tran -> SUBSET TranRequest]
<1>1. LockTypeOK'
  BY ReleaseLocksType DEF DbTypeOK, AbortTransactions
<1>2. NoRecords \in Records
  BY DEF NoRecords, Records
<1>3. TranTypeOK'
  BY <1>2 DEF DbTypeOK, TranTypeOK, AbortTransactions, Evict
<1>4. blockedQueue' \in [Tran -> SUBSET TranRequest]
  BY DEF DbTypeOK, AbortTransactions
<1> QED BY <1>1, <1>3, <1>4

(* Queueing a request keeps the type of the blocked queue.                 *)
LEMMA AddRequestType ==
  ASSUME DbTypeOK, NEW r \in TranRequest, r.tran \in Tran, AddRequestToBlockedQueue(r)
  PROVE  blockedQueue' \in [Tran -> SUBSET TranRequest]
BY DEF DbTypeOK, AddRequestToBlockedQueue

(* Waiting for a lock or for a site keeps all types.                       *)
LEMMA WaitTypes ==
  ASSUME DbTypeOK, NEW r \in TranRequest, r.tran \in Tran, r.var \in Var,
         \/ LockStatus(r.tran, r.var) = "NEED_TO_WAIT" /\ WaitForLock(r)
         \/ WaitForSite(r)
  PROVE  DbTypeOK'
<1>1. blockedQueue' \in [Tran -> SUBSET TranRequest]
  BY AddRequestType DEF WaitForLock, WaitForSite
<1>2. ASSUME LockStatus(r.tran, r.var) = "NEED_TO_WAIT", WaitForLock(r)
      PROVE  DbTypeOK'
  <2>1. LockTypeOK'
    BY <1>2, AssignWaitForGraphType DEF DbTypeOK, WaitForLock
  <2>2. SiteTypeOK' /\ TranTypeOK'
    BY <1>2, StutterTypes DEF DbTypeOK, WaitForLock
  <2> QED BY <1>1, <1>2, <2>1, <2>2 DEF DbTypeOK, WaitForLock
<1>3. ASSUME WaitForSite(r)
      PROVE  DbTypeOK'
  <2>1. siteWaitingMap' \in [Tran -> Site \cup {None}]
    BY <1>3, HomeSiteType DEF DbTypeOK, WaitForSite
  <2>2. SiteTypeOK' /\ TranTypeOK' /\ LockTypeOK'
    BY <1>3, StutterTypes DEF DbTypeOK, WaitForSite
  <2> QED BY <1>1, <1>3, <2>1, <2>2 DEF DbTypeOK, WaitForSite
<1> QED BY <1>2, <1>3

(* Recording a write or a read keeps the types of the transactions.        *)
LEMMA RecordTypes ==
  ASSUME TranTypeOK, NEW t \in Tran, NEW x \in Var, NEW v \in Value,
         \/ \E S \in SUBSET Site : UpdateValues(t, S, x, v)
         \/ \E s \in Site : AddReadHistory(t, s, x, v)
  PROVE  TranTypeOK'
<1>1. writeRecords[t] \in Records /\ readRecords[t] \in Records
  BY DEF TranTypeOK
<1>2. ASSUME NEW S \in SUBSET Site, UpdateValues(t, S, x, v)
      PROVE  TranTypeOK'
  <2> DEFINE w == [s \in Site |-> [y \in Var |->
                     IF s \in S /\ y = x THEN v ELSE writeRecords[t][s][y]]]
  <2>1. w \in Records
    BY <1>1 DEF Records
  <2>2. writeRecords' = [writeRecords EXCEPT ![t] = w]
    BY <1>2 DEF UpdateValues
  <2>3. writeRecords' \in [Tran -> Records]
    BY <2>1, <2>2 DEF TranTypeOK
  <2> QED BY <1>2, <2>3 DEF UpdateValues, TranTypeOK
<1>3. ASSUME NEW s \in Site, AddReadHistory(t, s, x, v)
      PROVE  TranTypeOK'
  <2>1. [readRecords[t] EXCEPT ![s][x] = v] \in Records
    BY <1>1 DEF Records
  <2>2. readRecords' \in [Tran -> Records]
    BY <1>3, <2>1 DEF AddReadHistory, TranTypeOK
  <2> QED BY <1>3, <2>2 DEF AddReadHistory, TranTypeOK
<1> QED BY <1>2, <1>3

(* The line a read prints is about an existing copy.                       *)
LEMMA PrintReadType ==
  ASSUME NEW t \in Tran, NEW s \in Site, NEW x \in Var, NEW v \in Value,
         PrintRead(t, s, x, v)
  PROVE  lastRead' \in ReadEvent \cup {None}
BY DEF PrintRead, ReadEvent

(* A read that is answered from the versions.                              *)
LEMMA ReadOnlyAtType ==
  ASSUME DbTypeOK, NEW r \in ReadRequest, NEW s \in Site, ReadOnlyAt(r, s)
  PROVE  DbTypeOK'
<1>1. r.tran \in Tran /\ r.var \in Var
  BY DEF ReadRequest
<1>2. GetValue(s, r.var, beginTime[r.tran]) \in Value
  BY <1>1, GetValueType DEF DbTypeOK, TranTypeOK
<1>3. TranTypeOK'
  BY <1>1, <1>2, RecordTypes DEF ReadOnlyAt, DbTypeOK
<1>4. lastRead' \in ReadEvent \cup {None}
  BY <1>1, <1>2, PrintReadType DEF ReadOnlyAt
<1>5. SiteTypeOK' /\ LockTypeOK'
  BY StutterTypes DEF ReadOnlyAt, DbTypeOK
<1> QED BY <1>3, <1>4, <1>5 DEF ReadOnlyAt, DbTypeOK

LEMMA ExecReadType ==
  ASSUME DbTypeOK, NEW r \in ReadRequest, ExecRead(r)
  PROVE  DbTypeOK'
<1> DEFINE home == HomeSite(r.var)
<1>1. r.tran \in Tran /\ r.var \in Var /\ r \in TranRequest /\ home \in Site
  BY HomeSiteType DEF ReadRequest, TranRequest
<1>2. ASSUME ExecReadOnly(r)
      PROVE  DbTypeOK'
  <2>1. CASE \E s \in Site : ReadOnlyAt(r, s)
    BY <2>1, ReadOnlyAtType
  <2>2. CASE WaitForSite(r)
    BY <2>2, <1>1, WaitTypes
  <2>3. CASE /\ AbortTransactions({r.tran})
             /\ UNCHANGED <<siteVars, siteWaitingMap, lastRead>>
    <3>1. LockTypeOK' /\ TranTypeOK' /\ blockedQueue' \in [Tran -> SUBSET TranRequest]
      BY <1>1, <2>3, AbortTransactionsType
    <3>2. SiteTypeOK'
      BY <2>3, StutterTypes DEF DbTypeOK
    <3> QED BY <2>3, <3>1, <3>2 DEF DbTypeOK
  <2> QED BY <1>1, <1>2, <2>1, <2>2, <2>3 DEF ExecReadOnly
<1>3. ASSUME ExecReadLocked(r)
      PROVE  DbTypeOK'
  <2>1. CASE WaitForSite(r) \/ (LockStatus(r.tran, r.var) = "NEED_TO_WAIT" /\ WaitForLock(r))
    BY <2>1, <1>1, WaitTypes
  <2>2. CASE /\ AssignShareLock(r.tran, r.var)
             /\ AddReadHistory(r.tran, home, r.var, value[home][r.var])
             /\ PrintRead(r.tran, home, r.var, value[home][r.var])
             /\ UNCHANGED <<siteVars, blockedQueue, siteWaitingMap>>
    <3>1. value[home][r.var] \in Value
      BY <1>1 DEF DbTypeOK, SiteTypeOK
    <3>2. LockTypeOK' /\ TranTypeOK'
      BY <1>1, <2>2, <3>1, AssignShareLockType, RecordTypes DEF DbTypeOK
    <3>3. SiteTypeOK' /\ lastRead' \in ReadEvent \cup {None}
      BY <1>1, <2>2, <3>1, PrintReadType, StutterTypes DEF DbTypeOK
    <3> QED BY <2>2, <3>2, <3>3 DEF DbTypeOK
  <2>3. CASE /\ IF UpCopies(r.var) = {} THEN UNCHANGED lastRead
                ELSE \E s \in UpCopies(r.var) :
                       PrintRead(r.tran, s, r.var, value[s][r.var])
             /\ AssignShareLock(r.tran, r.var)
             /\ UNCHANGED <<siteVars, tranVars, blockedQueue, siteWaitingMap>>
    <3>1. LockTypeOK' /\ TranTypeOK' /\ SiteTypeOK'
      BY <1>1, <2>3, AssignShareLockType, StutterTypes DEF DbTypeOK
    <3>2. \A s \in UpCopies(r.var) : s \in Site /\ value[s][r.var] \in Value
      BY <1>1 DEF UpCopies, CopySites, DbTypeOK, SiteTypeOK
    <3>3. lastRead' \in ReadEvent \cup {None}
      BY <1>1, <2>3, <3>2, PrintReadType DEF DbTypeOK
    <3> QED BY <2>3, <3>1, <3>3 DEF DbTypeOK
  <2> QED BY <1>3, <2>1, <2>2, <2>3 DEF ExecReadLocked
<1> QED BY <1>2, <1>3 DEF ExecRead

LEMMA ExecWriteType ==
  ASSUME DbTypeOK, NEW r \in WriteRequest, ExecWrite(r)
  PROVE  DbTypeOK'
<1>1. r.tran \in Tran /\ r.var \in Var /\ r.value \in Value /\ r \in TranRequest
      /\ HomeSite(r.var) \in Site
  BY HomeSiteType DEF WriteRequest, TranRequest
<1>2. UpCopies(r.var) \subseteq Site
  BY <1>1 DEF UpCopies, CopySites
<1>3. CASE LockStatus(r.tran, r.var) = "NEED_TO_WAIT" /\ WaitForLock(r)
  BY <1>1, <1>3, WaitTypes
<1>4. CASE UNCHANGED dbVars
  BY <1>4, StutterTypes
<1>5. CASE /\ UpdateValues(r.tran, IF IsOdd(r.var) THEN {HomeSite(r.var)} ELSE {},
                           r.var, r.value)
           /\ UNCHANGED <<siteVars, lockVars, blockedQueue, siteWaitingMap, lastRead>>
  <2>1. TranTypeOK'
    BY <1>1, <1>5, RecordTypes DEF DbTypeOK
  <2> QED BY <1>5, <2>1, StutterTypes DEF DbTypeOK
<1>6. CASE /\ UpdateValues(r.tran, UpCopies(r.var), r.var, r.value)
           /\ AssignWriteLock(r.tran, r.var)
           /\ UNCHANGED <<siteVars, blockedQueue, siteWaitingMap, lastRead>>
  <2>1. TranTypeOK'
    BY <1>1, <1>2, <1>6, RecordTypes DEF DbTypeOK
  <2>2. LockTypeOK'
    BY <1>1, <1>6, AssignWriteLockType DEF DbTypeOK
  <2> QED BY <1>6, <2>1, <2>2, StutterTypes DEF DbTypeOK
<1> QED BY <1>3, <1>4, <1>5, <1>6 DEF ExecWrite

(* A commit keeps the types: what is installed are recorded values.        *)
LEMMA InstallWritesType ==
  ASSUME SiteTypeOK, TranTypeOK, NEW t \in Tran, NEW ts \in Nat, InstallWrites(t, ts)
  PROVE  SiteTypeOK' /\ lastCommitted' \in [Var -> Value]
<1>1. writeRecords[t] \in Records
  BY DEF TranTypeOK
<1>2. \A s \in Site, x \in Var : writeRecords[t][s][x] # None => writeRecords[t][s][x] \in Value
  BY <1>1 DEF Records
<1>3. value' \in [Site -> [Var -> Value]]
  BY <1>2 DEF InstallWrites, AssignVar, SiteTypeOK
<1>4. readAvailable' \in [Site -> [Var -> BOOLEAN]] /\ writeAvailable' = writeAvailable
  BY DEF InstallWrites, SetReadAvailable, SiteTypeOK
<1>5. versions' \in [Site -> [Var -> SUBSET Version]]
  <2>1. \A s \in Site, x \in Var : versions[s][x] \subseteq Version
    BY DEF SiteTypeOK
  <2>2. \A s \in Site, x \in Var : writeRecords[t][s][x] # None =>
          [ts |-> ts, val |-> writeRecords[t][s][x]] \in Version
    BY <1>2 DEF Version
  <2> QED BY <2>1, <2>2 DEF InstallWrites, AssignVar
<1>6. \A s \in Site, x \in Var : \E v \in versions'[s][x] : v.ts = -1
  <2> SUFFICES ASSUME NEW s \in Site, NEW x \in Var
               PROVE  \E v \in versions'[s][x] : v.ts = -1
    OBVIOUS
  <2>1. PICK v \in versions[s][x] : v.ts = -1
    BY DEF SiteTypeOK
  <2>2. v.ts # ts
    BY <2>1
  <2>3. v \in versions'[s][x]
    BY <2>2 DEF InstallWrites, AssignVar
  <2> QED BY <2>1, <2>3
<1>7. lastCommitted' \in [Var -> Value]
  <2> SUFFICES ASSUME NEW x \in Var
               PROVE  lastCommitted'[x] \in Value
    BY DEF InstallWrites
  <2> DEFINE w == CHOOSE s \in Site : writeRecords[t][s][x] # None
  <2>1. CASE \E s \in Site : writeRecords[t][s][x] # None
    <3>1. w \in Site /\ writeRecords[t][w][x] # None
      BY <2>1
    <3> QED BY <2>1, <3>1, <1>2 DEF InstallWrites
  <2>2. CASE ~\E s \in Site : writeRecords[t][s][x] # None
    BY <2>2 DEF InstallWrites, TranTypeOK
  <2> QED BY <2>1, <2>2
<1> QED BY <1>3, <1>4, <1>5, <1>6, <1>7 DEF SiteTypeOK

LEMMA ExecEndType ==
  ASSUME DbTypeOK, NEW r \in TranRequest, r.type = "END", ExecEnd(r)
  PROVE  DbTypeOK'
<1>1. r.tran \in Tran /\ r.timestamp \in Nat
  BY RequestFields DEF AnyRequest
<1>2. CASE /\ InstallWrites(r.tran, r.timestamp)
           /\ ReleaseLocks({r.tran})
           /\ Evict({r.tran}, "committed")
           /\ UNCHANGED <<blockedQueue, siteWaitingMap, lastRead>>
  <2>1. SiteTypeOK' /\ lastCommitted' \in [Var -> Value]
    BY <1>1, <1>2, InstallWritesType DEF DbTypeOK
  <2>2. LockTypeOK'
    BY <1>1, <1>2, ReleaseLocksType DEF DbTypeOK
  <2>3. NoRecords \in Records
    BY DEF NoRecords, Records
  <2>4. TranTypeOK'
    BY <1>2, <2>1, <2>3 DEF DbTypeOK, TranTypeOK, Evict
  <2> QED BY <1>2, <2>1, <2>2, <2>4 DEF DbTypeOK
<1>3. CASE /\ AbortTransactions({r.tran})
           /\ UNCHANGED <<siteVars, siteWaitingMap, lastRead>>
  <2>1. LockTypeOK' /\ TranTypeOK' /\ blockedQueue' \in [Tran -> SUBSET TranRequest]
    BY <1>1, <1>3, AbortTransactionsType
  <2> QED BY <1>3, <2>1, StutterTypes DEF DbTypeOK
<1> QED BY <1>2, <1>3 DEF ExecEnd

(* Executing any request keeps the types of the database.                  *)
LEMMA ExecType ==
  ASSUME DbTypeOK, NEW r \in AnyRequest, Exec(r)
  PROVE  DbTypeOK'
<1>1. CASE r.type \in {"BEGIN", "BEGINO"} /\ ExecBegin(r)
  <2>1. r.tran \in Tran /\ r.timestamp \in Nat
    BY <1>1, RequestFields
  <2>2. TranTypeOK'
    BY <1>1, <2>1 DEF ExecBegin, AddTransaction, DbTypeOK, TranTypeOK
  <2> QED BY <1>1, <2>2, StutterTypes DEF ExecBegin, DbTypeOK
<1>2. CASE r.type = "READ" /\ ExecRead(r)
  BY <1>2, RequestFields, ExecReadType
<1>3. CASE r.type = "WRITE" /\ ExecWrite(r)
  BY <1>3, RequestFields, ExecWriteType
<1>4. CASE r.type = "END" /\ ExecEnd(r)
  BY <1>4, RequestFields, ExecEndType
<1>5. CASE r.type = "FAIL" /\ ExecFail(r)
  <2>1. r.site \in Site
    BY <1>5, RequestFields
  <2>2. SiteTypeOK'
    BY <1>5, <2>1 DEF ExecFail, SetUnavailable, DbTypeOK, SiteTypeOK
  <2>3. {t \in Transactions : IsWrittenIntoSite(t, r.site)} \in SUBSET Tran
    BY DEF Transactions
  <2>4. LockTypeOK' /\ TranTypeOK' /\ blockedQueue' \in [Tran -> SUBSET TranRequest]
    BY <1>5, <2>3, AbortTransactionsType DEF ExecFail
  <2> QED BY <1>5, <2>2, <2>4 DEF ExecFail, DbTypeOK
<1>6. CASE r.type = "RECOVER" /\ ExecRecover(r)
  <2>1. r.site \in Site
    BY <1>6, RequestFields
  <2>2. SiteTypeOK'
    BY <1>6, <2>1
       DEF ExecRecover, SetWriteAvailable, SetReadAvailable, DbTypeOK, SiteTypeOK
  <2>3. siteWaitingMap' \in [Tran -> Site \cup {None}]
    BY <1>6 DEF ExecRecover, RemoveFromSiteWaitingMap, DbTypeOK
  <2> QED BY <1>6, <2>2, <2>3, StutterTypes DEF ExecRecover, DbTypeOK
<1>7. CASE UNCHANGED dbVars
  BY <1>7, StutterTypes
<1> QED BY <1>1, <1>2, <1>3, <1>4, <1>5, <1>6, <1>7 DEF Exec

-----------------------------------------------------------------------------
(* The control state. *)
ControlTypeOK ==
  /\ request \in AnyRequest \cup {None}
  /\ pc \in PC
  /\ todo \subseteq Tran
  /\ finishedSet \subseteq Tran
  /\ retryQueue \subseteq TranRequest

ScriptTypeOK ==
  /\ currTimestamp \in Nat
  /\ phase \in {"reading", "draining", "dumped"}
  /\ ended \subseteq Tran
  /\ opCount \in [Tran -> Nat]
  /\ faultCount \in 0 .. MaxFaults

(* TypeOK falls into these three parts.                                    *)
LEMMA TypeParts ==
  /\ TypeOK => DbTypeOK /\ ControlTypeOK /\ ScriptTypeOK
  /\ DbTypeOK' /\ ControlTypeOK' /\ ScriptTypeOK' => TypeOK'
BY DEF TypeOK, TMTypeOK, DbTypeOK, ControlTypeOK, ScriptTypeOK

(* The constructors establish the types.                                   *)
LEMMA InitType == Init => TypeOK
<1> SUFFICES ASSUME Init
             PROVE  TypeOK
  OBVIOUS
<1>1. SiteTypeOK
  <2>1. \A x \in Var : InitialValue(x) \in Value
    BY GlobalAssumption
  <2> DEFINE first(x) == [ts |-> -1, val |-> InitialValue(x)]
  <2>2. \A x \in Var : first(x) \in Version /\ first(x).ts = -1
    BY <2>1 DEF Version
  <2>3. versions = [s \in Site |-> [x \in Var |-> {first(x)}]]
    BY DEF Init, SiteInit
  <2> HIDE DEF first
  <2>4. versions \in [Site -> [Var -> SUBSET Version]]
    BY <2>2, <2>3
  <2>5. \A s \in Site, x \in Var : \E v \in versions[s][x] : v.ts = -1
    BY <2>2, <2>3
  <2> QED BY <2>1, <2>4, <2>5 DEF Init, SiteInit, SiteTypeOK
<1>2. LockTypeOK
  BY DEF Init, LockInit, LockTypeOK
<1>3. TranTypeOK
  BY GlobalAssumption DEF Init, TranInit, TranTypeOK, NoRecords, Records
<1>4. TMTypeOK
  BY DEF Init, TMInit, TMTypeOK, PC
<1> QED BY <1>1, <1>2, <1>3, <1>4, ScriptAssumption DEF Init, TypeOK

(* Each step of execute_instructions keeps the types.                      *)
LEMMA ExecuteType ==
  ASSUME DbTypeOK, ControlTypeOK, ExecuteInstructions
  PROVE  DbTypeOK' /\ ControlTypeOK'
<1>1. CASE BreakDeadlock
  <2>1. CASE Transactions = {}
    BY <1>1, <2>1, StutterTypes DEF BreakDeadlock, ControlTypeOK, PC, loopVars
  <2>2. CASE Transactions # {}
    <3>1. PICK t \in Youngest : AbortTransactions({t})
      BY <1>1, <2>2 DEF BreakDeadlock
    <3>2. t \in Tran
      BY DEF Youngest, Transactions
    <3>3. LockTypeOK' /\ TranTypeOK' /\ blockedQueue' \in [Tran -> SUBSET TranRequest]
      BY <3>1, <3>2, AbortTransactionsType
    <3> QED BY <1>1, <2>2, <3>3, StutterTypes
            DEF BreakDeadlock, DbTypeOK, ControlTypeOK, loopVars
  <2> QED BY <2>1, <2>2
<1>2. CASE DropRequest \/ ThrowInRequest \/ ThrowInRetry
  BY <1>2, StutterTypes
     DEF DropRequest, ThrowInRequest, ThrowInRetry, ControlTypeOK, PC, loopVars
<1>3. CASE QueueRequest
  <2>1. request \in TranRequest /\ request.tran \in Tran
    BY <1>3, RequestFields DEF QueueRequest, RequestMustWait, ControlTypeOK
  <2>2. blockedQueue' \in [Tran -> SUBSET TranRequest]
    BY <1>3, <2>1, AddRequestType DEF QueueRequest
  <2> QED BY <1>3, <2>2, StutterTypes DEF QueueRequest, DbTypeOK, ControlTypeOK, PC, loopVars
<1>4. CASE ExecWhileWaiting
  <2>1. request \in AnyRequest
    BY <1>4 DEF ExecWhileWaiting, RequestMustWait, ControlTypeOK
  <2>2. DbTypeOK'
    BY <1>4, <2>1, ExecType DEF ExecWhileWaiting
  <2> QED BY <1>4, <2>2 DEF ExecWhileWaiting, ControlTypeOK, PC, loopVars
<1>5. CASE ExecRequest
  <2>1. CASE request = None
    BY <1>5, <2>1, StutterTypes DEF ExecRequest, ControlTypeOK, PC
  <2>2. CASE request # None
    <3>1. request \in AnyRequest /\ Exec(request)
      BY <1>5, <2>2 DEF ExecRequest, ControlTypeOK
    <3>2. DbTypeOK'
      BY <3>1, ExecType
    <3> QED BY <1>5, <3>2 DEF ExecRequest, ControlTypeOK, PC
  <2> QED BY <2>1, <2>2
<1>6. CASE RetryVisit
  <2>1. PICK t \in todo :
          /\ todo' = todo \ {t}
          /\ IF IsWaitingForLock(t) \/ IsTransactionWaitingForSite(t)
             THEN UNCHANGED <<finishedSet, retryQueue>>
             ELSE /\ finishedSet' = finishedSet \cup {t}
                  /\ retryQueue' = blockedQueue[t]
    BY <1>6 DEF RetryVisit
  <2>2. t \in Tran /\ blockedQueue[t] \subseteq TranRequest
    BY DEF ControlTypeOK, DbTypeOK
  <2>3. DbTypeOK' /\ request' = request /\ pc' = pc
    BY <1>6, StutterTypes DEF RetryVisit
  <2> QED BY <2>1, <2>2, <2>3 DEF ControlTypeOK
<1>7. CASE RetryExec
  <2> DEFINE r == Earliest(retryQueue)
  <2>1. r \in retryQueue /\ r \in AnyRequest
    BY <1>7, EarliestInQueue DEF RetryExec, ControlTypeOK, AnyRequest
  <2>2. DbTypeOK'
    BY <1>7, <2>1, ExecType DEF RetryExec
  <2> QED BY <1>7, <2>2 DEF RetryExec, ControlTypeOK, PC
<1>8. CASE FinishRetry
  <2>1. blockedQueue' \in [Tran -> SUBSET TranRequest]
    BY <1>8 DEF FinishRetry, DbTypeOK
  <2> QED BY <1>8, <2>1, StutterTypes DEF FinishRetry, DbTypeOK, ControlTypeOK, PC
<1> QED BY <1>1, <1>2, <1>3, <1>4, <1>5, <1>6, <1>7, <1>8 DEF ExecuteInstructions

(* A line of the script is a request.                                      *)
LEMMA ReadScriptRequest ==
  ASSUME TypeOK, ReadScript
  PROVE  request' \in AnyRequest
<1>1. currTimestamp + 1 \in Nat /\ opCount \in [Tran -> Nat]
  BY TypeParts DEF ScriptTypeOK
<1>2. ASSUME NEW t \in Tran, BeginLine(t) \/ EndLine(t)
      PROVE  request' \in BeginRequest \cup EndRequest
  BY <1>1, <1>2 DEF BeginLine, EndLine, BeginRequest, EndRequest, AddInstruction
<1>3. ASSUME NEW t \in Tran, NEW x \in ScriptVars[t], ReadLine(t, x)
      PROVE  request' \in ReadRequest
  BY <1>1, <1>3, ScriptAssumption DEF ReadLine, ReadRequest, AddInstruction
<1>4. ASSUME NEW t \in Tran, NEW x \in ScriptVars[t],
             NEW v \in WriteValues[t][opCount[t]], WriteLine(t, x, v)
      PROVE  request' \in WriteRequest
  <2>1. opCount[t] \in Nat /\ MaxOps[t] \in Nat
    BY <1>1, ScriptAssumption
  <2>2. opCount[t] < MaxOps[t]
    BY <1>4 DEF WriteLine, MoreOps
  <2>3. opCount[t] \in 0 .. MaxOps[t]
    BY <2>1, <2>2
  <2>4. v \in Value /\ x \in Var
    BY <2>3, ScriptAssumption
  <2> QED BY <1>1, <1>4, <2>4 DEF WriteLine, WriteRequest, AddInstruction
<1>5. ASSUME NEW kind \in {"FAIL", "RECOVER"}, NEW s \in Site, FaultLine(kind, s)
      PROVE  request' \in SiteRequest
  BY <1>1, <1>5 DEF FaultLine, SiteRequest, AddInstruction
<1> QED BY <1>2, <1>3, <1>4, <1>5 DEF ReadScript, AnyRequest, TranRequest

(* Reading a line of the script keeps the types.                           *)
LEMMA ReadScriptType ==
  ASSUME TypeOK, ReadScript
  PROVE  TypeOK'
<1> USE DEF AddInstruction
<1>1. DbTypeOK /\ ControlTypeOK /\ ScriptTypeOK
  BY TypeParts
<1>2. /\ currTimestamp + 1 \in Nat
      /\ UNCHANGED <<siteVars, lockVars, tranVars, blockedQueue, siteWaitingMap, loopVars>>
      /\ pc' = "execute" /\ lastRead' = None /\ phase' = phase
      /\ currTimestamp' = currTimestamp + 1
  BY <1>1 DEF ReadScript, BeginLine, EndLine, ReadLine, WriteLine, FaultLine, ScriptTypeOK
<1>3. DbTypeOK'
  BY <1>1, <1>2, StutterTypes DEF DbTypeOK
<1>4. request' \in AnyRequest
  BY ReadScriptRequest
<1>5. ended' \subseteq Tran /\ opCount' \in [Tran -> Nat] /\ faultCount' \in 0 .. MaxFaults
  BY <1>1, ScriptAssumption DEF ReadScript, BeginLine, EndLine, ReadLine, WriteLine,
     FaultLine, ScriptTypeOK, scriptVars
<1>6. ControlTypeOK' /\ ScriptTypeOK'
  BY <1>1, <1>2, <1>4, <1>5 DEF ControlTypeOK, ScriptTypeOK, PC, loopVars
<1> QED BY <1>3, <1>6, TypeParts

(* Every step keeps the types.                                             *)
LEMMA NextType == TypeOK /\ [Next]_vars => TypeOK'
<1> SUFFICES ASSUME TypeOK, [Next]_vars
             PROVE  TypeOK'
  OBVIOUS
<1>1. DbTypeOK /\ ControlTypeOK /\ ScriptTypeOK
  BY TypeParts
<1>2. CASE ReadScript
  BY <1>2, ReadScriptType
<1>3. CASE Execute
  <2>1. DbTypeOK' /\ ControlTypeOK'
    BY <1>1, <1>3, ExecuteType DEF Execute
  <2>2. ScriptTypeOK'
    BY <1>1, <1>3 DEF Execute, ScriptTypeOK, scriptVars
  <2> QED BY <2>1, <2>2, TypeParts
<1>4. CASE UNCHANGED vars
  <2>1. DbTypeOK'
    BY <1>1, <1>4, StutterTypes DEF vars, tmVars
  <2>2. ControlTypeOK' /\ ScriptTypeOK'
    BY <1>1, <1>4 DEF vars, tmVars, loopVars, scriptVars, ControlTypeOK, ScriptTypeOK
  <2> QED BY <2>1, <2>2, TypeParts
<1>5. CASE EndOfFile \/ DrainPass \/ Dump
  <2>1. DbTypeOK'
    BY <1>1, <1>5, StutterTypes DEF EndOfFile, DrainPass, Dump, tmVars
  <2>2. request' \in AnyRequest \cup {None}
    BY <1>1, <1>5 DEF EndOfFile, DrainPass, Dump, tmVars, ControlTypeOK, ScriptTypeOK,
                       AnyRequest, DumpRequest
  <2>3. ControlTypeOK' /\ ScriptTypeOK'
    BY <1>1, <1>5, <2>2 DEF EndOfFile, DrainPass, Dump, tmVars, loopVars, scriptVars,
                             ControlTypeOK, ScriptTypeOK, PC
  <2> QED BY <2>1, <2>3, TypeParts
<1> QED BY <1>2, <1>3, <1>4, <1>5 DEF Next, Terminated

(* The program is type correct: every variable of every reachable state    *)
(* holds what its C++ counterpart can hold, and every version history      *)
(* keeps the version of the constructor, so that get_value finds one.      *)
THEOREM TypeCorrect == Spec => []TypeOK
BY InitType, NextType, PTL DEF Spec
=============================================================================
