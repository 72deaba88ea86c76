-------------------------- MODULE RefinementProofs --------------------------
(***************************************************************************)
(* RepCRec implements OneCopy, for every number of sites, transactions,    *)
(* values and failures; what the program commits is serializable.          *)
(***************************************************************************)
EXTENDS Refinement, CopyProofs

-----------------------------------------------------------------------------
(* The mapped values. *)

\* A recorded write is locked, and it is the pending value of the variable.
RecordsPending ==
  \A t \in Tran, x \in Var :
    /\ PendingValue(t, x) \in Value \cup {None}
    /\ (\A s \in Site : writeRecords[t][s][x] = None) <=> PendingValue(t, x) = None
    /\ \A s \in Site : writeRecords[t][s][x] # None =>
         /\ PendingValue(t, x) = writeRecords[t][s][x]
         /\ s \in UpCopies(x) /\ exclusiveOwner[s][x] = t

(* The pending value of the refinement mapping does not depend on the site *)
(* it is looked up at.                                                     *)
LEMMA PendingRecords == DbTypeOK /\ LockInv /\ CopyInv => RecordsPending
<1> SUFFICES ASSUME DbTypeOK, LockInv, CopyInv, NEW t \in Tran, NEW x \in Var
    PROVE  /\ PendingValue(t, x) \in Value \cup {None}
           /\ (\A s \in Site : writeRecords[t][s][x] = None) <=> PendingValue(t, x) = None
           /\ \A s \in Site : writeRecords[t][s][x] # None =>
                /\ PendingValue(t, x) = writeRecords[t][s][x]
                /\ s \in UpCopies(x) /\ exclusiveOwner[s][x] = t
  BY DEF RecordsPending
<1> DEFINE Recorded(s) == writeRecords[t][s][x] # None
           first == CHOOSE s \in Site : Recorded(s)
<1>1. \A s \in Site : writeRecords[t][s][x] \in Value \cup {None}
  BY DEF DbTypeOK, TranTypeOK, Records
<1>2. \A s \in Site : Recorded(s) =>
        s \in CopySites(x) /\ writeAvailable[s] /\ exclusiveOwner[s][x] = t
  BY HoldersFacts DEF LockInv, RecordsLocked, LockedInTable, DbTypeOK
<1>3. CASE \A s \in Site : ~Recorded(s)
  BY <1>3 DEF PendingValue
<1>4. CASE \E s \in Site : Recorded(s)
  <2>1. first \in Site /\ Recorded(first) /\ PendingValue(t, x) = writeRecords[t][first][x]
    BY <1>4 DEF PendingValue
  <2>2. \A s \in Site : Recorded(s) => writeRecords[t][s][x] = writeRecords[t][first][x]
    BY <1>2, <2>1 DEF CopyInv, RecordsComplete
  <2> HIDE DEF first
  <2> QED BY <1>1, <1>2, <1>4, <2>1, <2>2 DEF UpCopies
<1> QED BY <1>3, <1>4

(* The same facts about the next state.                                    *)
LEMMA TypePartsNext == TypeOK' => DbTypeOK'
BY DEF TypeOK, TMTypeOK, DbTypeOK

(* Likewise.                                                               *)
LEMMA PendingRecordsNext == (DbTypeOK /\ LockInv /\ CopyInv)' => RecordsPending'
BY PendingRecords, PTL

(* Pending values stay with the records.                                   *)
LEMMA PendingStays ==
  ASSUME RecordsPending, RecordsPending', NEW t \in Tran, NEW x \in Var,
         \A s \in Site : writeRecords'[t][s][x] = writeRecords[t][s][x]
  PROVE  pendingValues'[t][x] = pendingValues[t][x]
<1>1. PendingValue(t, x)' = PendingValue(t, x)
  BY DEF RecordsPending
<1> QED BY <1>1 DEF pendingValues

(* A step in which no read is granted keeps what running transactions have *)
(* seen.                                                                   *)
LEMMA SeenStays ==
  ASSUME SeenFollowsReads, HistNext,
         lastRead' \in {None, lastRead} \/ isReadOnly'[lastRead'.tran],
         \A t \in Transactions' : t \in Transactions \/ status[t] = "none",
         \A t \in Transactions : isReadOnly'[t] = isReadOnly[t]
  PROVE  \A t \in Tran, x \in Var :
           seen'[t][x] = IF t \in Transactions' THEN seen[t][x] ELSE None
<1> SUFFICES ASSUME NEW t \in Tran, NEW x \in Var, t \in Transactions', Serves(t, x)'
             PROVE  seen[t][x] = lastRead'
  BY DEF HistNext
<1>1. lastRead' = lastRead /\ lastRead # None /\ lastRead.tran = t /\ lastRead.var = x
      /\ ~isReadOnly'[t]
  BY DEF Serves
<1>2. t \in Transactions
  BY <1>1 DEF SeenFollowsReads
<1> QED BY <1>1, <1>2 DEF SeenFollowsReads, Serves

-----------------------------------------------------------------------------
(* What executing a request does, as far as the mapping sees it. *)

\* Nothing the mapping sees, but perhaps a read of a read-only transaction.
Rests ==
  /\ UNCHANGED <<status, isReadOnly, writeRecords, lastCommitted>>
  /\ \/ lastRead' \in {None, lastRead}
     \/ lastRead'.tran \in Transactions /\ isReadOnly[lastRead'.tran]

\* t reads x at s, with a shared lock on all copies it may read.
GrantedRead(t, x, s) ==
  /\ t \in Transactions /\ ~isReadOnly[t] /\ s \in UpCopies(x)
  /\ IsOdd(x) => readAvailable[s][x]
  /\ LockStatus(t, x) = "AVAILABLE_TO_ASSIGN"
  /\ AssignShareLock(t, x)
  /\ lastRead' = [tran |-> t, site |-> s, var |-> x, val |-> value[s][x]]
  /\ UNCHANGED <<siteVars, status, isReadOnly, writeRecords, lastCommitted>>

\* t records v at the sites S, all it may have recorded x at before.
GrantedWrite(t, x, v, S) ==
  /\ \/ LockStatus(t, x) \in {"HAS_READ_LOCK", "AVAILABLE_TO_ASSIGN"}
     \/ LockStatus(t, x) = "HAS_WRITE_LOCK" /\ IsOdd(x)
  /\ S \subseteq Site /\ S # {}
  /\ \A s \in Site : writeRecords[t][s][x] # None => s \in S
  /\ \A u \in Tran, s \in Site, y \in Var :
       writeRecords'[u][s][y] = IF u = t /\ s \in S /\ y = x THEN v
                                ELSE writeRecords[u][s][y]
  /\ UNCHANGED <<status, isReadOnly, lastCommitted, lastRead>>

(* A read waits, reads a version, aborts itself, or is granted.            *)
LEMMA ReadKinds ==
  ASSUME DbTypeOK, CopyInv, NEW r \in ReadRequest, r.tran \in Transactions, ExecRead(r)
  PROVE  \/ Rests
         \/ AbortTransactions({r.tran}) /\ UNCHANGED lastRead
         \/ \E s \in Site : GrantedRead(r.tran, r.var, s)
<1> DEFINE t == r.tran
           x == r.var
<1>1. t \in Tran /\ x \in Var
  BY DEF ReadRequest
<1>2. CASE WaitForSite(r) \/ WaitForLock(r)
  BY <1>2 DEF WaitForSite, WaitForLock, tranVars, Rests
<1>3. CASE isReadOnly[t] /\ \E s \in Site : ReadOnlyAt(r, s)
  BY <1>3 DEF ReadOnlyAt, AddReadHistory, PrintRead, Rests
<1>4. CASE isReadOnly[t]
  <2>1. IsOdd(x) => HomeSite(x) \in Site
    BY <1>1, CopyPlacement
  <2> QED BY <1>2, <1>3, <1>4, <2>1 DEF ExecRead, ExecReadOnly
<1>5. CASE ~isReadOnly[t] /\ IsOdd(x)
  <2>1. HomeSite(x) \in Site /\ (readAvailable[HomeSite(x)][x] => HomeSite(x) \in UpCopies(x))
    BY <1>1, <1>5, CopyPlacement DEF CopyInv, ReadabilityFollowsSites, UpCopies
  <2> QED BY <1>1, <1>2, <1>5, <2>1
          DEF ExecRead, ExecReadLocked, GrantedRead, PrintRead, AddReadHistory
<1>6. CASE ~isReadOnly[t] /\ ~IsOdd(x)
  <2>1. UpCopies(x) \subseteq Site
    BY <1>1, CopyPlacement DEF UpCopies
  <2>2. CASE UpCopies(x) = {}
    BY <1>2, <1>6, <2>2 DEF ExecRead, ExecReadLocked, Rests, tranVars
  <2>3. CASE UpCopies(x) # {}
    BY <1>2, <1>6, <2>1, <2>3 DEF ExecRead, ExecReadLocked, GrantedRead, PrintRead, tranVars
  <2> QED BY <2>2, <2>3
<1> QED BY <1>4, <1>5, <1>6

(* A write waits, is ignored, or is granted at all copies that are up.     *)
LEMMA WriteKinds ==
  ASSUME DbTypeOK, RecordsPending, NEW r \in WriteRequest, r.tran \in Transactions,
         ExecWrite(r)
  PROVE  \/ Rests
         \/ \E S \in SUBSET Site : GrantedWrite(r.tran, r.var, r.value, S)
<1> DEFINE t == r.tran
           x == r.var
           v == r.value
           Home == IF IsOdd(x) THEN {HomeSite(x)} ELSE {}
<1>1. t \in Tran /\ x \in Var /\ v \in Value
  BY DEF WriteRequest
<1>2. UpCopies(x) \subseteq Site /\ (IsOdd(x) => UpCopies(x) \subseteq Home /\ Home \subseteq Site)
  BY <1>1, CopyPlacement DEF UpCopies
<1>3. CASE UNCHANGED <<tranVars, lastRead>>
  BY <1>3 DEF tranVars, Rests
<1>4. ASSUME NEW S \in SUBSET Site, UpdateValues(t, S, x, v), UNCHANGED lastRead,
             UpCopies(x) \subseteq S,
             \/ LockStatus(t, x) \in {"HAS_READ_LOCK", "AVAILABLE_TO_ASSIGN"}
             \/ LockStatus(t, x) = "HAS_WRITE_LOCK" /\ IsOdd(x)
      PROVE  Rests \/ GrantedWrite(t, x, v, S)
  <2>1. /\ UNCHANGED <<status, isReadOnly, lastCommitted>>
        /\ \A u \in Tran, s \in Site, y \in Var :
             writeRecords'[u][s][y] = IF u = t /\ s \in S /\ y = x THEN v
                                      ELSE writeRecords[u][s][y]
    BY <1>1, <1>4 DEF UpdateValues, DbTypeOK, TranTypeOK
  <2>2. CASE S = {}
    <3>1. writeRecords' = writeRecords
      BY <1>1, <1>4, <2>2 DEF UpdateValues, DbTypeOK, TranTypeOK, Records
    <3> QED BY <1>4, <2>1, <3>1 DEF Rests
  <2>3. CASE S # {}
    BY <1>1, <1>4, <2>1, <2>3 DEF GrantedWrite, RecordsPending
  <2> QED BY <2>2, <2>3
<1>5. CASE LockStatus(t, x) = "HAS_WRITE_LOCK" /\ ~IsOdd(x) /\ UpdateValues(t, Home, x, v)
           /\ UNCHANGED lastRead
  <2>1. writeRecords' = writeRecords
    BY <1>1, <1>5 DEF UpdateValues, DbTypeOK, TranTypeOK, Records
  <2> QED BY <1>5, <2>1 DEF UpdateValues, Rests
<1> QED BY <1>2, <1>3, <1>4, <1>5 DEF ExecWrite, WaitForLock, dbVars

-----------------------------------------------------------------------------
(* Why a granted request may go ahead in the one-copy database. *)

(* Who is granted a write is alone with the variable: nobody else is about *)
(* to write it or has read it, unless failures expose it.                  *)
LEMMA GrantAlone ==
  ASSUME DbTypeOK, LockInv, RecordsPending, ReadsHoldLocks, NothingDown,
         MaxFaults = 0 => faultCount = 0, NEW t \in Tran, NEW x \in Var,
         LockStatus(t, x) \in {"HAS_READ_LOCK", "AVAILABLE_TO_ASSIGN"}
  PROVE  \A u \in Tran \ {t} : /\ PendingValue(u, x) = None
                               /\ x \notin ExposedVars => seen[u][x] = None
<1> SUFFICES ASSUME NEW u \in Tran, u # t
             PROVE  /\ PendingValue(u, x) = None
                    /\ x \notin ExposedVars => seen[u][x] = None
  OBVIOUS
<1>1. StopCopies(t, x) = {} /\ (IsOdd(x) => UpCopies(x) # {})
  BY DEF LockStatus
<1>2. t # None /\ u # None
  BY GlobalAssumption
<1>3. \A s \in UpCopies(x) : sharedOwners[s][x] \subseteq {t} /\ exclusiveOwner[s][x] \in {None, t}
  BY <1>1, GrantedCopies
<1>4. PendingValue(u, x) = None
  BY <1>2, <1>3 DEF RecordsPending
<1>5. ASSUME x \notin ExposedVars, seen[u][x] # None
      PROVE  FALSE
  <2>1. UpCopies(x) # {}
    <3>1. CASE ~IsOdd(x)
      <4>1. MaxFaults = 0 /\ CopySites(x) = Site /\ 1 \in Site
        BY <1>5, <3>1, GlobalAssumption DEF ExposedVars, CopySites, Site
      <4> QED BY <4>1 DEF NothingDown, UpCopies
    <3> QED BY <1>1, <3>1
  <2>2. PICK s \in UpCopies(x) : TRUE
    BY <2>1
  <2>3. u \in Holders(s, x)
    BY <1>5, <2>2 DEF ReadsHoldLocks, UpCopies
  <2> QED BY <1>2, <1>3, <2>2, <2>3 DEF Holders
<1> QED BY <1>4, <1>5

(* So is who has written an odd variable already.                          *)
LEMMA HomeAlone ==
  ASSUME DbTypeOK, LockInv, RecordsPending, ReadsHoldLocks,
         NEW t \in Tran, NEW x \in Var, IsOdd(x), LockStatus(t, x) = "HAS_WRITE_LOCK"
  PROVE  \A u \in Tran \ {t} : /\ PendingValue(u, x) = None
                               /\ x \notin ExposedVars => seen[u][x] = None
<1> SUFFICES ASSUME NEW u \in Tran, u # t
             PROVE  /\ PendingValue(u, x) = None
                    /\ x \notin ExposedVars => seen[u][x] = None
  OBVIOUS
<1> DEFINE home == HomeSite(x)
<1>1. exclusiveOwner[home][x] = t /\ home \in Site /\ CopySites(x) = {home}
  BY HomeLockHeld, CopyPlacement
<1>2. t # None /\ u # None
  BY GlobalAssumption
<1>3. PendingValue(u, x) = None
  BY <1>1, <1>2 DEF RecordsPending, UpCopies
<1>4. ASSUME x \notin ExposedVars, seen[u][x] # None
      PROVE  FALSE
  <2>1. u \in Holders(home, x) /\ t \in Holders(home, x)
    BY <1>1, <1>2, <1>4 DEF ReadsHoldLocks, Holders
  <2> QED BY <1>1, <2>1 DEF LockInv, LockExclusion
<1> QED BY <1>3, <1>4

(* A granted read finds no write under way.                                *)
LEMMA ReadFindsNoWrite ==
  ASSUME DbTypeOK, LockInv, RecordsPending,
         NEW t \in Tran, NEW x \in Var, LockStatus(t, x) = "AVAILABLE_TO_ASSIGN"
  PROVE  \A u \in Tran : PendingValue(u, x) = None
<1> SUFFICES ASSUME NEW u \in Tran
             PROVE  PendingValue(u, x) = None
  OBVIOUS
<1>1. StopCopies(t, x) = {} /\ \A s \in UpCopies(x) : ~CanPromote(s, x, t)
  BY DEF LockStatus
<1>2. \A s \in UpCopies(x) : exclusiveOwner[s][x] = None
  BY <1>1, GrantedCopies
<1>3. u # None
  BY GlobalAssumption
<1> QED BY <1>2, <1>3 DEF RecordsPending

-----------------------------------------------------------------------------
(* The steps of the program map to steps of the one-copy database. *)

(* What holds before and after the step.                                   *)
StepAssumption ==
  /\ DbTypeOK /\ LockInv /\ CopyInv /\ RecordsPending /\ RecordsPending'
  /\ SeenInv /\ HistNext
  /\ MaxFaults = 0 => faultCount = 0

Mapped == [Copy!Next]_Copy!vars

(* A table that changes at one place only.                                 *)
LEMMA OneEntry ==
  ASSUME NEW f, NEW g, NEW t \in Tran, NEW x \in Var, NEW v,
         f = [u \in Tran |-> [y \in Var |-> f[u][y]]],
         g = [u \in Tran |-> [y \in Var |-> g[u][y]]],
         \A u \in Tran, y \in Var : g[u][y] = IF u = t /\ y = x THEN v ELSE f[u][y]
  PROVE  g = [f EXCEPT ![t][x] = v]
<1> DEFINE F(u) == [y \in Var |-> f[u][y]]
           G(u) == [y \in Var |-> g[u][y]]
<1>1. \A u \in Tran : f[u] = F(u) /\ g[u] = G(u)
  OBVIOUS
<1>2. G(t) = [F(t) EXCEPT ![x] = v]
  OBVIOUS
<1>3. \A u \in Tran \ {t} : G(u) = F(u)
  OBVIOUS
<1> HIDE DEF F, G
<1>4. \A u \in Tran : g[u] = IF u = t THEN [f[t] EXCEPT ![x] = v] ELSE f[u]
  BY <1>1, <1>2, <1>3
<1>5. f = [u \in Tran |-> f[u]] /\ g = [u \in Tran |-> g[u]]
  BY <1>1 DEF F, G
<1> QED BY <1>4, <1>5

(* The values read stay, but for those of transactions that leave.         *)
LEMMA SeenValuesStay ==
  ASSUME SeenFollowsReads, HistNext,
         lastRead' \in {None, lastRead} \/ isReadOnly'[lastRead'.tran],
         \A t \in Transactions' : t \in Transactions \/ status[t] = "none",
         \A t \in Transactions : isReadOnly'[t] = isReadOnly[t]
  PROVE  \A t \in Tran, x \in Var :
           /\ seenValues'[t][x] = IF t \in Transactions' THEN seenValues[t][x] ELSE None
           /\ t \notin Transactions => seenValues[t][x] = None
<1> SUFFICES ASSUME NEW t \in Tran, NEW x \in Var
             PROVE  /\ seenValues'[t][x] = IF t \in Transactions' THEN seenValues[t][x] ELSE None
                    /\ t \notin Transactions => seenValues[t][x] = None
  OBVIOUS
<1>1. seen'[t][x] = IF t \in Transactions' THEN seen[t][x] ELSE None
  BY SeenStays
<1>2. t \notin Transactions => seen[t][x] = None
  BY DEF SeenFollowsReads
<1> QED BY <1>1, <1>2 DEF seenValues, SeenValue

(* A request that rests.                                                   *)
LEMMA RestsMaps ==
  ASSUME StepAssumption, Rests
  PROVE  Mapped
<1>1. Transactions' = Transactions /\ isReadOnly' = isReadOnly
  BY DEF Rests, Transactions
<1>2. lastRead' \in {None, lastRead} \/ isReadOnly'[lastRead'.tran]
  BY DEF Rests
<1>3. \A t \in Tran, x \in Var : seenValues'[t][x] = seenValues[t][x]
  BY <1>1, <1>2, SeenValuesStay DEF StepAssumption, SeenInv
<1>4. \A t \in Tran, x \in Var : pendingValues'[t][x] = pendingValues[t][x]
  BY PendingStays DEF StepAssumption, Rests
<1>5. seenValues' = seenValues /\ pendingValues' = pendingValues
  BY <1>3, <1>4 DEF seenValues, pendingValues
<1> QED BY <1>5 DEF Mapped, Copy!vars, Rests

(* The pending values of a transaction without records.                    *)
LEMMA NoRecordsNoPending ==
  ASSUME RecordsPending', NEW t \in Tran, writeRecords'[t] = NoRecords
  PROVE  pendingValues'[t] = Copy!Nothing
<1>1. \A x \in Var : PendingValue(t, x)' = None
  BY DEF RecordsPending, NoRecords
<1> QED BY <1>1 DEF pendingValues, Copy!Nothing

(* Transactions that leave, with what they were to write.                  *)
LEMMA LeaveMaps ==
  ASSUME StepAssumption, NEW T \in SUBSET Transactions, NEW outcome \in {"committed", "aborted"},
         Evict(T, outcome), UNCHANGED lastRead
  PROVE  /\ pendingValues' = [t \in Tran |-> IF t \in T THEN Copy!Nothing ELSE pendingValues[t]]
         /\ seenValues' = [t \in Tran |-> IF t \in T THEN Copy!Nothing ELSE seenValues[t]]
<1>1. Transactions' = Transactions \ T /\ isReadOnly' = isReadOnly
  BY DEF Evict, Transactions
<1>2. \A t \in Tran, x \in Var :
        seenValues'[t][x] = IF t \in T THEN None ELSE seenValues[t][x]
  BY <1>1, SeenValuesStay DEF StepAssumption, SeenInv
<1>3. seenValues' = [t \in Tran |-> IF t \in T THEN Copy!Nothing ELSE seenValues[t]]
  BY <1>2 DEF seenValues, Copy!Nothing
<1>4. \A t \in T : pendingValues'[t] = Copy!Nothing
  BY NoRecordsNoPending DEF StepAssumption, Evict, Transactions
<1>5. \A t \in Tran \ T, x \in Var : pendingValues'[t][x] = pendingValues[t][x]
  BY PendingStays DEF StepAssumption, Evict
<1>6. \A t \in Tran \ T : pendingValues'[t] = pendingValues[t]
  BY <1>5 DEF pendingValues
<1> QED BY <1>3, <1>4, <1>6 DEF pendingValues

(* An abort, of whichever transactions.                                    *)
LEMMA AbortMaps ==
  ASSUME StepAssumption, NEW T \in SUBSET Transactions, AbortTransactions(T), UNCHANGED lastRead
  PROVE  Mapped
<1>1. Copy!Abort(T)
  BY LeaveMaps DEF Copy!Abort, AbortTransactions, Evict, Transactions
<1>2. T \in SUBSET Tran
  BY DEF Transactions
<1> QED BY <1>1, <1>2 DEF Mapped, Copy!Next

(* A commit installs what the transaction was to write.                    *)
LEMMA CommitMaps ==
  ASSUME StepAssumption, NEW t \in Transactions, NEW ts,
         InstallWrites(t, ts), Evict({t}, "committed"), UNCHANGED lastRead
  PROVE  Mapped
<1>1. t \in Tran /\ status[t] = "active" /\ {t} \in SUBSET Transactions
  BY DEF Transactions
<1>2. status' = [status EXCEPT ![t] = "committed"]
  BY <1>1 DEF Evict, StepAssumption, DbTypeOK, TranTypeOK
<1>3. lastCommitted' = [x \in Var |-> IF pendingValues[t][x] = None THEN lastCommitted[x]
                                      ELSE pendingValues[t][x]]
  <2>1. \A x \in Var : lastCommitted'[x] = IF PendingValue(t, x) = None THEN lastCommitted[x]
                                           ELSE PendingValue(t, x)
    <3> SUFFICES ASSUME NEW x \in Var
                 PROVE  lastCommitted'[x] = IF PendingValue(t, x) = None THEN lastCommitted[x]
                                            ELSE PendingValue(t, x)
      OBVIOUS
    <3>1. (\E s \in Site : writeRecords[t][s][x] # None) <=> PendingValue(t, x) # None
      BY <1>1 DEF StepAssumption, RecordsPending
    <3>2. (\E s \in Site : writeRecords[t][s][x] # None) =>
            PendingValue(t, x) = writeRecords[t][CHOOSE s \in Site : writeRecords[t][s][x] # None][x]
      BY DEF PendingValue
    <3> QED BY <3>1, <3>2 DEF InstallWrites
  <2>2. \A x \in Var : pendingValues[t][x] = PendingValue(t, x)
    BY <1>1 DEF pendingValues
  <2>3. lastCommitted' = [x \in Var |-> lastCommitted'[x]]
    BY DEF InstallWrites
  <2> QED BY <2>1, <2>2, <2>3
<1>4. /\ pendingValues' = [pendingValues EXCEPT ![t] = Copy!Nothing]
      /\ seenValues' = [seenValues EXCEPT ![t] = Copy!Nothing]
  BY <1>1, LeaveMaps DEF pendingValues, seenValues
<1>5. Copy!Commit(t)
  BY <1>1, <1>2, <1>3, <1>4 DEF Copy!Commit
<1> QED BY <1>1, <1>5 DEF Mapped, Copy!Next

(* A transaction begins.                                                   *)
LEMMA BeginMaps ==
  ASSUME StepAssumption, NEW r \in BeginRequest, status[r.tran] = "none", ExecBegin(r)
  PROVE  Mapped
<1> DEFINE t == r.tran
<1>1. t \in Tran
  BY DEF BeginRequest
<1>2. /\ status' = [status EXCEPT ![t] = "active"]
      /\ \A u \in Transactions : isReadOnly'[u] = isReadOnly[u]
      /\ UNCHANGED <<writeRecords, lastCommitted, lastRead>>
  BY DEF ExecBegin, AddTransaction, StepAssumption, DbTypeOK, TranTypeOK, Transactions
<1>3. \A u \in Transactions' : u \in Transactions \/ status[u] = "none"
  BY <1>1, <1>2 DEF Transactions, StepAssumption, DbTypeOK, TranTypeOK
<1>4. \A u \in Transactions : u \in Transactions'
  BY <1>1, <1>2 DEF Transactions, StepAssumption, DbTypeOK, TranTypeOK
<1>5. \A u \in Tran, x \in Var : seenValues'[u][x] = seenValues[u][x]
  BY <1>2, <1>3, <1>4, SeenValuesStay DEF StepAssumption, SeenInv
<1>6. \A u \in Tran, x \in Var : pendingValues'[u][x] = pendingValues[u][x]
  BY <1>2, PendingStays DEF StepAssumption
<1>7. seenValues' = seenValues /\ pendingValues' = pendingValues
  BY <1>5, <1>6 DEF seenValues, pendingValues
<1>8. Copy!Begin(t)
  BY <1>2, <1>7 DEF Copy!Begin
<1> QED BY <1>1, <1>8 DEF Mapped, Copy!Next

(* A granted read of a protected variable returns the committed value.     *)
LEMMA ReadMaps ==
  ASSUME StepAssumption, NEW t \in Tran, NEW x \in Var, NEW s \in Site, GrantedRead(t, x, s)
  PROVE  Mapped
<1> DEFINE v == value[s][x]
<1>1. t \in Transactions /\ status[t] = "active" /\ ~isReadOnly[t] /\ v \in Value
  BY DEF GrantedRead, Transactions, StepAssumption, DbTypeOK, SiteTypeOK
<1>2. \A u \in Tran : pendingValues[u][x] = None
  BY ReadFindsNoWrite DEF GrantedRead, StepAssumption, pendingValues
<1>3. x \notin ExposedVars => v = lastCommitted[x]
  <2>1. s \in CopySites(x) /\ (x \notin ExposedVars => readAvailable[s][x])
    BY DEF GrantedRead, UpCopies, ExposedVars, StepAssumption, SeenInv, NothingDown
  <2> QED BY <2>1 DEF StepAssumption, CopyInv, ReadableCopiesCurrent
<1>4. /\ lastRead' = [tran |-> t, site |-> s, var |-> x, val |-> v]
      /\ Transactions' = Transactions /\ isReadOnly' = isReadOnly
      /\ UNCHANGED <<status, writeRecords, lastCommitted>>
  BY DEF GrantedRead, Transactions
<1>5. lastRead' # None
  <2>1. lastRead' \in ReadEvent
    BY <1>1, <1>4 DEF ReadEvent
  <2> QED BY <2>1, ReadAssumption
<1>6. \A u \in Tran, y \in Var :
        seenValues'[u][y] = IF u = t /\ y = x THEN v ELSE seenValues[u][y]
  <2> SUFFICES ASSUME NEW u \in Tran, NEW y \in Var
               PROVE  seenValues'[u][y] = IF u = t /\ y = x THEN v ELSE seenValues[u][y]
    OBVIOUS
  <2>1. Serves(u, y)' <=> u = t /\ y = x
    BY <1>1, <1>4, <1>5 DEF Serves
  <2>2. u \notin Transactions => seen[u][y] = None
    BY DEF StepAssumption, SeenInv, SeenFollowsReads
  <2>3. seen'[u][y] = IF u = t /\ y = x THEN lastRead' ELSE seen[u][y]
    BY <1>1, <1>4, <2>1, <2>2 DEF StepAssumption, HistNext
  <2> QED BY <1>4, <1>5, <2>3 DEF seenValues, SeenValue
<1>7. seenValues' = [seenValues EXCEPT ![t][x] = v]
  <2>1. /\ seenValues = [u \in Tran |-> [y \in Var |-> seenValues[u][y]]]
        /\ seenValues' = [u \in Tran |-> [y \in Var |-> seenValues'[u][y]]]
    BY DEF seenValues
  <2> QED BY <1>6, <2>1, OneEntry
<1>8. \A u \in Tran, y \in Var : pendingValues'[u][y] = pendingValues[u][y]
  BY <1>4, PendingStays DEF StepAssumption
<1>9. pendingValues' = pendingValues
  BY <1>8 DEF pendingValues
<1>10. Copy!Read(t, x, v)
  <2>1. seenValues'[t][x] = v
    BY <1>6
  <2> QED BY <1>1, <1>2, <1>3, <1>4, <1>7, <1>9, <2>1 DEF Copy!Read
<1> QED BY <1>1, <1>10 DEF Mapped, Copy!Next

(* A granted write.                                                        *)
LEMMA WriteMaps ==
  ASSUME StepAssumption, NEW t \in Transactions, NEW x \in Var, NEW v \in Value,
         NEW S \in SUBSET Site, GrantedWrite(t, x, v, S)
  PROVE  Mapped
<1>1. t \in Tran /\ status[t] = "active" /\ v # None
  BY GlobalAssumption DEF Transactions
<1>2. \A u \in Tran \ {t} : /\ PendingValue(u, x) = None
                            /\ x \notin ExposedVars => seen[u][x] = None
  BY <1>1, GrantAlone, HomeAlone DEF GrantedWrite, StepAssumption, SeenInv
<1>3. \A u \in Tran \ {t} : /\ pendingValues[u][x] = None
                            /\ x \notin ExposedVars => seenValues[u][x] = None
  BY <1>2 DEF pendingValues, seenValues, SeenValue
<1>4. /\ Transactions' = Transactions /\ isReadOnly' = isReadOnly
      /\ UNCHANGED <<status, lastCommitted, lastRead>>
  BY DEF GrantedWrite, Transactions
<1>5. \A u \in Tran, y \in Var : seenValues'[u][y] = seenValues[u][y]
  BY <1>4, SeenValuesStay DEF StepAssumption, SeenInv
<1>6. seenValues' = seenValues
  BY <1>5 DEF seenValues
<1>7. \A u \in Tran, y \in Var :
        pendingValues'[u][y] = IF u = t /\ y = x THEN v ELSE pendingValues[u][y]
  <2> SUFFICES ASSUME NEW u \in Tran, NEW y \in Var
               PROVE  pendingValues'[u][y] = IF u = t /\ y = x THEN v ELSE pendingValues[u][y]
    OBVIOUS
  <2>1. CASE u = t /\ y = x
    <3>1. PICK s \in S : writeRecords'[t][s][x] = v
      BY <1>1 DEF GrantedWrite
    <3>2. PendingValue(t, x)' = v
      BY <1>1, <3>1 DEF StepAssumption, RecordsPending
    <3> QED BY <2>1, <3>2 DEF pendingValues
  <2>2. CASE ~(u = t /\ y = x)
    <3>1. \A s \in Site : writeRecords'[u][s][y] = writeRecords[u][s][y]
      BY <2>2 DEF GrantedWrite
    <3> QED BY <2>2, <3>1, PendingStays DEF StepAssumption
  <2> QED BY <2>1, <2>2
<1>8. pendingValues' = [pendingValues EXCEPT ![t][x] = v]
  <2>1. /\ pendingValues = [u \in Tran |-> [y \in Var |-> pendingValues[u][y]]]
        /\ pendingValues' = [u \in Tran |-> [y \in Var |-> pendingValues'[u][y]]]
    BY DEF pendingValues
  <2> QED BY <1>1, <1>7, <2>1, OneEntry
<1>9. Copy!Write(t, x, v)
  <2>1. pendingValues'[t][x] = v
    BY <1>1, <1>7
  <2> QED BY <1>1, <1>3, <1>4, <1>6, <1>8, <2>1 DEF Copy!Write
<1> QED BY <1>1, <1>9 DEF Mapped, Copy!Next

(* Every request maps.                                                     *)
LEMMA ExecMaps ==
  ASSUME StepAssumption, NEW r \in AnyRequest, Exec(r), Applicable(r)
  PROVE  Mapped
<1>0. DbTypeOK /\ CopyInv /\ RecordsPending
  BY DEF StepAssumption
<1>1. CASE r.type \in {"BEGIN", "BEGINO"} /\ ExecBegin(r)
  <2>1. r \in BeginRequest
    BY <1>1 DEF AnyRequest, TranRequest, ReadRequest, WriteRequest, EndRequest,
               SiteRequest, DumpRequest
  <2> QED BY <1>1, <2>1, BeginMaps DEF Applicable
<1>2. CASE r.type = "READ" /\ ExecRead(r)
  <2>1. r \in ReadRequest /\ r.tran \in Transactions /\ r.tran \in Tran /\ r.var \in Var
    BY <1>2, RequestFields DEF Applicable
  <2>2. {r.tran} \in SUBSET Transactions
    BY <2>1
  <2> QED BY <1>0, <1>2, <2>1, <2>2, ReadKinds, RestsMaps, AbortMaps, ReadMaps
<1>3. CASE r.type = "WRITE" /\ ExecWrite(r)
  <2>1. r \in WriteRequest /\ r.tran \in Transactions /\ r.var \in Var /\ r.value \in Value
    BY <1>3, RequestFields DEF Applicable
  <2> QED BY <1>0, <1>3, <2>1, WriteKinds, RestsMaps, WriteMaps
<1>4. CASE r.type = "END" /\ ExecEnd(r)
  <2>1. r.tran \in Transactions /\ {r.tran} \in SUBSET Transactions
    BY <1>4 DEF Applicable
  <2> QED BY <1>4, <2>1, CommitMaps, AbortMaps DEF ExecEnd
<1>5. CASE r.type = "FAIL" /\ ExecFail(r)
  BY <1>5, AbortMaps DEF ExecFail
<1>6. CASE ExecRecover(r) \/ UNCHANGED dbVars
  BY <1>6, RestsMaps DEF ExecRecover, dbVars, tranVars, Rests
<1> QED BY <1>1, <1>2, <1>3, <1>4, <1>5, <1>6 DEF Exec

(* Every step maps.                                                        *)
LEMMA NextMaps ==
  ASSUME SafetyInv, CopyInv, SeenInv, [Next /\ HistNext]_allVars
  PROVE  Mapped
<1>1. CASE UNCHANGED allVars
  <2>1. UNCHANGED <<lastCommitted, status, writeRecords, seen>>
    BY <1>1 DEF allVars, histVars, vars, tmVars, dbVars, tranVars
  <2> QED BY <2>1 DEF Mapped, Copy!vars, pendingValues, PendingValue, seenValues, SeenValue
<1>2. CASE Next /\ HistNext
  <2>1. DbTypeOK /\ LockInv
    BY TypeParts DEF SafetyInv
  <2>2. (DbTypeOK /\ LockInv /\ CopyInv)'
    <3>1. SafetyInv' /\ CopyInv'
      BY <1>2, NextSafe, NextCopies
    <3> QED BY <3>1, TypePartsNext DEF SafetyInv
  <2>3. StepAssumption
    BY <1>2, <2>1, <2>2, NoFaults, PendingRecords, PendingRecordsNext DEF StepAssumption
  <2>4. CASE UNCHANGED <<siteVars, lockVars, tranVars, siteWaitingMap>>
             /\ lastRead' \in {lastRead, None}
    BY <2>3, <2>4, RestsMaps DEF Rests, tranVars
  <2> QED BY <1>2, <2>3, <2>4, StepKinds, ExecMaps, AbortMaps
<1> QED BY <1>1, <1>2

-----------------------------------------------------------------------------
(* SeenInv is inductive. *)

\* What a step may do to the transactions and to the last read.
Reads ==
  /\ \A t \in Transactions' : t \in Transactions \/ status[t] = "none"
  /\ \A t \in Tran : status[t] # "none" => status'[t] # "none" /\ isReadOnly'[t] = isReadOnly[t]
  /\ \/ lastRead' \in {None, lastRead}
     \/ lastRead'.tran \in Transactions /\ isReadOnly'[lastRead'.tran]
     \/ \E t \in Tran, x \in Var, s \in Site : GrantedRead(t, x, s)

(* Transactions never come back, and only requests read.                   *)
LEMMA ExecReads ==
  ASSUME DbTypeOK, LockInv, CopyInv, NEW r \in AnyRequest, Exec(r), Applicable(r)
  PROVE  Reads
<1>0. RecordsPending
  BY PendingRecords
<1>1. ASSUME NEW T \in SUBSET Tran, NEW outcome \in {"committed", "aborted"},
             Evict(T, outcome), UNCHANGED lastRead
      PROVE  Reads
  BY <1>1 DEF Evict, Transactions, Reads
<1>2. ASSUME NEW T \in SUBSET Transactions, AbortTransactions(T), UNCHANGED lastRead
      PROVE  Reads
  BY <1>1, <1>2 DEF AbortTransactions, Transactions
<1>3. CASE Rests
  BY <1>3 DEF Rests, Reads, Transactions
<1>4. CASE r.type \in {"BEGIN", "BEGINO"} /\ ExecBegin(r)
  <2>1. r.tran \in Tran /\ status[r.tran] = "none"
    BY <1>4, RequestFields DEF Applicable
  <2> QED BY <1>4, <2>1 DEF ExecBegin, AddTransaction, Reads, Transactions, DbTypeOK, TranTypeOK
<1>5. CASE r.type = "READ" /\ ExecRead(r)
  <2>1. r \in ReadRequest /\ r.tran \in Transactions /\ r.tran \in Tran /\ r.var \in Var
    BY <1>5, RequestFields DEF Applicable
  <2>2. ASSUME NEW s \in Site, GrantedRead(r.tran, r.var, s)
        PROVE  Reads
    BY <2>1, <2>2 DEF GrantedRead, Reads, Transactions
  <2>3. {r.tran} \in SUBSET Transactions
    BY <2>1
  <2> QED BY <1>2, <1>3, <1>5, <2>1, <2>2, <2>3, ReadKinds
<1>6. CASE r.type = "WRITE" /\ ExecWrite(r)
  <2>1. r \in WriteRequest /\ r.tran \in Transactions
    BY <1>6, RequestFields DEF Applicable
  <2>2. ASSUME NEW S \in SUBSET Site, GrantedWrite(r.tran, r.var, r.value, S)
        PROVE  Reads
    BY <2>2 DEF GrantedWrite, Reads, Transactions
  <2> QED BY <1>0, <1>3, <1>6, <2>1, <2>2, WriteKinds
<1>7. CASE r.type = "END" /\ ExecEnd(r)
  <2>1. {r.tran} \in SUBSET Transactions /\ {r.tran} \in SUBSET Tran
    BY <1>7 DEF Applicable, Transactions
  <2> QED BY <1>1, <1>2, <1>7, <2>1 DEF ExecEnd
<1>8. CASE r.type = "FAIL" /\ ExecFail(r)
  BY <1>2, <1>8 DEF ExecFail
<1>9. CASE ExecRecover(r) \/ UNCHANGED dbVars
  BY <1>3, <1>9 DEF ExecRecover, dbVars, tranVars, Rests
<1> QED BY <1>4, <1>5, <1>6, <1>7, <1>8, <1>9 DEF Exec

(* So does every step.                                                     *)
LEMMA NextReads ==
  ASSUME SafetyInv, CopyInv, [Next]_vars
  PROVE  Reads
<1>1. DbTypeOK /\ LockInv
  BY TypeParts DEF SafetyInv
<1>2. CASE \E T \in SUBSET Tran : /\ T \subseteq Transactions
                                  /\ AbortTransactions(T)
                                  /\ UNCHANGED <<siteVars, siteWaitingMap, lastRead>>
  BY <1>2 DEF AbortTransactions, Evict, Transactions, Reads
<1>3. CASE UNCHANGED <<siteVars, lockVars, tranVars, siteWaitingMap>>
           /\ lastRead' \in {lastRead, None}
  BY <1>3 DEF tranVars, Transactions, Reads
<1> QED BY <1>1, <1>2, <1>3, StepKinds, ExecReads

(* A granted read locks every copy, unless failures expose the variable.   *)
LEMMA ReadLocksCopies ==
  ASSUME CopyInv, NothingDown, MaxFaults = 0 => faultCount = 0,
         NEW t \in Tran, NEW x \in Var \ ExposedVars, NEW u \in Site, GrantedRead(t, x, u)
  PROVE  \A s \in CopySites(x) : t \in Holders(s, x)'
<1> SUFFICES ASSUME NEW s \in CopySites(x)
             PROVE  t \in sharedOwners'[s][x]
  BY DEF Holders
<1>1. s \in Site
  BY CopyPlacement
<1>2. readAvailable[s][x]
  <2>1. CASE IsOdd(x)
    BY <2>1, CopyPlacement DEF GrantedRead, UpCopies
  <2>2. CASE ~IsOdd(x)
    BY <1>1, <2>2 DEF ExposedVars, NothingDown
  <2> QED BY <2>1, <2>2
<1>3. s \in UpCopies(x)
  BY <1>1, <1>2 DEF CopyInv, ReadabilityFollowsSites, UpCopies
<1> QED BY <1>1, <1>2, <1>3 DEF GrantedRead, AssignShareLock

(* SeenInv is kept by every step.                                          *)
LEMMA NextSeen ==
  ASSUME SafetyInv, CopyInv, SeenInv, Next, HistNext
  PROVE  SeenInv'
<1>1. Reads /\ KeepsLocks
  BY NextReads, NextKeepsLocks
<1>2. lastRead' \in ReadEvent \cup {None} /\ Transactions' \subseteq Tran
  <2>1. SafetyInv'
    BY NextSafe
  <2> QED BY <2>1, TypePartsNext DEF SafetyInv, DbTypeOK, Transactions
<1>3. NothingDown'
  BY NothingGoesDown DEF SeenInv
<1>4. SeenFollowsReads'
  <2>1. seen' \in [Tran -> [Var -> ReadEvent \cup {None}]]
    BY <1>2 DEF HistNext, SeenInv, SeenFollowsReads
  <2>2. \A t \in Tran, x \in Var :
          /\ seen'[t][x] # None => t \in Transactions'
          /\ Serves(t, x)' /\ t \in Transactions' => seen'[t][x] = lastRead'
    BY DEF HistNext
  <2>3. lastRead' # None => status'[lastRead'.tran] # "none"
    <3> SUFFICES ASSUME lastRead' # None
                 PROVE  lastRead'.tran \in Tran /\ status[lastRead'.tran] # "none"
      BY <1>1 DEF Reads
    <3>1. lastRead'.tran \in Tran
      BY <1>2 DEF ReadEvent
    <3>2. CASE lastRead' = lastRead
      BY <3>1, <3>2 DEF SeenInv, SeenFollowsReads
    <3>3. CASE lastRead'.tran \in Transactions
      BY <3>1, <3>3 DEF Transactions
    <3>4. ASSUME NEW t \in Tran, NEW x \in Var, NEW s \in Site, GrantedRead(t, x, s)
          PROVE  lastRead'.tran \in Transactions
      BY <3>4 DEF GrantedRead
    <3> QED BY <1>1, <3>2, <3>3, <3>4 DEF Reads
  <2> QED BY <2>1, <2>2, <2>3 DEF SeenFollowsReads
<1>5. ReadsHoldLocks'
  <2> SUFFICES ASSUME NEW t \in Tran, NEW x \in Var \ ExposedVars, seen'[t][x] # None,
                      NEW s \in CopySites(x)
               PROVE  t \in Holders(s, x)'
    BY DEF ReadsHoldLocks, ExposedVars
  <2>1. s \in Site /\ t \in Transactions'
    BY CopyPlacement DEF HistNext
  <2>2. CASE seen[t][x] # None
    <3>1. t \in Transactions /\ t \in Holders(s, x)
      BY <2>2 DEF SeenInv, SeenFollowsReads, ReadsHoldLocks
    <3> QED BY <1>1, <2>1, <3>1 DEF KeepsLocks
  <2>3. CASE seen[t][x] = None
    <3>1. Serves(t, x)'
      BY <2>1, <2>3 DEF HistNext
    <3>2. lastRead' # None /\ lastRead'.tran = t /\ lastRead'.var = x /\ ~isReadOnly'[t]
      BY <3>1 DEF Serves
    <3>3. lastRead' # lastRead
      <4> SUFFICES ASSUME lastRead' = lastRead
                   PROVE  FALSE
        OBVIOUS
      <4>1. status[t] # "none" /\ t \in Transactions
        BY <1>1, <2>1, <3>2 DEF SeenInv, SeenFollowsReads, Reads
      <4>2. Serves(t, x)
        BY <1>1, <3>2, <4>1 DEF Serves, Reads
      <4> QED BY <2>3, <3>2, <4>1, <4>2 DEF SeenInv, SeenFollowsReads
    <3>4. PICK u \in Tran, y \in Var, w \in Site : GrantedRead(u, y, w)
      BY <1>1, <3>2, <3>3 DEF Reads
    <3>5. u = t /\ y = x
      BY <3>2, <3>4 DEF GrantedRead
    <3> QED BY <3>4, <3>5, NoFaults, ReadLocksCopies DEF SeenInv
  <2> QED BY <2>2, <2>3
<1> QED BY <1>3, <1>4, <1>5 DEF SeenInv

(* At the start nothing has been read.                                     *)
LEMMA InitSeen == Init /\ HistInit => SeenInv
BY DEF Init, HistInit, SiteInit, TMInit, SeenInv, ReadsHoldLocks, SeenFollowsReads, NothingDown

\* The inductive invariant of the refinement.
RefinementInv == SafetyInv /\ CopyInv /\ SeenInv

(* It is kept by every step.                                               *)
LEMMA NextRefinement == RefinementInv /\ [Next /\ HistNext]_allVars => RefinementInv'
<1> SUFFICES ASSUME RefinementInv, [Next /\ HistNext]_allVars
             PROVE  RefinementInv'
  OBVIOUS
<1>1. [Next]_vars
  BY DEF allVars
<1>2. SafetyInv' /\ CopyInv'
  BY <1>1, NextSafe, NextCopies DEF RefinementInv
<1>3. CASE UNCHANGED allVars
  <2>1. UNCHANGED <<request, faultCount, lastRead, siteVars, lockVars, tranVars, seen>>
    BY <1>3 DEF allVars, histVars, vars, scriptVars, tmVars, dbVars
  <2>2. ReadsHoldLocks' /\ NothingDown'
    BY <2>1 DEF RefinementInv, SeenInv, ReadsHoldLocks, NothingDown, Holders, siteVars, lockVars,
                ExposedVars
  <2>3. SeenFollowsReads'
    BY <2>1 DEF RefinementInv, SeenInv, SeenFollowsReads, Serves, Transactions, tranVars
  <2> QED BY <1>2, <2>2, <2>3 DEF RefinementInv, SeenInv
<1>4. CASE Next /\ HistNext
  BY <1>2, <1>4, NextSeen DEF RefinementInv
<1> QED BY <1>3, <1>4

-----------------------------------------------------------------------------
(* The theorems. *)

(* Whoever has read a protected variable holds a lock on every copy of it  *)
(* as long as it runs.                                                     *)
THEOREM RefinementInvariant == PromiseSpec => []SeenInv
<1>1. Init /\ HistInit => RefinementInv
  BY InitSafe, InitCopies, InitSeen DEF RefinementInv
<1>2. RefinementInv => SeenInv
  BY DEF RefinementInv
<1> QED BY <1>1, <1>2, NextRefinement, PTL DEF PromiseSpec, allVars

(* The program implements the one-copy database.                           *)
THEOREM Refines == PromiseSpec => ImplementsOneCopy
<1>1. Init /\ HistInit => RefinementInv
  BY InitSafe, InitCopies, InitSeen DEF RefinementInv
<1>2. Init /\ HistInit => Copy!Init
  BY DEF Init, HistInit, TranInit, NoRecords, Copy!Init, Copy!Nothing, pendingValues,
         PendingValue, seenValues, SeenValue
<1>3. RefinementInv /\ [Next /\ HistNext]_allVars => [Copy!Next]_Copy!vars
  BY NextMaps DEF RefinementInv, Mapped
<1> QED BY <1>1, <1>2, <1>3, NextRefinement, PTL
        DEF PromiseSpec, allVars, ImplementsOneCopy, Copy!Spec

(* The transactions the program commits are serializable in the order of   *)
(* their commits, as far as their reads are protected.                     *)
THEOREM CommitsSerializable == PromiseSpec => SerialCommits
<1>1. Copy!ConstantsOK
  BY GlobalAssumption DEF Copy!ConstantsOK, ExposedVars
<1>2. Copy!Spec => Copy!SerialCommits
  BY <1>1, Copy!Serializable
<1> QED BY <1>2, Refines, PTL DEF ImplementsOneCopy, SerialCommits

-----------------------------------------------------------------------------
(* The read history. *)

\* What a step does to the read histories of those that go on running, and
\* what it asks of the history of the one that commits.
HistoryStep ==
  /\ \A t \in Tran : Commits(t) => CanCommit(t)
  /\ \A t \in Transactions \cap Transactions', s \in Site, x \in Var :
       readRecords[t][s][x] # None => readRecords'[t][s][x] # None
  /\ lastRead' \notin {lastRead, None} =>
       LET t == lastRead'.tran
           x == lastRead'.var
       IN ~isReadOnly[t] /\ IsOdd(x) => readRecords'[t][HomeSite(x)][x] # None

(* A locked read of an odd variable enters the read history.               *)
LEMMA ReadHistory ==
  ASSUME DbTypeOK, NEW r \in ReadRequest, ExecRead(r)
  PROVE  HistoryStep
<1> DEFINE t == r.tran
           x == r.var
<1>1. t \in Tran /\ x \in Var
  BY DEF ReadRequest
<1>2. ASSUME UNCHANGED <<status, readRecords, lastRead>>
      PROVE  HistoryStep
  BY <1>2 DEF HistoryStep, Commits, Transactions
<1>3. ASSUME NEW s \in Site, NEW v \in Value, AddReadHistory(t, s, x, v), PrintRead(t, s, x, v),
             ~isReadOnly[t] /\ IsOdd(x) => s = HomeSite(x)
      PROVE  HistoryStep
  <2>1. /\ readRecords'[t][s][x] = v
        /\ \A u \in Tran, w \in Site, y \in Var :
             readRecords'[u][w][y] \in {v, readRecords[u][w][y]}
    BY <1>1, <1>3 DEF AddReadHistory, DbTypeOK, TranTypeOK, Records
  <2>2. v # None /\ lastRead'.tran = t /\ lastRead'.var = x
    BY <1>3, GlobalAssumption DEF PrintRead
  <2>3. UNCHANGED status
    BY <1>3 DEF AddReadHistory
  <2> QED BY <1>3, <2>1, <2>2, <2>3 DEF HistoryStep, Commits, Transactions
<1>4. CASE WaitForSite(r) \/ WaitForLock(r)
  BY <1>2, <1>4 DEF WaitForSite, WaitForLock, tranVars
<1>5. CASE isReadOnly[t] /\ ExecReadOnly(r)
  <2>1. IsOdd(x) => HomeSite(x) \in Site
    BY <1>1, CopyPlacement
  <2>2. ASSUME NEW s \in Site, ReadOnlyAt(r, s)
        PROVE  HistoryStep
    <3>1. GetValue(s, x, beginTime[t]) \in Value
      BY <1>1, GetValueType DEF DbTypeOK, TranTypeOK
    <3> QED BY <1>3, <1>5, <2>2, <3>1 DEF ReadOnlyAt
  <2>3. ASSUME AbortTransactions({t}), UNCHANGED lastRead
        PROVE  HistoryStep
    BY <2>3 DEF AbortTransactions, Evict, HistoryStep, Commits, Transactions
  <2> QED BY <1>4, <1>5, <2>1, <2>2, <2>3 DEF ExecReadOnly
<1>6. CASE ~isReadOnly[t] /\ ExecReadLocked(r)
  <2>1. IsOdd(x) => HomeSite(x) \in Site /\ value[HomeSite(x)][x] \in Value
    BY <1>1, CopyPlacement DEF DbTypeOK, SiteTypeOK
  <2>2. CASE IsOdd(x)
    BY <1>2, <1>3, <1>4, <1>6, <2>1, <2>2 DEF ExecReadLocked
  <2>3. ASSUME ~IsOdd(x), UNCHANGED tranVars,
               lastRead' = lastRead \/ lastRead'.var = x
        PROVE  HistoryStep
    BY <2>3 DEF HistoryStep, Commits, Transactions, tranVars
  <2> QED BY <1>4, <1>6, <2>2, <2>3 DEF ExecReadLocked, PrintRead
<1> QED BY <1>5, <1>6 DEF ExecRead

(* Every other request leaves the histories alone, or takes them along     *)
(* with their transactions.                                                *)
LEMMA ExecHistory ==
  ASSUME DbTypeOK, NEW r \in AnyRequest, Exec(r), Applicable(r)
  PROVE  HistoryStep
<1>1. ASSUME NEW T \in SUBSET Tran, AbortTransactions(T), UNCHANGED lastRead
      PROVE  HistoryStep
  BY <1>1 DEF AbortTransactions, Evict, HistoryStep, Commits, Transactions
<1>2. ASSUME UNCHANGED <<status, readRecords, lastRead>>
      PROVE  HistoryStep
  BY <1>2 DEF HistoryStep, Commits, Transactions
<1>3. CASE r.type \in {"BEGIN", "BEGINO"} /\ ExecBegin(r)
  <2>1. UNCHANGED <<readRecords, lastRead>>
    BY <1>3 DEF ExecBegin, AddTransaction
  <2>2. \A t \in Tran : status'[t] \in {status[t], "active"}
    BY <1>3 DEF ExecBegin, AddTransaction, DbTypeOK, TranTypeOK
  <2> QED BY <2>1, <2>2 DEF HistoryStep, Commits, Transactions
<1>4. CASE r.type = "READ" /\ ExecRead(r)
  BY <1>4, RequestFields, ReadHistory
<1>5. CASE r.type = "WRITE" /\ ExecWrite(r)
  BY <1>2, <1>5 DEF ExecWrite, UpdateValues, WaitForLock, dbVars, tranVars
<1>6. CASE r.type = "END" /\ ExecEnd(r)
  <2>1. r.tran \in Tran
    BY <1>6, RequestFields
  <2>2. CASE CanCommit(r.tran) /\ Evict({r.tran}, "committed") /\ UNCHANGED lastRead
    BY <2>2 DEF Evict, HistoryStep, Commits, Transactions
  <2> QED BY <1>1, <1>6, <2>1, <2>2 DEF ExecEnd
<1>7. CASE r.type = "FAIL" /\ ExecFail(r)
  BY <1>1, <1>7 DEF ExecFail, Transactions
<1>8. CASE ExecRecover(r) \/ UNCHANGED dbVars
  BY <1>2, <1>8 DEF ExecRecover, dbVars, tranVars
<1> QED BY <1>3, <1>4, <1>5, <1>6, <1>7, <1>8 DEF Exec

(* So does every other step.                                               *)
LEMMA NextHistory == SafetyInv /\ [Next]_vars => HistoryStep
<1> SUFFICES ASSUME SafetyInv, [Next]_vars
             PROVE  HistoryStep
  OBVIOUS
<1>1. DbTypeOK
  BY TypeParts DEF SafetyInv
<1>2. ASSUME NEW T \in SUBSET Tran, AbortTransactions(T), UNCHANGED lastRead
      PROVE  HistoryStep
  BY <1>2 DEF AbortTransactions, Evict, HistoryStep, Commits, Transactions
<1>3. CASE UNCHANGED tranVars /\ lastRead' \in {lastRead, None}
  BY <1>3 DEF HistoryStep, Commits, Transactions, tranVars
<1> QED BY <1>1, <1>2, <1>3, StepKinds, ExecHistory

\* What a running transaction has read of an odd variable is in its history.
HomeReadsRecorded ==
  \A t \in Tran, x \in Var :
    seen[t][x] # None /\ IsOdd(x) => readRecords[t][HomeSite(x)][x] # None

(* Every step keeps the histories complete.                                *)
LEMMA NextHomeReads ==
  ASSUME RefinementInv, HomeReadsRecorded, [Next /\ HistNext]_allVars
  PROVE  HomeReadsRecorded'
<1>1. CASE UNCHANGED allVars
  BY <1>1 DEF HomeReadsRecorded, allVars, histVars, vars, tmVars, dbVars, tranVars
<1>2. CASE Next /\ HistNext
  <2> SUFFICES ASSUME NEW t \in Tran, NEW x \in Var, seen'[t][x] # None, IsOdd(x)
               PROVE  readRecords'[t][HomeSite(x)][x] # None
    BY DEF HomeReadsRecorded
  <2>1. HistoryStep /\ Reads
    BY <1>2, NextHistory, NextReads DEF RefinementInv
  <2>2. HomeSite(x) \in Site /\ t \in Transactions'
    BY <1>2, CopyPlacement DEF HistNext
  <2>3. CASE seen[t][x] # None
    <3>1. t \in Transactions
      BY <2>3 DEF RefinementInv, SeenInv, SeenFollowsReads
    <3> QED BY <2>1, <2>2, <2>3, <3>1 DEF HistoryStep, HomeReadsRecorded
  <2>4. CASE seen[t][x] = None
    <3>1. lastRead' # None /\ lastRead'.tran = t /\ lastRead'.var = x /\ ~isReadOnly'[t]
      BY <1>2, <2>2, <2>4 DEF HistNext, Serves
    <3>2. lastRead' # lastRead
      <4> SUFFICES ASSUME lastRead' = lastRead
                   PROVE  FALSE
        OBVIOUS
      <4>1. status[t] # "none" /\ t \in Transactions
        BY <2>1, <2>2, <3>1 DEF RefinementInv, SeenInv, SeenFollowsReads, Reads
      <4>2. Serves(t, x)
        BY <2>1, <3>1, <4>1 DEF Serves, Reads
      <4> QED BY <2>4, <3>1, <4>1, <4>2 DEF RefinementInv, SeenInv, SeenFollowsReads
    <3>3. ~isReadOnly[t]
      <4>1. PICK u \in Tran, y \in Var, w \in Site : GrantedRead(u, y, w)
        BY <2>1, <3>1, <3>2 DEF Reads
      <4> QED BY <3>1, <4>1 DEF GrantedRead
    <3> QED BY <2>1, <3>1, <3>2, <3>3 DEF HistoryStep
  <2> QED BY <2>3, <2>4
<1> QED BY <1>1, <1>2

(* A transaction that has read a variable with a single copy commits only  *)
(* while the site of that copy is up.                                      *)
THEOREM HomesUpAtCommit == PromiseSpec => CommitsWithHomesUp
<1> DEFINE HomesUp ==
      \A t \in Tran, x \in Var :
        Commits(t) /\ seen[t][x] # None /\ IsOdd(x) => writeAvailable[HomeSite(x)]
<1>1. Init /\ HistInit => RefinementInv /\ HomeReadsRecorded
  <2>1. HistInit => HomeReadsRecorded
    BY DEF HistInit, HomeReadsRecorded
  <2> QED BY <2>1, InitSafe, InitCopies, InitSeen DEF RefinementInv
<1>2. RefinementInv /\ HomeReadsRecorded /\ [Next /\ HistNext]_allVars => HomeReadsRecorded'
  BY NextHomeReads
<1>3. RefinementInv /\ HomeReadsRecorded /\ [Next /\ HistNext]_allVars => [HomesUp]_vars
  <2> SUFFICES ASSUME RefinementInv, HomeReadsRecorded, [Next /\ HistNext]_allVars,
                      NEW t \in Tran, NEW x \in Var, Commits(t), seen[t][x] # None, IsOdd(x)
               PROVE  writeAvailable[HomeSite(x)]
    OBVIOUS
  <2>1. CanCommit(t)
    BY NextHistory DEF RefinementInv, HistoryStep, allVars
  <2>2. HomeSite(x) \in Site /\ HomeSite(x) \in CopySites(x)
    BY CopyPlacement
  <2>3. readAvailable[HomeSite(x)][x]
    BY <2>1, <2>2 DEF CanCommit, HomeReadsRecorded
  <2> QED BY <2>2, <2>3 DEF RefinementInv, CopyInv, ReadabilityFollowsSites
<1> QED BY <1>1, <1>2, <1>3, NextRefinement, PTL DEF PromiseSpec, CommitsWithHomesUp, allVars
-----------------------------------------------------------------------------
(* Firm reads. *)

\* What was read of a readable copy is locked there and is what was committed
\* last, as long as the copy stays readable.
FirmReads ==
  \A t \in Tran :
    /\ firm[t] \subseteq Var
    /\ \A x \in firm[t] :
         /\ seen[t][x] # None
         /\ seen[t][x].site \in CopySites(x) /\ readAvailable[seen[t][x].site][x]
         /\ t \in Holders(seen[t][x].site, x)
         /\ seen[t][x].val = lastCommitted[x]

(* A read that a step adds to seen was granted in the step.                *)
LEMMA SeenGranted ==
  ASSUME SafetyInv, CopyInv, SeenInv, Next, HistNext, NEW t \in Tran, NEW x \in Var,
         seen'[t][x] # None, seen'[t][x] # seen[t][x]
  PROVE  \E s \in Site : GrantedRead(t, x, s) /\ seen'[t][x] = lastRead'
<1>1. Reads
  BY NextReads
<1>2. t \in Transactions' /\ Serves(t, x)' /\ seen'[t][x] = lastRead'
  BY DEF HistNext
<1>3. lastRead' # None /\ lastRead'.tran = t /\ lastRead'.var = x /\ ~isReadOnly'[t]
  BY <1>2 DEF Serves
<1>4. lastRead' # lastRead
  <2> SUFFICES ASSUME lastRead' = lastRead
               PROVE  FALSE
    OBVIOUS
  <2>1. status[t] # "none" /\ t \in Transactions
    BY <1>1, <1>2, <1>3 DEF SeenInv, SeenFollowsReads, Reads
  <2>2. Serves(t, x)
    BY <1>1, <1>3, <2>1 DEF Serves, Reads
  <2> QED BY <1>2, <2>1, <2>2 DEF SeenInv, SeenFollowsReads
<1>5. PICK u \in Tran, y \in Var, w \in Site : GrantedRead(u, y, w)
  BY <1>1, <1>3, <1>4 DEF Reads
<1>6. u = t /\ y = x
  BY <1>3, <1>5 DEF GrantedRead
<1> QED BY <1>2, <1>5, <1>6

(* No one commits a variable that another transaction holds at a readable  *)
(* copy: the commit would have to write that copy too, and to own it.      *)
LEMMA HeldStays ==
  ASSUME SafetyInv, CopyInv, [Next]_vars, NEW t \in Tran, t \in Transactions',
         NEW x \in Var, NEW s \in CopySites(x), readAvailable[s][x], t \in Holders(s, x)
  PROVE  lastCommitted'[x] = lastCommitted[x]
<1>0. DbTypeOK /\ LockInv /\ s \in Site
  BY TypeParts, CopyPlacement DEF SafetyInv
<1>1. ASSUME NEW u \in Tran, CommitStep(u), CommitsWrite(x)
      PROVE  FALSE
  <2>1. Commits(u) /\ u \notin Transactions' /\ \A w \in Tran : Commits(w) => w = u
    BY <1>1 DEF CommitStep, Evict, Commits, Transactions
  <2>2. PICK c \in Site : writeRecords[u][c][x] # None
    BY <1>1, <2>1 DEF CommitsWrite
  <2>3. c \in CopySites(x)
    BY <1>0, <2>2, HoldersFacts DEF LockInv, RecordsLocked, LockedInTable, DbTypeOK
  <2>4. writeRecords[u][s][x] # None
    BY <2>2, <2>3 DEF CopyInv, RecordsComplete
  <2>5. exclusiveOwner[s][x] = u /\ u # None
    BY <1>0, <2>4, GlobalAssumption DEF LockInv, RecordsLocked
  <2>6. u \in Holders(s, x)
    BY <2>5 DEF Holders
  <2> QED BY <1>0, <2>1, <2>6 DEF LockInv, LockExclusion
<1>2. ASSUME NEW u \in Tran, CommitStep(u), ~CommitsWrite(x)
      PROVE  lastCommitted'[x] = lastCommitted[x]
  BY <1>0, <1>2, CommitVersions
<1>3. CASE QuietStep \/ \E u \in Tran : BeginStep(u)
  BY <1>3 DEF QuietStep, BeginStep, AddTransaction
<1> QED BY <1>1, <1>2, <1>3, SnapshotSteps

(* Every step keeps firm reads locked and current.                         *)
LEMMA NextFirm ==
  ASSUME RefinementInv, FirmReads, [Next /\ HistNext]_allVars
  PROVE  FirmReads'
<1>1. CASE UNCHANGED allVars
  BY <1>1 DEF FirmReads, Holders, allVars, histVars, vars, tmVars, dbVars, tranVars, siteVars, lockVars
<1>2. CASE Next /\ HistNext
  <2>0. SafetyInv /\ CopyInv /\ SeenInv /\ SafetyInv' /\ SeenInv'
    <3>1. RefinementInv'
      BY NextRefinement
    <3> QED BY <3>1 DEF RefinementInv
  <2>1. firm' = [t \in Tran |-> FirmNext(t)]
    BY <1>2 DEF HistNext
  <2> SUFFICES ASSUME NEW t \in Tran, NEW x \in Var, seen'[t][x] # None,
                      NEW s, s = seen'[t][x].site, readAvailable'[s][x],
                      x \in firm[t] \/ seen'[t][x] # seen[t][x]
               PROVE  /\ s \in CopySites(x)
                      /\ t \in Holders(s, x)'
                      /\ seen'[t][x].val = lastCommitted'[x]
    <3>1. \A t \in Tran :
            /\ firm'[t] \subseteq Var
            /\ \A x \in firm'[t] :
                 /\ x \in Var /\ seen'[t][x] # None /\ readAvailable'[seen'[t][x].site][x]
                 /\ x \in firm[t] \/ seen'[t][x] # seen[t][x]
      BY <2>1 DEF FirmNext
    <3> QED BY <3>1 DEF FirmReads
  <2>2. CASE seen'[t][x] = seen[t][x]
    <3>1. /\ s \in CopySites(x) /\ s \in Site /\ readAvailable[s][x] /\ t \in Holders(s, x)
          /\ seen'[t][x].val = lastCommitted[x]
      BY <2>2, CopyPlacement DEF FirmReads
    <3>2. t \in Transactions /\ t \in Transactions'
      BY <2>0, <2>2 DEF SeenInv, SeenFollowsReads
    <3>3. KeepsLocks
      BY <1>2, <2>0, NextKeepsLocks
    <3>4. t \in Holders(s, x)'
      BY <3>1, <3>2, <3>3 DEF KeepsLocks
    <3>5. lastCommitted'[x] = lastCommitted[x]
      BY <1>2, <2>0, <3>1, <3>2, HeldStays
    <3> QED BY <3>1, <3>4, <3>5
  <2>3. CASE seen'[t][x] # seen[t][x]
    <3>1. PICK w \in Site : GrantedRead(t, x, w) /\ seen'[t][x] = lastRead'
      BY <1>2, <2>0, <2>3, SeenGranted
    <3>2. /\ s = w /\ seen'[t][x].val = value[w][x] /\ w \in UpCopies(x)
          /\ UNCHANGED <<siteVars, lastCommitted>> /\ AssignShareLock(t, x)
      BY <3>1 DEF GrantedRead
    <3>3. w \in CopySites(x) /\ readAvailable[w][x]
      BY <3>2 DEF UpCopies, siteVars
    <3>4. t \in Holders(w, x)'
      BY <3>2, <3>3 DEF AssignShareLock, Holders
    <3>5. value[w][x] = lastCommitted'[x]
      BY <2>0, <3>2, <3>3 DEF CopyInv, ReadableCopiesCurrent
    <3> QED BY <3>2, <3>3, <3>4, <3>5
  <2> QED BY <2>2, <2>3
<1> QED BY <1>1, <1>2

(* A transaction may rely on what it has read of a readable copy until the *)
(* site of the copy fails, whatever fails and recovers elsewhere.          *)
THEOREM FirmReadsStay == PromiseSpec => []FirmReadsHold
<1>1. Init /\ HistInit => RefinementInv /\ FirmReads
  <2>1. HistInit => FirmReads
    BY DEF HistInit, FirmReads
  <2> QED BY <2>1, InitSafe, InitCopies, InitSeen DEF RefinementInv
<1>2. RefinementInv /\ FirmReads /\ [Next /\ HistNext]_allVars => FirmReads'
  BY NextFirm
<1>3. FirmReads => FirmReadsHold
  BY DEF FirmReads, FirmReadsHold
<1> QED BY <1>1, <1>2, <1>3, NextRefinement, PTL DEF PromiseSpec, allVars
-----------------------------------------------------------------------------
(* What has been asked is pending or recorded. *)

\* Nobody shares a copy with an exclusive lock, not even its owner.
OneKind == \A s \in Site, x \in Var : exclusiveOwner[s][x] \notin sharedOwners[s][x]

\* The write r is still to be executed; what has blocked again in the walk is
\* as good as erased.
StillQueued(r) ==
  \/ pc = "execute" /\ request = r
  \/ r \in retryQueue
  \/ r \in blockedQueue[r.tran] /\ r.tran \notin finishedSet

\* Its transaction is to commit its value.
Recorded(r) == \E s \in Site : writeRecords[r.tran][s][r.var] = r.value

\* asked has the writes of running transactions, each with its fate.
AskedInv ==
  /\ \A t \in Tran, x \in Var : asked[t][x] # None =>
       /\ t \in Transactions
       /\ asked[t][x] \in WriteRequest /\ asked[t][x].tran = t /\ asked[t][x].var = x
       /\ x \notin lost[t] => StillQueued(asked[t][x]) \/ Recorded(asked[t][x])
  /\ pc = "execute" /\ request # None /\ request.type = "WRITE"
       /\ request.tran \in Transactions => asked[request.tran][request.var] = request

(* Locks are assigned and released in a way that keeps OneKind.            *)
LEMMA ExecOneKind ==
  ASSUME DbTypeOK, LockInv, OneKind, NEW r \in AnyRequest, Exec(r)
  PROVE  OneKind'
<1>0. /\ None \notin Tran
      /\ \A s \in Site, x \in Var : sharedOwners[s][x] \subseteq Tran
  BY GlobalAssumption DEF DbTypeOK, LockTypeOK
<1>1. CASE UNCHANGED <<sharedOwners, exclusiveOwner>>
  BY <1>1 DEF OneKind
<1>2. ASSUME NEW T, ReleaseLocks(T)
      PROVE  OneKind'
  <2>1. \A s \in Site, x \in Var : /\ sharedOwners'[s][x] \subseteq sharedOwners[s][x]
                                   /\ exclusiveOwner'[s][x] \in {None, exclusiveOwner[s][x]}
    BY <1>2 DEF ReleaseLocks
  <2> QED BY <1>0, <2>1 DEF OneKind
<1>3. CASE r.type = "READ" /\ ExecRead(r)
  <2>1. r.tran \in Tran /\ r.var \in Var
    BY <1>3, RequestFields
  <2>2. CASE /\ LockStatus(r.tran, r.var) = "AVAILABLE_TO_ASSIGN"
             /\ AssignShareLock(r.tran, r.var)
    <3>1. StopCopies(r.tran, r.var) = {} /\ \A s \in UpCopies(r.var) : ~CanPromote(s, r.var, r.tran)
      BY <2>2 DEF LockStatus
    <3>2. \A s \in UpCopies(r.var) : exclusiveOwner[s][r.var] = None
      BY <2>1, <3>1, GrantedCopies
    <3>3. \A s \in Site, x \in Var :
            /\ exclusiveOwner'[s][x] = exclusiveOwner[s][x]
            /\ sharedOwners'[s][x] = sharedOwners[s][x]
                 \/ (/\ exclusiveOwner[s][x] = None
                     /\ sharedOwners'[s][x] = sharedOwners[s][x] \cup {r.tran})
      BY <2>2, <3>2 DEF AssignShareLock
    <3> QED BY <1>0, <2>1, <3>3 DEF OneKind
  <2> QED BY <1>1, <1>2, <1>3, <2>2
          DEF ExecRead, ExecReadOnly, ExecReadLocked, WaitForSite, WaitForLock,
              AssignWaitForGraph, ReadOnlyAt, AbortTransactions, lockVars
<1>4. CASE r.type = "WRITE" /\ ExecWrite(r)
  <2>1. r.tran \in Tran /\ r.var \in Var
    BY <1>4, RequestFields
  <2>2. CASE /\ LockStatus(r.tran, r.var) \in {"HAS_READ_LOCK", "AVAILABLE_TO_ASSIGN"}
             /\ AssignWriteLock(r.tran, r.var)
    <3>1. StopCopies(r.tran, r.var) = {}
      BY <2>2 DEF LockStatus
    <3>2. \A s \in UpCopies(r.var) : sharedOwners[s][r.var] \subseteq {r.tran}
      BY <2>1, <3>1, GrantedCopies
    <3>3. \A s \in Site, x \in Var :
            \/ /\ exclusiveOwner'[s][x] = exclusiveOwner[s][x]
               /\ sharedOwners'[s][x] = sharedOwners[s][x]
            \/ sharedOwners'[s][x] = {}
      BY <2>2, <3>2 DEF AssignWriteLock
    <3> QED BY <3>3 DEF OneKind
  <2> QED BY <1>1, <1>4, <2>2 DEF ExecWrite, WaitForLock, AssignWaitForGraph, dbVars, lockVars
<1>5. CASE (r.type = "END" /\ ExecEnd(r)) \/ (r.type = "FAIL" /\ ExecFail(r))
  BY <1>2, <1>5 DEF ExecEnd, ExecFail, AbortTransactions
<1>6. CASE ExecBegin(r) \/ ExecRecover(r) \/ UNCHANGED dbVars
  BY <1>1, <1>6 DEF ExecBegin, ExecRecover, dbVars, lockVars
<1> QED BY <1>3, <1>4, <1>5, <1>6 DEF Exec

(* So does every step.                                                     *)
LEMMA NextOneKind == SafetyInv /\ OneKind /\ [Next]_vars => OneKind'
<1> SUFFICES ASSUME SafetyInv, OneKind, [Next]_vars
             PROVE  OneKind'
  OBVIOUS
<1>1. DbTypeOK /\ LockInv
  BY TypeParts DEF SafetyInv
<1>2. CASE UNCHANGED lockVars
  BY <1>2 DEF OneKind, lockVars
<1>3. ASSUME NEW T \in SUBSET Tran, AbortTransactions(T)
      PROVE  OneKind'
  <2>1. \A s \in Site, x \in Var : /\ sharedOwners'[s][x] \subseteq sharedOwners[s][x]
                                   /\ exclusiveOwner'[s][x] \in {None, exclusiveOwner[s][x]}
    BY <1>3 DEF AbortTransactions, ReleaseLocks
  <2>2. \A s \in Site, x \in Var : None \notin sharedOwners[s][x]
    BY <1>1, GlobalAssumption DEF DbTypeOK, LockTypeOK
  <2> QED BY <2>1, <2>2 DEF OneKind
<1> QED BY <1>1, <1>2, <1>3, StepKinds, ExecOneKind
(* A request takes nothing from a transaction that goes on running, but    *)
(* for the records that its own writes replace.                            *)
LEMMA ExecKeepsAsked ==
  ASSUME DbTypeOK, RecordsPending, NEW r \in AnyRequest, Exec(r),
         r.type = "WRITE" => r.tran \in Transactions,
         NEW t \in Transactions, t \in Transactions'
  PROVE  /\ blockedQueue[t] \subseteq blockedQueue'[t]
         /\ \A s \in Site, x \in Var :
              \/ r.type = "WRITE" /\ r.tran = t /\ r.var = x
              \/ writeRecords'[t][s][x] = writeRecords[t][s][x]
<1> DEFINE Kept == /\ blockedQueue[t] \subseteq blockedQueue'[t]
                   /\ writeRecords'[t] = writeRecords[t]
<1>0. t \in Tran
  BY DEF Transactions
<1>1. ASSUME NEW T, AbortTransactions(T)
      PROVE  Kept
  <2>1. t \notin T
    BY <1>0, <1>1 DEF AbortTransactions, Evict, Transactions
  <2> QED BY <1>0, <1>1, <2>1 DEF AbortTransactions, Evict
<1>2. CASE r.type = "READ" /\ ExecRead(r)
  <2>1. CASE AddRequestToBlockedQueue(r) /\ UNCHANGED writeRecords
    BY <1>0, <2>1 DEF AddRequestToBlockedQueue, DbTypeOK
  <2>2. CASE UNCHANGED <<blockedQueue, writeRecords>>
    BY <2>2
  <2>3. \/ \E T : AbortTransactions(T)
        \/ AddRequestToBlockedQueue(r) /\ UNCHANGED writeRecords
        \/ UNCHANGED <<blockedQueue, writeRecords>>
    BY <1>2 DEF ExecRead, ExecReadOnly, ExecReadLocked, WaitForSite, WaitForLock, ReadOnlyAt,
                AddReadHistory, tranVars
  <2> QED BY <1>1, <2>1, <2>2, <2>3
<1>3. CASE r.type = "WRITE" /\ ExecWrite(r)
  <2>1. r \in WriteRequest /\ r.tran \in Transactions
    BY <1>3, RequestFields
  <2>2. blockedQueue[t] \subseteq blockedQueue'[t]
    BY <1>0, <1>3 DEF ExecWrite, WaitForLock, AddRequestToBlockedQueue, dbVars, DbTypeOK
  <2>3. CASE Rests
    BY <2>2, <2>3 DEF Rests
  <2>4. ASSUME NEW S \in SUBSET Site, GrantedWrite(r.tran, r.var, r.value, S),
               NEW s \in Site, NEW x \in Var, ~(r.tran = t /\ r.var = x)
        PROVE  writeRecords'[t][s][x] = writeRecords[t][s][x]
    BY <1>0, <2>4 DEF GrantedWrite
  <2> QED BY <1>3, <2>1, <2>2, <2>3, <2>4, WriteKinds
<1>4. CASE r.type = "END" /\ ExecEnd(r)
  <2>1. CASE Evict({r.tran}, "committed") /\ UNCHANGED blockedQueue
    <3>1. t # r.tran
      BY <1>0, <2>1 DEF Evict, Transactions
    <3> QED BY <1>0, <2>1, <3>1 DEF Evict
  <2> QED BY <1>1, <1>4, <2>1 DEF ExecEnd
<1>5. CASE r.type = "FAIL" /\ ExecFail(r)
  BY <1>1, <1>5 DEF ExecFail
<1>6. CASE ExecBegin(r) \/ ExecRecover(r) \/ UNCHANGED dbVars
  BY <1>6 DEF ExecBegin, AddTransaction, ExecRecover, dbVars, tranVars
<1> QED BY <1>2, <1>3, <1>4, <1>5, <1>6 DEF Exec

(* A write that is not dropped is queued or recorded; an older write of    *)
(* its transaction for the same replicated variable replaces no record,    *)
(* because the transaction has the exclusive lock of a copy then.          *)
LEMMA WriteLands ==
  ASSUME DbTypeOK, LockInv, RecordsPending, OneKind,
         NEW r \in WriteRequest, r.tran \in Transactions, ExecWrite(r)
  PROVE  /\ \/ LockStatus(r.tran, r.var) = "HAS_WRITE_LOCK" /\ ~IsOdd(r.var)
            \/ LockStatus(r.tran, r.var) # "NEED_TO_WAIT" /\ UpCopies(r.var) = {}
            \/ LockStatus(r.tran, r.var) = "NEED_TO_WAIT" /\ r \in blockedQueue'[r.tran]
            \/ Recorded(r)'
         /\ ~IsOdd(r.var) => \A s \in Site :
              writeRecords[r.tran][s][r.var] # None =>
                writeRecords'[r.tran][s][r.var] = writeRecords[r.tran][s][r.var]
<1> DEFINE t == r.tran
           x == r.var
           answer == LockStatus(t, x)
           Lands(S) == UpdateValues(t, S, x, r.value) /\ S \in SUBSET Site /\ S # {}
<1>1. t \in Tran /\ x \in Var
  BY DEF WriteRequest
<1>2. UpCopies(x) \subseteq Site /\ (IsOdd(x) => HomeSite(x) \in Site)
  BY <1>1, CopyPlacement DEF UpCopies
<1>3. ASSUME NEW S, Lands(S)
      PROVE  Recorded(r)'
  <2>1. \A s \in S : writeRecords'[t][s][x] = r.value
    BY <1>1, <1>3 DEF UpdateValues, DbTypeOK, TranTypeOK
  <2> QED BY <1>3, <2>1 DEF Recorded
<1>4. \/ answer = "HAS_WRITE_LOCK" /\ ~IsOdd(x)
      \/ answer # "NEED_TO_WAIT" /\ UpCopies(x) = {}
      \/ answer = "NEED_TO_WAIT" /\ r \in blockedQueue'[t]
      \/ Recorded(r)'
  <2>1. CASE answer = "NEED_TO_WAIT" /\ WaitForLock(r)
    BY <1>1, <2>1 DEF WaitForLock, AddRequestToBlockedQueue, DbTypeOK
  <2>2. CASE answer = "SITE_UNAVAILABLE"
    BY <2>2 DEF LockStatus
  <2>3. CASE answer = "HAS_WRITE_LOCK" /\ IsOdd(x) /\ UpdateValues(t, {HomeSite(x)}, x, r.value)
    BY <1>2, <1>3, <2>3
  <2>4. CASE answer \in {"HAS_READ_LOCK", "AVAILABLE_TO_ASSIGN"} /\ UpdateValues(t, UpCopies(x), x, r.value)
    BY <1>2, <1>3, <2>4
  <2> QED BY <2>1, <2>2, <2>3, <2>4 DEF ExecWrite
<1>5. ASSUME ~IsOdd(x), NEW s \in Site, writeRecords[t][s][x] # None
      PROVE  writeRecords'[t][s][x] = writeRecords[t][s][x]
  <2>1. s \in UpCopies(x) /\ exclusiveOwner[s][x] = t
    BY <1>1, <1>5 DEF RecordsPending
  <2>2. s \in StopCopies(t, x)
    BY <1>1, <1>5, <2>1 DEF OneKind, StopCopies, CanPromote, HasSharedLock, HasExclusiveLock
  <2>3. answer \in {"NEED_TO_WAIT", "HAS_WRITE_LOCK"}
    BY <2>2 DEF LockStatus
  <2>4. Rests
    BY <1>1, <1>5, <2>3, WriteKinds DEF GrantedWrite
  <2> QED BY <2>4 DEF Rests
<1> QED BY <1>4, <1>5
(* What has been asked stays pending or recorded until it is known to be   *)
(* lost.                                                                   *)
LEMMA AskedFate ==
  ASSUME SafetyInv, CopyInv, OneKind, AskedInv, Next, HistNext,
         NEW t \in Tran, NEW x \in Var, NEW a, a = asked[t][x], a # None,
         asked'[t][x] = a, x \notin lost'[t]
  PROVE  StillQueued(a)' \/ Recorded(a)'
<1>0. DbTypeOK /\ ControlTypeOK /\ LockInv /\ RecordsPending
  BY TypeParts, PendingRecords DEF SafetyInv
<1>1. /\ a \in WriteRequest /\ a.type = "WRITE" /\ a.tran = t /\ a.var = x
      /\ t \in Transactions /\ t \in Transactions'
  <2>1. a \in WriteRequest /\ a.tran = t /\ a.var = x /\ t \in Transactions
    BY DEF AskedInv
  <2> QED BY <2>1 DEF WriteRequest, HistNext
<1>2. /\ x \notin lost[t] /\ ~OvertakenWrite(t, x)
      /\ ExecutesWrite(a) => ~DropsWrite(a)
  BY DEF HistNext, LostNext
<1>3. StillQueued(a) \/ Recorded(a)
  BY <1>2 DEF AskedInv
<1>4. ASSUME ~(pc = "execute" /\ request = a), UNCHANGED <<retryQueue, finishedSet>>,
             blockedQueue[t] \subseteq blockedQueue'[t],
             \A s \in Site : writeRecords'[t][s][x] = writeRecords[t][s][x]
      PROVE  StillQueued(a)' \/ Recorded(a)'
  BY <1>1, <1>3, <1>4 DEF StillQueued, Recorded
<1>5. CASE ReadScript
  BY <1>4, <1>5 DEF ReadScript, BeginLine, EndLine, ReadLine, WriteLine, FaultLine,
     AddInstruction, loopVars, tranVars
<1>6. CASE BreakDeadlock
  <2>1. PICK u \in Youngest : AbortTransactions({u}) /\ UNCHANGED <<pc, request, loopVars>>
    BY <1>1, <1>6 DEF BreakDeadlock
  <2>2. t # u
    BY <1>1, <2>1 DEF AbortTransactions, Evict, Transactions
  <2>3. blockedQueue'[t] = blockedQueue[t] /\ writeRecords'[t] = writeRecords[t]
    BY <2>1, <2>2 DEF AbortTransactions, Evict
  <2> QED BY <1>1, <1>3, <2>1, <2>3 DEF StillQueued, Recorded, loopVars
<1>7. CASE DropRequest \/ QueueRequest \/ ThrowInRequest
  <2>1. request # a
    BY <1>1, <1>7 DEF DropRequest, RequestIsStale, QueueRequest, ThrowInRequest, ThrowsErrorStatus
  <2>2. /\ blockedQueue[t] \subseteq blockedQueue'[t]
        /\ UNCHANGED <<writeRecords, retryQueue, finishedSet>>
    BY <1>0, <1>7 DEF DropRequest, QueueRequest, ThrowInRequest, AddRequestToBlockedQueue,
                      dbVars, tranVars, loopVars, DbTypeOK
  <2> QED BY <1>4, <2>1, <2>2
<1>8. CASE ExecWhileWaiting \/ ExecRequest
  <2>0. pc = "execute" /\ ~DetectDeadlock /\ ~RequestIsStale /\ UNCHANGED <<retryQueue, finishedSet>>
    BY <1>8 DEF ExecWhileWaiting, ExecRequest, loopVars
  <2>1. CASE request = None
    BY <1>4, <1>8, <2>0, <2>1 DEF ExecWhileWaiting, ExecRequest, RequestMustWait, dbVars, tranVars
  <2>2. CASE request # None
    <3>1. request \in AnyRequest /\ Exec(request)
      BY <1>0, <1>8, <2>2 DEF ExecWhileWaiting, ExecRequest, ControlTypeOK
    <3>2. request.type = "WRITE" => request.tran \in Transactions
      BY <2>0, <2>2 DEF RequestIsStale, HasTran
    <3>3. CASE request = a
      <4>1. ExecWrite(a) /\ ~DropsWrite(a)
        BY <1>1, <1>2, <2>0, <3>1, <3>3 DEF Exec, ExecutesWrite
      <4>2. Recorded(a)' \/ a \in blockedQueue'[t]
        BY <1>0, <1>1, <4>1, WriteLands DEF DropsWrite
      <4>3. finishedSet' = {}
        BY <2>0 DEF SafetyInv, WalkInv
      <4> QED BY <1>1, <4>2, <4>3 DEF StillQueued
    <3>4. CASE request # a
      <4>1. ~(request.type = "WRITE" /\ request.tran = t /\ request.var = x)
        BY <1>1, <2>0, <2>2, <3>4 DEF AskedInv
      <4> QED BY <1>0, <1>1, <1>4, <2>0, <3>1, <3>2, <3>4, <4>1, ExecKeepsAsked
    <3> QED BY <3>3, <3>4
  <2> QED BY <2>1, <2>2
<1>9. CASE RetryVisit
  <2>1. pc = "retry" /\ retryQueue = {} /\ UNCHANGED <<blockedQueue, writeRecords>>
    BY <1>9 DEF RetryVisit, dbVars, tranVars
  <2>2. PICK u \in todo : \/ UNCHANGED <<finishedSet, retryQueue>>
                          \/ finishedSet' = finishedSet \cup {u} /\ retryQueue' = blockedQueue[u]
    BY <1>9 DEF RetryVisit
  <2> QED BY <1>1, <1>3, <2>1, <2>2 DEF StillQueued, Recorded
<1>10. CASE RetryExec
  <2> DEFINE r == Earliest(retryQueue)
  <2>1. /\ pc = "retry" /\ r \in retryQueue /\ Exec(r)
        /\ retryQueue' = retryQueue \ {r} /\ finishedSet' = finishedSet
        /\ r = Executing
    BY <1>0, <1>10, EarliestInQueue DEF RetryExec, ControlTypeOK, Executing
  <2>2. r \in AnyRequest /\ r.tran \in Transactions
    BY <2>1, RetriedRequest
  <2> HIDE DEF r
  <2>3. CASE r = a
    <3>1. ExecWrite(a) /\ ~DropsWrite(a)
      BY <1>1, <1>2, <2>1, <2>3 DEF Exec, ExecutesWrite
    <3> QED BY <1>0, <1>1, <2>1, <3>1, WriteLands DEF DropsWrite
  <2>4. CASE r # a
    <3>1. CASE StillQueued(a)
      <4>1. blockedQueue[t] \subseteq blockedQueue'[t]
        BY <1>0, <1>1, <2>1, <2>2, ExecKeepsAsked
      <4> QED BY <1>1, <2>1, <2>4, <3>1, <4>1 DEF StillQueued
    <3>2. ASSUME NEW s \in Site, writeRecords[t][s][x] = a.value
          PROVE  writeRecords'[t][s][x] = a.value
      <4>1. CASE r.type = "WRITE" /\ r.tran = t /\ r.var = x
        <5>1. ~IsOdd(x) /\ r \in WriteRequest /\ ExecWrite(r)
          BY <1>2, <2>1, <2>2, <2>4, <4>1, RequestFields DEF OvertakenWrite, Exec
        <5>2. a.value # None
          BY <1>1, GlobalAssumption DEF WriteRequest
        <5> QED BY <1>0, <1>1, <3>2, <4>1, <5>1, <5>2, WriteLands
      <4>2. CASE ~(r.type = "WRITE" /\ r.tran = t /\ r.var = x)
        BY <1>0, <1>1, <2>1, <2>2, <3>2, <4>2, ExecKeepsAsked
      <4> QED BY <4>1, <4>2
    <3> QED BY <1>1, <1>3, <3>1, <3>2 DEF Recorded
  <2> QED BY <2>3, <2>4
<1>11. CASE FinishRetry
  <2>1. /\ pc = "retry" /\ retryQueue = {} /\ finishedSet' = {}
        /\ t \notin finishedSet => blockedQueue'[t] = blockedQueue[t]
        /\ writeRecords' = writeRecords
    BY <1>11 DEF FinishRetry, tranVars
  <2> QED BY <1>1, <1>3, <2>1 DEF StillQueued, Recorded
<1>12. CASE ThrowInRetry \/ EndOfFile \/ DrainPass \/ Dump \/ Terminated
  <2>1. pc # "execute" /\ UNCHANGED <<blockedQueue, writeRecords, retryQueue, finishedSet>>
    BY <1>12 DEF ThrowInRetry, EndOfFile, DrainPass, Dump, Terminated, vars, tmVars, dbVars,
                 tranVars, loopVars
  <2> QED BY <1>4, <2>1
<1> QED BY <1>5, <1>6, <1>7, <1>8, <1>9, <1>10, <1>11, <1>12
        DEF Next, Execute, ExecuteInstructions
(* Only a line of the script is asked.                                     *)
LEMMA LineAsked ==
  ASSUME SafetyInv, Next, NEW t \in Tran, NEW x \in Var, ReadsWriteLine(t, x)
  PROVE  request' \in WriteRequest
<1>1. pc = "ready" /\ pc' = "execute" /\ phase = "reading"
  BY DEF ReadsWriteLine
<1>2. ~Execute
  BY <1>1 DEF Execute, ExecuteInstructions, BreakDeadlock, DropRequest, QueueRequest,
              ExecWhileWaiting, ExecRequest, ThrowInRequest, RetryVisit, RetryExec,
              ThrowInRetry, FinishRetry
<1>3. ~EndOfFile
  BY <1>1 DEF EndOfFile, tmVars
<1>4. ~DrainPass /\ ~Dump
  BY <1>1 DEF DrainPass, Dump
<1>5. ~Terminated
  BY <1>1 DEF Terminated
<1>6. ReadScript
  BY <1>2, <1>3, <1>4, <1>5 DEF Next
<1>7. request' \in AnyRequest /\ request'.type = "WRITE"
  BY <1>6, ReadScriptRequest DEF SafetyInv, ReadsWriteLine
<1> QED BY <1>7, RequestFields

(* The write that is executed when its line is read is what its            *)
(* transaction asked last.                                                 *)
LEMMA CurrentAsked ==
  ASSUME SafetyInv, AskedInv, Next, HistNext, pc' = "execute", request' # None,
         request'.type = "WRITE", request'.tran \in Transactions'
  PROVE  asked'[request'.tran][request'.var] = request'
<1> DEFINE t == request'.tran
           x == request'.var
<1>1. t \in Tran
  BY DEF Transactions
<1>2. CASE ReadScript
  <2>1. x \in Var
    BY <1>2, ReadScriptRequest, RequestFields DEF SafetyInv
  <2>2. ReadsWriteLine(t, x)
    BY <1>2 DEF ReadsWriteLine, ReadScript, BeginLine, EndLine, ReadLine, WriteLine, FaultLine,
                AddInstruction
  <2> QED BY <1>1, <2>1, <2>2 DEF HistNext
<1>3. CASE BreakDeadlock
  <2>1. pc = "execute" /\ request' = request
    BY <1>3 DEF BreakDeadlock
  <2>2. t \in Transactions
    BY <1>1, <1>3 DEF BreakDeadlock, AbortTransactions, Evict, Transactions, dbVars, tranVars
  <2>3. request \in AnyRequest
    BY <2>1, TypeParts DEF SafetyInv, ControlTypeOK
  <2>4. asked[t][x] = request /\ x \in Var
    BY <2>1, <2>2, <2>3, RequestFields DEF AskedInv
  <2>5. ~ReadsWriteLine(t, x)
    BY <2>1 DEF ReadsWriteLine
  <2> QED BY <1>1, <2>1, <2>4, <2>5 DEF HistNext
<1>4. CASE DrainPass \/ Dump
  BY <1>4 DEF DrainPass, Dump, SafetyInv, RequestInv
<1> QED BY <1>2, <1>3, <1>4
        DEF Next, Execute, ExecuteInstructions, DropRequest, QueueRequest, ExecWhileWaiting,
            ExecRequest, ThrowInRequest, RetryVisit, RetryExec, ThrowInRetry, FinishRetry,
            EndOfFile, Terminated, vars, tmVars

(* Every step keeps the account of what has been asked.                    *)
LEMMA NextAsked ==
  ASSUME RefinementInv, OneKind, AskedInv, [Next /\ HistNext]_allVars
  PROVE  OneKind' /\ AskedInv'
<1>0. SafetyInv /\ CopyInv /\ SafetyInv' /\ OneKind'
  BY NextSafe, NextOneKind DEF RefinementInv, allVars
<1>1. CASE UNCHANGED allVars
  <2>1. UNCHANGED <<pc, request, retryQueue, finishedSet, blockedQueue, writeRecords, status,
                    asked, lost>>
    BY <1>1 DEF allVars, histVars, vars, tmVars, dbVars, tranVars, loopVars
  <2> QED BY <1>0, <2>1 DEF AskedInv, StillQueued, Recorded, Transactions
<1>2. CASE Next /\ HistNext
  <2>1. ASSUME NEW t \in Tran, NEW x \in Var, asked'[t][x] # None,
               NEW a, a = asked'[t][x]
        PROVE  /\ t \in Transactions' /\ a \in WriteRequest /\ a.tran = t /\ a.var = x
               /\ x \notin lost'[t] => StillQueued(a)' \/ Recorded(a)'
    <3>1. t \in Transactions'
      BY <1>2, <2>1 DEF HistNext
    <3>2. CASE ReadsWriteLine(t, x)
      <4>1. a = request'
        BY <1>2, <2>1, <3>1, <3>2 DEF HistNext
      <4> QED BY <1>0, <1>2, <3>1, <3>2, <4>1, LineAsked DEF ReadsWriteLine, StillQueued
    <3>3. CASE ~ReadsWriteLine(t, x)
      <4>1. asked[t][x] = a
        BY <1>2, <2>1, <3>1, <3>3 DEF HistNext
      <4> QED BY <1>0, <1>2, <2>1, <3>1, <4>1, AskedFate DEF AskedInv
    <3> QED BY <3>2, <3>3
  <2>2. pc' = "execute" /\ request' # None /\ request'.type = "WRITE"
          /\ request'.tran \in Transactions' => asked'[request'.tran][request'.var] = request'
    BY <1>0, <1>2, CurrentAsked
  <2>3. AskedInv'
    BY <2>1, <2>2 DEF AskedInv
  <2> QED BY <1>0, <2>3
<1> QED BY <1>1, <1>2

(* When a transaction commits, none of its requests is left.               *)
LEMMA EndComesLast ==
  ASSUME SafetyInv, [Next]_vars, NEW t \in Tran, CommitStep(t)
  PROVE  /\ pc = "execute" => request.type = "END" /\ blockedQueue[t] = {}
         /\ \A r \in retryQueue : r.tran = t => r.type = "END"
         /\ pc = "execute" \/ (pc = "retry" /\ t \in finishedSet)
<1>0. ControlTypeOK
  BY TypeParts DEF SafetyInv
<1>1. /\ Executing.type = "END" /\ Executing.tran = t
      /\ status[t] = "active" /\ status'[t] = "committed"
  BY DEF CommitStep, Evict, Transactions
<1>2. CASE pc = "execute"
  <2>1. request.type = "END" /\ request.tran = t /\ retryQueue = {} /\ HasTran(request)
    BY <1>1, <1>2 DEF Executing, SafetyInv, WalkInv, HasTran
  <2>2. ~RequestMustWait
    BY <1>1, <1>2, <2>1
       DEF Next, Execute, ExecuteInstructions, BreakDeadlock, DropRequest, QueueRequest,
           ExecWhileWaiting, ExecRequest, ThrowInRequest, RetryVisit, RetryExec, ThrowInRetry,
           FinishRetry, ReadScript, BeginLine, EndLine, ReadLine, WriteLine, FaultLine,
           AddInstruction, EndOfFile, DrainPass, Dump, Terminated, AbortTransactions, Evict,
           vars, tmVars, dbVars, tranVars
  <2>3. request # None
    BY <1>2 DEF CommitStep
  <2> QED BY <1>2, <2>1, <2>2, <2>3 DEF RequestMustWait
<1>3. CASE pc = "retry"
  <2>1. retryQueue # {}
    BY <1>1, <1>3
       DEF Next, Execute, ExecuteInstructions, BreakDeadlock, DropRequest, QueueRequest,
           ExecWhileWaiting, ExecRequest, ThrowInRequest, RetryVisit, RetryExec, ThrowInRetry,
           FinishRetry, ReadScript, BeginLine, EndLine, ReadLine, WriteLine, FaultLine,
           AddInstruction, EndOfFile, DrainPass, Dump, Terminated, AbortTransactions, Evict,
           vars, tmVars, dbVars, tranVars
  <2>2. /\ Executing \in retryQueue
        /\ \A q \in retryQueue : Executing.timestamp <= q.timestamp
    BY <1>0, <1>3, <2>1, EarliestInQueue DEF ControlTypeOK, Executing
  <2>3. t \in finishedSet
    BY <1>1, <2>2 DEF SafetyInv, WalkInv
  <2>4. ASSUME NEW r \in retryQueue, r.tran = t
        PROVE  r = Executing
    <3>1. r \in Queued(t) /\ Executing \in Queued(t)
      BY <1>1, <2>2, <2>4 DEF Queued
    <3>2. r # Executing => r.timestamp < Executing.timestamp
      BY <1>1, <3>1 DEF SafetyInv, QueueInv
    <3>3. r.timestamp \in Nat /\ Executing.timestamp \in Nat
      BY <2>2, RetriedRequest, RequestFields
    <3> QED BY <2>2, <3>2, <3>3
  <2> QED BY <1>1, <1>3, <2>3, <2>4
<1> QED BY <1>2, <1>3 DEF CommitStep

(* So what it commits is what it has recorded.                             *)
LEMMA CommitsAsked ==
  ASSUME RefinementInv, AskedInv, [Next]_vars, NEW t \in Tran
  PROVE  CommitsUnlost(t)
<1> SUFFICES ASSUME Commits(t), NEW x \in Var, x \notin lost[t], asked[t][x] # None
             PROVE  lastCommitted'[x] = asked[t][x].value
  BY DEF CommitsUnlost
<1> DEFINE a == asked[t][x]
<1>0. SafetyInv /\ DbTypeOK /\ RecordsPending
  BY TypeParts, PendingRecords DEF RefinementInv, SafetyInv
<1>1. a \in WriteRequest /\ a.type = "WRITE" /\ a.tran = t /\ a.var = x /\ a.value # None
  <2>1. a \in WriteRequest /\ a.tran = t /\ a.var = x
    BY DEF AskedInv
  <2> QED BY <2>1, GlobalAssumption DEF WriteRequest
<1>2. CommitStep(t)
  <2>1. ~QuietStep
    BY DEF QuietStep, Commits, Transactions
  <2>2. ASSUME NEW u \in Tran, BeginStep(u)
        PROVE  FALSE
    BY <1>0, <2>2 DEF BeginStep, AddTransaction, Commits, Transactions, DbTypeOK, TranTypeOK
  <2>3. ASSUME NEW u \in Tran, CommitStep(u)
        PROVE  u = t
    BY <2>3 DEF CommitStep, Evict, Commits, Transactions
  <2> QED BY <1>0, <2>1, <2>2, <2>3, SnapshotSteps
<1>3. ~StillQueued(a)
  BY <1>0, <1>1, <1>2, EndComesLast DEF StillQueued
<1>4. PICK s \in Site : writeRecords[t][s][x] = a.value
  BY <1>1, <1>3 DEF AskedInv, Recorded
<1>5. PendingValue(t, x) = a.value
  BY <1>0, <1>1, <1>4 DEF RecordsPending
<1>6. \E u \in Site : writeRecords[t][u][x] # None
  BY <1>1, <1>4
<1>7. lastCommitted'[x] = PendingValue(t, x)
  BY <1>2, <1>6 DEF CommitStep, InstallWrites, PendingValue
<1> QED BY <1>5, <1>7

(* A write goes missing for the known reasons only.                        *)
THEOREM LostUpdatesAccounted == PromiseSpec => LostUpdatesExplained
<1> DEFINE I == RefinementInv /\ OneKind /\ AskedInv
<1>1. Init /\ HistInit => I
  <2>1. Init /\ HistInit => OneKind /\ AskedInv
    BY DEF Init, HistInit, LockInit, TMInit, OneKind, AskedInv
  <2> QED BY <2>1, InitSafe, InitCopies, InitSeen DEF RefinementInv
<1>2. I /\ [Next /\ HistNext]_allVars => I'
  BY NextRefinement, NextAsked
<1>3. I /\ [Next /\ HistNext]_allVars => [\A t \in Tran : CommitsUnlost(t)]_vars
  BY CommitsAsked DEF allVars
<1> QED BY <1>1, <1>2, <1>3, PTL DEF PromiseSpec, allVars, LostUpdatesExplained
=============================================================================
