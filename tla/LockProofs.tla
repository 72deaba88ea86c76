----------------------------- MODULE LockProofs -----------------------------
(***************************************************************************)
(* The lock manager: the scan of try_acquire_write_lock answers as the     *)
(* rest of the specification takes it to, and every request keeps the lock *)
(* invariant, LockInv of module Properties.                                *)
(***************************************************************************)
EXTENDS LockScan, RepCRecTypes

(* The two parts of LockInv about Holders, spelled out.                    *)
SharersAlone ==
  \A s \in Site, x \in Var : \A t \in sharedOwners[s][x] :
    sharedOwners[s][x] = {t} /\ exclusiveOwner[s][x] \in {None, t}

LockedInTable ==
  \A s \in Site, x \in Var, t \in Tran :
    t \in sharedOwners[s][x] \/ exclusiveOwner[s][x] = t
      => t \in Transactions /\ x \in lockTable[t] /\ s \in CopySites(x)

(* They say the same, in every state and in the next one.                  *)
LEMMA HoldersFacts ==
  /\ LockTypeOK => (LockExclusion <=> SharersAlone) /\ (NoOrphanLocks <=> LockedInTable)
  /\ LockTypeOK' => /\ LockExclusion' <=> SharersAlone'
                    /\ NoOrphanLocks' <=> LockedInTable'
<1>1. None \notin Tran
  BY GlobalAssumption
<1>2. ASSUME LockTypeOK
      PROVE  (LockExclusion <=> SharersAlone) /\ (NoOrphanLocks <=> LockedInTable)
  <2>1. \A s \in Site, x \in Var : /\ sharedOwners[s][x] \subseteq Tran
                                   /\ exclusiveOwner[s][x] \in Tran \cup {None}
    BY <1>2 DEF LockTypeOK
  <2>2. LockExclusion <=> SharersAlone
    BY <2>1, <1>1 DEF LockExclusion, SharersAlone, Holders
  <2>3. NoOrphanLocks <=> LockedInTable
    BY <2>1, <1>1 DEF NoOrphanLocks, LockedInTable, Holders
  <2> QED BY <2>2, <2>3
<1>3. ASSUME LockTypeOK'
      PROVE  (LockExclusion' <=> SharersAlone') /\ (NoOrphanLocks' <=> LockedInTable')
  <2>1. \A s \in Site, x \in Var : /\ sharedOwners'[s][x] \subseteq Tran
                                   /\ exclusiveOwner'[s][x] \in Tran \cup {None}
    BY <1>3 DEF LockTypeOK
  <2>2. LockExclusion' <=> SharersAlone'
    BY <2>1, <1>1 DEF LockExclusion, SharersAlone, Holders
  <2>3. NoOrphanLocks' <=> LockedInTable'
    BY <2>1, <1>1 DEF NoOrphanLocks, LockedInTable, Holders
  <2> QED BY <2>2, <2>3
<1> QED BY <1>2, <1>3

(* A step that leaves locks and pending writes alone, starts transactions  *)
(* or lets sites come up, keeps the lock invariant.                        *)
LEMMA LocksUntouched ==
  ASSUME DbTypeOK, LockInv, UNCHANGED <<lockVars, writeRecords>>,
         Transactions \subseteq Transactions',
         \A s \in Site : writeAvailable[s] => writeAvailable'[s]
  PROVE  LockInv'
<1>1. LockExclusion' /\ OneWriter'
  BY DEF LockInv, LockExclusion, OneWriter, Holders, lockVars
<1>2. NoOrphanLocks' /\ WaitersActive'
  BY DEF LockInv, NoOrphanLocks, WaitersActive, Holders, lockVars
<1>3. RecordsLocked'
  BY DEF LockInv, RecordsLocked, lockVars
<1> QED BY <1>1, <1>2, <1>3 DEF LockInv

(* A lock that is granted was free, or held by the same transaction alone. *)
LEMMA GrantedCopies ==
  ASSUME DbTypeOK, LockInv, NEW t \in Tran, NEW x \in Var, StopCopies(t, x) = {},
         NEW s \in UpCopies(x)
  PROVE  /\ s \in Site /\ s \in CopySites(x) /\ writeAvailable[s]
         /\ sharedOwners[s][x] \subseteq {t}
         /\ exclusiveOwner[s][x] \in {None, t}
         /\ ~CanPromote(s, x, t) => sharedOwners[s][x] = {} /\ exclusiveOwner[s][x] = None
<1>1. s \in Site /\ s \in CopySites(x) /\ writeAvailable[s]
  BY HomeSiteType DEF UpCopies, CopySites
<1>2. SharersAlone
  BY HoldersFacts DEF DbTypeOK, LockInv
<1>3. ~MustWait(s, x, t) /\ (CanPromote(s, x, t) \/ ~HasExclusiveLock(s, x, t))
  BY DEF StopCopies
<1>4. CASE CanPromote(s, x, t)
  BY <1>1, <1>2, <1>4 DEF SharersAlone, CanPromote, HasSharedLock
<1>5. CASE ~CanPromote(s, x, t)
  BY <1>1, <1>3, <1>5 DEF MustWait, HasSharedLock, HasSharedLockExcludeSelf,
     HasExclusiveLock, HasExclusiveLockExcludeSelf
<1> QED BY <1>1, <1>4, <1>5

(* Getting the exclusive lock of all up copies, with the write recorded.   *)
LEMMA WriteLockGranted ==
  ASSUME DbTypeOK, DbTypeOK', LockInv,
         NEW t \in Transactions, NEW x \in Var, NEW v \in Value,
         StopCopies(t, x) = {}, UNCHANGED siteVars,
         UpdateValues(t, UpCopies(x), x, v), AssignWriteLock(t, x)
  PROVE  LockInv'
<1> DEFINE Up == UpCopies(x)
<1>0. t \in Tran /\ Transactions' = Transactions /\ None \notin Tran /\ None \notin Value
  BY GlobalAssumption DEF Transactions, UpdateValues
<1>1. \A s \in Up : /\ s \in Site /\ s \in CopySites(x) /\ writeAvailable[s]
                    /\ sharedOwners[s][x] \subseteq {t}
                    /\ exclusiveOwner[s][x] \in {None, t}
  BY <1>0, GrantedCopies
<1>2. \A s \in Site, y \in Var :
        /\ sharedOwners'[s][y] = IF y = x /\ s \in Up THEN {} ELSE sharedOwners[s][y]
        /\ exclusiveOwner'[s][y] = IF y = x /\ s \in Up THEN t ELSE exclusiveOwner[s][y]
  BY <1>1 DEF AssignWriteLock
<1>3. /\ \A u \in Tran : lockTable[u] \subseteq lockTable'[u]
      /\ Up # {} => x \in lockTable'[t]
      /\ waitForGraph' = waitForGraph
  BY <1>0 DEF AssignWriteLock, DbTypeOK, LockTypeOK
<1>4. \A u \in Tran, s \in Site, y \in Var :
        writeRecords'[u][s][y] = IF u = t /\ s \in Up /\ y = x THEN v
                                 ELSE writeRecords[u][s][y]
  BY <1>0 DEF UpdateValues, DbTypeOK, TranTypeOK
<1>5. SharersAlone /\ LockedInTable
  BY HoldersFacts DEF DbTypeOK, LockInv
<1>6. OneWriter /\ RecordsLocked /\ WaitersActive
  BY DEF LockInv
<1>7. SharersAlone'
  BY <1>0, <1>2, <1>5 DEF SharersAlone
<1>8. LockedInTable'
  BY <1>0, <1>1, <1>2, <1>3, <1>5 DEF LockedInTable
<1>9. OneWriter'
  <2>1. ASSUME NEW s \in Site, exclusiveOwner[s][x] # None
        PROVE  s \in Up
    <3>1. exclusiveOwner[s][x] \in Tran
      BY <2>1 DEF DbTypeOK, LockTypeOK
    <3>2. s \in CopySites(x) /\ writeAvailable[s]
      BY <3>1, <1>5, <1>6 DEF LockedInTable, RecordsLocked
    <3> QED BY <3>2 DEF UpCopies
  <2> QED BY <1>2, <1>6, <2>1 DEF OneWriter
<1>10. RecordsLocked'
  <2> SUFFICES ASSUME NEW u \in Tran, NEW s \in Site, NEW y \in Var
               PROVE  /\ exclusiveOwner'[s][y] = u <=> writeRecords'[u][s][y] # None
                      /\ writeRecords'[u][s][y] # None => writeAvailable'[s]
    BY DEF RecordsLocked
  <2>1. writeAvailable' = writeAvailable
    BY DEF siteVars
  <2>2. CASE y = x /\ s \in Up
    <3>1. u # t => writeRecords[u][s][y] = None
      BY <1>0, <1>1, <1>6, <2>2 DEF RecordsLocked
    <3> QED BY <1>0, <1>1, <1>2, <1>4, <2>1, <2>2, <3>1
  <2>3. CASE ~(y = x /\ s \in Up)
    BY <1>2, <1>4, <1>6, <2>1, <2>3 DEF RecordsLocked
  <2> QED BY <2>2, <2>3
<1>11. WaitersActive'
  BY <1>0, <1>3, <1>6 DEF WaitersActive
<1> QED BY <1>7, <1>8, <1>9, <1>10, <1>11, HoldersFacts DEF LockInv, DbTypeOK

(* Getting the shared lock of the readable copies.                         *)
LEMMA ShareLockGranted ==
  ASSUME DbTypeOK, DbTypeOK', LockInv, NEW t \in Transactions, NEW x \in Var,
         LockStatus(t, x) = "AVAILABLE_TO_ASSIGN", AssignShareLock(t, x),
         UNCHANGED <<siteVars, status, writeRecords>>
  PROVE  LockInv'
<1> DEFINE Granted == {s \in UpCopies(x) : readAvailable[s][x]}
<1>0. t \in Tran /\ Transactions' = Transactions /\ None \notin Tran
  BY GlobalAssumption DEF Transactions
<1>1. StopCopies(t, x) = {} /\ \A s \in UpCopies(x) : ~CanPromote(s, x, t)
  BY DEF LockStatus
<1>2. \A s \in Granted : /\ s \in CopySites(x)
                         /\ sharedOwners[s][x] = {} /\ exclusiveOwner[s][x] = None
  BY <1>0, <1>1, GrantedCopies
<1>3. \A s \in Site, y \in Var :
        sharedOwners'[s][y] = IF y = x /\ s \in Granted THEN {t} ELSE sharedOwners[s][y]
  BY <1>2 DEF AssignShareLock
<1>4. /\ \A u \in Tran : lockTable[u] \subseteq lockTable'[u]
      /\ Granted # {} => x \in lockTable'[t]
      /\ UNCHANGED <<waitForGraph, exclusiveOwner>>
  BY <1>0 DEF AssignShareLock, DbTypeOK, LockTypeOK
<1>5. SharersAlone /\ LockedInTable
  BY HoldersFacts DEF DbTypeOK, LockInv
<1>6. SharersAlone'
  BY <1>2, <1>3, <1>4, <1>5 DEF SharersAlone
<1>7. LockedInTable'
  <2> SUFFICES ASSUME NEW s \in Site, NEW y \in Var, NEW u \in Tran,
                      u \in sharedOwners'[s][y] \/ exclusiveOwner'[s][y] = u
               PROVE  u \in Transactions' /\ y \in lockTable'[u] /\ s \in CopySites(y)
    BY DEF LockedInTable
  <2>1. CASE y = x /\ s \in Granted /\ u = t
    BY <1>0, <1>2, <1>4, <2>1
  <2>2. CASE u \in sharedOwners[s][y] \/ exclusiveOwner[s][y] = u
    BY <1>0, <1>4, <1>5, <2>2 DEF LockedInTable
  <2> QED BY <1>3, <1>4, <2>1, <2>2
<1>8. OneWriter' /\ RecordsLocked' /\ WaitersActive'
  BY <1>0, <1>4 DEF LockInv, OneWriter, RecordsLocked, WaitersActive, siteVars
<1> QED BY <1>6, <1>7, <1>8, HoldersFacts DEF LockInv, DbTypeOK

(* A second write of the owner of the exclusive lock.                      *)
LEMMA WriteInPlace ==
  ASSUME DbTypeOK, LockInv, NEW t \in Transactions, NEW x \in Var, NEW v \in Value,
         NEW S \in SUBSET Site, \A s \in S : exclusiveOwner[s][x] = t,
         UpdateValues(t, S, x, v), UNCHANGED <<siteVars, lockVars>>
  PROVE  LockInv'
<1>0. t \in Tran /\ Transactions' = Transactions /\ None \notin Value
  BY GlobalAssumption DEF Transactions, UpdateValues
<1>1. \A u \in Tran, s \in Site, y \in Var :
        writeRecords'[u][s][y] = IF u = t /\ s \in S /\ y = x THEN v
                                 ELSE writeRecords[u][s][y]
  BY <1>0 DEF UpdateValues, DbTypeOK, TranTypeOK
<1>2. RecordsLocked'
  BY <1>0, <1>1 DEF LockInv, RecordsLocked, lockVars, siteVars
<1>3. LockExclusion' /\ NoOrphanLocks' /\ OneWriter' /\ WaitersActive'
  BY <1>0 DEF LockInv, LockExclusion, NoOrphanLocks, OneWriter, WaitersActive,
              Holders, lockVars
<1> QED BY <1>2, <1>3 DEF LockInv

(* Waiting for a lock adds edges of a running transaction.                 *)
LEMMA WaitKeepsLocks ==
  ASSUME DbTypeOK, LockInv, NEW r \in TranRequest, r.tran \in Transactions, WaitForLock(r)
  PROVE  LockInv'
<1>1. /\ UNCHANGED <<sharedOwners, exclusiveOwner, lockTable>>
      /\ UNCHANGED <<siteVars, tranVars>>
      /\ \A t \in Tran : t # r.tran => waitForGraph'[t] = waitForGraph[t]
  BY DEF WaitForLock, AssignWaitForGraph, DbTypeOK, LockTypeOK
<1>2. Transactions' = Transactions
  BY <1>1 DEF Transactions, tranVars
<1>3. WaitersActive'
  BY <1>1, <1>2 DEF LockInv, WaitersActive
<1>4. LockExclusion' /\ NoOrphanLocks' /\ OneWriter' /\ RecordsLocked'
  BY <1>1, <1>2 DEF LockInv, LockExclusion, NoOrphanLocks, OneWriter, RecordsLocked,
                    Holders, siteVars, tranVars
<1> QED BY <1>3, <1>4 DEF LockInv

(* Transactions that release their locks and leave take nothing with them  *)
(* and leave nothing behind, if the pending writes of the others are at    *)
(* sites that are up.                                                      *)
LEMMA LeaveKeepsLocks ==
  ASSUME DbTypeOK, DbTypeOK', LockInv, NEW T \in SUBSET Tran,
         NEW outcome \in {"committed", "aborted"}, Evict(T, outcome), ReleaseLocks(T),
         \A t \in Tran \ T, s \in Site, x \in Var :
           writeRecords[t][s][x] # None => writeAvailable'[s]
  PROVE  LockInv'
<1>0. None \notin Tran /\ Transactions' = Transactions \ T
  BY GlobalAssumption DEF Transactions, Evict
<1>1. SharersAlone /\ LockedInTable
  BY HoldersFacts DEF DbTypeOK, LockInv
<1>2. OneWriter /\ RecordsLocked /\ WaitersActive
  BY DEF LockInv
<1>3. \A s \in Site, x \in Var :
        /\ sharedOwners'[s][x] = sharedOwners[s][x] \ T
        /\ exclusiveOwner'[s][x] = IF exclusiveOwner[s][x] \in T THEN None
                                   ELSE exclusiveOwner[s][x]
  <2> SUFFICES ASSUME NEW s \in Site, NEW x \in Var
               PROVE  /\ sharedOwners'[s][x] = sharedOwners[s][x] \ T
                      /\ exclusiveOwner'[s][x] = IF exclusiveOwner[s][x] \in T THEN None
                                                 ELSE exclusiveOwner[s][x]
    OBVIOUS
  <2> DEFINE Releases(t) == t \in T /\ x \in lockTable[t] /\ s \in CopySites(x)
  <2>1. /\ sharedOwners'[s][x] = {t \in sharedOwners[s][x] : ~Releases(t)}
        /\ exclusiveOwner'[s][x] =
             IF \E t \in T : Releases(t) /\ exclusiveOwner[s][x] = t
             THEN None ELSE exclusiveOwner[s][x]
    BY DEF ReleaseLocks
  <2>2. sharedOwners[s][x] \subseteq Tran
    BY DEF DbTypeOK, LockTypeOK
  <2>3. \A t \in T : t \in sharedOwners[s][x] \/ exclusiveOwner[s][x] = t => Releases(t)
    BY <1>1 DEF LockedInTable
  <2>4. \A t : Releases(t) => t \in T
    OBVIOUS
  <2> HIDE DEF Releases
  <2> QED BY <2>1, <2>2, <2>3, <2>4
<1>4. \A t \in Tran \ T : lockTable'[t] = lockTable[t]
  BY DEF ReleaseLocks
<1>5. \A t \in Tran : waitForGraph'[t] # {} => t \notin T /\ waitForGraph[t] # {}
  BY DEF ReleaseLocks, WaitForGraphWithout
<1>6. \A t \in Tran, s \in Site, x \in Var :
        writeRecords'[t][s][x] = IF t \in T THEN None ELSE writeRecords[t][s][x]
  BY DEF Evict, NoRecords
<1>7. SharersAlone'
  BY <1>1, <1>3 DEF SharersAlone
<1>8. LockedInTable'
  BY <1>0, <1>1, <1>3, <1>4 DEF LockedInTable
<1>9. OneWriter' /\ WaitersActive'
  BY <1>0, <1>2, <1>3, <1>5 DEF OneWriter, WaitersActive
<1>10. RecordsLocked'
  BY <1>0, <1>2, <1>3, <1>6 DEF RecordsLocked
<1> QED BY <1>7, <1>8, <1>9, <1>10, HoldersFacts DEF LockInv, DbTypeOK

(* An abort, with the sites as they are.                                   *)
LEMMA AbortKeepsLocks ==
  ASSUME DbTypeOK, DbTypeOK', LockInv, NEW T \in SUBSET Tran, AbortTransactions(T),
         UNCHANGED siteVars
  PROVE  LockInv'
<1>1. Evict(T, "aborted") /\ ReleaseLocks(T)
  BY DEF AbortTransactions
<1>2. \A t \in Tran \ T, s \in Site, x \in Var :
        writeRecords[t][s][x] # None => writeAvailable'[s]
  BY DEF LockInv, RecordsLocked, siteVars
<1> QED BY <1>1, <1>2, LeaveKeepsLocks

-----------------------------------------------------------------------------
(* The requests. *)

(* A read: it shares a lock, waits, or aborts itself.                     *)
LEMMA ExecReadLocks ==
  ASSUME DbTypeOK, DbTypeOK', LockInv, NEW r \in ReadRequest, r.tran \in Transactions,
         ExecRead(r)
  PROVE  LockInv'
<1>0. r.tran \in Tran /\ r.var \in Var /\ r \in TranRequest
  BY DEF ReadRequest, TranRequest
<1>1. ASSUME WaitForSite(r)
      PROVE  LockInv'
  BY <1>1, LocksUntouched DEF WaitForSite, tranVars, siteVars, Transactions
<1>2. ASSUME NEW s \in Site, ReadOnlyAt(r, s)
      PROVE  LockInv'
  <2>1. UNCHANGED <<lockVars, writeRecords, status, siteVars>>
    BY <1>2 DEF ReadOnlyAt, AddReadHistory
  <2> QED BY <2>1, LocksUntouched DEF siteVars, Transactions
<1>3. CASE ExecReadOnly(r)
  <2>1. CASE AbortTransactions({r.tran}) /\ UNCHANGED siteVars
    BY <1>0, <2>1, AbortKeepsLocks
  <2>2. HomeSite(r.var) \in Site
    BY <1>0, HomeSiteType
  <2> QED BY <1>1, <1>2, <1>3, <2>1, <2>2 DEF ExecReadOnly
<1>4. CASE ExecReadLocked(r)
  <2>1. CASE WaitForLock(r)
    BY <1>0, <2>1, WaitKeepsLocks
  <2>2. CASE /\ LockStatus(r.tran, r.var) = "AVAILABLE_TO_ASSIGN"
             /\ AssignShareLock(r.tran, r.var)
             /\ UNCHANGED <<siteVars, status, writeRecords>>
    BY <1>0, <2>2, ShareLockGranted
  <2> QED BY <1>1, <1>4, <2>1, <2>2 DEF ExecReadLocked, AddReadHistory, tranVars
<1> QED BY <1>3, <1>4 DEF ExecRead

(* The answer HAS_WRITE_LOCK for an odd variable is right.                 *)
LEMMA HomeLockHeld ==
  ASSUME NEW t \in Tran, NEW x \in Var, IsOdd(x), LockStatus(t, x) = "HAS_WRITE_LOCK"
  PROVE  exclusiveOwner[HomeSite(x)][x] = t
<1>1. StopCopies(t, x) # {} /\ ~MustWait(FirstStop(t, x), x, t)
  BY DEF LockStatus
<1>2. FirstStop(t, x) \in StopCopies(t, x)
  BY <1>1, FirstStopExists
<1>3. FirstStop(t, x) = HomeSite(x)
  BY <1>2 DEF StopCopies, UpCopies, CopySites
<1> QED BY <1>1, <1>2, <1>3 DEF StopCopies, HasExclusiveLock

(* A write: it is granted the exclusive lock, has it, waits or is dropped. *)
LEMMA ExecWriteLocks ==
  ASSUME DbTypeOK, DbTypeOK', LockInv, NEW r \in WriteRequest, r.tran \in Transactions,
         ExecWrite(r)
  PROVE  LockInv'
<1> DEFINE answer == LockStatus(r.tran, r.var)
           S == IF IsOdd(r.var) THEN {HomeSite(r.var)} ELSE {}
<1>0. r.tran \in Tran /\ r.var \in Var /\ r.value \in Value /\ r \in TranRequest
      /\ HomeSite(r.var) \in Site
  BY HomeSiteType DEF WriteRequest, TranRequest
<1>1. CASE WaitForLock(r)
  BY <1>0, <1>1, WaitKeepsLocks
<1>2. CASE UNCHANGED dbVars
  BY <1>2, LocksUntouched DEF dbVars, tranVars, siteVars, Transactions
<1>3. CASE /\ answer = "HAS_WRITE_LOCK"
           /\ UpdateValues(r.tran, S, r.var, r.value)
           /\ UNCHANGED <<siteVars, lockVars>>
  <2>1. \A s \in S : exclusiveOwner[s][r.var] = r.tran
    BY <1>0, <1>3, HomeLockHeld
  <2> QED BY <1>0, <1>3, <2>1, WriteInPlace
<1>4. CASE /\ answer \in {"HAS_READ_LOCK", "AVAILABLE_TO_ASSIGN"}
           /\ UpdateValues(r.tran, UpCopies(r.var), r.var, r.value)
           /\ AssignWriteLock(r.tran, r.var)
           /\ UNCHANGED siteVars
  <2>1. StopCopies(r.tran, r.var) = {}
    BY <1>4 DEF LockStatus
  <2> QED BY <1>0, <1>4, <2>1, WriteLockGranted
<1> QED BY <1>1, <1>2, <1>3, <1>4 DEF ExecWrite

(* The end of a transaction, committed or aborted.                         *)
LEMMA ExecEndLocks ==
  ASSUME DbTypeOK, DbTypeOK', LockInv, NEW r \in TranRequest, r.tran \in Tran, ExecEnd(r)
  PROVE  LockInv'
<1>1. CASE /\ InstallWrites(r.tran, r.timestamp)
           /\ ReleaseLocks({r.tran}) /\ Evict({r.tran}, "committed")
  <2>1. writeAvailable' = writeAvailable
    BY <1>1 DEF InstallWrites
  <2>2. \A t \in Tran \ {r.tran}, s \in Site, x \in Var :
          writeRecords[t][s][x] # None => writeAvailable'[s]
    BY <2>1 DEF LockInv, RecordsLocked
  <2> QED BY <1>1, <2>2, LeaveKeepsLocks
<1>2. CASE AbortTransactions({r.tran}) /\ UNCHANGED siteVars
  BY <1>2, AbortKeepsLocks
<1> QED BY <1>1, <1>2 DEF ExecEnd

(* A failing site: whoever has written into it is aborted, so the pending  *)
(* writes that are left are at other sites.                                *)
LEMMA ExecFailLocks ==
  ASSUME DbTypeOK, DbTypeOK', LockInv, NEW r \in SiteRequest, ExecFail(r)
  PROVE  LockInv'
<1> DEFINE T == {t \in Transactions : IsWrittenIntoSite(t, r.site)}
<1>1. Evict(T, "aborted") /\ ReleaseLocks(T) /\ T \in SUBSET Tran
  BY DEF ExecFail, AbortTransactions, Transactions
<1>2. LockedInTable /\ RecordsLocked
  BY HoldersFacts DEF LockInv, DbTypeOK
<1>3. ASSUME NEW t \in Tran \ T, NEW s \in Site, NEW x \in Var, writeRecords[t][s][x] # None
      PROVE  writeAvailable'[s]
  <2>1. t \in Transactions /\ writeAvailable[s]
    BY <1>2, <1>3 DEF LockedInTable, RecordsLocked
  <2>2. s # r.site
    BY <1>3, <2>1 DEF IsWrittenIntoSite
  <2> QED BY <2>1, <2>2 DEF ExecFail, SetUnavailable, DbTypeOK, SiteTypeOK
<1> QED BY <1>1, <1>3, LeaveKeepsLocks

(* Every request keeps the lock invariant.                                 *)
LEMMA ExecLocks ==
  ASSUME DbTypeOK, LockInv, NEW r \in AnyRequest, Exec(r),
         r.type \in {"READ", "WRITE"} => r.tran \in Transactions
  PROVE  LockInv'
<1>0. DbTypeOK'
  BY ExecType
<1>1. CASE r.type \in {"BEGIN", "BEGINO"} /\ ExecBegin(r)
  <2>1. UNCHANGED <<lockVars, writeRecords, siteVars>>
    BY <1>1 DEF ExecBegin, AddTransaction
  <2>2. Transactions \subseteq Transactions'
    BY <1>1 DEF ExecBegin, AddTransaction, Transactions, DbTypeOK, TranTypeOK
  <2> QED BY <2>1, <2>2, LocksUntouched DEF siteVars
<1>2. CASE r.type = "READ" /\ ExecRead(r)
  BY <1>0, <1>2, RequestFields, ExecReadLocks
<1>3. CASE r.type = "WRITE" /\ ExecWrite(r)
  BY <1>0, <1>3, RequestFields, ExecWriteLocks
<1>4. CASE r.type = "END" /\ ExecEnd(r)
  BY <1>0, <1>4, RequestFields, ExecEndLocks
<1>5. CASE r.type = "FAIL" /\ ExecFail(r)
  <2>1. r \in SiteRequest
    BY <1>5 DEF AnyRequest, TranRequest, BeginRequest, ReadRequest, WriteRequest,
               EndRequest, DumpRequest
  <2> QED BY <1>0, <1>5, <2>1, ExecFailLocks
<1>6. CASE r.type = "RECOVER" /\ ExecRecover(r)
  <2>1. \A s \in Site : writeAvailable[s] => writeAvailable'[s]
    BY <1>6 DEF ExecRecover, SetWriteAvailable, DbTypeOK, SiteTypeOK
  <2> QED BY <1>6, <2>1, LocksUntouched DEF ExecRecover, tranVars, Transactions
<1>7. CASE UNCHANGED dbVars
  BY <1>7, LocksUntouched DEF dbVars, tranVars, siteVars, Transactions
<1> QED BY <1>1, <1>2, <1>3, <1>4, <1>5, <1>6, <1>7 DEF Exec

-----------------------------------------------------------------------------
(* The scan of try_acquire_write_lock. *)

(* Where the copies are, and how far a site id reaches.                    *)
LEMMA CopyPlaces ==
  ASSUME NEW x \in Var
  PROVE  /\ UpCopies(x) \subseteq Site
         /\ IsOdd(x) => UpCopies(x) = IF writeAvailable[HomeSite(x)] THEN {HomeSite(x)} ELSE {}
         /\ ~IsOdd(x) => UpCopies(x) = {s \in Site : writeAvailable[s]}
         /\ \A s \in Site : s \in Nat /\ 1 <= s /\ s <= SITE_COUNT
         /\ SITE_COUNT \in Nat /\ HomeSite(x) \in Site
BY HomeSiteType, GlobalAssumption DEF UpCopies, CopySites, Site

(* A lower bound among the copies that stop the scan is the first of them. *)
LEMMA FirstStopIs ==
  ASSUME NEW t \in Tran, NEW x \in Var, NEW s \in StopCopies(t, x),
         \A u \in StopCopies(t, x) : s <= u
  PROVE  FirstStop(t, x) = s
<1>1. StopCopies(t, x) \subseteq Nat
  BY CopyPlaces DEF StopCopies
<1>2. \A u \in StopCopies(t, x) : (\A w \in StopCopies(t, x) : u <= w) => u = s
  BY <1>1
<1> QED BY <1>2 DEF FirstStop

(* While the locks and the sites stay, so do the answers.                  *)
LEMMA SameAnswers ==
  ASSUME UNCHANGED vars, NEW t \in Tran, NEW x \in Var
  PROVE  /\ UpCopies(x)' = UpCopies(x) /\ StopCopies(t, x)' = StopCopies(t, x)
         /\ \A s \in Site : CanPromote(s, x, t)' = CanPromote(s, x, t)
         /\ LockStatus(t, x)' = LockStatus(t, x)
         /\ LockStatus(t, x) = "NEED_TO_WAIT" => LockOwners(t, x)' = LockOwners(t, x)
<1> USE DEF vars, tmVars, dbVars, siteVars, lockVars
<1>1. UpCopies(x)' = UpCopies(x)
  BY DEF UpCopies
<1>2. \A s \in Site : CanPromote(s, x, t)' = CanPromote(s, x, t)
  BY DEF CanPromote, HasSharedLock, HasSharedLockExcludeSelf,
         HasExclusiveLockExcludeSelf, IsWaitingForOthers
<1>3. \A s \in Site : MustWait(s, x, t)' = MustWait(s, x, t)
  BY <1>2 DEF MustWait, HasSharedLock, HasSharedLockExcludeSelf,
              HasExclusiveLockExcludeSelf
<1>4. UpCopies(x) \subseteq Site
  BY CopyPlaces
<1>5. StopCopies(t, x)' = StopCopies(t, x)
  BY <1>1, <1>2, <1>3, <1>4 DEF StopCopies, HasExclusiveLock
<1>6. FirstStop(t, x)' = FirstStop(t, x)
  BY <1>5 DEF FirstStop
<1>7. StopCopies(t, x) # {} => FirstStop(t, x) \in Site
  BY FirstStopExists
<1>8. LockStatus(t, x)' = LockStatus(t, x)
  BY <1>1, <1>2, <1>3, <1>4, <1>5, <1>6, <1>7 DEF LockStatus
<1>9. LockOwners(t, x)' = LockOwners(t, x)
  BY <1>6 DEF LockOwners, OwnersAt, HasSharedLock, HasSharedLockExcludeSelf,
              HasExclusiveLockExcludeSelf
<1> QED BY <1>1, <1>2, <1>5, <1>8, <1>9

(* Starting the scan, for any request the program may be about to execute. *)
LEMMA CallKeepsScan ==
  ASSUME TypeOK, UNCHANGED vars, NEW r \in Asking, Call(r)
  PROVE  ScanInv'
<1> DEFINE t == r.tran
           x == r.var
<1>1. t \in Tran /\ x \in Var
  <2>1. request \in AnyRequest \cup {None} /\ retryQueue \subseteq TranRequest
    BY DEF TypeOK, TMTypeOK
  <2>2. r \in AnyRequest
    BY <2>1 DEF Asking, AnyRequest
  <2> QED BY <2>2, RequestFields DEF Asking
<1>2. \A s \in UpCopies(x)' : ~(s < sid')
  BY <1>1, CopyPlaces, SameAnswers DEF Call
<1>3. ScanAsked' /\ ScanProgress'
  BY <1>1, <1>2, CopyPlaces DEF ScanAsked, ScanProgress, Call, Answer
<1>4. ScanAnswers'
  BY DEF ScanAnswers, Call
<1> QED BY <1>3, <1>4 DEF ScanInv

(* Every turn of the loop keeps the invariant.                             *)
LEMMA LoopKeepsScan ==
  ASSUME ScanInv, UNCHANGED vars,
         SiteDown \/ Promote \/ Wait \/ HasIt \/ Free \/ LoopEnds
  PROVE  ScanInv'
<1> DEFINE t == call.tran
           x == call.var
           Up == UpCopies(x)
           passed == {s \in Up : s < sid}
<1>1. scan = "running" /\ call' = call
  BY DEF SiteDown, Promote, Wait, HasIt, Free, LoopEnds, AtCopy, Grant, ReturnAnswer
<1>2. t \in Tran /\ x \in Var
  BY <1>1 DEF ScanInv, ScanAsked
<1>3. /\ IF IsOdd(x) THEN sid = HomeSite(x) /\ result.site_id_set = {}
         ELSE sid \in 1 .. SITE_COUNT + 1 /\ result.site_id_set = passed
      /\ passed \cap StopCopies(t, x) = {}
      /\ result.status = IF ~IsOdd(x) /\ \E s \in passed : CanPromote(s, x, t)
                         THEN "HAS_READ_LOCK" ELSE "AVAILABLE_TO_ASSIGN"
      /\ result = Answer(result.status, result.site_id_set, {})
  BY <1>1 DEF ScanInv, ScanProgress
<1>4. /\ Up \subseteq Site
      /\ IsOdd(x) => Up = IF writeAvailable[HomeSite(x)] THEN {HomeSite(x)} ELSE {}
      /\ ~IsOdd(x) => Up = {s \in Site : writeAvailable[s]}
      /\ \A s \in Site : s \in Nat /\ 1 <= s /\ s <= SITE_COUNT
      /\ SITE_COUNT \in Nat /\ HomeSite(x) \in Site
  BY <1>2, CopyPlaces
<1>5. StopCopies(t, x) \subseteq Up
  BY DEF StopCopies
\* What the loop goes on with, and what it may return, in the old state.
<1>6. ASSUME scan' = "running", ~IsOdd(x), sid \in Site, sid' = sid + 1,
             sid \notin StopCopies(t, x),
             LET more == IF writeAvailable[sid] THEN {sid} ELSE {}
             IN result' = Answer(IF \E s \in more : CanPromote(s, x, t)
                                 THEN "HAS_READ_LOCK" ELSE result.status,
                                 passed \cup more, {})
      PROVE  ScanInv'
  <2>1. {s \in Up : s < sid + 1} = passed \cup (IF writeAvailable[sid] THEN {sid} ELSE {})
    BY <1>4, <1>6
  <2>2. sid + 1 \in 1 .. SITE_COUNT + 1
    BY <1>4, <1>6
  <2>3. {s \in Up : s < sid + 1} \cap StopCopies(t, x) = {}
    BY <1>3, <1>6, <2>1
  <2>4. \A s \in {s \in Up : s < sid + 1} : CanPromote(s, x, t)' = CanPromote(s, x, t)
    BY <1>1, <1>2, <1>4, SameAnswers
  <2>5. UpCopies(x)' = Up /\ StopCopies(t, x)' = StopCopies(t, x)
    BY <1>1, <1>2, SameAnswers
  <2>6. /\ result'.site_id_set = {s \in Up : s < sid + 1}
        /\ result'.status = IF \E s \in {s \in Up : s < sid + 1} : CanPromote(s, x, t)
                            THEN "HAS_READ_LOCK" ELSE "AVAILABLE_TO_ASSIGN"
        /\ result' = Answer(result'.status, result'.site_id_set, {})
    BY <1>3, <1>6, <2>1 DEF Answer
  <2>7. ScanProgress'
    BY <1>1, <1>2, <1>6, <2>2, <2>3, <2>4, <2>5, <2>6 DEF ScanProgress
  <2>8. ScanAnswers'
    BY <1>6 DEF ScanAnswers
  <2> QED BY <1>1, <1>2, <2>7, <2>8 DEF ScanInv, ScanAsked
<1>7. ASSUME scan' = "returned",
             LET answer == LockStatus(t, x)
             IN result' = Answer(answer,
                            IF answer \in {"HAS_READ_LOCK", "AVAILABLE_TO_ASSIGN"}
                            THEN Up ELSE {},
                            IF answer = "NEED_TO_WAIT" THEN LockOwners(t, x) ELSE {})
      PROVE  ScanInv'
  <2>1. ScanAnswers'
    BY <1>1, <1>2, <1>7, SameAnswers DEF ScanAnswers, Answer
  <2>2. ScanProgress'
    BY <1>7 DEF ScanProgress
  <2> QED BY <1>1, <1>2, <2>1, <2>2 DEF ScanInv, ScanAsked
<1>8. CASE SiteDown
  <2>1. CASE IsOdd(x)
    <3>1. Up = {} /\ StopCopies(t, x) = {}
      BY <1>3, <1>4, <1>5, <1>8, <2>1 DEF SiteDown
    <3>2. LockStatus(t, x) = "SITE_UNAVAILABLE"
      BY <2>1, <3>1 DEF LockStatus
    <3> QED BY <1>7, <1>8, <2>1, <3>2 DEF SiteDown, ReturnAnswer
  <2>2. CASE ~IsOdd(x)
    <3>1. sid \notin Up /\ sid \in Site /\ ~writeAvailable[sid]
      BY <1>4, <1>8, <2>2 DEF SiteDown, AtCopy
    <3>2. scan' = "running" /\ sid' = sid + 1 /\ result' = result
      BY <1>1, <1>8, <2>2 DEF SiteDown
    <3> QED BY <1>3, <1>5, <1>6, <2>2, <3>1, <3>2
  <2> QED BY <2>1, <2>2
<1>9. CASE Promote \/ Free
  <2>1. sid \in Up /\ sid \in Site /\ writeAvailable[sid]
    BY <1>3, <1>4, <1>9 DEF Promote, Free, AtCopy
  <2>2. sid \notin StopCopies(t, x)
    BY <1>9 DEF Promote, Free, StopCopies, MustWait
  <2> DEFINE status_ == IF CanPromote(sid, x, t) THEN "HAS_READ_LOCK" ELSE result.status
  <2>3. Grant(status_)
    BY <1>9 DEF Promote, Free
  <2>4. CASE IsOdd(x)
    <3>1. Up = {sid} /\ StopCopies(t, x) = {}
      BY <1>3, <1>4, <1>5, <2>1, <2>2, <2>4
    <3>2. result.status = "AVAILABLE_TO_ASSIGN" /\ result.site_id_set = {}
      BY <1>3, <2>4
    <3>3. LockStatus(t, x) = status_
      BY <2>4, <3>1, <3>2 DEF LockStatus
    <3>4. result' = Answer(status_, {sid}, {}) /\ scan' = "returned"
      BY <2>3, <2>4, <3>2 DEF Grant, ReturnAnswer
    <3> QED BY <1>7, <3>1, <3>2, <3>3, <3>4
  <2>5. CASE ~IsOdd(x)
    <3>1. /\ scan' = "running" /\ sid' = sid + 1
          /\ result' = Answer(status_, passed \cup {sid}, {})
      BY <1>1, <1>3, <2>3, <2>5 DEF Grant
    <3> QED BY <1>6, <2>1, <2>2, <2>5, <3>1
  <2> QED BY <2>4, <2>5
<1>10. CASE Wait \/ HasIt
  <2>1. sid \in StopCopies(t, x)
    BY <1>3, <1>4, <1>10 DEF Wait, HasIt, AtCopy, StopCopies
  <2>2. \A u \in StopCopies(t, x) : sid <= u
    BY <1>3, <1>4, <1>5, <2>1
  <2>3. FirstStop(t, x) = sid
    BY <1>2, <2>1, <2>2, FirstStopIs
  <2>4. LockStatus(t, x) = IF MustWait(sid, x, t) THEN "NEED_TO_WAIT" ELSE "HAS_WRITE_LOCK"
    BY <2>1, <2>3 DEF LockStatus
  <2>5. CASE Wait
    <3>1. LockStatus(t, x) = "NEED_TO_WAIT" /\ LockOwners(t, x) = OwnersAt(sid, x, t)
      BY <2>3, <2>4, <2>5 DEF Wait, LockOwners
    <3> QED BY <1>7, <2>5, <3>1 DEF Wait, ReturnAnswer
  <2>6. CASE HasIt
    <3>1. LockStatus(t, x) = "HAS_WRITE_LOCK"
      BY <2>4, <2>6 DEF HasIt
    <3> QED BY <1>7, <2>6, <3>1 DEF HasIt, ReturnAnswer
  <2> QED BY <1>10, <2>5, <2>6
<1>11. CASE LoopEnds
  <2>1. ~IsOdd(x) /\ Up = passed /\ StopCopies(t, x) = {}
    <3>1. ~IsOdd(x)
      BY <1>3, <1>4, <1>11 DEF LoopEnds
    <3>2. sid = SITE_COUNT + 1
      BY <1>3, <1>4, <1>11, <3>1 DEF LoopEnds, Site
    <3>3. Up = passed
      BY <1>4, <3>2
    <3> QED BY <1>3, <1>5, <3>1, <3>3
  <2>2. LockStatus(t, x) = result.status /\ result.site_id_set = Up
    BY <1>3, <2>1 DEF LockStatus
  <2>3. result' = result /\ scan' = "returned"
    BY <1>11 DEF LoopEnds, ReturnAnswer
  <2>4. result.status \in {"HAS_READ_LOCK", "AVAILABLE_TO_ASSIGN"}
    BY <1>3
  <2> QED BY <1>3, <1>7, <2>2, <2>3, <2>4
<1> QED BY <1>8, <1>9, <1>10, <1>11

(* The loop of try_acquire_write_lock answers every read and write as the  *)
(* lock manager's one-step LockStatus, UpCopies and LockOwners say, for    *)
(* any number of sites, in every state the program asks it in.             *)
THEOREM ScanCorrect == ScanSpec => []ScanInv
<1>1. Init /\ ScanInit => TypeOK /\ ScanInv
  BY InitType DEF ScanInit, ScanInv, ScanAsked, ScanProgress, ScanAnswers
<1>2. TypeOK /\ ScanInv /\ [ScanNext]_<<vars, scanVars>> => TypeOK' /\ ScanInv'
  <2> SUFFICES ASSUME TypeOK, ScanInv, [ScanNext]_<<vars, scanVars>>
               PROVE  TypeOK' /\ ScanInv'
    OBVIOUS
  <2>1. TypeOK'
    BY NextType DEF ScanNext, Scan
  <2>2. CASE scan = "idle" /\ scan' = "idle"
    BY <2>1, <2>2 DEF ScanInv, ScanAsked, ScanProgress, ScanAnswers
  <2>3. CASE UNCHANGED vars /\ \E r \in Asking : Call(r)
    BY <2>1, <2>3, CallKeepsScan
  <2>4. CASE UNCHANGED vars /\ (SiteDown \/ Promote \/ Wait \/ HasIt \/ Free \/ LoopEnds)
    BY <2>1, <2>4, LoopKeepsScan
  <2>5. CASE Resume
    BY <2>1, <2>5 DEF Resume, ScanInv, ScanAsked, ScanProgress, ScanAnswers
  <2>6. CASE UNCHANGED <<vars, scanVars>>
    <3>1. CASE scan = "idle"
      BY <2>1, <2>6, <3>1 DEF scanVars, ScanInv, ScanAsked, ScanProgress, ScanAnswers
    <3>2. CASE scan # "idle"
      <4>1. call.tran \in Tran /\ call.var \in Var
        BY <3>2 DEF ScanInv, ScanAsked
      <4>2. UpCopies(call.var) \subseteq Site
        BY <4>1, CopyPlaces
      <4>3. call' = call /\ sid' = sid /\ result' = result /\ scan' = scan
        BY <2>6 DEF scanVars
      <4> DEFINE x == call.var
                 t == call.tran
      <4>4. /\ UpCopies(x)' = UpCopies(x) /\ StopCopies(t, x)' = StopCopies(t, x)
            /\ \A s \in Site : CanPromote(s, x, t)' = CanPromote(s, x, t)
            /\ LockStatus(t, x)' = LockStatus(t, x)
            /\ LockStatus(t, x) = "NEED_TO_WAIT" => LockOwners(t, x)' = LockOwners(t, x)
        BY <2>6, <4>1, <4>3, SameAnswers
      <4>5. ScanAsked'
        BY <4>1, <4>3 DEF ScanAsked
      <4>6. ScanProgress'
        BY <4>2, <4>3, <4>4 DEF ScanInv, ScanProgress
      <4>7. ScanAnswers'
        BY <4>3, <4>4 DEF ScanInv, ScanAnswers
      <4> QED BY <2>1, <4>5, <4>6, <4>7 DEF ScanInv
    <3> QED BY <3>1, <3>2
  <2> QED BY <2>1, <2>2, <2>3, <2>4, <2>5, <2>6 DEF ScanNext, Scan, scanVars
<1> QED BY <1>1, <1>2, PTL DEF ScanSpec
=============================================================================
