------------------------------ MODULE LockScan ------------------------------
(***************************************************************************)
(* try_acquire_write_lock of the lock manager, one copy at a time.  The    *)
(* rest of the specification has its answer in one step: LockStatus,       *)
(* UpCopies and LockOwners of module LockManager.  Here the loop runs      *)
(* beside the program, for every read and write in every state it can be   *)
(* in, and what it returns is compared with them.                          *)
(***************************************************************************)
EXTENDS Properties

VARIABLES
  call,      \* the transaction and variable asked for, or None
  sid,       \* the site the loop looks at
  result,    \* lock_status: the LockStatus that is built up
  scan       \* "idle", "running" or "returned"

scanVars == <<call, sid, result, scan>>

Answer(status_, sites, owners) ==
  [status |-> status_, site_id_set |-> sites, owner_id_set |-> owners]

ScanInit ==
  /\ call = None /\ sid = 1 /\ scan = "idle"
  /\ result = Answer("AVAILABLE_TO_ASSIGN", {}, {})

\* The reads and writes that ask for a lock next.
Asking ==
  {r \in {request} \cup retryQueue :
     /\ r # None
     /\ r.type \in {"READ", "WRITE"}
     /\ r.tran \in Transactions /\ ~isReadOnly[r.tran]}

Call(r) ==
  /\ scan = "idle" /\ r \in Asking
  /\ call' = [tran |-> r.tran, var |-> r.var]
  /\ sid' = IF IsOdd(r.var) THEN HomeSite(r.var) ELSE 1
  /\ result' = Answer("AVAILABLE_TO_ASSIGN", {}, {})
  /\ scan' = "running"

\* The loop is at the copy of site sid.
AtCopy == scan = "running" /\ sid \in Site

\* The copy decides, or is the only one.
ReturnAnswer(a) ==
  /\ result' = a /\ scan' = "returned"
  /\ UNCHANGED <<call, sid>>

\* The copy can be locked: go on to the next one, if there is one.
Grant(status_) ==
  LET a == Answer(status_, result.site_id_set \cup {sid}, {}) IN
  IF IsOdd(call.var) THEN ReturnAnswer(a)
  ELSE /\ result' = a /\ sid' = sid + 1
       /\ UNCHANGED <<call, scan>>

SiteDown ==
  /\ AtCopy /\ ~writeAvailable[sid]
  /\ IF IsOdd(call.var) THEN ReturnAnswer(Answer("SITE_UNAVAILABLE", {}, {}))
     ELSE sid' = sid + 1 /\ UNCHANGED <<call, result, scan>>

\* Faulty variant: the loop returns at the first copy it can promote.
PromoteReturns ==
  /\ AtCopy /\ writeAvailable[sid]
  /\ CanPromote(sid, call.var, call.tran)
  /\ ReturnAnswer(Answer("HAS_READ_LOCK", result.site_id_set \cup {sid}, {}))

Promote ==
  /\ AtCopy /\ writeAvailable[sid]
  /\ CanPromote(sid, call.var, call.tran)
  /\ Grant("HAS_READ_LOCK")

Wait ==
  /\ AtCopy /\ writeAvailable[sid]
  /\ MustWait(sid, call.var, call.tran)
  /\ ReturnAnswer(Answer("NEED_TO_WAIT", {}, OwnersAt(sid, call.var, call.tran)))

HasIt ==
  /\ AtCopy /\ writeAvailable[sid]
  /\ ~CanPromote(sid, call.var, call.tran) /\ ~MustWait(sid, call.var, call.tran)
  /\ HasExclusiveLock(sid, call.var, call.tran)
  /\ ReturnAnswer(Answer("HAS_WRITE_LOCK", {}, {}))

Free ==
  /\ AtCopy /\ writeAvailable[sid]
  /\ ~CanPromote(sid, call.var, call.tran) /\ ~MustWait(sid, call.var, call.tran)
  /\ ~HasExclusiveLock(sid, call.var, call.tran)
  /\ Grant(result.status)

LoopEnds ==
  /\ scan = "running" /\ sid \notin Site
  /\ ReturnAnswer(result)

\* The caller goes on.
Resume ==
  /\ scan = "returned"
  /\ call' = None /\ sid' = 1 /\ scan' = "idle"
  /\ result' = Answer("AVAILABLE_TO_ASSIGN", {}, {})

Scan ==
  /\ \/ \E r \in Asking : Call(r)
     \/ SiteDown \/ Promote \/ Wait \/ HasIt \/ Free
     \/ LoopEnds \/ Resume
  /\ UNCHANGED vars

ScanNext == Scan \/ (scan = "idle" /\ Next /\ UNCHANGED scanVars)

ScanSpec == Init /\ ScanInit /\ [][ScanNext]_<<vars, scanVars>>

-----------------------------------------------------------------------------

(* The loop gives the answer the rest of the specification works with: it  *)
(* stops at the first copy that is locked in the way or already owned, and *)
(* otherwise names every copy that is up, promoted or free.                *)
ScanAnswers ==
  scan = "returned" =>
    LET t == call.tran
        x == call.var
        answer == LockStatus(t, x)
    IN result = Answer(answer,
                  IF answer \in {"HAS_READ_LOCK", "AVAILABLE_TO_ASSIGN"}
                  THEN UpCopies(x) ELSE {},
                  IF answer = "NEED_TO_WAIT" THEN LockOwners(t, x) ELSE {})

-----------------------------------------------------------------------------
(* The inductive invariant behind it.                                      *)

\* It is asked about a transaction and a variable.
ScanAsked == scan # "idle" => call.tran \in Tran /\ call.var \in Var

\* Up to sid, the loop has met copies it can lock and remembers them.
ScanProgress ==
  scan = "running" =>
    LET t == call.tran
        x == call.var
        passed == {s \in UpCopies(x) : s < sid}
    IN /\ IF IsOdd(x) THEN sid = HomeSite(x) /\ result.site_id_set = {}
          ELSE sid \in 1 .. SITE_COUNT + 1 /\ result.site_id_set = passed
       /\ passed \cap StopCopies(t, x) = {}
       /\ result.status = IF ~IsOdd(x) /\ \E s \in passed : CanPromote(s, x, t)
                          THEN "HAS_READ_LOCK" ELSE "AVAILABLE_TO_ASSIGN"
       /\ result = Answer(result.status, result.site_id_set, {})

ScanInv == ScanAsked /\ ScanProgress /\ ScanAnswers
=============================================================================
