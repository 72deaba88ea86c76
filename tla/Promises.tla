------------------------------ MODULE Promises ------------------------------
(***************************************************************************)
(* What the README and the comments of the repository promise of the       *)
(* program.  History variables remember what the promises are about; they  *)
(* follow the program and never steer it.                                  *)
(***************************************************************************)
EXTENDS Properties

VARIABLES
  asked,      \* asked[t][x]: the last write line of t for x, while t runs
  lost,       \* lost[t]: the variables whose asked write is known to be lost
  seen,       \* seen[t][x]: the last read of x that served t, while t runs
  firm        \* firm[t]: the variables whose seen copy was readable when it
              \* was read and has been ever since

histVars == <<asked, lost, seen, firm>>

HistInit ==
  /\ asked = [t \in Tran |-> [x \in Var |-> None]]
  /\ lost = [t \in Tran |-> {}]
  /\ seen = [t \in Tran |-> [x \in Var |-> None]]
  /\ firm = [t \in Tran |-> {}]

\* The step reads a write line of t for x.
ReadsWriteLine(t, x) ==
  /\ pc = "ready" /\ pc' = "execute" /\ phase = "reading"
  /\ request'.type = "WRITE" /\ request'.tran = t /\ request'.var = x

\* The step executes r, a write.
ExecutesWrite(r) ==
  /\ r.type = "WRITE"
  /\ \/ pc = "execute" /\ r = request /\ ~DetectDeadlock /\ ~RequestIsStale
     \/ pc = "retry" /\ retryQueue # {} /\ r = Executing

\* The write r, executed now, leaves no trace: its answer is HAS_WRITE_LOCK,
\* which names no sites, and has been for a variable with several copies; no
\* copy is up; or it blocks again in the walk, which will erase it.
DropsWrite(r) ==
  \/ LockStatus(r.tran, r.var) = "HAS_WRITE_LOCK" /\ ~IsOdd(r.var)
  \/ LockStatus(r.tran, r.var) # "NEED_TO_WAIT" /\ UpCopies(r.var) = {}
  \/ LockStatus(r.tran, r.var) = "NEED_TO_WAIT" /\ pc = "retry"

\* A queued write of t for x is executed after a younger one, and replaces the
\* value of its only record.
OvertakenWrite(t, x) ==
  /\ pc = "retry" /\ retryQueue # {} /\ Executing.type = "WRITE"
  /\ Executing.tran = t /\ Executing.var = x /\ IsOdd(x)
  /\ Executing # asked[t][x]

\* What is known to be lost of t after the step, until it asks again.
LostNext(t) ==
  {x \in Var :
     /\ asked[t][x] # None /\ asked'[t][x] = asked[t][x]
     /\ \/ x \in lost[t]
        \/ ExecutesWrite(asked[t][x]) /\ DropsWrite(asked[t][x])
        \/ OvertakenWrite(t, x)}

\* The reads of t that are firm after the step.
FirmNext(t) ==
  {x \in Var :
     /\ seen'[t][x] # None /\ readAvailable'[seen'[t][x].site][x]
     /\ x \in firm[t] \/ seen'[t][x] # seen[t][x]}

\* Has the last read served a locked read of x by t?
Serves(t, x) == lastRead # None /\ lastRead.tran = t /\ lastRead.var = x
                  /\ ~isReadOnly[t]

HistNext ==
  /\ asked' = [t \in Tran |-> [x \in Var |->
                 IF t \notin Transactions' THEN None
                 ELSE IF ReadsWriteLine(t, x) THEN request' ELSE asked[t][x]]]
  /\ lost' = [t \in Tran |-> LostNext(t)]
  /\ seen' = [t \in Tran |-> [x \in Var |->
                IF t \notin Transactions' THEN None
                ELSE IF Serves(t, x)' THEN lastRead' ELSE seen[t][x]]]
  /\ firm' = [t \in Tran |-> FirmNext(t)]

\* The fairness is that of Spec: the program goes on, its history follows.
PromiseSpec ==
  /\ Init /\ HistInit
  /\ [][Next /\ HistNext]_<<vars, histVars>>
  /\ WF_vars(Next)

-----------------------------------------------------------------------------

(* README: "TM will commit all the updates to the site and the             *)
(* corresponding variables when the TM executes the end instruction."      *)
(* Whatever a transaction asked to write is there once it has committed.   *)
CommitsAllUpdates ==
  [][\A t \in Tran, x \in Var :
       Commits(t) /\ asked[t][x] # None => lastCommitted'[x] = asked[t][x].value]_vars

\* t commits what it has asked to write last, except for what was lost.
CommitsUnlost(t) ==
  Commits(t) => \A x \in Var \ lost[t] :
    asked[t][x] # None => lastCommitted'[x] = asked[t][x].value

(* It goes missing for the known reasons only: the write found no site up, *)
(* it repeated a write of a replicated variable, it blocked again when it  *)
(* was retried, or an older write of its transaction was retried after it. *)
(* Whatever else happens to a write while it is queued, walked, granted at *)
(* different sites or hit by a failure, it is there after the commit.      *)
LostUpdatesExplained == [][\A t \in Tran : CommitsUnlost(t)]_vars

(* What was read at a readable copy stays the committed value as long as   *)
(* its transaction runs and the site has not failed: the locks of the      *)
(* copies that were readable then hold off every writer of the variable,   *)
(* also those that begin to write when other sites fail and come back.     *)
FirmReadsHold ==
  \A t \in Tran : \A x \in firm[t] : seen[t][x].val = lastCommitted[x]

(* transaction.h: "it will first check whether all the sites it visited    *)
(* before are available."  A transaction does not commit while a site that *)
(* served one of its reads is down.                                        *)
CommitsWithSitesUp ==
  [][\A t \in Tran, x \in Var :
       Commits(t) /\ seen[t][x] # None => writeAvailable[seen[t][x].site]]_vars

(* The promise is kept for the variables that have a single copy: a        *)
(* transaction that has read one does not commit while its site is down.   *)
CommitsWithHomesUp ==
  [][\A t \in Tran, x \in Var :
       Commits(t) /\ seen[t][x] # None /\ IsOdd(x) => writeAvailable[HomeSite(x)]]_vars

(* transaction_manager.cc: "When waiting, add to blocked queue"; README:   *)
(* "the requests in the queue will be executed in time order."  As long as *)
(* a request of t is queued, no younger one gets t a lock.                 *)
QueuedRequestsFirst ==
  [][\A t \in Tran :
       pc = "execute" /\ blockedQueue[t] # {} /\ t \in Transactions'
         => lockTable'[t] = lockTable[t]]_vars
=============================================================================
