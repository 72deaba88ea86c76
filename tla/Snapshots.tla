----------------------------- MODULE Snapshots -----------------------------
(***************************************************************************)
(* What the repository promises of the read-only transactions, and what    *)
(* holds of them.  As in module Promises, history variables remember what  *)
(* the promises are about and never steer the program.                     *)
(***************************************************************************)
EXTENDS Properties

VARIABLES
  snapshot,   \* snapshot[t]: the committed values when t began
  late        \* late[t]: the variables whose snapshot for the read-only t
              \* has been spoiled by a commit with too old a stamp

snapshotVars == <<snapshot, late>>

SnapshotInit ==
  /\ snapshot = [t \in Tran |-> lastCommitted]
  /\ late = [t \in Tran |-> {}]

\* The step commits a write of x.
CommitsWrite(x) ==
  \E t \in Tran : Commits(t) /\ \E s \in Site : writeRecords[t][s][x] # None

\* The stamp of the versions it installs.
EndStamp == Executing.timestamp

\* For t a commit of x stamped ts comes too late: t has begun, and not before
\* ts; or t has not begun, and will find a version that is no older.
TooLate(t, x, ts) ==
  \/ status[t] = "active" /\ ts <= beginTime[t]
  \/ status[t] = "none" /\ \E s \in CopySites(x) : \E v \in versions[s][x] : ts <= v.ts

\* What is late for t after the step.  Until t begins, the last commit counts.
LateNext(t) ==
  {x \in Var : \/ CommitsWrite(x) /\ TooLate(t, x, EndStamp)
               \/ x \in late[t] /\ (CommitsWrite(x) => status[t] = "active")}

SnapshotNext ==
  /\ snapshot' = [t \in Tran |-> IF status[t] = "none" THEN lastCommitted'
                                 ELSE snapshot[t]]
  /\ late' = [t \in Tran |->
                IF t \in ReadOnlyTran /\ status'[t] \in {"none", "active"}
                THEN LateNext(t) ELSE {}]

\* The fairness is that of Spec: the program goes on, its history follows.
SnapshotSpec ==
  /\ Init /\ SnapshotInit
  /\ [][Next /\ SnapshotNext]_<<vars, snapshotVars>>
  /\ WF_vars(Next)

-----------------------------------------------------------------------------

(* README: "The read-only transaction will have multi-version concurrency  *)
(* control to read the variables."  What a read-only transaction reads is  *)
(* what was committed when it began.                                       *)
SnapshotReads ==
  lastRead # None /\ isReadOnly[lastRead.tran]
    => lastRead.val = snapshot[lastRead.tran][lastRead.var]

\* The copy of x at s lacks a version with a stamp up to ts: it was down, or
\* not locked, when that one was committed.
Missed(s, x, ts) ==
  \E u \in CopySites(x) : \E v \in versions[u][x] : v.ts <= ts /\ v \notin versions[s][x]

\* The step prints a snapshot read as it should be, or for a known reason not.
PrintsSnapshot ==
  lastRead' \notin {lastRead, None} =>
    LET t == lastRead'.tran
        x == lastRead'.var
    IN isReadOnly[t] /\ x \notin late[t] /\ ~Missed(lastRead'.site, x, beginTime[t])
         => lastRead'.val = snapshot[t][x]

(* A snapshot read goes wrong for two reasons only: a commit whose end was *)
(* executed later than it is stamped, or a copy that was left out of an    *)
(* earlier commit and has become readable since.                           *)
SnapshotsExplained == [][PrintsSnapshot]_vars

(* A commit adds versions and replaces none, also when it comes late: what *)
(* a read-only transaction may still need is never lost.                   *)
VersionsKept ==
  [][\A s \in Site, x \in Var : versions[s][x] \subseteq versions'[s][x]]_vars

(* Only an end that waited in the blocked queue comes too late for a       *)
(* snapshot; what is executed when its line is read never does.            *)
LateEndsWaited == [][pc # "retry" => \A t \in Tran : late'[t] \subseteq late[t]]_vars

-----------------------------------------------------------------------------
(* The inductive invariant behind SnapshotsExplained. *)

\* Versions and transactions are no younger than the line being executed,
\* and older than an end that is executed without having been queued.
StampsPast ==
  LET Past(ts) == /\ ts <= currTimestamp
                  /\ pc = "execute" /\ request # None /\ request.type = "END"
                       => ts < currTimestamp
  IN /\ \A s \in Site, x \in Var : \A v \in versions[s][x] : Past(v.ts)
     /\ \A t \in Tran : status[t] # "none" => Past(beginTime[t])

\* Only the transactions begun with beginRO read snapshots.
ReadersKnown ==
  /\ \A t \in Tran : isReadOnly[t] => t \in ReadOnlyTran
  /\ request # None /\ request.type = "BEGINO" => request.tran \in ReadOnlyTran

\* A transaction that begins now finds what was committed last.
SnapshotsReady ==
  \A t \in ReadOnlyTran : \A x \in Var \ late[t] : \A s \in CopySites(x) :
    status[t] = "none" /\ ~Missed(s, x, currTimestamp)
      => GetValue(s, x, currTimestamp) = lastCommitted[x]

\* One that has begun goes on finding what was committed then.
SnapshotsKept ==
  \A t \in ReadOnlyTran : \A x \in Var \ late[t] : \A s \in CopySites(x) :
    status[t] = "active" /\ ~Missed(s, x, beginTime[t])
      => GetValue(s, x, beginTime[t]) = snapshot[t][x]

(* Snapshots are right wherever no late commit and no missed version is to *)
(* blame: before a read-only transaction begins and as long as it runs.    *)
SnapshotInv ==
  /\ StampsPast /\ ReadersKnown
  /\ SnapshotsReady /\ SnapshotsKept
=============================================================================
