----------------------------- MODULE Refinement -----------------------------
(***************************************************************************)
(* RepCRec implements OneCopy: for its read-write transactions, many sites *)
(* with locks, queues, failures and retries look like one copy of the      *)
(* data.  Seen from there, a request that waits, the walk of the blocked   *)
(* queue, failures that hit nobody and recoveries are steps that change    *)
(* nothing.                                                                *)
(***************************************************************************)
EXTENDS Promises

allVars == <<vars, histVars>>

\* What t has recorded to write to x; all its records for x agree.
PendingValue(t, x) ==
  IF \E s \in Site : writeRecords[t][s][x] # None
  THEN writeRecords[t][CHOOSE s \in Site : writeRecords[t][s][x] # None][x]
  ELSE None

SeenValue(t, x) == IF seen[t][x] = None THEN None ELSE seen[t][x].val

\* Failures expose the replicated variables: their copies come back stale
\* and are read all the same, and a read is not checked at commit.
ExposedVars == IF MaxFaults = 0 THEN {} ELSE {x \in Var : ~IsOdd(x)}

pendingValues == [t \in Tran |-> [x \in Var |-> PendingValue(t, x)]]
seenValues == [t \in Tran |-> [x \in Var |-> SeenValue(t, x)]]

Copy == INSTANCE OneCopy WITH
  Initial <- [x \in Var |-> InitialValue(x)],
  Exposed <- ExposedVars,
  db      <- lastCommitted,
  state   <- status,
  pending <- pendingValues,
  seen    <- seenValues

(* Every step of the program is a step of the one-copy database or leaves  *)
(* it alone: reads return committed values that no running transaction is  *)
(* about to overwrite, no two transactions are about to write the same     *)
(* variable, commits install everything recorded at once, aborts nothing.  *)
ImplementsOneCopy == Copy!Spec

(* The committed transactions are serializable in the order of their       *)
(* commits: what a transaction has read (of protected variables) is still  *)
(* the committed value when it commits.                                    *)
SerialCommits == Copy!SerialCommits

-----------------------------------------------------------------------------
(* The inductive invariant of the refinement, on top of those of module    *)
(* Properties.                                                             *)

\* A read holds off writers at every copy, unless failures can expose it.
ReadsHoldLocks ==
  \A t \in Tran, x \in Var \ ExposedVars :
    seen[t][x] # None => \A s \in CopySites(x) : t \in Holders(s, x)

\* seen has the reads of the running transactions, up to the last one.
SeenFollowsReads ==
  /\ seen \in [Tran -> [Var -> ReadEvent \cup {None}]]
  /\ \A t \in Tran, x \in Var :
       /\ seen[t][x] # None => t \in Transactions
       /\ Serves(t, x) /\ t \in Transactions => seen[t][x] = lastRead
  /\ lastRead # None => status[lastRead.tran] # "none"

(* Whoever has read a protected variable holds a lock on every copy of it  *)
(* until it ends, also across a failure and recovery of the site: with     *)
(* this the steps of the program map to those of the one-copy database.    *)
SeenInv == ReadsHoldLocks /\ SeenFollowsReads /\ NothingDown
=============================================================================
