------------------------------ MODULE OneCopy ------------------------------
(***************************************************************************)
(* What the database is meant to be, whatever sites it is spread over: one *)
(* copy of every variable, and transactions that keep what they read and   *)
(* write to themselves until they commit in one step or leave no trace.    *)
(*                                                                         *)
(* Variables in Exposed have copies a failure can cut off.  The design     *)
(* does not keep its promises for the reads of these, so what a read of    *)
(* one returns, and whether it holds off writers, is left open.            *)
(***************************************************************************)
EXTENDS TLAPS

CONSTANTS
  Tran,      \* transactions
  Var,       \* variables
  Value,     \* values of variables
  None,      \* no value
  Initial,   \* Initial[x]: the value x starts with
  Exposed    \* variables whose reads are not protected

\* What makes sense of the constants; the theorems assume it.
ConstantsOK ==
  /\ None \notin Value
  /\ Initial \in [Var -> Value]
  /\ Exposed \subseteq Var

VARIABLES
  db,        \* the committed value of every variable
  state,     \* where a transaction is in its life
  pending,   \* pending[t][x]: what t will write to x, None if nothing
  seen       \* seen[t][x]: what t last read of x, None if nothing

vars == <<db, state, pending, seen>>

Nothing == [x \in Var |-> None]

TypeOK ==
  /\ db \in [Var -> Value]
  /\ state \in [Tran -> {"none", "active", "committed", "aborted"}]
  /\ pending \in [Tran -> [Var -> Value \cup {None}]]
  /\ seen \in [Tran -> [Var -> Value \cup {None}]]

Init ==
  /\ db = Initial
  /\ state = [t \in Tran |-> "none"]
  /\ pending = [t \in Tran |-> Nothing]
  /\ seen = [t \in Tran |-> Nothing]

-----------------------------------------------------------------------------

Begin(t) ==
  /\ state[t] = "none"
  /\ state' = [state EXCEPT ![t] = "active"]
  /\ UNCHANGED <<db, pending, seen>>

\* t reads x while nobody is about to write it.  Here and in Write the value
\* is named first, and the rest of the step then follows from it.
Read(t, x, v) ==
  /\ seen'[t][x] = v
  /\ state[t] = "active"
  /\ \A u \in Tran : pending[u][x] = None
  /\ x \notin Exposed => v = db[x]
  /\ seen' = [seen EXCEPT ![t][x] = v]
  /\ UNCHANGED <<db, state, pending>>

\* t is to write v to x; nobody else is about to write x or relies on it.
Write(t, x, v) ==
  /\ pending'[t][x] = v
  /\ state[t] = "active"
  /\ \A u \in Tran \ {t} : /\ pending[u][x] = None
                           /\ x \notin Exposed => seen[u][x] = None
  /\ pending' = [pending EXCEPT ![t][x] = v]
  /\ UNCHANGED <<db, state, seen>>

\* All that t is to write is installed at once.
Commit(t) ==
  /\ state[t] = "active"
  /\ state' = [state EXCEPT ![t] = "committed"]
  /\ db' = [x \in Var |-> IF pending[t][x] = None THEN db[x] ELSE pending[t][x]]
  /\ pending' = [pending EXCEPT ![t] = Nothing]
  /\ seen' = [seen EXCEPT ![t] = Nothing]

\* The transactions of T leave without a trace.
Abort(T) ==
  /\ \A t \in T : state[t] = "active"
  /\ state' = [t \in Tran |-> IF t \in T THEN "aborted" ELSE state[t]]
  /\ pending' = [t \in Tran |-> IF t \in T THEN Nothing ELSE pending[t]]
  /\ seen' = [t \in Tran |-> IF t \in T THEN Nothing ELSE seen[t]]
  /\ UNCHANGED db

Next ==
  \/ \E t \in Tran : Begin(t) \/ Commit(t)
  \/ \E t \in Tran, x \in Var, v \in Value : Read(t, x, v) \/ Write(t, x, v)
  \/ \E T \in SUBSET Tran : Abort(T)

Spec == Init /\ [][Next]_vars

-----------------------------------------------------------------------------

\* What a running transaction has read is still the committed value.
SeenCurrent ==
  \A t \in Tran, x \in Var \ Exposed : seen[t][x] # None => seen[t][x] = db[x]

\* Only running transactions hold anything.
OnlyActive ==
  \A t \in Tran : state[t] # "active" => pending[t] = Nothing /\ seen[t] = Nothing

\* Nobody is about to write what another one relies on or is about to write.
Isolated ==
  \A t, u \in Tran, x \in Var : t # u /\ pending[t][x] # None =>
    /\ pending[u][x] = None
    /\ x \notin Exposed => seen[u][x] = None

OneCopyInv == TypeOK /\ OnlyActive /\ Isolated /\ SeenCurrent

\* t commits, and all it has read of protected variables is what the
\* transactions committed before it have left.
CommitsInOrder(t) ==
  state[t] = "active" /\ state'[t] = "committed" =>
    \A x \in Var \ Exposed : seen[t][x] # None => seen[t][x] = db[x]

(* The committed transactions are serializable in the order of their       *)
(* commits: each of them could have run alone at the moment it committed.  *)
SerialCommits == [][\A t \in Tran : CommitsInOrder(t)]_vars

-----------------------------------------------------------------------------

(* The invariant is inductive: a read sees no pending write, a write finds *)
(* no reader of a protected variable, so a commit overwrites nothing that  *)
(* another transaction has seen.                                           *)
LEMMA NextKeepsInv ==
  ASSUME ConstantsOK, OneCopyInv, [Next]_vars
  PROVE  OneCopyInv'
<1> USE DEF OneCopyInv, ConstantsOK, Nothing
<1>1. CASE UNCHANGED vars
  BY <1>1 DEF vars, TypeOK, OnlyActive, Isolated, SeenCurrent
<1>2. ASSUME NEW t \in Tran, Begin(t)
      PROVE  OneCopyInv'
  BY <1>2 DEF Begin, TypeOK, OnlyActive, Isolated, SeenCurrent
<1>3. ASSUME NEW t \in Tran, Commit(t)
      PROVE  OneCopyInv'
  <2>1. TypeOK'
    BY <1>3 DEF Commit, TypeOK
  <2>2. OnlyActive' /\ Isolated'
    BY <1>3 DEF Commit, TypeOK, OnlyActive, Isolated
  <2>3. SeenCurrent'
    <3> SUFFICES ASSUME NEW u \in Tran, NEW x \in Var \ Exposed, seen'[u][x] # None
                 PROVE  seen'[u][x] = db'[x]
      BY DEF SeenCurrent
    <3>1. u # t /\ seen'[u][x] = seen[u][x]
      BY <1>3 DEF Commit, TypeOK
    <3>2. pending[t][x] = None /\ db'[x] = db[x]
      BY <1>3, <3>1 DEF Commit, Isolated
    <3> QED BY <3>1, <3>2 DEF SeenCurrent
  <2> QED BY <2>1, <2>2, <2>3
<1>4. ASSUME NEW T \in SUBSET Tran, Abort(T)
      PROVE  OneCopyInv'
  BY <1>4 DEF Abort, TypeOK, OnlyActive, Isolated, SeenCurrent
<1>5. ASSUME NEW t \in Tran, NEW x \in Var, NEW v \in Value, Read(t, x, v)
      PROVE  OneCopyInv'
  <2>1. TypeOK' /\ OnlyActive'
    BY <1>5 DEF Read, TypeOK, OnlyActive
  <2>2. Isolated' /\ SeenCurrent'
    BY <1>5 DEF Read, TypeOK, Isolated, SeenCurrent
  <2> QED BY <2>1, <2>2
<1>6. ASSUME NEW t \in Tran, NEW x \in Var, NEW v \in Value, Write(t, x, v)
      PROVE  OneCopyInv'
  <2>1. TypeOK' /\ OnlyActive' /\ SeenCurrent'
    BY <1>6 DEF Write, TypeOK, OnlyActive, SeenCurrent
  <2>2. Isolated'
    BY <1>6 DEF Write, TypeOK, Isolated
  <2> QED BY <2>1, <2>2
<1> QED BY <1>1, <1>2, <1>3, <1>4, <1>5, <1>6 DEF Next

(* The isolation of the one-copy database, as an invariant.                *)
THEOREM OneCopyInvariant ==
  ASSUME ConstantsOK
  PROVE  Spec => []OneCopyInv
<1>1. Init => OneCopyInv
  BY DEF Init, ConstantsOK, OneCopyInv, TypeOK, OnlyActive, Isolated, SeenCurrent, Nothing
<1>2. OneCopyInv /\ [Next]_vars => OneCopyInv'
  BY NextKeepsInv
<1> QED BY <1>1, <1>2, PTL DEF Spec

(* A transaction commits on values that are still the committed ones.      *)
THEOREM Serializable ==
  ASSUME ConstantsOK
  PROVE  Spec => SerialCommits
<1>1. OneCopyInv => \A t \in Tran : CommitsInOrder(t)
  BY DEF OneCopyInv, SeenCurrent, CommitsInOrder
<1>2. OneCopyInv /\ [Next]_vars => [\A t \in Tran : CommitsInOrder(t)]_vars
  BY <1>1
<1> QED BY <1>2, OneCopyInvariant, PTL DEF Spec, SerialCommits
=============================================================================
