----------------------------- MODULE MCScripts -----------------------------
(* The scripts of the model checking instances. *)
EXTENDS Properties

CONSTANTS
  Busy,   \* the transactions with two reads or writes; the others have one
  Vars    \* the variables in use

MCValue == Tran \cup {0} \cup {InitialValue(x) : x \in Var}

AllVars == [t \in Tran |-> Vars]

MCMaxOps == [t \in Tran |-> IF t \in Busy THEN 2 ELSE 1]

\* Every transaction writes its own name: two writers never agree by chance.
TranWrites == [t \in Tran |-> [n \in 0 .. MCMaxOps[t] |-> {t}]]

\* A second operation writes 0: as long as one transaction is busy, no two
\* writes of a script agree.
OwnWrites == [t \in Tran |-> [n \in 0 .. MCMaxOps[t] |-> {IF n = 0 THEN t ELSE 0}]]

NoWrites == [t \in Tran |-> [n \in 0 .. MCMaxOps[t] |-> {}]]
=============================================================================
