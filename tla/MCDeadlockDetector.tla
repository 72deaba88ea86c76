------------------------- MODULE MCDeadlockDetector -------------------------
(* Every wait-for graph of a few transactions. *)
EXTENDS DeadlockDetector

MCValue == {InitialValue(x) : x \in Var}
=============================================================================
