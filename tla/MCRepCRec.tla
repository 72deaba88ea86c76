----------------------------- MODULE MCRepCRec -----------------------------
(* Model checking instances of the whole program. *)
EXTENDS MCScripts, TLC
LOCAL INSTANCE Functions

\* The transactions that are not busy have a variable of their own each.
OwnVars ==
  LET own == CHOOSE f \in [Tran \ Busy -> Vars] : IsInjective(f)
  IN [t \in Tran |-> IF t \in Busy THEN Vars ELSE {own[t]}]

Symmetry == Permutations(Tran)
=============================================================================
