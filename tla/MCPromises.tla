----------------------------- MODULE MCPromises -----------------------------
(* Model checking instances of the documented promises and the refinement. *)
EXTENDS Refinement, MCScripts
=============================================================================
