---------------------------- MODULE MCSnapshots ----------------------------
(* Model checking instances of the promises to read-only transactions. *)
EXTENDS Snapshots, MCScripts
=============================================================================
