----------------------------- MODULE MCLockScan -----------------------------
(* A model checking instance of the whole program and its lock scan. *)
EXTENDS MCRepCRec, LockScan
=============================================================================
