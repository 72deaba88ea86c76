----------------------------- MODULE MCHarness -----------------------------
(* Scripts with every kind of line, an unknown word, a missing number.     *)
EXTENDS Harness

CONSTANTS f1, f2, f3, f4

MCScript ==
  f1 :> << [type |-> "BEGIN", tran |-> 1], [type |-> "BEGINO", tran |-> 2],
           [type |-> "WRITE", tran |-> 1, var |-> 3, value |-> 5],
           [type |-> "FAIL", site |-> 4], [type |-> "RECOVER", site |-> 4],
           [type |-> "DUMP"],
           [type |-> "READ", tran |-> 2, var |-> 3], [type |-> "END", tran |-> 1] >>
  @@ f2 :> << [type |-> "DUMP"] >>
  @@ f3 :> << [type |-> "BEGIN", tran |-> 1], [type |-> "UNKNOWN"] >>
  @@ f4 :> << [type |-> "INVALID"] >>

MCDumps == { <<"=", "a", "=">>, <<"=", "b", "=">> }
MCExpected == [f \in File |-> IF f = f1 THEN <<"=", "a", "=">> ELSE <<"=", "b", "=">>]
=============================================================================
