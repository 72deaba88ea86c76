SPECIFICATION Spec
CONSTANTS
  MaxNumber = 5
  f1 = f1
  f2 = f2
  f3 = f3
  f4 = f4
  File = {f1, f2, f3, f4}
  Script <- MCScript
  Expected <- MCExpected
  Dumps <- MCDumps
INVARIANTS
  ScriptUnderstood ChildrenSettled VerdictsRight HarnessInv
PROPERTIES
  HarnessEnds
