SPECIFICATION Spec
CONSTANTS
  SITE_COUNT = 2
  VAR_COUNT = 4
  Tran = {t1, t2}
  None = None
  Value <- MCValue
  WriteValues <- TranWrites
  ReadOnlyTran = {}
  ScriptVars <- AllVars
  Vars = {2, 4}
  MaxOps <- MCMaxOps
  Busy = {t1, t2}
  MaxFaults = 0
INVARIANTS
  CopiesAlike
PROPERTIES
  DumpAfterEnds DeadlockBroken ExecuteReturns DrainEnds
