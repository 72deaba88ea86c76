SPECIFICATION ScanSpec
CONSTANTS
  SITE_COUNT = 2
  VAR_COUNT = 4
  Tran = {t1, t2}
  None = None
  Value <- MCValue
  WriteValues <- TranWrites
  ReadOnlyTran = {}
  ScriptVars <- AllVars
  Vars = {1, 2}
  MaxOps <- MCMaxOps
  Busy = {t1}
  MaxFaults = 2
INVARIANTS
  ScanInv
