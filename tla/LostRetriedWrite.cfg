SPECIFICATION PromiseSpec
CONSTANTS
  SITE_COUNT = 2
  VAR_COUNT = 4
  Tran = {t1, t2, t3}
  None = None
  Value <- MCValue
  WriteValues <- TranWrites
  ReadOnlyTran = {}
  ScriptVars <- AllVars
  Vars = {2}
  MaxOps <- MCMaxOps
  Busy = {}
  MaxFaults = 0
PROPERTIES
  CommitsAllUpdates
