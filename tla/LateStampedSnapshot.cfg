SPECIFICATION SnapshotSpec
CONSTANTS
  SITE_COUNT = 2
  VAR_COUNT = 4
  Tran = {t1, t2, t3}
  None = None
  Value <- MCValue
  WriteValues <- TranWrites
  ReadOnlyTran = {t3}
  ScriptVars <- AllVars
  Vars = {2}
  MaxOps <- MCMaxOps
  Busy = {}
  MaxFaults = 0
INVARIANTS
  SnapshotReads
