SPECIFICATION Spec
CONSTANTS
  SITE_COUNT = 2
  VAR_COUNT = 4
  Tran = {t1, t2, t3}
  None = None
  Value <- MCValue
  WriteValues <- NoWrites
  ReadOnlyTran = {}
  ScriptVars <- OwnVars
  Vars = {1, 3}
  MaxOps <- MCMaxOps
  Busy = {t3}
  MaxFaults = 0
PROPERTIES
  DrainEnds
