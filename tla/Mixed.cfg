SPECIFICATION PromiseSpec
CONSTANTS
  SITE_COUNT = 2
  VAR_COUNT = 4
  Tran = {t1, t2}
  None = None
  Value <- MCValue
  WriteValues <- OwnWrites
  ReadOnlyTran = {}
  ScriptVars <- AllVars
  Vars = {1, 2}
  MaxOps <- MCMaxOps
  Busy = {t1}
  MaxFaults = 1
INVARIANTS
  SafetyInv SeenInv CrashesExplained StampsUnique FirmReadsHold
PROPERTIES
  AbortsExplained LostUpdatesExplained DrainAdvances CommitsWithHomesUp ImplementsOneCopy SerialCommits
