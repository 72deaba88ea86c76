SPECIFICATION Spec
CONSTANTS
  SITE_COUNT = 2
  VAR_COUNT = 4
  Tran = {t1, t2}
  None = None
  Value <- MCValue
  WriteValues <- TranWrites
  ReadOnlyTran = {}
  ScriptVars <- AllVars
  Vars = {2}
  MaxOps <- MCMaxOps
  Busy = {t1, t2}
  MaxFaults = 2
SYMMETRY Symmetry
INVARIANTS
  TypeOK LockExclusion OneWriter PendingWritesCovered NoOrphanLocks WaitersRun ReadableCopiesCurrent StaleCopiesMissedCommit EndsPending
PROPERTIES
  StrictTwoPhase
