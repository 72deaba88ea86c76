SPECIFICATION Spec
CONSTANTS
  SITE_COUNT = 2
  VAR_COUNT = 4
  Tran = {t1, t2, t3}
  None = None
  Value <- MCValue
INVARIANTS
  DetectsExactly DetectorInv
PROPERTIES
  Termination
