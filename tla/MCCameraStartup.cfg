SPECIFICATION Spec
CONSTANTS
  Backgrounds <- MCBackgrounds
INVARIANTS
  AsConfigured
  OffUnless
PROPERTY AwakeWhenUsed
CHECK_DEADLOCK FALSE
