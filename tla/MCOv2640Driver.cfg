SPECIFICATION Spec
CONSTANTS
  Table <- MCTable
  Programs <- MCPrograms
  Scripts <- MCScripts
  Backgrounds <- MCBackgrounds
  Banks = {"dsp", "sensor"}
INVARIANT RightBank
PROPERTY ImplementsSettings
CHECK_DEADLOCK FALSE
