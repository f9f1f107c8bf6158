CONSTANTS
  AddrWidth = 2
  Data = {d0, d1}
  Blank = d0
SPECIFICATION Spec
INVARIANT LevelsAreSafe
PROPERTY ImplementsAsyncFifo
