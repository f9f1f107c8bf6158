CONSTANTS
  Depth = 4
  FramePixels = 4
  Data <- MCWords
  Blank <- MCBlank
SPECIFICATION Spec
INVARIANTS
  PointersInOrder
  OfferedIsTaken
  WholePixels
PROPERTIES
  FramesArePrefixes
  IsQueue
