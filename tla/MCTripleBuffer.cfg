SPECIFICATION Spec
CONSTANTS
    FrameWords = 3
    MaxFrames = 9
    SlowSource = TRUE
INVARIANTS TypeOK NoTear PendingIsWhole FramesAccounted
PROPERTIES NoFrameLost
