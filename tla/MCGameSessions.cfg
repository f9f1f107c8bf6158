\* Three games of five frames with one slot and a table of two entries.
CONSTANTS
  NumFruits = 1
  NumTop = 2
  MaxScore = 25
  MaxBombs = 1
  ComboMax = 2
  Radix = 5
  StartTens = 1
  FramesPerSecond = 1
  FirstDelay = 0
  SpawnDelays = {0}
  TimerCap = 1
  MaxGames = 3
SPECIFICATION Spec
INVARIANTS
  TopScoresAreBest
  OverIsJustified
  ReturnPath
PROPERTY ScoreSettled
