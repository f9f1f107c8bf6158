\* One game with three slots; the score ceiling is met.
CONSTANTS
  NumFruits = 3
  NumTop = 1
  MaxScore = 27
  MaxBombs = 2
  ComboMax = 2
  Radix = 2
  StartTens = 2
  FramesPerSecond = 2
  FirstDelay = 1
  SpawnDelays = {1}
  TimerCap = 2
  MaxGames = 1
SPECIFICATION FairSpec
INVARIANTS
  TypeOK
  PlayingIsAlive
  NoFruitOffScreen
  ClockExact
PROPERTIES
  CutsAreScored
  GameEnds
