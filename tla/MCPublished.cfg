CONSTANTS
  NumFruits = 2
  Types <- MCTypes
  MaxPubs = 4
  Receivers <- MCReceivers
  Pace <- MCPace
  ScanEdges = 5
  PopupLast = 2
  EffectLast = 1
SPECIFICATION Spec
INVARIANTS
  NoMixture
  EveryPublicationShown
  PopupIsLatestCut
  MusicFollowsScreen
  GameStartHeard
  EveryCutBegun
