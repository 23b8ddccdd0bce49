CONSTANTS
  HeaderSize = 2
  Streams = {"game", "keyframe", "other"}
  GameChunk = "game"
  Bodies <- MCBodies
  Files <- MCFiles
  Garbage <- MCGarbage
  MaxChunks = 3
  Consumers = {"decode", "hits", "count", "flatten"}
SPECIFICATION FairSpec
INVARIANTS
  EveryRecordOnce
  LossIsMeant
PROPERTY WalkStops
CHECK_DEADLOCK FALSE
