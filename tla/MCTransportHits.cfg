CONSTANTS
  HeaderSize = 2
  Streams = {"game", "keyframe", "other"}
  GameChunk = "game"
  Bodies <- MCBodies
  Files <- MCFiles
  Garbage <- MCGarbage
  MaxChunks = 2
  Consumers = {"hits"}
SPECIFICATION FairSpec
INVARIANT CollectsEveryGameBlock
CHECK_DEADLOCK FALSE
