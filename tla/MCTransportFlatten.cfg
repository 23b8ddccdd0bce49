CONSTANTS
  HeaderSize = 2
  Streams = {"game", "keyframe", "other"}
  GameChunk = "game"
  Bodies <- MCBodies
  Files <- MCFiles
  Garbage <- MCGarbage
  MaxChunks = 2
  Consumers = {"flatten"}
SPECIFICATION FairSpec
PROPERTY ReachesTheBoundary
CHECK_DEADLOCK FALSE
