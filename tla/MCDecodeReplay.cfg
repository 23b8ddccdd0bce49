CONSTANTS
  Netids = {1, 2}
  ShapeMin = 2
  VoteNum = 2
  VoteDen = 3
  Workers = {w1, w2}
  Replays <- MCReplays
  MaxChunks = 3
SPECIFICATION FairSpec
INVARIANTS
  ShapesAreElected
PROPERTY ImplementsInOrder
CHECK_DEADLOCK FALSE
