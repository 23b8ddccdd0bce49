CONSTANTS
  Base = 16
  Bytes = {0, 1, 13, 15}
  MaxLen = 7
  FewBytes = {0, 1, 15}
  LongLen = 9
  Buffers <- MCBuffers
  Messages <- MCMessages
  MaxBlocks = 2
SPECIFICATION StreamSpec
INVARIANTS
  TypeOK
  Tiling
  EndIsExact
  ReadsWhatWasWritten
PROPERTY ReaderStops
CHECK_DEADLOCK FALSE
