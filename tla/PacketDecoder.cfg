CONSTANTS
  HeapBase = 2
  HeapSize = 10
  Align = 2
  AddrMod = 64
  Values = {0, 1, 2, 3}
  Null = Null
  OutSize = 1
  StreamSizes = {1, 3}
  CurSize = 1
  GuestSizes = {0, 2}
  FieldWidths = {1, 2}
  FieldValues = {1, 2}
  Masked = 3
  InstructionLimit = 4
SPECIFICATION FairSpec
INVARIANTS
  BlocksApart
  FreshIsZero
  ResultIsOwn
PROPERTY DecodeAnswers
