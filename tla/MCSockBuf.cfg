SPECIFICATION Spec
CONSTANTS
  Byte = {a, b}
  Undefined = Undefined
  InitSize = 1
  MaxLen = 2
  MaxReadable = 3
INVARIANTS
  NoUndefinedRead
  SizeBounded
PROPERTIES
  OnlyReadMoveThrows
  QueueSpec
