SPECIFICATION WireSpec
CONSTANTS
  BufferSize = 13
  LengthLimit = 14
  TextLengths = {0, 1, 2, 3, 5, 15}
  MaxGarbage = 6
INVARIANTS
  WireTypeOK
  WholeFieldsArrive
  AllocationSuffices
CHECK_DEADLOCK FALSE
