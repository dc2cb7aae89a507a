SPECIFICATION Spec
CONSTANTS
  Buffers = 3
  Total = 8
INVARIANTS
  TypeOK
  NeverFull
PROPERTIES
  InOrder
  Answers
