SPECIFICATION Spec
CONSTANTS
  BufferSizes = {0, 1, 2, 3}
  MaxBytes = 5
  MaxBuffers = 4
  Requests = {0, 1, 2, 3, 6}
CHECK_DEADLOCK FALSE
INVARIANTS
  Consistent
PROPERTIES
  ImplementsByteQueue
