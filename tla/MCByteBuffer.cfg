CONSTANTS
  Byte = {0, 1}
  Areas = {1, 3, 4}
  W = 4
  MaxReads = 2
SPECIFICATION Spec
INVARIANTS AreaAccepted
