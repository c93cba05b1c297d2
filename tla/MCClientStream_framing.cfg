SPECIFICATION Spec
CONSTANTS
  BufferSize = 8
  ByteRange = 8
  Cmds = {1, 2, 7}
  Exit = 7
  Sizes = {0, 2}
  Filler = 2
  MaxSent = 4
CHECK_DEADLOCK FALSE
INVARIANTS Framed
