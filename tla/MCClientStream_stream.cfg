SPECIFICATION FairSpec
CONSTANTS
  BufferSize = 8
  ByteRange = 8
  Cmds = {1, 2, 7}
  Exit = 7
  Sizes = {0, 1, 2, 9}
  Filler = 2
  MaxSent = 3
INVARIANTS
  TypeOK
  InBounds
  FramedUnlessCut
PROPERTIES
  Delivered
  EndsAfterClose
CHECK_DEADLOCK FALSE
