SPECIFICATION FairSpec
CONSTANTS
  Windows = {w1, w2}
  NoDir = NoDir
  NoHolder = NoHolder
  TTL = 1
  MaxTakes = 2
INVARIANTS
  TypeOK
  WritersBounded
PROPERTY
  WaitersGetThrough
