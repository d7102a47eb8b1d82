SPECIFICATION Spec
CONSTANTS
  IntBits <- MCIntBits
  Float32 <- MCFloat32
  ShortMax = 127
  CHUNK_SIZE = 256
  MaxKeyLen = 255
  KeyText <- MsgKeys
  Lower <- MCLower
  StrLen <- MCStrLen
  PageSize = 4096
  PageCount = 32767
  MIN_BUFFERSIZE = 512
  MaxSends = 4
  Messages <- MCMessages
INVARIANTS
  TypeOK
  MessagesSurvive
  OnlyOverlapGarbles
  NobodyGivesUp
  SamePageBothEnds
  NothingLeftWaiting
CHECK_DEADLOCK FALSE
