SPECIFICATION FairSpec
CONSTANTS
  LittleEndian = TRUE
  Inputs <- MCInputs
  Replies <- MCReplies
  Ids = {0, 65535}
  BD_MAX_FRAME = 112
  BD_DNS_MAX = 3
  FakeTtl = 3
  SendMayFail = TRUE
INVARIANTS
  TypeOK
  ReadsInside
  SplitInside
  NameCut
  OnlyReplacedIsDropped
  FramesMakeTheRequest
  ChecksumsVerify
PROPERTIES
  Terminates
CHECK_DEADLOCK FALSE
