SPECIFICATION FairSpec
CONSTANTS
  StreamLen = 4
  MaxSeg = 4
  SeqSpace = 8
  Isn = 6
  MinLen = 3
  RequestStarts = {0, 1}
  FrameCap = 3
  QueueMax = 1
  NetMax = 0
  FakeArrives = TRUE
  SendMayFail = TRUE
  MarkMayFail = TRUE
INVARIANTS
  TypeOK
  NothingSwallowed
PROPERTIES
  PipeKept
  EverythingArrives
CHECK_DEADLOCK FALSE
