SPECIFICATION AllSpec
CONSTANTS
  Keys = {1, 2, 3, 4, 5, 6, 7, 8}
  RefreshRate = 13
  PreAnnounce = 6
  PerAck = 2
  Lag = 2
  Window = 3
  Retries = 2
  Cols = 3
  Rows = 2
  ColsOnly = FALSE
  Staircase = FALSE
  Packets = 10
  MaxLoss = 3
  MaxBehind = 1
  MaxSeqNo = 15
  SeqNoTH = 7
  FlowWindow = 3
  MaxMsgLen = 1
  DropsInLiteAck = FALSE
  RcvSize = 5
  ReportSize = 2
  DropsWrap = FALSE
  SkipsUnrecorded = FALSE
INVARIANTS Unnoticed RebuiltExactly Accounted OnlyMissing ReportIsPrefix
PROPERTIES SwitchIsKeyed OnlyLostReported ImplementLossSets
VIEW ListView
CHECK_DEADLOCK FALSE
