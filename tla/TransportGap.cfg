SPECIFICATION FairSpec
CONSTANTS
    N = 3
    MsgEnds = {0, 2}
    SndSize = 2
    RcvSize = 3
    Modes = {"live"}
    NetForward = 2
    NetBack = 1
    Windows = {"gap"}
CHECK_DEADLOCK FALSE
PROPERTIES DueIsPlayed
