SPECIFICATION FairSpec
CONSTANTS
    N = 3
    MsgEnds = {0, 2}
    SndSize = 2
    RcvSize = 3
    Modes = {"live", "ordered", "unordered"}
    NetForward = 2
    NetBack = 1
    Windows = {"ack"}

INVARIANTS NumbersMatch AcksAreHonest
PROPERTIES DeliveryRefined DueIsPlayed AllDelivered
CHECK_DEADLOCK FALSE
