SPECIFICATION Spec
CONSTANTS
    MaxSeqNo = 15
    SeqNoTH = 7
    size = 5
    limit = 2
    DropsWrap = TRUE
    SkipsUnrecorded = FALSE
PROPERTIES
    ImplementsLossSet
VIEW ListView
