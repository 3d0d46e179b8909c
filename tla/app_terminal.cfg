SPECIFICATION FairSpec
CONSTANTS
    Ascii = {"p"}
    Wide = {"e2"}
    Blank = " "
    Keys = {k1}
    MaxLen = 5
    MaxQueue = 1
    MaxWrites = 2
CHECK_DEADLOCK FALSE
INVARIANTS TypeOK AsciiNeverPanics MirrorFollowsMap
PROPERTY ProcessEnds
