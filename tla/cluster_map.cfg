SPECIFICATION Spec
CONSTANTS
    Server = {s1, s2, s3}
    Nobody = Nobody
    Ids = {p1, p2}
    Empty = Empty
    Payload <- MCPayload
    Confs = {c1}
    SnapData = {NoData}
    NoData = NoData
    NoConf = NoConf
    NoSnapshot = NoSnapshot
    Backends = {"memory", "disk"}
    MaxTermMemory = 3
    MaxTermDisk = 2
    MaxTerm <- MCMaxTerm
    MaxIndexMemory = 3
    MaxIndexDisk = 2
    MaxIndex <- MCMaxIndex
    MaxCrashes = 2
SYMMETRY Symmetry
CHECK_DEADLOCK FALSE
INVARIANTS TypeOK LeaderHoldsCommitted
PROPERTY Implements
