SPECIFICATION Spec
CONSTANTS
    Server = {s1, s2, s3}
    Nobody = Nobody
    Ids = {p1, p2}
    Empty = Empty
    Payload <- MCPayload
    Confs = {c1}
    SnapData = {NoData}
    NoData = NoData
    NoConf = NoConf
    NoSnapshot = NoSnapshot
    Backends = {"disk"}
    MaxTermMemory = 4
    MaxTermDisk = 4
    MaxTerm <- MCMaxTerm
    MaxIndexMemory = 3
    MaxIndexDisk = 3
    MaxIndex <- MCMaxIndex
    MaxCrashes = 0
SYMMETRY Symmetry
CHECK_DEADLOCK FALSE
INVARIANT LeaderHoldsCommitted
