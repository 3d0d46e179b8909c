SPECIFICATION FairSpec
CONSTANTS
    NoData = NoData
    NoConf = NoConf
    NoSnapshot = NoSnapshot
    NoValue = NoValue
    Empty = Empty
    Voters = Voters
    Payload <- MCPayload
    Confs <- MCConfs
    SnapData <- MCSnapData
    Self = 1
    Peers = {}
    Keys = {k1}
    Ids = {a, b}
    OtherIds = {}
    MaxTerm = 3
    MaxIndex = 4
    MaxCrashes = 2
    Snapshots = FALSE
CHECK_DEADLOCK FALSE
INVARIANTS KvIsReplay AnsweredIsChosen
PROPERTY CommittedIsApplied
