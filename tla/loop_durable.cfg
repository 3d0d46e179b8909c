SPECIFICATION Spec
CONSTANTS
    NoData = NoData
    NoConf = NoConf
    NoSnapshot = NoSnapshot
    NoValue = NoValue
    Empty = Empty
    Voters = Voters
    Payload <- MCPayload
    Confs <- MCConfs
    SnapData <- MCSnapData
    Self = 1
    Peers = {2}
    Keys = {k1}
    Ids = {}
    OtherIds = {}
    MaxTerm = 2
    MaxIndex = 2
    MaxCrashes = 1
    Snapshots = TRUE
CHECK_DEADLOCK FALSE
INVARIANTS VotesDurable OneVotePerTerm AcksDurable
