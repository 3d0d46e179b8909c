SPECIFICATION Spec
CONSTANTS
    p1 = p1
    c1 = c1
    c2 = c2
    Payload <- MCPayload
    Confs = {c1, c2}
    SnapData <- MCSnapData
    NoData = NoData
    NoConf = NoConf
    NoSnapshot = NoSnapshot
    MaxIndex = 3
    MaxTerm = 2
    MaxBatch = 2
    MaxCrashes = 1
    Overwrites = TRUE
    Compaction = TRUE
SYMMETRY Symmetry
CHECK_DEADLOCK FALSE
INVARIANTS TypeOK DurableBetweenCalls StoredSurvives LogHasNoHole LogReadsAgree InitialStateAgrees
