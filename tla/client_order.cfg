SPECIFICATION Spec
CONSTANTS
    Servers = {1, 2, 3}
    RaftPort <- MCRaftPort
    Attempts = 3
    MaxPuts = 2
    MaxElections = 2
    MaxCrashes = 1
    MaxBreaks = 1
CHECK_DEADLOCK FALSE
INVARIANTS TypeOK SuccessIsChosen WritesInOrder AttemptOnce
