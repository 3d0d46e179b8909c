SPECIFICATION FairSpec
CONSTANTS
    Servers = {1, 2, 3}
    RaftPort <- MCRaftPort
    Attempts = 1
    MaxPuts = 1
    MaxElections = 2
    MaxCrashes = 0
    MaxBreaks = 0
CHECK_DEADLOCK FALSE
PROPERTY PutReturns
