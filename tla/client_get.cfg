SPECIFICATION Spec
CONSTANTS
    Servers = {1, 2, 3}
    RaftPort <- MCRaftPort
    Attempts = 5
    MaxPuts = 1
    MaxElections = 1
    MaxCrashes = 0
    MaxBreaks = 0
CHECK_DEADLOCK FALSE
INVARIANT GetIsServed
