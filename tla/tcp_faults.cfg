SPECIFICATION FairSpec
CONSTANTS
    MaxMsgs = 5
    MaxRetries = 3
    MaxFaults = 6
CHECK_DEADLOCK FALSE
INVARIANTS TypeOK NoDuplicate OrderedWithoutFaults DroppedStaysDropped
PROPERTY QueueDrains
