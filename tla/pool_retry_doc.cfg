\* The documented retry: a failed message is read again from the PEL.
SPECIFICATION FairSpec
CONSTANTS
    w1 = w1
    w2 = w2
    Workers <- TwoWorkers
    MAX_RETRIES = 3
    MaxMsgs = 1
    MaxRewinds = 0
    MaxFaults = 0
    MaxCrashes = 0
PROPERTY PendingEventuallySettled
CHECK_DEADLOCK FALSE
