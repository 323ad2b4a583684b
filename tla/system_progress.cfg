\* The system as shipped, nobody rewinding the cursor: what it delivers and completes.
SPECIFICATION SystemFairSpec
CONSTANTS
    w1 = w1
    w2 = w2
    a1 = a1
    a2 = a2
    Workers <- TwoWorkers
    Approvers <- OneApprover
    ApproverSaver = "own"
    MAX_RETRIES = 3
    MaxMsgs = 2
    MaxRewinds = 0
    MaxFaults = 1
    MaxCrashes = 1
    MaxResumes = 1
INVARIANT DeliveredToOneWorker
PROPERTY AbandonedStayPending
PROPERTY EveryEventDelivered
PROPERTY UndisturbedEventsSettle
PROPERTY EventsCloseOrWait
CHECK_DEADLOCK FALSE
