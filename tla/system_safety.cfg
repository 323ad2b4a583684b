\* Queue, graph runs and approvals together: overlapping runs of one event.
SPECIFICATION SystemSpec
CONSTANTS
    w1 = w1
    w2 = w2
    a1 = a1
    a2 = a2
    Workers <- TwoWorkers
    Approvers <- TwoApprovers
    ApproverSaver = "shared"
    MAX_RETRIES = 2
    MaxMsgs = 1
    MaxRewinds = 1
    MaxFaults = 0
    MaxCrashes = 1
    MaxResumes = 2
INVARIANT SystemTypeOK
INVARIANT CriticalReportsApproved
INVARIANT ReportsPerRun
INVARIANT NoEventStranded
\* The bounded model ends when nothing is left to publish or to decide.
SYMMETRY RunnerSymmetry
CHECK_DEADLOCK FALSE
