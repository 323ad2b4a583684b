\* Two runs of the batch job and an ingest request on one stream.
SPECIFICATION Spec
CONSTANTS
    c1 = c1
    c2 = c2
    bad = bad
    r1 = r1
    r2 = r2
    q1 = q1
    Cves <- ThreeCves
    Malformed <- BadCve
    Runs <- TwoRuns
    Requests <- OneRequest
    Payloads <- SamplePayloads
    Credentials <- SampleTokens
    Day = 2
    MaxTime = 6
    MaxFaults = 1
INVARIANT TypeOK
INVARIANT CompletedRunCoversItsDay
INVARIANT DailyRunsLeaveNoGap
INVARIANT CopiesAccounted
INVARIANT AnswersMatchStream
SYMMETRY Alike
CHECK_DEADLOCK FALSE
