\* One event through redeliveries, decisions and a run that dies.
SPECIFICATION FairSpec
CONSTANTS
    MAX_REWRITES = 2
    INJECTION_L2_ENABLED = TRUE
    EventTexts <- SampleTexts
    JudgeReplies <- SampleReplies
    ModelOutputs <- CleanOutputs
    ApproverSaver = "shared"
    MaxInvokes = 2
    MaxDecisions = 2
    MaxDeaths = 1
INVARIANT TypeOK
INVARIANT RewritesAreCounted
INVARIANT WorkIsBounded
INVARIANT ReportNeedsApproval
INVARIANT ApprovalUsedOnce
INVARIANT AuditShowsApproval
INVARIANT CompletedIsEarned
INVARIANT ReportIsGraded
PROPERTY RunsRunDown
PROPERTY ImplementsIncident
PROPERTY RunEnds
PROPERTY UncriticalRunReports
PROPERTY ApprovalLeadsToReport
\* The bounded model ends when the event is done and no request is left.
CHECK_DEADLOCK FALSE
