\* threats.py: a rejected event ends without a report.
SPECIFICATION Spec
CONSTANTS
    MAX_REWRITES = 0
    INJECTION_L2_ENABLED = FALSE
    EventTexts <- SampleTexts
    JudgeReplies <- SampleReplies
    ModelOutputs <- SampleOutputs
    ApproverSaver = "shared"
    MaxInvokes = 2
    MaxDecisions = 2
    MaxDeaths = 0
INVARIANT RejectEndsWithoutReport
CHECK_DEADLOCK FALSE
