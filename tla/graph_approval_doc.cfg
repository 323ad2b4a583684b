\* threats.py: approving a suspended event continues to its report.
SPECIFICATION FairSpec
CONSTANTS
    MAX_REWRITES = 1
    INJECTION_L2_ENABLED = FALSE
    EventTexts <- SampleTexts
    JudgeReplies <- SampleReplies
    ModelOutputs <- SampleOutputs
    ApproverSaver = "own"
    MaxInvokes = 1
    MaxDecisions = 1
    MaxDeaths = 0
PROPERTY ApprovalLeadsToReport
CHECK_DEADLOCK FALSE
