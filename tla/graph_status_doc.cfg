\* events.py: a started, uncompleted event reads "processing".
SPECIFICATION Spec
CONSTANTS
    MAX_REWRITES = 2
    INJECTION_L2_ENABLED = FALSE
    EventTexts <- SampleTexts
    JudgeReplies <- SampleReplies
    ModelOutputs <- SampleOutputs
    ApproverSaver = "own"
    MaxInvokes = 1
    MaxDecisions = 0
    MaxDeaths = 0
INVARIANT SuspendedReadsProcessing
CHECK_DEADLOCK FALSE
