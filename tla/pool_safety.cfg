\* The pool under cursor rewinds, failing Redis commands and a crash.
SPECIFICATION Spec
CONSTANTS
    w1 = w1
    w2 = w2
    Workers <- TwoWorkers
    MAX_RETRIES = 2
    MaxMsgs = 2
    MaxRewinds = 3
    MaxFaults = 2
    MaxCrashes = 1
SYMMETRY WorkerSymmetry
INVARIANT TypeOK
INVARIANT NoSilentLoss
INVARIANT DeadLetterBudget
PROPERTY CountsKeptUntilOutcome
PROPERTY ImplementsLedger
\* The bounded model ends when every message is read and no rewind is left;
\* the idle worker then polls without changing anything.
CHECK_DEADLOCK FALSE
