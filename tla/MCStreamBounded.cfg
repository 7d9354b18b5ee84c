SPECIFICATION Spec
CONSTANTS
    Routes = {"bounded"}
    MaxSteps = 1
    AnswerChunks = 1
    MaxOutput = 1
INVARIANTS
    NeverUnvalidated
CHECK_DEADLOCK FALSE
