SPECIFICATION FairSpec
CONSTANTS
    Routes <- AllRoutes
    MaxSteps = 2
    AnswerChunks = 2
    MaxOutput = 1
INVARIANTS
    TerminalIsLast
    ReaderLearnsTheEnd
    DraftStaysIn
    AnswerWhole
PROPERTIES
    GoroutinesEnd
CHECK_DEADLOCK FALSE
