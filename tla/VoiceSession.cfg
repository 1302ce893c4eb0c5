CONSTANTS
    MaxUtterances = 2
    MaxChunks = 2
    None = None
SPECIFICATION LiveSpec
INVARIANTS GateHasAnOwner AnsweredOnce TurnsEndOnce
PROPERTIES HearsAgain
CHECK_DEADLOCK FALSE
