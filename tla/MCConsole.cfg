SPECIFICATION FairSpec
CONSTANTS
    MaxPresses = 2
    Batches <- Pastes
    MaxBatches = 2
    MaxPrints = 1
    MaxOutputs = 1
    KeyDepth = 1
INVARIANTS TypeOK NoSelfWait
PROPERTIES ScreenFreed KeyboardReads AnswerFreesConfig
CHECK_DEADLOCK FALSE
