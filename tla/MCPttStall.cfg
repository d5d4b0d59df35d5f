SPECIFICATION Spec
CONSTANTS
    MaxGen = 2
    MaxChunks = 2
    MaxSessions = 1
    RingChunks = 2
    Depth = 1
    Levels = {0}
    ChannelStalls = TRUE
    SessionsEnd = FALSE
    Overruns = FALSE
INVARIANTS OneUtteranceAtATime
