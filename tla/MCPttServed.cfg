SPECIFICATION ServedSpec
CONSTANTS
    MaxGen = 2
    MaxChunks = 2
    MaxSessions = 1
    RingChunks = 2
    Depth = 2
    Levels = {0}
    ChannelStalls = FALSE
    SessionsEnd = FALSE
    Overruns = FALSE
PROPERTIES SpokenIsHeard
