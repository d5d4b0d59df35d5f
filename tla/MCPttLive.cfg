SPECIFICATION FairSpec
CONSTANTS
    MaxGen = 2
    MaxChunks = 1
    MaxSessions = 1
    RingChunks = 1
    Depth = 1
    Levels = {0}
    ChannelStalls = TRUE
    SessionsEnd = TRUE
    Overruns = FALSE
PROPERTIES EveryUtteranceServed OverlayGoes
