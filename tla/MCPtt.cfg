SPECIFICATION Spec
CONSTANTS
    MaxGen = 2
    MaxChunks = 2
    MaxSessions = 2
    RingChunks = 2
    Depth = 1
    Levels = {0}
    ChannelStalls = TRUE
    SessionsEnd = TRUE
    Overruns = TRUE
INVARIANTS TypeOK InOrder NothingLeftBehind OverlayTracksRecording
