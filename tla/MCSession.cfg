SPECIFICATION FairSpec
CONSTANTS
    MaxSessions = 3
    MaxEvents = 2
    Commands = {"none", "configured", "embedded"}
    ScriptChunks = 2
INVARIANTS TypeOK RightChannels HelperFirst
PROPERTIES KeepsLink AudioComesUp
CHECK_DEADLOCK FALSE
