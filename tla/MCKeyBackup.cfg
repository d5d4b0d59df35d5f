SPECIFICATION FairSpec
CONSTANTS
    Keyboard = keyboard
    Consoles = {keyboard, uart}
    Cards = {card1}
    SigningKeys = {k1}
    OldKeys = {oldkey}
    Faults = {"fetch", "store", "card"}
    MaxCommands = 2
    MaxMoves = 1
    MaxCuts = 1
    MaxRestarts = 1
INVARIANTS TypeOK SavedStays OnlyStoredKeysLeave StorageFollowsSlot
PROPERTIES BadFileChangesNothing EveryoneReturns
CHECK_DEADLOCK FALSE
