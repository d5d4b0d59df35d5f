SPECIFICATION Spec
CONSTANTS
    Rows = 3
    Cols = 1
    MaxSafe = 2
    Glyphs = {"a"}
    Params = {0, 1, 2, 3}
INVARIANTS TypeOK HistoryBounded
PROPERTIES DisplayFollows TextMovesUp
CHECK_DEADLOCK FALSE
