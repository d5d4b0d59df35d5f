SPECIFICATION Spec
CONSTANTS
    Words = 24
    Margin = 2
    ChunkWords = 6
    WordTime = 2
    MsTime = 5
    WordsPerMs = 2
    TickMs = 2
    Gaps <- AnyGap
    MaxTime = 200
INVARIANTS TypeOK PairsKept
PROPERTIES ChunksWhole LossIsNoticed
