SPECIFICATION Spec
CONSTANTS
    N = 3
    Generations <- MCGenerations
    Samples = {s1, s2}
    Silence = s1
    MaxChunk = 4
    MaxOut = 2
INVARIANTS TypeOK WriteKeepsNewest
PROPERTIES FirstDropOnce ImplementsTaggedQueue
