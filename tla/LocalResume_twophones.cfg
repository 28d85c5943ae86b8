SPECIFICATION Spec
CONSTANTS
    a1 = a1
    a2 = a2
    a3 = a3
    b = b
    n = n
    m = m
    NoObject = NoObject
    Objects = {a1, b}
    Identity <- MCIdentity
    Fingerprint <- MCFingerprint
    Serialless = {"no serial"}
    Becomes <- BackAndForth
    CheckpointCells = 2
    ChunkCells = 2
    Kills = TRUE
    Faults = FALSE
    Shrinks = FALSE
    EditsInRun <- NoEdits
INVARIANT
    NeverSplices
