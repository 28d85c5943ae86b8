SPECIFICATION Spec
CONSTANTS
    a1 = a1
    a2 = a2
    a3 = a3
    b = b
    n = n
    m = m
    NoObject = NoObject
    Objects = {a1, a2, a3, b, n, m}
    Identity <- MCIdentity
    Fingerprint <- MCFingerprint
    Serialless = {"no serial"}
    Becomes <- BackAndForth
    CheckpointCells = 2
    ChunkCells = 2
    Kills = FALSE
    Faults = FALSE
    Shrinks = FALSE
    EditsInRun <- NoEdits
INVARIANTS
    NeverSplices
    Tidy
