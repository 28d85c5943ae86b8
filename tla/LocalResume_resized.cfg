SPECIFICATION Spec
CONSTANTS
    a1 = a1
    a2 = a2
    a3 = a3
    b = b
    n = n
    m = m
    NoObject = NoObject
    Objects = {a1, a2, a3, b}
    Identity <- MCIdentity
    Fingerprint <- MCFingerprint
    Serialless = {"no serial"}
    Becomes <- Forward
    CheckpointCells = 2
    ChunkCells = 2
    Kills = TRUE
    Faults = TRUE
    Shrinks = FALSE
    EditsInRun <- Resizing
INVARIANTS
    LossBounded
PROPERTIES
    ImplementsAtomicFile
    ProgressKept
