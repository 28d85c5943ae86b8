SPECIFICATION MtpSpec
CONSTANTS
    d = d
    e = e
    f = f
    g = g
    Storage = Storage
    Objects = {d, e, f, g}
    Name <- MCName
    Folders = {d, e}
    Under <- MCUnder
    AtFirst <- MCAtFirst
    RootStays = TRUE
    MaxChanges = 2
    RootPaths <- MCRootPaths
    Reserved = {"part"}
    Depth = 1
    Sizes = {3}
INVARIANTS
    MtpTypeOK
    FindsATree
    NothingLost
    OpensWhatWasAsked
    RecoversFromRekey
    PrefetchBounded
    LandedIsNotCancelled
PROPERTIES
    OneLossKeepsCache
    ImplementsByteStream
    EveryCallAnswers
\* The user may stop asking: nothing is left to do then.
CHECK_DEADLOCK FALSE
