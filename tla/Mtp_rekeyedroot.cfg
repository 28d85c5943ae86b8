SPECIFICATION MtpSpec
CONSTANTS
    d = d
    e = e
    f = f
    g = g
    Storage = Storage
    Objects = {d, e, f, g}
    Name <- MCName
    Folders = {d, e}
    Under <- MCUnder
    AtFirst <- MCAtFirst
    MaxChanges = 1
    RootPaths <- MCRootPaths
    Reserved = {"part"}
    RootStays = FALSE
    Depth = 1
    Sizes = {3}
INVARIANT
    RecoversFromRekey
\* The user may stop asking: nothing is left to do then.
CHECK_DEADLOCK FALSE
