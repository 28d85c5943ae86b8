SPECIFICATION Spec
CONSTANTS
    Alphabet <- MCAlphabet
    Folded <- MCFolded
    PartOf <- MCPartOf
    SidecarOf <- MCSidecarOf
    Temporary = {"b.tmp"}
    Unnameable = {"bad"}
    Lettered = {"A", "a", "b", "bad"}
    Sources <- MCTwoFiles
    Volumes <- MCMountPoint
    SinglesFold = FALSE
INVARIANTS
    NeverMergesSilently
\* A plan is carried out once: then nothing is left to do.
CHECK_DEADLOCK FALSE
