SPECIFICATION Spec
CONSTANTS
    Alphabet <- MCAlphabet
    Folded <- MCFolded
    PartOf <- MCPartOf
    SidecarOf <- MCSidecarOf
    Temporary = {"b.tmp"}
    Unnameable = {"bad"}
    Lettered = {"A", "a", "b", "bad"}
    Sources <- MCOneFile
    Volumes <- MCOtherCase
    SinglesFold = TRUE
INVARIANTS
    FailTouchesNothing
\* A plan is carried out once: then nothing is left to do.
CHECK_DEADLOCK FALSE
