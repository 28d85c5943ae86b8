SPECIFICATION Spec
CONSTANTS
    Alphabet <- MCAlphabet
    Folded <- MCFolded
    PartOf <- MCPartOf
    SidecarOf <- MCSidecarOf
    Temporary = {"b.tmp"}
    Unnameable = {"bad"}
    Lettered = {"A", "a", "b", "bad"}
    Sources <- MCSources
    Volumes <- MCVolumes
    SinglesFold = FALSE
INVARIANTS
    TypeOK
    ListingIsWhole
    EveryEntryHasOneFate
    EverythingHasAPlace
    FailTouchesNothing
    ResumesWhatWasVouched
    SecondRunHasNothingToDo
\* A plan is carried out once: then nothing is left to do.
CHECK_DEADLOCK FALSE
