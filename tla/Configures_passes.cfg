\* Two build types, and two options, whose names differ in punctuation only.
CONSTANTS
    None = None
    BuildTypes = {"Asan-O1", "Asan_O1"}
    Flips = {"FOO_BAR=ON", "FOO-BAR=ON"}
    OptionOf <- MCOptionOf
    Sanitized <- MCSanitized
    Projects <- MCProjects
SPECIFICATION FairSpec
INVARIANTS TypeOK NothingLost NoRefusalSwallowed FoldReadsOwn NothingLeftBehind
PROPERTY Returns
CHECK_DEADLOCK FALSE
