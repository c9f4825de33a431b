\* Two build types of one scratch directory.
CONSTANTS
    None = None
    BuildTypes = {"Asan-O1", "Asan_O1"}
    Flips = {}
    OptionOf <- MCOptionOf
    Sanitized <- MCSanitized
    Projects <- MCPlain
SPECIFICATION Spec
INVARIANT BakesAreFresh
CHECK_DEADLOCK FALSE
