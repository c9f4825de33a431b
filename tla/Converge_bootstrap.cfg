\* The cross-kind fixture over an empty store.
CONSTANTS
    Traced = {"auto-prod"}
    CMake = {"cons"}
    Deps <- CrossKindDeps
    Kind <- CrossKindKind
    Requires = {"cons"}
    CasAddr = TRUE
    StageTools = {"noop"}
    SharedCache = FALSE
    Faults = {}
    MaxRounds = 3
    MaxRuns = 1
SPECIFICATION Spec
INVARIANT BootstrapConfigures
CHECK_DEADLOCK FALSE
