\* Two invocations, with any staging tool, over traced and cmake elements in turn,
\* while the store evicts, other machines publish and actions fail.
CONSTANTS
    Traced = {"lib", "top"}
    CMake = {"mid", "cons"}
    Deps <- ChainDeps
    Kind <- ChainKind
    Requires = {"cons"}
    CasAddr = TRUE
    StageTools = {"cmd", "adapted", "noop"}
    SharedCache = FALSE
    Faults = {"build", "evict", "others"}
    MaxRounds = 3
    MaxRuns = 2
SPECIFICATION FairSpec
INVARIANTS TypeOK MarkersMatchOutputs QueriesAreFresh FixpointIsFine TwoRoundsSuffice
PROPERTY DriverEnds
\* The driver's invocations are over: nothing more happens in a full store.
CHECK_DEADLOCK FALSE
