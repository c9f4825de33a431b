\* The build command and up to two more processes or threads, killed anywhere, pids reused.
CONSTANTS
    root = root
    child = child
    grandchild = grandchild
    Pids <- MCPids
    Root = root
    ExitCodes = {"1"}
    Paths = {"cc"}
    None = None
    Unknown = Unknown
    Writes = {TRUE, FALSE}
    CaptureReads = TRUE
    Threads = TRUE
    MaxLines = 2
SYMMETRY MCSymmetry
SPECIFICATION Spec
INVARIANTS TypeOK InSync TraceIsHistory LeavesNothingBehind ExitPropagates
