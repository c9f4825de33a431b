\* A build whose second thread, not its leader, makes an execve.
CONSTANTS
    root = root
    child = child
    grandchild = grandchild
    Pids <- MCPids
    Root = root
    ExitCodes = {"1"}
    Paths = {"cc"}
    None = None
    Unknown = Unknown
    Writes = {FALSE}
    CaptureReads = TRUE
    Threads = TRUE
    MaxLines = 2
SPECIFICATION Spec
INVARIANT EveryExecTraced
