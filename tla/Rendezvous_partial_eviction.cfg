\* A store that checks nothing at GetActionResult and evicts file blobs.
CONSTANTS
    body1 = body1
    body2 = body2
    pub1 = pub1
    pub2 = pub2
    Empty = Empty
    Absent = Absent
    SrcKeys = {"key"}
    Platforms = {"linux"}
    TraceLogs <- MCBodies
    MakeDBs <- MCBodies
    Bundles <- MCBodies
    Builds <- OneBuild
    Publishers = {pub1}
    Lookups = {"load"}
    Evictable = {"file"}
    CompletenessChecked = FALSE
    Endpoints = {"reachable"}
SPECIFICATION Spec

INVARIANT EvictionIsMiss
