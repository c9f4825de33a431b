\* Two differing builds of one cell, and one of another, published and looked up at once;
\* nothing is evicted.
CONSTANTS
    body1 = body1
    body2 = body2
    pub1 = pub1
    pub2 = pub2
    Empty = Empty
    Absent = Absent
    SrcKeys = {"key"}
    Platforms = {"linux", "darwin"}
    TraceLogs <- MCBodies
    MakeDBs <- MCBodies
    Bundles <- MCBodies
    Builds <- TwoCells
    Publishers = {pub1, pub2}
    Lookups = {"load"}
    Evictable = {}
    CompletenessChecked = TRUE
    Endpoints = {"reachable", "unset"}
SYMMETRY MCSymmetry
SPECIFICATION Spec
INVARIANTS UploadInv NoDanglingEntry HitIsAuthentic
PROPERTY RegistrySpec
