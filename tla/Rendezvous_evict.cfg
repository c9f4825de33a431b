\* One build published again and again in a store that checks nothing and drops any blob
\* and any entry at any moment; an endpoint that may not answer.
CONSTANTS
    body1 = body1
    body2 = body2
    pub1 = pub1
    pub2 = pub2
    Empty = Empty
    Absent = Absent
    SrcKeys = {"key"}
    Platforms = {"linux"}
    TraceLogs <- MCBodies
    MakeDBs <- MCBodies
    Bundles <- MCBodies
    Builds <- OneBuild
    Publishers = {pub1}
    Lookups = {"load"}
    Evictable = {"file", "dir", "entry"}
    CompletenessChecked = FALSE
    Endpoints = {"reachable", "unreachable"}
SPECIFICATION FairSpec
INVARIANT DeclaredOutputsExist
PROPERTIES RegistrySpec LookupEnds
