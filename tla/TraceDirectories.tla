--------------------------- MODULE TraceDirectories ---------------------------
(***************************************************************************)
(* The data of the rendezvous: what trace-publish packs and trace-lookup   *)
(* unpacks (cmd/trace-publish, cmd/trace-lookup, internal/cas, and         *)
(* internal/tracenorm/synthkey.go).                                        *)
(*                                                                         *)
(* File bodies are opaque values; a REAPI Directory is the set of its      *)
(* FileNodes, and a digest is the value it is the digest of, so that two   *)
(* files with the same bytes share one blob.                               *)
(***************************************************************************)

CONSTANTS
    SrcKeys,      \* per-element source keys
    Platforms,    \* platform tags ("" is one of them)
    TraceLogs,    \* bodies a canonicalized trace.log may have
    MakeDBs,      \* bodies a filtered make-db.txt may have
    Bundles,      \* bodies a cmake-config-bundle.tar may have
    Empty,        \* the zero-byte body trace-lookup writes on a miss
    Absent        \* a declared output that no file stands for

Contents == TraceLogs \cup MakeDBs \cup Bundles

\* A tar archive is never zero bytes long, so consumers can tell a published
\* bundle from the zero-byte file of a miss.
ASSUME BundlesAssumption ==
    /\ Empty \notin Bundles
    /\ Absent \notin Contents \cup {Empty}

\* The two keyspaces: SyntheticActionDigest and SyntheticConfigDigest.
Spaces == {"trace", "config"}

\* What one rendezvous is about: an element's sources on a platform.
Cells == [srckey : SrcKeys, platform : Platforms]

TraceLog  == "trace.log"
MakeDB    == "make-db.txt"
BundleTar == "cmake-config-bundle.tar"

\* The outputs each keyspace provides.
NamesOf(space) == IF space = "trace" THEN {TraceLog, MakeDB} ELSE {BundleTar}
Names == {TraceLog, MakeDB, BundleTar}

FileNode  == [name : Names, content : Contents]
Directory == SUBSET FileNode
Node(n, c) == [name |-> n, content |-> c]

\* No ActionResult, or one without an output directory.  No published
\* Directory is empty: trace.log, or the bundle, is always staged.
Nothing == {}

\* The directories publish() stages: trace.log, with make-db.txt when the
\* kind produces one.
TraceDirectory ==
    {{Node(TraceLog, t)} : t \in TraceLogs}
        \cup {{Node(TraceLog, t), Node(MakeDB, m)} : t \in TraceLogs, m \in MakeDBs}

\* The directories publishConfigBundle() stages.
BundleDirectory == {{Node(BundleTar, b)} : b \in Bundles}

\* Fault: the two keyspaces share their argv0 marker.
OneKeyspace(space, cell) ==
    [argv0 |-> "trace", srckey |-> cell.srckey, platform |-> cell.platform]

\* Fault: the platform is left out of the Action.
NoPlatformKey(space, cell) ==
    [argv0 |-> space, srckey |-> cell.srckey, platform |-> CHOOSE p \in Platforms : TRUE]

\* syntheticDigest: the Action key is a function of exactly these three.
Keys == [argv0 : Spaces, srckey : SrcKeys, platform : Platforms]
SyntheticKey(space, cell) ==
    [argv0 |-> space, srckey |-> cell.srckey, platform |-> cell.platform]

\* Blobs, by the thing they encode.
FileBlob(c) == [type |-> "file", of |-> c]
DirBlob(d)  == [type |-> "dir",  of |-> d]
TreeBlob(d) == [type |-> "tree", of |-> d]
Blob == [type : {"file"}, of : Contents] \cup [type : {"dir", "tree"}, of : Directory]

FileBlobs(d) == {FileBlob(f.content) : f \in d}
\* What uploadTree uploads, and all that an ActionResult for d refers to.
Packed(d) == {DirBlob(d)} \cup FileBlobs(d)
BlobsOf(d) == Packed(d) \cup {TreeBlob(d)}

\* The body a consumer finds under a name: a name the directory lacks is
\* written as a zero-byte file.
ContentOf(d, n) ==
    IF \E f \in d : f.name = n
    THEN (CHOOSE f \in d : f.name = n).content
    ELSE Empty
View(space, d) == [n \in NamesOf(space) |-> ContentOf(d, n)]
=============================================================================
