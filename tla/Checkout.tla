------------------------------ MODULE Checkout ------------------------------
(***************************************************************************)
(* Source checkouts: internal/sourcecheckout, and internal/cas where it    *)
(* uploads a tree (UploadDir), keeps blobs in files (LocalStore) and reads *)
(* them back (MaterializeDirectory).                                       *)
(*                                                                         *)
(* Resolvers are processes, of one run or of several, that share a cache   *)
(* directory and a store.  A tree is a function from file names to bodies, *)
(* a digest is the tree or the body it is the digest of, and the name      *)
(* CacheDir/<contentKey> is the source whose identity it hashes.           *)
(***************************************************************************)
EXTENDS Integers, FiniteSets

CONSTANTS
    Resolvers,   \* processes that call Resolve
    Offline,     \* those of them that have no Store
    Local,       \* sources of kind local, or pre-staged: directories others edit
    Git,         \* sources of kind git, by url and ref
    Asset,       \* sources of kind remote-asset, by uri and qualifiers
    Edited,      \* the files of local sources that somebody edits
    Moving,      \* git and asset sources whose ref or binding may change
    Files,       \* a tree's files, numbered in the order ReadDir returns them
    Bodies,      \* what a file may hold
    Published,   \* trees that git refs and assets name, and local sources start as
    Fragile,     \* the blobs the store may lose
    Absent       \* no file, no tree, no digest

Sources == Local \cup Git \cup Asset
Tree    == [Files -> Bodies]
Partial == [Files -> Bodies \cup {Absent}]
Empty   == [f \in Files |-> Absent]

ASSUME CheckoutAssumption ==
    /\ Files \subseteq Nat /\ IsFiniteSet(Files) /\ Files # {}
    /\ Offline \subseteq Resolvers /\ Edited \subseteq Files
    /\ Moving \subseteq Git \cup Asset
    /\ Local \cap (Git \cup Asset) = {} /\ Git \cap Asset = {}
    /\ Published \subseteq Tree
    /\ Absent \notin Bodies \cup Tree

FileBlob(c) == [type |-> "file", of |-> c]
DirBlob(t)  == [type |-> "dir", of |-> t]
Blob == [type : {"file"}, of : Bodies] \cup [type : {"dir"}, of : Tree]
FileBlobs(t) == {FileBlob(t[f]) : f \in Files}
BlobsOf(t)   == {DirBlob(t)} \cup FileBlobs(t)

ASSUME FragileAssumption == Fragile \subseteq Blob

VARIABLES
    source,    \* what a local path, a git ref or an asset stands for now
    checkout,  \* CacheDir/<key>/checkout, Absent where there is none
    store,     \* what a blob's file holds: "absent", "good", "bad"
    res,       \* the resolvers
    had,       \* history: what each git ref and asset has stood for
    lost       \* history: blobs evicted or damaged and not put again since

vars == <<source, checkout, store, res, had, lost>>
world == <<source, had, lost, store>>

Ended == {"idle", "done"}
Resolver == [pc : Ended \cup {"fetch", "stat", "clone", "root", "fill", "pack", "find", "put"},
             src : Sources \cup {Absent},
             tree : Tree \cup {Absent},    \* what fills the checkout
             tmp : Partial,                \* incoming-*
             packed : Partial,             \* what PackDir has read
             missing : SUBSET Blob,        \* FindMissing's answer
             digest : Tree \cup {Absent}]  \* Result.Digest

TypeOK ==
    /\ source \in [Sources -> Tree]
    /\ checkout \in [Git \cup Asset -> Tree \cup {Absent}]
    /\ store \in [Blob -> {"absent", "good", "bad"}]
    /\ res \in [Resolvers -> Resolver]
    /\ had \in [Git \cup Asset -> SUBSET Published]
    /\ lost \subseteq Blob

\* A resolver at the start of a call, ...
Fresh(pc, s) == [pc |-> pc, src |-> s, tree |-> Absent, tmp |-> Empty, packed |-> Empty,
                 missing |-> {}, digest |-> Absent]
\* ... and one without a result.
Idle == Fresh("idle", Absent)

Init ==
    /\ source \in [Sources -> Published]
    /\ checkout = [s \in Git \cup Asset |-> Absent]
    /\ store = [b \in Blob |-> IF \E s \in Asset : b \in BlobsOf(source[s]) THEN "good" ELSE "absent"]
    /\ res = [r \in Resolvers |-> Idle]
    /\ had = [s \in Git \cup Asset |-> {source[s]}]
    /\ lost = {}

-----------------------------------------------------------------------------
(* Resolve. *)

To(r, pc) == res' = [res EXCEPT ![r].pc = pc]

\* An error return; the deferred or explicit RemoveAll takes the incoming
\* directory with it.
Fail(r) == res' = [res EXCEPT ![r] = Idle]

\* Fault: a tree found in a cache is not uploaded again.
FoundCached(r) == "done"

\* After a path is found: uploadIfStoreSet, which a resolver without a Store
\* skips.
Found(r) == IF r \in Offline THEN "done" ELSE "pack"

\* resolveAndUpload's switch.  A remote-asset needs a Store.
Start(r, s) ==
    /\ res[r].pc \in Ended
    /\ s \in Asset => r \notin Offline
    /\ res' = [res EXCEPT ![r] =
                Fresh(IF s \in Local THEN Found(r) ELSE IF s \in Git THEN "stat" ELSE "fetch", s)]
    /\ UNCHANGED <<checkout, world>>

\* FetchDirectory: the digest the asset is bound to.
FetchDigest(r) ==
    /\ res[r].pc = "fetch"
    /\ res' = [res EXCEPT ![r].pc = "stat", ![r].digest = source[res[r].src]]
    /\ UNCHANGED <<checkout, world>>

\* os.Stat(dst): a checkout that is there is the result.
Stat(r) ==
    /\ res[r].pc = "stat"
    /\ LET s == res[r].src IN
         To(r, IF checkout[s] = Absent THEN IF s \in Git THEN "clone" ELSE "root"
               ELSE IF s \in Git THEN Found(r) ELSE "done")
    /\ UNCHANGED <<checkout, world>>

\* git clone into an incoming directory: the ref as it is now.
Clone(r) ==
    /\ res[r].pc = "clone"
    /\ res' = [res EXCEPT ![r].pc = "fill", ![r].tree = source[res[r].src]]
    /\ UNCHANGED <<checkout, world>>

\* GetBlob: a file that is there and holds what its name says.  A damaged one
\* is an error, and so is a missing one to MaterializeDirectory.
Readable(b) == store[b] = "good"

\* MaterializeDirectory's first GetBlob, of the Directory itself.
FetchRoot(r) ==
    /\ res[r].pc = "root"
    /\ IF Readable(DirBlob(res[r].digest))
       THEN res' = [res EXCEPT ![r].pc = "fill", ![r].tree = res[r].digest]
       ELSE Fail(r)
    /\ UNCHANGED <<checkout, world>>

NextFile(r, f) ==
    /\ res[r].pc = "fill" /\ res[r].tmp[f] = Absent
    /\ \A g \in Files : g < f => res[r].tmp[g] # Absent

\* Fault: files are written to the checkout itself, not to an incoming-*.
FillInPlace(r, f) ==
    /\ NextFile(r, f)
    /\ LET s == res[r].src IN
         /\ checkout' = [checkout EXCEPT ![s] =
                [(IF @ = Absent THEN Empty ELSE @) EXCEPT ![f] = res[r].tree[f]]]
         /\ res' = [res EXCEPT ![r].tmp[f] = res[r].tree[f]]
    /\ UNCHANGED world

\* One file into the incoming directory: git checkout, or GetBlob and
\* writeFile, which fail the whole call.
Fill(r, f) ==
    /\ NextFile(r, f)
    /\ IF res[r].src \in Git \/ Readable(FileBlob(res[r].tree[f]))
       THEN res' = [res EXCEPT ![r].tmp[f] = res[r].tree[f]]
       ELSE Fail(r)
    /\ UNCHANGED <<checkout, world>>

\* Fault: the last resolver wins.
InstallOver(r) ==
    /\ res[r].pc = "fill" /\ \A f \in Files : res[r].tmp[f] # Absent
    /\ LET s == res[r].src IN
         /\ checkout' = [checkout EXCEPT ![s] = res[r].tmp]
         /\ res' = [res EXCEPT ![r].pc = IF s \in Git THEN Found(r) ELSE "done",
                               ![r].tree = Absent, ![r].tmp = Empty]
    /\ UNCHANGED world

\* os.Rename(tmp, dst).  It does not replace a directory: a resolver that lost
\* the race finds theirs with os.Stat, keeps it and drops its own.
Install(r) ==
    /\ res[r].pc = "fill" /\ \A f \in Files : res[r].tmp[f] # Absent
    /\ LET s == res[r].src IN
         /\ checkout' = [checkout EXCEPT ![s] = IF @ = Absent THEN res[r].tmp ELSE @]
         /\ res' = [res EXCEPT ![r].pc = IF s \in Git THEN Found(r) ELSE "done",
                               ![r].tree = Absent, ![r].tmp = Empty]
    /\ UNCHANGED world

-----------------------------------------------------------------------------
(* UploadDir. *)

\* What is at the path Resolve is about to return.
AtPath(s) == IF s \in Local THEN source[s] ELSE checkout[s]

\* PackDir reads and hashes one file after another.
Pack(r, f) ==
    /\ res[r].pc = "pack"
    /\ res[r].packed[f] = Absent /\ \A g \in Files : g < f => res[r].packed[g] # Absent
    /\ LET packed == [res[r].packed EXCEPT ![f] = AtPath(res[r].src)[f]] IN
         res' = [res EXCEPT ![r].packed = packed,
                            ![r].pc = IF \A g \in Files : packed[g] # Absent THEN "find" ELSE @]
    /\ UNCHANGED <<checkout, world>>

\* Fault: a file counts as uploaded when its directory is.
FindMissingDirectory(r) ==
    /\ res[r].pc = "find"
    /\ res' = [res EXCEPT ![r].pc = "put",
                          ![r].missing = IF store[DirBlob(res[r].packed)] = "absent"
                                         THEN BlobsOf(res[r].packed) ELSE {}]
    /\ UNCHANGED <<checkout, world>>

\* FindMissing looks for files of the right names, whatever they hold.
FindMissing(r) ==
    /\ res[r].pc = "find"
    /\ res' = [res EXCEPT ![r].pc = "put",
                          ![r].missing = {b \in BlobsOf(res[r].packed) : store[b] = "absent"}]
    /\ UNCHANGED <<checkout, world>>

PutDirectory(r) ==
    /\ res[r].pc = "put"
    /\ LET b == DirBlob(res[r].packed) IN
         /\ b \in res[r].missing
         /\ store' = [store EXCEPT ![b] = "good"]
         /\ lost' = lost \ {b}
         /\ res' = [res EXCEPT ![r].missing = @ \ {b}]
    /\ UNCHANGED <<source, checkout, had>>

\* Tree.Files keeps one path per digest, the last one PackDir came to.
PathOf(t, c) == CHOOSE f \in Files : t[f] = c /\ \A g \in Files : t[g] = c => g <= f

\* Fault: PutBlob takes the declared digest's word for the body.
PutFileUnverified(r, c) ==
    /\ res[r].pc = "put" /\ DirBlob(res[r].packed) \notin res[r].missing
    /\ FileBlob(c) \in res[r].missing
    /\ LET now == AtPath(res[r].src)[PathOf(res[r].packed, c)] IN
         store' = [store EXCEPT ![FileBlob(c)] = IF now = c THEN "good" ELSE "bad"]
    /\ lost' = lost \ {FileBlob(c)}
    /\ res' = [res EXCEPT ![r].missing = @ \ {FileBlob(c)}]
    /\ UNCHANGED <<source, checkout, had>>

\* A file is read again to be put, and PutBlob refuses a body that is not what
\* the digest says: then the upload fails half done.
PutFile(r, c) ==
    /\ res[r].pc = "put" /\ DirBlob(res[r].packed) \notin res[r].missing
    /\ FileBlob(c) \in res[r].missing
    /\ IF AtPath(res[r].src)[PathOf(res[r].packed, c)] = c
       THEN /\ store' = [store EXCEPT ![FileBlob(c)] = "good"]
            /\ lost' = lost \ {FileBlob(c)}
            /\ res' = [res EXCEPT ![r].missing = @ \ {FileBlob(c)}]
       ELSE Fail(r) /\ UNCHANGED <<store, lost>>
    /\ UNCHANGED <<source, checkout, had>>

Uploaded(r) ==
    /\ res[r].pc = "put" /\ res[r].missing = {}
    /\ res' = [res EXCEPT ![r].pc = "done", ![r].digest = res[r].packed, ![r].packed = Empty]
    /\ UNCHANGED <<checkout, world>>

\* Any call to git, to the file system or to a server may fail, and the process
\* may be killed: then its incoming directory stays behind, under a name nobody
\* looks at.
Stops(r) ==
    /\ res[r].pc \notin Ended
    /\ Fail(r)
    /\ UNCHANGED <<checkout, world>>

-----------------------------------------------------------------------------
(* The world around. *)

\* Somebody edits a file of a local source.
Edit(s, f, c) ==
    /\ s \in Local
    /\ source' = [source EXCEPT ![s][f] = c]
    /\ UNCHANGED <<checkout, store, res, had, lost>>

\* A tag moves, or `bst source push` uploads another tree and binds the asset
\* to it.
Move(s, t) ==
    /\ s \in Moving
    /\ source' = [source EXCEPT ![s] = t]
    /\ had' = [had EXCEPT ![s] = @ \cup {t}]
    /\ LET new == IF s \in Asset THEN {b \in BlobsOf(t) : store[b] = "absent"} ELSE {} IN
         /\ store' = [b \in Blob |-> IF b \in new THEN "good" ELSE store[b]]
         /\ lost' = lost \ new
    /\ UNCHANGED <<checkout, res>>

\* A remote store evicts a blob; a local one holds a damaged file after bit rot
\* or a host crash, as writeAtomic does not sync.
Lose(b, left) ==
    /\ store[b] = "good"
    /\ store' = [store EXCEPT ![b] = left]
    /\ lost' = lost \cup {b}
    /\ UNCHANGED <<source, checkout, res, had>>

Step(r) ==
    \/ FetchDigest(r) \/ Stat(r) \/ Clone(r) \/ FetchRoot(r) \/ Install(r)
    \/ FindMissing(r) \/ PutDirectory(r) \/ Uploaded(r)
    \/ \E f \in Files : Fill(r, f) \/ Pack(r, f)
    \/ \E c \in Bodies : PutFile(r, c)

World ==
    \/ \E s \in Local, f \in Edited, c \in Bodies : Edit(s, f, c)
    \/ \E s \in Moving, t \in Published : Move(s, t)
    \/ \E b \in Fragile, left \in {"absent", "bad"} : Lose(b, left)

Next ==
    \/ \E r \in Resolvers : Step(r) \/ Stops(r) \/ \E s \in Sources : Start(r, s)
    \/ World

Spec == Init /\ [][Next]_vars

-----------------------------------------------------------------------------
(* Properties. *)

\* The checkout's mere presence is the cache (resolveGit): whatever crashes,
\* races and failing downloads left there is one whole tree that the source
\* has stood for.
CheckoutsAreWhole ==
    \A s \in Git \cup Asset : checkout[s] # Absent => checkout[s] \in had[s]

\* A path handed to a converter is never written again, whoever resolves the
\* same source later or at the same time.
CheckoutsStay ==
    [][\A s \in Git \cup Asset : checkout[s] # Absent => checkout'[s] = checkout[s]]_vars

\* Edits in the middle of an upload, crashes and concurrent uploads never put a
\* body under another body's name: only the disk can.
StoreIsHonest == \A b \in Blob : store[b] = "bad" => b \in lost

\* A digest Resolve has returned can be materialized, but for what the store
\* lost since it was found or put there.
DigestIsStored ==
    \A r \in Resolvers :
        (res[r].pc = "done" /\ res[r].digest # Absent) =>
            \A b \in BlobsOf(res[r].digest) : store[b] = "good" \/ b \in lost

\* Path and digest of a result name one tree.  For an asset the digest is asked
\* for anew and the path may be older, so that they agree as long as the asset
\* has stood for one tree only.
ResultIsOneTree ==
    \A r \in Resolvers :
        LET s == res[r].src IN
        (res[r].pc = "done" /\ s \notin Local) =>
            /\ checkout[s] # Absent
            /\ s \in Git /\ r \notin Offline => res[r].digest = checkout[s]
            /\ s \in Asset => res[r].digest \in had[s]
            /\ had[s] = {res[r].digest} => checkout[s] = res[r].digest
=============================================================================
