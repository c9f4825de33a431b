---------------------------- MODULE MCRendezvous ----------------------------
(***************************************************************************)
(* Small instances of Rendezvous for TLC.  Bounds: the constants alone; the *)
(* model has no counter.                                                    *)
(***************************************************************************)
EXTENDS RendezvousRefinement, TLC

CONSTANTS body1, body2, pub1, pub2

MCBodies == {body1, body2}

Linux == [srckey |-> "key", platform |-> "linux"]
Darwin == [srckey |-> "key", platform |-> "darwin"]

Build(cell, trace, bundle) == [cell |-> cell, trace |-> trace, bundle |-> bundle]
TraceOnly(t) == {Node(TraceLog, t)}
TraceAndDB(t, m) == {Node(TraceLog, t), Node(MakeDB, m)}
BundleOf(b) == {Node(BundleTar, b)}

\* Two builds of one cell that differ in every file (two machines, or a build
\* that is not reproducible), with bodies that recur across names so that
\* publications share blobs, and one of the same source key elsewhere; the
\* later ones install nothing a bundle would hold, the last has no make-db.
TwoCells == {Build(Linux, TraceAndDB(body1, body2), BundleOf(body1)),
             Build(Linux, TraceAndDB(body2, body1), Nothing),
             Build(Darwin, TraceOnly(body1), Nothing)}

\* One build alone.
OneBuild == {Build(Linux, TraceAndDB(body1, body2), BundleOf(body1))}

\* Publishers are interchangeable.
MCSymmetry == Permutations({pub1, pub2})
=============================================================================
