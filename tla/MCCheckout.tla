----------------------------- MODULE MCCheckout -----------------------------
(***************************************************************************)
(* A small instance of Checkout for TLC: trees of two files.  Bounds: the  *)
(* constants alone; the model has no counter.                              *)
(***************************************************************************)
EXTENDS Checkout, TLC

CONSTANTS r1, r2, body1, body2

\* Two trees that differ in every file, each with a body the other lacks: what
\* is in the store for one of them says nothing about the other.
MCTrees == {[f \in Files |-> c] : c \in {body1, body2}}

MCFragile == {FileBlob(body1)}

MCSymmetry == Permutations({r1, r2})
=============================================================================
