------------------------------ MODULE MCConverge ------------------------------
(* Small graphs for TLC to check Converge on. *)
EXTENDS Converge, TLC

\* Traced and cmake elements in turn, four links deep; "top" is on "lib" itself too.
ChainDeps ==
    ("lib" :> {}) @@ ("mid" :> {"lib"}) @@ ("top" :> {"lib", "mid"}) @@ ("cons" :> {"top"})
ChainKind == [e \in {"lib", "top"} |-> "autotools"]

\* testdata/meta-project/cross-kind: cons.bst (cmake) on auto-prod.bst (autotools).
CrossKindDeps == ("auto-prod" :> {}) @@ ("cons" :> {"auto-prod"})
CrossKindKind == [e \in {"auto-prod"} |-> "autotools"]
=============================================================================
