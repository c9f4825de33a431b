------------------------- MODULE RendezvousRefinement -------------------------
(***************************************************************************)
(* Rendezvous implements TraceRegistry.  A publisher takes effect at its   *)
(* UpdateActionResult; a lookup's reading of a keyspace takes effect at its *)
(* GetActionResult.                                                        *)
(***************************************************************************)
EXTENDS Rendezvous

RegEntry == [s \in Spaces \X Cells |-> ac[SyntheticKey(s[1], s[2])]]

\* The state of one keyspace's reading by a process in state k.  The bundle is
\* read after the trace, and not at all when the trace's reading fails or there
\* is no endpoint.
Reading(k, space) ==
    LET slot == <<space, k.cell>>
    IN CASE k.pc = "idle" -> [st |-> "none"]
         [] k.space = space /\ k.pc = "get" -> [st |-> "pending", slot |-> slot]
         [] k.space = space /\ k.pc \in {"check", "fetch", "files"} ->
              [st |-> "read", slot |-> slot, root |-> k.root]
         [] k.space = space /\ k.pc = "failed" -> [st |-> "failed"]
         [] k.pc # "idle" /\ k.space # space /\ space = "config" ->
              IF k.pc \in {"ok", "failed"} THEN [st |-> "none"]
              ELSE [st |-> "pending", slot |-> slot]
         [] OTHER ->
              IF HitIn(k, space)
              THEN [st |-> "hit", slot |-> slot, view |-> Taken(k, space)]
              ELSE [st |-> "miss", slot |-> slot]

RegCall == [l \in Lookups |-> [space \in Spaces |-> Reading(look[l], space)]]

Registry == INSTANCE TraceRegistry WITH
    entry <- RegEntry, lost <- evicted, call <- RegCall,
    Connected <- Endpoints = {"reachable"}

\* A lookup answers with what one instant's ActionCache held, whole, for its
\* own source key and platform, and misses or fails only for want of an entry
\* or by eviction, whatever the two sides' calls interleave to.
RegistrySpec == Registry!RegSpec
=============================================================================
