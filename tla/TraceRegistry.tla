---------------------------- MODULE TraceRegistry ----------------------------
(***************************************************************************)
(* What the rendezvous promises: a register per keyspace and cell, written *)
(* in one step by a publisher and read in one step by a lookup.  A lookup's *)
(* answer is the value it read, whole; it may be a miss, or the lookup may *)
(* fail, only when there was no value or the store had lost part of it.    *)
(***************************************************************************)
EXTENDS TraceDirectories

CONSTANTS
    Lookups,     \* readers
    Connected    \* FALSE: a lookup may be started with no usable endpoint

VARIABLES
    offered,     \* what publishers were given
    entry,       \* keyspace and cell -> the directory registered, or Nothing
    lost,        \* parts of directories the store has lost at some time
    call         \* the readers: a reading of each keyspace

regVars == <<offered, entry, lost, call>>

Damaged(d) == BlobsOf(d) \cap lost # {}

Slots == Spaces \X Cells
Offer == [space : Spaces, cell : Cells, root : Directory]

NotCalled == [st |-> "none"]
Pending(slot) == [st |-> "pending", slot |-> slot]
Read(slot, d) == [st |-> "read", slot |-> slot, root |-> d]
Hit(slot, v) == [st |-> "hit", slot |-> slot, view |-> v]
Missed(slot) == [st |-> "miss", slot |-> slot]
Failed == [st |-> "failed"]

RegInit ==
    /\ offered = {}
    /\ entry = [s \in Slots |-> Nothing]
    /\ lost = {}
    /\ call = [l \in Lookups |-> [space \in Spaces |-> NotCalled]]

\* A publisher is given its trace, and perhaps its bundle.
GiveOffer ==
    /\ offered' \subseteq Offer
    /\ offered \subseteq offered'
    /\ UNCHANGED <<entry, lost, call>>

Register(o) ==
    /\ o \in offered
    /\ entry' = [entry EXCEPT ![<<o.space, o.cell>>] = o.root]
    /\ UNCHANGED <<offered, lost, call>>

Forget(slot) ==
    /\ entry' = [entry EXCEPT ![slot] = Nothing]
    /\ UNCHANGED <<offered, lost, call>>

Damage ==
    /\ lost \subseteq lost'
    /\ UNCHANGED <<offered, entry, call>>

SetCall(l, c) == call' = [call EXCEPT ![l] = c]
SetSpace(l, space, c) == call' = [call EXCEPT ![l][space] = c]

Begin(l, cell) ==
    /\ SetCall(l, [space \in Spaces |-> Pending(<<space, cell>>)])
    /\ UNCHANGED <<offered, entry, lost>>

\* No endpoint: the trace is a miss and nothing is said of the bundle.
Decline(l, cell) ==
    /\ ~Connected
    /\ \/ SetCall(l, [space \in Spaces |-> IF space = "trace"
                                           THEN Missed(<<space, cell>>)
                                           ELSE NotCalled])
       \/ SetCall(l, [space \in Spaces |-> IF space = "trace" THEN Failed ELSE NotCalled])
    /\ UNCHANGED <<offered, entry, lost>>

\* The point at which a lookup takes effect.
TakeEffect(l, space) ==
    LET c == call[l][space] IN
    /\ c.st = "pending"
    /\ entry[c.slot] # Nothing
    /\ SetSpace(l, space, Read(c.slot, entry[c.slot]))
    /\ UNCHANGED <<offered, entry, lost>>

\* There is nothing to read, or not all of it.
FindNothing(l, space) ==
    LET c == call[l][space] IN
    /\ \/ /\ c.st = "pending"
          /\ entry[c.slot] = Nothing \/ Damaged(entry[c.slot])
       \/ /\ c.st = "read"
          /\ Damaged(c.root)
    /\ SetSpace(l, space, Missed(c.slot))
    /\ UNCHANGED <<offered, entry, lost>>

AnswerHit(l, space) ==
    LET c == call[l][space] IN
    /\ c.st = "read"
    /\ SetSpace(l, space, Hit(c.slot, View(space, c.root)))
    /\ UNCHANGED <<offered, entry, lost>>

\* A failed reading of the trace ends the lookup before the bundle's.
AnswerFailed(l, space) ==
    LET c == call[l][space] IN
    /\ c.st = "read"
    /\ Damaged(c.root)
    /\ SetCall(l, [s \in Spaces |-> IF s = space THEN Failed
                                   ELSE IF space = "trace" THEN NotCalled ELSE call[l][s]])
    /\ UNCHANGED <<offered, entry, lost>>

Abandon(l) ==
    /\ SetCall(l, [space \in Spaces |-> NotCalled])
    /\ UNCHANGED <<offered, entry, lost>>

RegNext ==
    \/ GiveOffer
    \/ \E o \in offered : Register(o)
    \/ \E slot \in Slots : Forget(slot)
    \/ Damage
    \/ \E l \in Lookups :
          \/ \E cell \in Cells : Begin(l, cell) \/ Decline(l, cell)
          \/ \E space \in Spaces :
                \/ TakeEffect(l, space)
                \/ FindNothing(l, space)
                \/ AnswerHit(l, space)
                \/ AnswerFailed(l, space)
          \/ Abandon(l)

RegSpec == RegInit /\ [][RegNext]_regVars
=============================================================================
