---------------------------- MODULE MCConfigures ----------------------------
(***************************************************************************)
(* A small instance of Configures for TLC: two build types and two boolean *)
(* options, the names of either pair differing in punctuation only.        *)
(***************************************************************************)
EXTENDS Configures

MCSanitized ==
    [x \in BuildTypes \cup {"FOO_BAR", "FOO-BAR"} |->
        CASE x = "FOO-BAR" -> "FOO_BAR" [] x = "Asan-O1" -> "Asan_O1" [] OTHER -> x]

MCOptionOf == [f \in Flips |-> IF f = "FOO_BAR=ON" THEN "FOO_BAR" ELSE "FOO-BAR"]

\* Everything is demanded and any of it refused, or only what one recovery is
\* about; captures may hide the nested build, and the plain trace may have
\* forwards without set() copies.
MCProjects ==
    {p \in [demands : {Demands, {"nested", "capture"}},
            refuses : SUBSET {"stamp", "nested", "capture"} \cup {{"other"}},
            yields : {Facts, Facts \ {"sets"}}, hidden : BOOLEAN, outs : BOOLEAN] :
        /\ p.refuses \subseteq p.demands \/ p.refuses = {"other"}
        /\ p.hidden => p.refuses # {"other"}
        /\ p.yields # Facts => "stamp" \in p.refuses
        /\ p.outs <=> p.refuses # {}}

\* A project that needs no recovery, with and without write_file bodies.
MCPlain ==
    [demands : {{}}, refuses : {{}, {"other"}}, yields : {Facts}, hidden : {FALSE}, outs : BOOLEAN]
=============================================================================
