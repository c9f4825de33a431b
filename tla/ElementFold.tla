---------------------------- MODULE ElementFold ----------------------------
(***************************************************************************)
(* converter/elementfold and what emits its result: one element, converted *)
(* once per platform, becomes one BUILD file whose attributes are a flat   *)
(* list and select()s.  A cell (one platform's conversion) may have        *)
(* select()s already: platform arms from its if() chains, option arms from *)
(* the lift.                                                               *)
(*                                                                         *)
(* One target, with an attribute of each kind: srcs (a set), copts (a      *)
(* sequence), a path, and `shape` for the fields that must not differ.     *)
(***************************************************************************)
EXTENDS Naturals, Sequences
LOCAL SeqExt == INSTANCE SequencesExt

CONSTANTS
    FoldInputs,   \* inputs: platforms and cells, see FoldInputsAssumption
    FlagOf,       \* the arm labels of a flag (SelectArmFamilies) -> that flag
    Flags,        \* the flags, in the order of their labels
    LabelRank,    \* constraint labels in that order
    PlatformRank, \* the order of the cells
    Default,      \* //conditions:default
    Unset

\* platforms: the matrix, name -> constraints and select_label (or Unset);
\* cells: the platforms that declare the target -> what it is there.  An arm
\* label is <<l>>, and <<l, p>> the group that ANDs it with p's select key.  A
\* source is flat, or in arms of flags, or in arms of platforms; compile options
\* are flat, in arms of flags, or in the default one.
IsArm(a) == a = <<a[1]>> /\ \A l \in DOMAIN FlagOf : a[1] # FlagOf[l]
IsOptions(x) == x \in Seq({x[i] : i \in DOMAIN x})

ASSUME FlagsAssumption ==
    /\ Default \notin DOMAIN FlagOf
    /\ Flags \in Seq({FlagOf[l] : l \in DOMAIN FlagOf})

ASSUME FoldInputsAssumption ==
    \A in \in FoldInputs :
      /\ DOMAIN in.cells \subseteq DOMAIN in.platforms
      /\ \E p \in DOMAIN in.cells : \A q \in DOMAIN in.cells : PlatformRank[p] <= PlatformRank[q]
      /\ \A p \in DOMAIN in.platforms :
           (in.platforms[p].constraints \cup {in.platforms[p].select}) \cap (DOMAIN FlagOf \cup {Default}) = {}
      /\ \A p \in DOMAIN in.cells :
           LET arms == in.cells[p].srcs.arms
               opts == in.cells[p].copts
           IN
           /\ \A a \in DOMAIN arms : IsArm(a) /\ arms[a] # {} /\ arms[a] \cap in.cells[p].srcs.flat = {}
           /\ \A a, b \in DOMAIN arms :
                a[1] \in DOMAIN FlagOf /\ b[1] \notin DOMAIN FlagOf => arms[a] \cap arms[b] = {}
           /\ \A a \in DOMAIN opts.arms : IsArm(a) /\ a[1] \in DOMAIN FlagOf \cup {Default} /\ IsOptions(opts.arms[a])
           /\ IsOptions(opts.flat)

VARIABLES
    element,  \* the input
    keys,     \* platform -> its select key
    merged,   \* the folded target
    folding   \* "idle", "keys", "fold", "folded", or why it was refused

foldVars == <<element, keys, merged, folding>>

FoldInit ==
    /\ element = <<>>
    /\ keys = <<>>
    /\ merged = <<>>
    /\ folding = "idle"

\* fold-element reads the --cell arguments and their files.
ReadCells(in) ==
    /\ folding = "idle"
    /\ element' = in
    /\ folding' = "keys"
    /\ UNCHANGED <<keys, merged>>

-----------------------------------------------------------------------------
(* PickSelectKeys *)

Unique(p) ==
    {l \in element.platforms[p].constraints :
       \A q \in DOMAIN element.platforms \ {p} : l \notin element.platforms[q].constraints}

SelectKeys(p) ==
    IF element.platforms[p].select # Unset THEN {element.platforms[p].select}
    ELSE {l \in Unique(p) : \A k \in Unique(p) : LabelRank[l] <= LabelRank[k]}

Distinct == \A p, q \in DOMAIN element.platforms : p # q => SelectKeys(p) \cap SelectKeys(q) = {}

PickSelectKeys ==
    /\ folding = "keys"
    /\ Distinct /\ \A p \in DOMAIN element.platforms : SelectKeys(p) # {}
    /\ keys' = [p \in DOMAIN element.platforms |-> CHOOSE l \in SelectKeys(p) : TRUE]
    /\ folding' = "fold"
    /\ UNCHANGED <<element, merged>>

RefuseKeys ==
    /\ folding = "keys"
    /\ ~(Distinct /\ \A p \in DOMAIN element.platforms : SelectKeys(p) # {})
    /\ folding' = "no select key"
    /\ UNCHANGED <<element, keys, merged>>

-----------------------------------------------------------------------------
(* foldTarget *)

Present == DOMAIN element.cells
Phantom == Present # DOMAIN element.platforms
FirstCell == CHOOSE p \in Present : \A q \in Present : PlatformRank[p] <= PlatformRank[q]

Srcs(p) == element.cells[p].srcs
Copts(p) == element.cells[p].copts
Path(p) == element.cells[p].path

Arms(attr) == UNION {DOMAIN attr[p].arms : p \in Present}
Carries(attr, p, a) == IF a \in DOMAIN attr[p].arms THEN attr[p].arms[a] ELSE {}

srcs == [p \in Present |-> Srcs(p)]
copts == [p \in Present |-> Copts(p)]

\* foldPreexistingArms: what an arm has in every cell, and what in p's only.
Agreed(a) == {i \in Carries(srcs, FirstCell, a) : \A p \in Present : i \in Carries(srcs, p, a)}
Own(a, p) == Carries(srcs, p, a) \ Agreed(a)
Claimed == UNION {Carries(srcs, p, a) : p \in Present, a \in Arms(srcs)}

\* Fault: what every platform has that declares the target.
PresentBaseline ==
    {i \in Srcs(FirstCell).flat \ Claimed : \A p \in Present : i \in Srcs(p).flat}

\* Partition: what every platform of the matrix has, and what p has beside it.
Baseline == {i \in Srcs(FirstCell).flat \ Claimed :
               \A p \in DOMAIN element.platforms : p \in Present /\ i \in Srcs(p).flat}
Delta(p) == Srcs(p).flat \ (Claimed \cup Baseline)

NonEmpty(arms, empty) == [a \in {b \in DOMAIN arms : arms[b] # empty} |-> arms[a]]

\* foldOrderInsensitiveAttr: an arm under a platform's key may be both.
SrcsArm(a) ==
    IF Len(a) = 2 THEN Own(<<a[1]>>, a[2])
    ELSE Agreed(a) \cup UNION {Delta(p) : p \in {q \in Present : <<keys[q]>> = a}}

FoldSrcs ==
    LET plain == Arms(srcs) \cup {<<keys[p]>> : p \in Present}
        groups == {<<a[1], p>> : a \in Arms(srcs), p \in Present}
    IN [flat |-> Baseline, arms |-> NonEmpty([a \in plain \cup groups |-> SrcsArm(a)], {})]

\* foldOrderSensitivePreArms: a whole arm agrees or none of it does.
SameArm(a) ==
    \A p \in Present : a \in DOMAIN Copts(p).arms /\ Copts(p).arms[a] = Copts(FirstCell).arms[a]

\* foldOrderSensitiveAttr: if one platform has an arm of its own, all have,
\* an empty one too.
SameFlat == ~Phantom /\ \A p \in Present : Copts(p).flat = Copts(FirstCell).flat
OwnArms ==
    IF SameFlat \/ \A p \in Present : Copts(p).flat = <<>> THEN {} ELSE {<<keys[p]>> : p \in Present}

CoptsArm(a) ==
    IF Len(a) = 2 THEN Copts(a[2]).arms[<<a[1]>>]
    ELSE IF a \in OwnArms THEN Copts(CHOOSE p \in Present : <<keys[p]>> = a).flat
    ELSE Copts(FirstCell).arms[a]

FoldCopts ==
    LET plain == {a \in Arms(copts) : SameArm(a)}
        groups == UNION {{<<a[1], p>> : a \in DOMAIN Copts(p).arms \ plain} : p \in Present}
    IN [flat |-> IF SameFlat THEN Copts(FirstCell).flat ELSE <<>>,
        arms |-> [a \in OwnArms \cup {b \in plain \cup groups : CoptsArm(b) # <<>>} |-> CoptsArm(a)]]

\* foldScalarAttr
FoldPath ==
    LET same == ~Phantom /\ \A p \in Present : Path(p) = Path(FirstCell)
    IN [flat |-> IF same THEN Path(FirstCell) ELSE Unset,
        arms |-> IF same THEN <<>>
                 ELSE [a \in {<<keys[p]>> : p \in {q \in Present : Path(q) # Unset}} |->
                         Path(CHOOSE p \in Present : <<keys[p]>> = a)]]

\* Linkstatic, Alwayslink, InstallDest, the genrule's and the test's fields.
Misshapen == \E p \in Present : element.cells[p].shape # element.cells[FirstCell].shape

\* A default arm that differs cannot be ANDed with a platform.
DefaultDiverges ==
    \/ \E p \in Present : Own(<<Default>>, p) # {}
    \/ <<Default>> \in Arms(copts) /\ ~SameArm(<<Default>>)

RefuseTarget ==
    /\ folding = "fold"
    /\ Misshapen \/ DefaultDiverges
    /\ folding' = IF Misshapen THEN "misshapen" ELSE "default diverges"
    /\ UNCHANGED <<element, keys, merged>>

FoldTarget ==
    /\ folding = "fold"
    /\ ~Misshapen /\ ~DefaultDiverges
    /\ merged' = [srcs |-> FoldSrcs, copts |-> FoldCopts, path |-> FoldPath]
    /\ folding' = "folded"
    /\ UNCHANGED <<element, keys>>

FoldNext ==
    \/ folding = "idle" /\ \E in \in FoldInputs : ReadCells(in)
    \/ PickSelectKeys
    \/ RefuseKeys
    \/ RefuseTarget
    \/ FoldTarget

FoldSpec == FoldInit /\ [][FoldNext]_foldVars

-----------------------------------------------------------------------------
(* The BUILD file: splitSelectByFamily, selectListExpr *)

\* The flag an arm's condition reads; groups of one flag are a family too, and
\* so are the groups of a label that belongs to none.
Family(a) ==
    LET flagged == a[1] \in DOMAIN FlagOf
    IN IF Len(a) = 2 THEN <<IF flagged THEN FlagOf[a[1]] ELSE a[1], "platform">>
       ELSE IF flagged THEN <<FlagOf[a[1]]>> ELSE <<>>

SelectsOf(arms) == {Family(a) : a \in DOMAIN arms}

-----------------------------------------------------------------------------
(* What Bazel makes of it on a platform, with some arm labels of flags on.  *)

Holds(a, p, on) ==
    LET labels == element.platforms[p].constraints \cup {keys[p]} \cup on
    IN a[1] \in labels /\ (Len(a) = 2 => keys[a[2]] \in labels)

Selected(arms, family, p, on) ==
    LET mine == {a \in DOMAIN arms : Family(a) = family}
        hit == {a \in mine \ {<<Default>>} : Holds(a, p, on)}
    IN IF hit = {} THEN mine \cap {<<Default>>} ELSE hit

\* "Illegal ambiguous match": two conditions of one select() hold.
Ambiguous(arms, p, on) ==
    \E f \in SelectsOf(arms) : \E a, b \in Selected(arms, f, p, on) : a # b

SrcsOn(attr, p, on) ==
    attr.flat \cup UNION {attr.arms[a] : a \in UNION {Selected(attr.arms, f, p, on) : f \in SelectsOf(attr.arms)}}

\* What one select() adds; they are ordered by family, "f" before "f+platform".
Chosen(arms, family, p, on) ==
    LET s == Selected(arms, family, p, on)
    IN IF s = {} THEN <<>> ELSE arms[CHOOSE a \in s : TRUE]

CoptsOn(attr, p, on) ==
    attr.flat \o Chosen(attr.arms, <<>>, p, on) \o SeqExt!FlattenSeq([i \in 1..Len(Flags) |->
       Chosen(attr.arms, <<Flags[i]>>, p, on) \o Chosen(attr.arms, <<Flags[i], "platform">>, p, on)])

PathOn(attr, p) ==
    LET s == Selected(attr.arms, <<>>, p, {})
    IN IF s = {} THEN attr.flat ELSE attr.arms[CHOOSE a \in s : TRUE]

\* At most one label of every flag.
Settings == {on \in SUBSET DOMAIN FlagOf : \A l, k \in on : FlagOf[l] = FlagOf[k] => l = k}

-----------------------------------------------------------------------------
(* Properties *)

\* No platform satisfies another's key.  A label of the operator's may be such a
\* key: PickSelectKeys only compares the keys.
KeysTellApart ==
    \A p, q \in DOMAIN element.platforms : p # q => keys[q] \notin element.platforms[p].constraints

\* What goes wrong on p: sources of its own push aside what the cells agree on
\* (the default arm yields to p's key, two labels that hold are ambiguous), or
\* p's own arm has moved to a group and the default arm applies beside it.
Disturbed(p, on) ==
    LET s == Selected(Srcs(p).arms, <<>>, p, on)
    IN IF Delta(p) # {}
       THEN \E a \in s : a # <<keys[p]>> /\ Agreed(a) # {}
       ELSE /\ \A a \in s : Agreed(a) = {}
            /\ ~(Agreed(<<Default>>) \subseteq UNION {Carries(srcs, p, a) : a \in s})

\* Whatever the options, and where no platform satisfies another's key, the
\* folded target is on each platform what was
\* converted for that platform.  For srcs that holds exactly when none of them
\* is an arm's in another cell and nothing is disturbed (and nothing is promised
\* of a cell that is ambiguous itself); copts keep their order; and where the
\* target was not declared it has what all the others have in an arm, if that.
FoldedAsConverted ==
    folding = "folded" /\ KeysTellApart =>
      \A p \in DOMAIN element.platforms, on \in Settings :
        /\ p \in Present /\ ~Ambiguous(Srcs(p).arms, p, on) =>
             (~Ambiguous(merged.srcs.arms, p, on) /\ SrcsOn(merged.srcs, p, on) = SrcsOn(Srcs(p), p, on)
              <=> ~Disturbed(p, on) /\ Srcs(p).flat \cap Claimed = {})
        /\ p \in Present /\ <<Default>> \notin Arms(copts) =>
             /\ ~Ambiguous(merged.copts.arms, p, on)
             /\ CoptsOn(merged.copts, p, on) = CoptsOn(Copts(p), p, on)
        /\ PathOn(merged.path, p) = IF p \in Present THEN Path(p) ELSE Unset
        /\ p \notin Present =>
             /\ (\A a \in Arms(srcs) : Agreed(a) = {}) => SrcsOn(merged.srcs, p, on) = {}
             /\ (\A a \in Arms(copts) : ~SameArm(a)) =>
                  CoptsOn(merged.copts, p, on) = CoptsOn([flat |-> <<>>, arms |-> <<>>], p, on)
=============================================================================
