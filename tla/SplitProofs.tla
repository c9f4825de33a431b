----------------------------- MODULE SplitProofs -----------------------------
(***************************************************************************)
(* Proofs about the split into packages (PackageSplit), for every set of   *)
(* lowered elements: an element that loads as one package loads as many,   *)
(* and no #include is lost.                                                *)
(***************************************************************************)
EXTENDS PackageSplit, FiniteSetTheorems, SequenceTheorems, WellFoundedInduction, TLAPS

(***************************************************************************)
(* Numbers.                                                                *)
(***************************************************************************)

\* A set of numbers that is not empty has a least one.
LEMMA LeastNumber ==
  ASSUME NEW S, S \subseteq Nat, S # {}
  PROVE  \E x \in S : \A y \in S : x <= y
<1> DEFINE less == OpToRel(<, Nat)
<1>1. PICK x \in S : \A y \in S : ~(<<y, x>> \in less)
  <2>1. IsWellFoundedOn(less, Nat)
    BY NatLessThanWellFounded
  <2> HIDE DEF less
  <2>2. QED
    BY <2>1, WFMin
<1>2. \A a, b \in Nat : a < b => <<a, b>> \in less
  BY DEF OpToRel
<1> HIDE DEF less
<1>3. ASSUME NEW y \in S
      PROVE  x <= y
  <2>1. x \in Nat /\ y \in Nat /\ ~(y < x)
    BY <1>1, <1>2
  <2>2. QED
    BY <2>1
<1>4. QED
  BY <1>3

\* Induction, for a set: one that has 0 and each successor has every number.
LEMMA EveryNumber ==
  ASSUME NEW S, 0 \in S, \A i \in Nat : i \in S => i + 1 \in S
  PROVE  Nat \subseteq S
<1>1. SUFFICES ASSUME Nat \ S # {} PROVE FALSE
  OBVIOUS
<1>2. PICK x \in Nat \ S : \A y \in Nat \ S : x <= y
  BY <1>1, LeastNumber
<1>3. x # 0 /\ x - 1 \in Nat
  BY <1>2
<1>4. x - 1 \in S
  BY <1>2, <1>3
<1>5. QED
  BY <1>2, <1>3, <1>4

(***************************************************************************)
(* What is reached in a graph.                                             *)
(***************************************************************************)

Onward(q, next) == q \cup UNION {next[n] : n \in q}
IsSearch(r, S, next, n) == r = [i \in 0..n |-> IF i = 0 THEN S ELSE Onward(r[i - 1], next)]

\* The stages of a search exist: the recursive function is one.
LEMMA StagesExist ==
  ASSUME NEW S, NEW next, NEW n \in Nat
  PROVE  \E r : IsSearch(r, S, next, n)
<1> DEFINE Stage(r, i) == IF i = 0 THEN S ELSE Onward(r[i - 1], next)
           Upto == {k \in Nat : \E r : r = [i \in 0..k |-> Stage(r, i)]}
<1>1. 0 \in Upto
  <2> DEFINE r0 == [i \in 0..0 |-> S]
  <2>1. r0 = [i \in 0..0 |-> Stage(r0, i)]
    BY SMT
  <2> HIDE DEF r0, Stage
  <2>2. QED
    BY <2>1
<1>2. ASSUME NEW k \in Nat, k \in Upto
      PROVE  k + 1 \in Upto
  <2>1. PICK f : f = [i \in 0..k |-> Stage(f, i)]
    BY <1>2
  <2> DEFINE g == [i \in 0..(k + 1) |-> IF i = k + 1 THEN Onward(f[k], next) ELSE f[i]]
  <2>2. \A i \in 0..(k + 1) : g[i] = Stage(g, i)
    <3> SUFFICES ASSUME NEW i \in 0..(k + 1) PROVE g[i] = Stage(g, i)
      OBVIOUS
    <3>1. CASE i = k + 1
      <4>1. g[i] = Onward(f[k], next)
        BY <3>1
      <4>2. g[k] = f[k] /\ i - 1 = k /\ i # 0
        BY <3>1
      <4> HIDE DEF g
      <4>3. QED
        BY <4>1, <4>2
    <3>2. CASE i # k + 1
      <4>1. i \in 0..k /\ g[i] = f[i]
        BY <3>2
      <4>2. f[i] = Stage(f, i)
        <5> HIDE DEF Stage
        <5> QED
          BY <2>1, <4>1
      <4>3. i # 0 => i - 1 \in 0..(k + 1) /\ i - 1 # k + 1
        BY <4>1
      <4>4. i # 0 => g[i - 1] = f[i - 1]
        BY <4>3
      <4> HIDE DEF g
      <4>5. Stage(g, i) = Stage(f, i)
        BY <4>4
      <4>6. QED
        BY <4>1, <4>2, <4>5
    <3>3. QED
      BY <3>1, <3>2
  <2>3. g = [i \in 0..(k + 1) |-> g[i]]
    OBVIOUS
  <2> HIDE DEF g, Stage
  <2>4. g = [i \in 0..(k + 1) |-> Stage(g, i)]
    BY <2>2, <2>3
  <2>5. k + 1 \in Nat
    OBVIOUS
  <2>6. QED
    BY <2>4, <2>5
<1> HIDE DEF Upto
<1>3. n \in Upto
  BY <1>1, <1>2, EveryNumber
<1>4. QED
  BY <1>3 DEF Upto, IsSearch

\* The stages of ReachedFrom.
LEMMA Stages ==
  ASSUME NEW S, NEW next, Cardinality(DOMAIN next) \in Nat
  PROVE  \E r : /\ r[0] = S
                /\ \A i \in Nat : i < Cardinality(DOMAIN next) => r[i + 1] = Onward(r[i], next)
                /\ ReachedFrom(S, next) = r[Cardinality(DOMAIN next)]
<1> DEFINE n == Cardinality(DOMAIN next)
           c == CHOOSE r : IsSearch(r, S, next, n)
<1>1. \E r : IsSearch(r, S, next, n)
  <2>1. n \in Nat
    OBVIOUS
  <2> HIDE DEF n
  <2>2. QED
    BY <2>1, StagesExist
<1>2. IsSearch(c, S, next, n)
  <2> HIDE DEF n
  <2> QED
    BY <1>1
<1>3. ReachedFrom(S, next) = c[n]
  BY DEF ReachedFrom, IsSearch, Onward
<1> HIDE DEF c
<1>4. c[0] = S
  BY <1>2 DEF IsSearch
<1>5. ASSUME NEW i \in Nat, i < n
      PROVE  c[i + 1] = Onward(c[i], next)
  <2>1. i + 1 \in 0..n /\ i + 1 # 0 /\ (i + 1) - 1 = i
    BY <1>5
  <2>2. QED
    BY <1>2, <2>1 DEF IsSearch
<1>6. QED
  BY <1>3, <1>4, <1>5

\* A finite graph, and nodes of it.
IsGraph(next) == IsFiniteSet(DOMAIN next) /\ \A n \in DOMAIN next : next[n] \subseteq DOMAIN next
Closed(C, next) == \A n \in C : next[n] \subseteq C

\* What is reached is in every set that has the start and is closed.
LEMMA ReachedStays ==
  ASSUME NEW next, IsGraph(next), NEW S, S \subseteq DOMAIN next,
         NEW C, S \subseteq C, \A n \in C \cap DOMAIN next : next[n] \subseteq C
  PROVE  ReachedFrom(S, next) \subseteq C
<1> DEFINE n == Cardinality(DOMAIN next)
<1>1. n \in Nat
  BY FS_CardinalityType DEF IsGraph
<1>2. PICK r : /\ r[0] = S
               /\ \A i \in Nat : i < n => r[i + 1] = Onward(r[i], next)
               /\ ReachedFrom(S, next) = r[n]
  BY <1>1, Stages
<1> HIDE DEF n
<1> DEFINE Within == {i \in Nat : i <= n => r[i] \subseteq C \cap DOMAIN next}
<1>3. 0 \in Within
  BY <1>2
<1>4. ASSUME NEW i \in Nat, i \in Within
      PROVE  i + 1 \in Within
  <2>1. SUFFICES ASSUME i + 1 <= n PROVE r[i + 1] \subseteq C \cap DOMAIN next
    OBVIOUS
  <2>2. i < n /\ i <= n
    BY <1>1, <2>1
  <2>3. r[i] \subseteq C \cap DOMAIN next
    BY <1>4, <2>2
  <2>4. r[i + 1] = Onward(r[i], next)
    BY <1>2, <2>2
  <2>5. \A m \in r[i] : next[m] \subseteq C \cap DOMAIN next
    BY <2>3 DEF IsGraph
  <2>6. QED
    BY <2>3, <2>4, <2>5 DEF Onward
<1>5. n \in Within
  <2> HIDE DEF Within
  <2> QED
    BY <1>1, <1>3, <1>4, EveryNumber
<1>6. QED
  BY <1>1, <1>2, <1>5

\* What is reached has the start, and is closed: a stage that is not has a node
\* more than the one before.
LEMMA ReachedCloses ==
  ASSUME NEW next, IsGraph(next), NEW S, S \subseteq DOMAIN next
  PROVE  /\ S \subseteq ReachedFrom(S, next)
         /\ ReachedFrom(S, next) \subseteq DOMAIN next
         /\ Closed(ReachedFrom(S, next), next)
<1> DEFINE n == Cardinality(DOMAIN next)
<1>1. n \in Nat
  BY FS_CardinalityType DEF IsGraph
<1>2. PICK r : /\ r[0] = S
               /\ \A i \in Nat : i < n => r[i + 1] = Onward(r[i], next)
               /\ ReachedFrom(S, next) = r[n]
  BY <1>1, Stages
<1> HIDE DEF n
<1> DEFINE Ok(i) == /\ S \subseteq r[i]
                    /\ r[i] \subseteq DOMAIN next
                    /\ Closed(r[i], next) \/ Cardinality(r[i]) >= i
           Good == {i \in Nat : i <= n => Ok(i)}
<1>3. \A T : T \subseteq DOMAIN next => IsFiniteSet(T) /\ Cardinality(T) \in Nat
  BY FS_Subset, FS_CardinalityType DEF IsGraph
<1>4. 0 \in Good
  <2>1. Cardinality(S) \in Nat
    BY <1>3
  <2>2. Cardinality(r[0]) >= 0
    BY <1>2, <2>1
  <2>3. QED
    BY <1>2, <2>2
<1>5. ASSUME NEW i \in Nat, i \in Good
      PROVE  i + 1 \in Good
  <2>1. SUFFICES ASSUME i + 1 <= n PROVE Ok(i + 1)
    OBVIOUS
  <2>2. i < n /\ i <= n
    BY <1>1, <2>1
  <2>3. Ok(i)
    BY <1>5, <2>2
  <2>4. r[i + 1] = Onward(r[i], next)
    BY <1>2, <2>2
  <2>5. S \subseteq r[i + 1] /\ r[i + 1] \subseteq DOMAIN next
    BY <2>3, <2>4 DEF Onward, IsGraph
  <2>6. Closed(r[i + 1], next) \/ Cardinality(r[i + 1]) >= i + 1
    <3>1. CASE Closed(r[i], next)
      <4>1. r[i + 1] = r[i]
        BY <2>4, <3>1 DEF Closed, Onward
      <4>2. QED
        BY <3>1, <4>1
    <3>2. CASE ~Closed(r[i], next)
      <4>1. r[i] \subseteq r[i + 1] /\ r[i] # r[i + 1]
        BY <2>4, <3>2 DEF Closed, Onward
      <4>2. IsFiniteSet(r[i + 1]) /\ Cardinality(r[i + 1]) \in Nat /\ Cardinality(r[i]) \in Nat
        BY <1>3, <2>3, <2>5
      <4>3. Cardinality(r[i]) <= Cardinality(r[i + 1]) /\ Cardinality(r[i]) # Cardinality(r[i + 1])
        BY <4>1, <4>2, FS_Subset
      <4>4. Cardinality(r[i]) >= i
        BY <2>3, <3>2
      <4>5. QED
        BY <4>2, <4>3, <4>4
    <3>3. QED
      BY <3>1, <3>2
  <2>7. QED
    BY <2>5, <2>6
<1>6. n \in Good
  <2> HIDE DEF Good
  <2> QED
    BY <1>1, <1>4, <1>5, EveryNumber
<1>7. Ok(n)
  BY <1>1, <1>6
<1>8. Closed(r[n], next)
  <2>1. CASE Closed(r[n], next)
    BY <2>1
  <2>2. CASE Cardinality(r[n]) >= n
    <3>1. Cardinality(r[n]) <= n /\ (n = Cardinality(r[n]) => DOMAIN next = r[n])
      BY <1>7, FS_Subset DEF n, IsGraph
    <3>2. Cardinality(r[n]) \in Nat
      BY <1>3, <1>7
    <3>3. r[n] = DOMAIN next
      BY <1>1, <2>2, <3>1, <3>2
    <3>4. QED
      BY <3>3 DEF Closed, IsGraph
  <2>3. QED
    BY <1>7, <2>1, <2>2
<1>9. QED
  BY <1>2, <1>7, <1>8

\* What is reached from what is reached is reached; and what is reached from a
\* node's successors has all that is reached from one of them.
LEMMA ReachedAgain ==
  ASSUME NEW next, IsGraph(next), NEW S, S \subseteq DOMAIN next,
         NEW n \in ReachedFrom(S, next)
  PROVE  ReachedFrom(next[n], next) \subseteq ReachedFrom(S, next)
<1>1. /\ ReachedFrom(S, next) \subseteq DOMAIN next
      /\ Closed(ReachedFrom(S, next), next)
  BY ReachedCloses
<1>2. next[n] \subseteq DOMAIN next /\ next[n] \subseteq ReachedFrom(S, next)
  BY <1>1 DEF Closed
<1>3. \A m \in ReachedFrom(S, next) \cap DOMAIN next : next[m] \subseteq ReachedFrom(S, next)
  BY <1>1 DEF Closed
<1>4. QED
  BY <1>2, <1>3, ReachedStays

\* What is reached is a start, or reached from the successors of one.
LEMMA ReachedFromOne ==
  ASSUME NEW next, IsGraph(next), NEW S, S \subseteq DOMAIN next,
         NEW k \in ReachedFrom(S, next)
  PROVE  \E s \in S : k = s \/ k \in ReachedFrom(next[s], next)
<1> DEFINE C == {c \in DOMAIN next : \E s \in S : c = s \/ c \in ReachedFrom(next[s], next)}
<1>1. S \subseteq C
  OBVIOUS
<1>2. ASSUME NEW c \in C, NEW d \in next[c]
      PROVE  d \in C
  <2>1. PICK s \in S : c = s \/ c \in ReachedFrom(next[s], next)
    BY <1>2
  <2>2. next[s] \subseteq DOMAIN next /\ d \in DOMAIN next
    BY <1>2 DEF IsGraph
  <2>3. next[s] \subseteq ReachedFrom(next[s], next) /\ Closed(ReachedFrom(next[s], next), next)
    BY <2>2, ReachedCloses
  <2>4. d \in ReachedFrom(next[s], next)
    BY <2>1, <2>3, <1>2 DEF Closed
  <2>5. QED
    BY <2>2, <2>4
<1>3. ReachedFrom(S, next) \subseteq C
  <2> HIDE DEF C
  <2> QED
    BY <1>1, <1>2, ReachedStays
<1>4. QED
  BY <1>3

\* A cycle goes on: of the successors of a node on a cycle one is on a cycle.
LEMMA CycleGoesOn ==
  ASSUME NEW next, IsGraph(next), NEW k \in DOMAIN next, k \in ReachedFrom(next[k], next)
  PROVE  \E s \in next[k] : s \in ReachedFrom(next[s], next)
<1>1. next[k] \subseteq DOMAIN next
  BY DEF IsGraph
<1>2. PICK s \in next[k] : k = s \/ k \in ReachedFrom(next[s], next)
  BY <1>1, ReachedFromOne
<1>3. CASE k = s
  BY <1>3
<1>4. CASE k \in ReachedFrom(next[s], next)
  <2>1. next[s] \subseteq DOMAIN next
    BY <1>1 DEF IsGraph
  <2>2. Closed(ReachedFrom(next[s], next), next)
    BY <2>1, ReachedCloses
  <2>3. s \in ReachedFrom(next[s], next)
    BY <1>4, <2>2 DEF Closed
  <2>4. QED
    BY <2>3
<1>5. QED
  BY <1>2, <1>3, <1>4

(***************************************************************************)
(* Paths.                                                                  *)
(***************************************************************************)

\* A directory is above a path that starts with its names.
LEMMA UnderNames ==
  ASSUME NEW d \in Seq(Names), NEW p \in Seq(Names)
  PROVE  Under(d, p) <=> Len(d) <= Len(p) /\ \A i \in 1..Len(d) : d[i] = p[i]
<1>1. Len(d) \in Nat /\ Len(p) \in Nat
  BY LenProperties
<1>2. SubSeq(d, 1, Len(d)) = [i \in 1..Len(d) |-> d[i]]
  BY <1>1, SubSeqProperties
<1>3. Len(d) <= Len(p) => SubSeq(p, 1, Len(d)) = [i \in 1..Len(d) |-> p[i]]
  BY <1>1, SubSeqProperties
<1>4. QED
  BY <1>2, <1>3 DEF Under, SeqOps!IsPrefix

\* The rest of a path below a directory.
LEMMA RestOfPath ==
  ASSUME NEW d \in Seq(Names), NEW p \in Seq(Names), Under(d, p)
  PROVE  /\ RelTo(d, p) \in Seq(Names)
         /\ Len(RelTo(d, p)) = Len(p) - Len(d)
         /\ d \o RelTo(d, p) = p
<1>1. Len(d) \in Nat /\ Len(p) \in Nat /\ Len(d) <= Len(p)
  BY LenProperties, UnderNames
<1>2. /\ RelTo(d, p) \in Seq(Names)
      /\ Len(RelTo(d, p)) = Len(p) - Len(d)
      /\ \A i \in 1..(Len(p) - Len(d)) : RelTo(d, p)[i] = p[Len(d) + i]
  BY <1>1, SubSeqProperties DEF RelTo
<1>3. d \o RelTo(d, p) \in Seq(Names) /\ Len(d \o RelTo(d, p)) = Len(p)
  BY <1>1, <1>2, ConcatProperties
<1>4. \A i \in 1..Len(p) : (d \o RelTo(d, p))[i] = p[i]
  <2> SUFFICES ASSUME NEW i \in 1..Len(p) PROVE (d \o RelTo(d, p))[i] = p[i]
    OBVIOUS
  <2>1. CASE i <= Len(d)
    BY <1>1, <1>2, <2>1, UnderNames, ConcatProperties
  <2>2. CASE i > Len(d)
    <3>1. i - Len(d) \in 1..(Len(p) - Len(d)) /\ Len(d) + (i - Len(d)) = i
      BY <1>1, <2>2
    <3>2. (d \o RelTo(d, p))[i] = RelTo(d, p)[i - Len(d)]
      BY <1>1, <1>2, <2>2, ConcatProperties
    <3>3. RelTo(d, p)[i - Len(d)] = p[Len(d) + (i - Len(d))]
      BY <1>2, <3>1
    <3>4. QED
      BY <3>1, <3>2, <3>3
  <2>3. i <= Len(d) \/ i > Len(d)
    BY <1>1
  <2>4. QED
    BY <2>1, <2>2, <2>3
<1>5. QED
  BY <1>2, <1>3, <1>4, SeqEqual

\* The root is above everything.
LEMMA UnderRoot ==
  ASSUME NEW p \in Seq(Names)
  PROVE  /\ Under(<<>>, p)
         /\ RelTo(<<>>, p) = p
<1>1. <<>> \in Seq(Names) /\ Len(<<>>) = 0
  BY EmptySeq
<1>2. Under(<<>>, p)
  <2>1. Len(p) \in Nat
    BY LenProperties
  <2>2. Len(<<>>) <= Len(p) /\ \A i \in 1..Len(<<>>) : <<>>[i] = p[i]
    BY <1>1, <2>1
  <2>3. QED
    BY <1>1, <2>2, UnderNames
<1>3. QED
  BY <1>1, <1>2, SubSeqFull DEF RelTo

\* Directories above one path are above one another, and two of one length are
\* one.
LEMMA UnderBoth ==
  ASSUME NEW d \in Seq(Names), NEW e \in Seq(Names), NEW p \in Seq(Names),
         Under(d, p), Under(e, p), Len(d) <= Len(e)
  PROVE  /\ Under(d, e)
         /\ Len(d) = Len(e) => d = e
<1>1. Len(d) \in Nat /\ Len(e) \in Nat /\ Len(p) \in Nat
  BY LenProperties
<1>2. /\ \A i \in 1..Len(d) : d[i] = p[i]
      /\ \A i \in 1..Len(e) : e[i] = p[i]
  BY UnderNames
<1>3. \A i \in 1..Len(d) : d[i] = e[i]
  BY <1>1, <1>2
<1>4. QED
  BY <1>3, UnderNames, SeqEqual

\* What is below what is below a directory is below it.
LEMMA UnderUnder ==
  ASSUME NEW d \in Seq(Names), NEW e \in Seq(Names), NEW p \in Seq(Names),
         Under(d, e), Under(e, p)
  PROVE  Under(d, p)
<1>1. Len(d) \in Nat /\ Len(e) \in Nat /\ Len(p) \in Nat
  BY LenProperties
<1>2. /\ Len(d) <= Len(e) /\ \A i \in 1..Len(d) : d[i] = e[i]
      /\ Len(e) <= Len(p) /\ \A i \in 1..Len(e) : e[i] = p[i]
  BY UnderNames
<1>3. Len(d) <= Len(p) /\ \A i \in 1..Len(d) : d[i] = p[i]
  BY <1>1, <1>2
<1>4. QED
  BY <1>3, UnderNames

\* A path that is not its first name alone has more.
LEMMA OnlyName ==
  ASSUME NEW p \in Seq(Names), p # <<>>, p # <<p[1]>>
  PROVE  Len(p) > 1
<1> DEFINE n == Len(p)
<1>1. n \in Nat /\ n # 0
  BY LenProperties, EmptySeq
<1>2. n # 1
  <2>1. SUFFICES ASSUME n = 1 PROVE FALSE
    OBVIOUS
  <2>2. p[1] \in Names
    BY <2>1, ElementOfSeq
  <2>3. <<p[1]>> \in Seq(Names) /\ Len(<<p[1]>>) = 1 /\ <<p[1]>>[1] = p[1]
    BY <2>2
  <2>4. <<p[1]>> = p
    BY <2>1, <2>3, SeqEqual
  <2>5. QED
    BY <2>4
<1> HIDE DEF n
<1>3. n > 1
  BY <1>1, <1>2
<1>4. QED
  BY <1>3 DEF n

\* A path has a deepest package above it.
LEMMA OwnerIsDeepest ==
  ASSUME NEW pkgs, pkgs \subseteq Seq(Names), <<>> \in pkgs, NEW p \in Seq(Names)
  PROVE  /\ OwnerAmong(pkgs, p) \in pkgs
         /\ Under(OwnerAmong(pkgs, p), p)
         /\ \A e \in pkgs : Under(e, p) => Len(e) <= Len(OwnerAmong(pkgs, p))
<1> DEFINE above == {d \in pkgs : Under(d, p)}
           left == {Len(p) - Len(d) : d \in above}
<1>1. \A d \in above : Len(d) \in Nat /\ Len(p) \in Nat /\ Len(d) <= Len(p)
  BY LenProperties, UnderNames
<1>2. <<>> \in above
  BY UnderRoot
<1>3. left \subseteq Nat /\ left # {}
  <2> HIDE DEF above
  <2> QED
    BY <1>1, <1>2
<1>4. PICK x \in left : \A y \in left : x <= y
  <2> HIDE DEF left
  <2> QED
    BY <1>3, LeastNumber
<1>5. PICK d \in above : x = Len(p) - Len(d)
  OBVIOUS
<1>6. \A e \in above : Len(e) <= Len(d)
  <2> SUFFICES ASSUME NEW e \in above PROVE Len(e) <= Len(d)
    OBVIOUS
  <2>1. Len(p) - Len(d) <= Len(p) - Len(e)
    BY <1>4, <1>5
  <2>2. QED
    BY <1>1, <2>1
<1> HIDE DEF above, left
<1>7. LongestOf(above) \in above /\ \A e \in above : Len(e) <= Len(LongestOf(above))
  BY <1>5, <1>6 DEF LongestOf
<1>8. QED
  BY <1>7 DEF above, OwnerAmong

(***************************************************************************)
(* The inductive invariant: a layout is the element's, and what is emitted *)
(* is emitted from both.                                                   *)
(***************************************************************************)

SplitInv ==
    /\ lowered \in LoweredPackages
    /\ layout # NotSplit => layout = SplitPlan
    /\ split # NotSplit =>
         /\ layout # NotSplit
         /\ \/ split = [refused |-> TRUE]
            \/ /\ ~WrapperNameTaken
               /\ split = [refused |-> FALSE, rules |-> SplitRules, exports |-> ExportedFiles]

\* A plan depends on the element only.
LEMMA PlanKeeps ==
  ASSUME UNCHANGED lowered
  PROVE  SplitPlan' = SplitPlan
BY DEF SplitPlan, IncludeRoots, SplitTargets, RootsOf, OwnerAmong, LongestOf, Under, RootWalk, LandingAmong,
       Generators, ToolRoots, Outs, ToolClosure, ReachedFrom, Publicize, HeadersIn, AllHeaders, Compiled

\* What is emitted depends on the element and its layout only.
LEMMA RulesKeep ==
  ASSUME UNCHANGED <<lowered, layout>>
  PROVE  /\ SplitRules' = SplitRules
         /\ ExportedFiles' = ExportedFiles
         /\ WrapperNameTaken' = WrapperNameTaken
BY DEF SplitRules, ExportedFiles, WrapperNameTaken, RealLabel, HeaderLib, RootHdrLib, RootHdrAgg, GeneratedIncludes,
       OwnerOf, OwnerAmong, LongestOf, Under, WantedHeaders, SplitTargets, RewriteTarget, HeaderLibTarget,
       RootHdrLibTarget, RootHdrAggTarget, WrapperTarget, PublicRule, FileLabel, HeadersIn, AllHeaders,
       GeneratedFiles, Generators, Outs, Compiled, RelTo, RootWalk, KeptHdrs, FastPath, GrantedRoots, RootsOf,
       TargetLabel, HeaderDeps, PrivHeaderDeps, PrefixOf, CrossExports, Public

\* In every state: a layout is what planSplit gives for the element, and rules
\* and exports are those of the element in that layout, unless it was refused.
THEOREM SplitsKnown == SplitSpec => []SplitInv
<1>1. SplitInit => SplitInv
  BY DEF SplitInit, SplitInv
<1>2. SplitInv /\ [SplitNext]_splitVars => SplitInv'
  <2> SUFFICES ASSUME SplitInv, [SplitNext]_splitVars PROVE SplitInv'
    OBVIOUS
  <2>1. CASE PlanSplit
    <3>1. layout' = SplitPlan' /\ UNCHANGED <<lowered, split>> /\ split = NotSplit
      BY <2>1, PlanKeeps DEF PlanSplit, SplitInv
    <3>2. QED
      BY <3>1 DEF SplitInv
  <2>2. CASE EmitSplit
    <3>1. UNCHANGED <<lowered, layout>> /\ layout # NotSplit
      BY <2>2 DEF EmitSplit
    <3>2. /\ SplitPlan' = SplitPlan /\ SplitRules' = SplitRules /\ ExportedFiles' = ExportedFiles
          /\ WrapperNameTaken' = WrapperNameTaken
      BY <3>1, PlanKeeps, RulesKeep
    <3>3. split' = IF WrapperNameTaken THEN [refused |-> TRUE]
                   ELSE [refused |-> FALSE, rules |-> SplitRules, exports |-> ExportedFiles]
      BY <2>2 DEF EmitSplit
    <3>4. QED
      BY <3>1, <3>2, <3>3 DEF SplitInv
  <2>3. CASE UNCHANGED splitVars
    <3>1. UNCHANGED <<lowered, layout, split>>
      BY <2>3 DEF splitVars
    <3>2. /\ SplitPlan' = SplitPlan /\ SplitRules' = SplitRules /\ ExportedFiles' = ExportedFiles
          /\ WrapperNameTaken' = WrapperNameTaken
      BY <3>1, PlanKeeps, RulesKeep
    <3>3. QED
      BY <3>1, <3>2 DEF SplitInv
  <2>4. QED
    BY <2>1, <2>2, <2>3 DEF SplitNext
<1>3. QED
  BY <1>1, <1>2, PTL DEF SplitSpec

(***************************************************************************)
(* The element.                                                            *)
(***************************************************************************)

Elem == lowered \in LoweredPackages

FilesOf(n) == lowered[n].srcs \cup lowered[n].arms \cup lowered[n].hdrs \cup lowered[n].wants \cup Outs(n)

\* What is generated is what some target's outs name.
LEMMA GeneratedByOne ==
  GeneratedFiles = UNION {{lowered[g].outs[i] : i \in DOMAIN lowered[g].outs} : g \in DOMAIN lowered}
<1>1. \A g \in DOMAIN lowered : lowered[g].outs = <<>> => DOMAIN lowered[g].outs = {}
  OBVIOUS
<1>2. QED
  BY <1>1 DEF GeneratedFiles, Generators, SplitTargets, Outs

\* What an element's targets are.
LEMMA TargetFacts ==
  ASSUME Elem, NEW n \in SplitTargets
  PROVE  /\ IsFiniteSet(SplitTargets)
         /\ n \in Names \ {"headers", "root_hdrs", "element_root_headers"}
         /\ lowered[n].dir \in Seq(Names)
         /\ RootsOf(n) \subseteq Seq(Names) \ GeneratedFiles
         /\ FilesOf(n) \subseteq Seq(Names) \ {<<>>}
         /\ IsFiniteSet(RootsOf(n)) /\ IsFiniteSet(lowered[n].hdrs) /\ IsFiniteSet(lowered[n].wants)
         /\ lowered[n].deps \cup lowered[n].tools \cup lowered[n].order \subseteq SplitTargets
         /\ lowered[n].wants \subseteq GeneratedFiles
         /\ lowered[n].rootInclude => lowered[n].public
<1> DEFINE t == lowered[n]
           files == t.srcs \cup t.arms \cup t.hdrs \cup t.wants \cup {t.outs[i] : i \in DOMAIN t.outs}
<1>1. IsLowered(lowered)
  BY LoweredAssumption DEF Elem
<1>2. /\ IsFiniteSet(DOMAIN lowered)
      /\ n \in Names \ {"headers", "root_hdrs", "element_root_headers"}
      /\ {t.dir} \cup t.incs \cup t.privIncs \subseteq Seq(Names) \ (files \cup GeneratedFiles)
      /\ files \subseteq Seq(Names) \ {<<>>}
      /\ \A S \in {t.incs, t.privIncs, t.hdrs, t.wants} : IsFiniteSet(S)
      /\ t.deps \cup t.tools \cup t.order \subseteq DOMAIN lowered
      /\ t.wants \subseteq GeneratedFiles
      /\ t.rootInclude => t.public
  BY <1>1, GeneratedByOne DEF IsLowered, SplitTargets
<1>3. IsFiniteSet(RootsOf(n))
  <2>1. IsFiniteSet(t.incs) /\ IsFiniteSet(t.privIncs \ {<<>>})
    BY <1>2, FS_Subset
  <2>2. QED
    BY <2>1, FS_Union DEF RootsOf
<1>4. FilesOf(n) = files
  BY DEF FilesOf, Outs
<1>5. QED
  BY <1>2, <1>3, <1>4 DEF RootsOf, SplitTargets

\* What rules that generate are: at the root, without headers and deps.
LEMMA GeneratorFacts ==
  ASSUME Elem, NEW g \in Generators
  PROVE  /\ g \in SplitTargets
         /\ lowered[g].dir = <<>> /\ ~lowered[g].rootInclude
         /\ RootsOf(g) = {} /\ lowered[g].hdrs = {} /\ lowered[g].wants = {} /\ lowered[g].deps = {}
         /\ lowered[g].outs[1] \in Outs(g)
<1> DEFINE t == lowered[g]
           files == t.srcs \cup t.arms \cup t.hdrs \cup t.wants \cup {t.outs[i] : i \in DOMAIN t.outs}
<1>1. IsLowered(lowered) /\ g \in DOMAIN lowered /\ t.outs # <<>>
  BY LoweredAssumption DEF Elem, Generators, SplitTargets
<1>2. /\ t.outs \in Seq(files)
      /\ t.dir = <<>> /\ ~t.rootInclude
      /\ t.incs \cup t.privIncs \cup t.hdrs \cup t.wants \cup t.deps = {}
  BY <1>1 DEF IsLowered
<1>3. 1 \in DOMAIN t.outs
  <2>1. Len(t.outs) \in Nat /\ DOMAIN t.outs = 1..Len(t.outs) /\ Len(t.outs) # 0
    BY <1>1, <1>2, LenProperties, EmptySeq
  <2>2. QED
    BY <2>1
<1>4. t.outs[1] \in Outs(g)
  BY <1>3 DEF Outs
<1>5. QED
  BY <1>1, <1>2, <1>4 DEF RootsOf, SplitTargets

\* A generated file has one producer.
LEMMA ProducerFacts ==
  ASSUME Elem
  PROVE  /\ \A o \in GeneratedFiles : ProducerOf(o) \in Generators /\ o \in Outs(ProducerOf(o))
         /\ \A g \in Generators : \A o \in Outs(g) : o \in GeneratedFiles /\ ProducerOf(o) = g
<1>1. IsLowered(lowered)
  BY LoweredAssumption DEF Elem
<1>2. \A o \in GeneratedFiles : ProducerOf(o) \in Generators /\ o \in Outs(ProducerOf(o))
  BY DEF GeneratedFiles, ProducerOf
<1>3. ASSUME NEW g \in Generators, NEW h \in Generators, NEW o \in Outs(g), o \in Outs(h)
      PROVE  g = h
  <2>1. PICK i \in DOMAIN lowered[g].outs, j \in DOMAIN lowered[h].outs : lowered[g].outs[i] = lowered[h].outs[j]
    BY <1>3 DEF Outs
  <2>2. g \in DOMAIN lowered /\ h \in DOMAIN lowered
    BY DEF Generators, SplitTargets
  <2>3. \A m \in DOMAIN lowered : \A f \in DOMAIN lowered \ {m} :
          \A a \in DOMAIN lowered[m].outs, b \in DOMAIN lowered[f].outs : lowered[m].outs[a] # lowered[f].outs[b]
    BY <1>1 DEF IsLowered
  <2>4. h # g => lowered[g].outs[i] # lowered[h].outs[j]
    BY <2>1, <2>2, <2>3
  <2>5. QED
    BY <2>1, <2>4
<1>4. ASSUME NEW g \in Generators, NEW o \in Outs(g)
      PROVE  o \in GeneratedFiles /\ ProducerOf(o) = g
  <2>1. o \in GeneratedFiles
    BY DEF GeneratedFiles
  <2>2. QED
    BY <1>2, <1>3, <2>1
<1>5. QED
  BY <1>2, <1>4

(***************************************************************************)
(* The layout.                                                             *)
(***************************************************************************)

Laid == Elem /\ layout = SplitPlan

\* The image of a finite set under a function is finite.
LEMMA FiniteImage ==
  ASSUME NEW f, IsFiniteSet(DOMAIN f)
  PROVE  IsFiniteSet({f[x] : x \in DOMAIN f})
<1> DEFINE T == {f[x] : x \in DOMAIN f}
           g == [x \in DOMAIN f |-> f[x]]
<1>1. g \in Surjection(DOMAIN f, T)
  BY DEF Surjection
<1>2. QED
  BY <1>1, FS_Surjection

\* An element has finitely many include roots and headers.
LEMMA FiniteElement ==
  ASSUME Elem
  PROVE  /\ IsFiniteSet(IncludeRoots)
         /\ IsFiniteSet(AllHeaders)
         /\ IsFiniteSet(WantedHeaders)
<1> DEFINE roots == [n \in SplitTargets |-> RootsOf(n)]
           hdrs == [n \in SplitTargets |-> lowered[n].hdrs]
           wants == [n \in SplitTargets |-> lowered[n].wants]
<1>1. IsFiniteSet(SplitTargets)
  BY LoweredAssumption DEF Elem, IsLowered, SplitTargets
<1>2. \A n \in SplitTargets : IsFiniteSet(roots[n]) /\ IsFiniteSet(hdrs[n]) /\ IsFiniteSet(wants[n])
  BY TargetFacts
<1>3. /\ IncludeRoots = UNION {roots[n] : n \in DOMAIN roots}
      /\ AllHeaders = UNION {hdrs[n] : n \in DOMAIN hdrs}
      /\ WantedHeaders = UNION {wants[n] : n \in DOMAIN wants}
  BY DEF IncludeRoots, AllHeaders, WantedHeaders
<1>4. /\ IsFiniteSet({roots[n] : n \in DOMAIN roots})
      /\ IsFiniteSet({hdrs[n] : n \in DOMAIN hdrs})
      /\ IsFiniteSet({wants[n] : n \in DOMAIN wants})
  <2>1. DOMAIN roots = SplitTargets /\ DOMAIN hdrs = SplitTargets /\ DOMAIN wants = SplitTargets
    OBVIOUS
  <2> HIDE DEF roots, hdrs, wants
  <2>2. QED
    BY <1>1, <2>1, FiniteImage
<1> HIDE DEF roots, hdrs, wants
<1>5. /\ \A T \in {roots[n] : n \in DOMAIN roots} : IsFiniteSet(T)
      /\ \A T \in {hdrs[n] : n \in DOMAIN hdrs} : IsFiniteSet(T)
      /\ \A T \in {wants[n] : n \in DOMAIN wants} : IsFiniteSet(T)
  BY <1>2 DEF roots, hdrs, wants
<1>6. QED
  BY <1>3, <1>4, <1>5, FS_UNION

\* What a layout's fields are.
LEMMA LayoutFields ==
  ASSUME layout = SplitPlan
  PROVE  /\ layout.pkgs = {<<>>} \cup {lowered[n].dir : n \in SplitTargets} \cup IncludeRoots
         /\ layout.roots = IncludeRoots
         /\ \A n \in SplitTargets : layout.landing[n] = LandingAmong(layout.pkgs, n)
         /\ \A n \in SplitTargets : layout.toolRoots[n] = ToolRoots(n)
         /\ layout.publicize = Publicize(layout.pkgs, IncludeRoots)
         /\ layout.rootHdrs \subseteq {OwnerOf(h) : h \in RootWalk}
         /\ layout.rootHdrs # {} => layout.rootHdrs = {OwnerOf(h) : h \in RootWalk}
<1> DEFINE pkgs == {<<>>} \cup {lowered[n].dir : n \in SplitTargets} \cup IncludeRoots
           owners == {OwnerAmong(pkgs, h) : h \in RootWalk}
<1>1. layout = [pkgs      |-> pkgs,
                roots     |-> IncludeRoots,
                landing   |-> [n \in SplitTargets |-> LandingAmong(pkgs, n)],
                toolRoots |-> [n \in SplitTargets |-> ToolRoots(n)],
                publicize |-> Publicize(pkgs, IncludeRoots),
                rootHdrs  |-> IF Cardinality(owners) > 1 THEN owners ELSE {}]
  BY DEF SplitPlan
<1> HIDE DEF pkgs
<1>2. /\ layout.pkgs = pkgs /\ layout.roots = IncludeRoots
      /\ layout.publicize = Publicize(pkgs, IncludeRoots)
      /\ \A n \in SplitTargets : layout.landing[n] = LandingAmong(pkgs, n)
      /\ \A n \in SplitTargets : layout.toolRoots[n] = ToolRoots(n)
      /\ layout.rootHdrs = IF Cardinality(owners) > 1 THEN owners ELSE {}
  BY <1>1
<1>3. owners = {OwnerOf(h) : h \in RootWalk}
  BY <1>2 DEF OwnerOf
<1>4. QED
  BY <1>2, <1>3 DEF pkgs

\* Packages are directories, the root is one, and so is each target's and each
\* include root.
LEMMA PackageFacts ==
  ASSUME Laid
  PROVE  /\ layout.pkgs \subseteq Seq(Names)
         /\ <<>> \in layout.pkgs
         /\ layout.roots \subseteq layout.pkgs
         /\ IsFiniteSet(layout.roots)
         /\ \A n \in SplitTargets : lowered[n].dir \in layout.pkgs /\ RootsOf(n) \subseteq layout.roots
<1>1. \A n \in SplitTargets : lowered[n].dir \in Seq(Names) /\ RootsOf(n) \subseteq Seq(Names)
  BY TargetFacts DEF Laid
<1>2. <<>> \in Seq(Names)
  BY EmptySeq
<1>3. IncludeRoots \subseteq Seq(Names)
  BY <1>1 DEF IncludeRoots
<1>4. \A n \in SplitTargets : RootsOf(n) \subseteq IncludeRoots
  BY DEF IncludeRoots
<1>5. QED
  BY <1>1, <1>2, <1>3, <1>4, LayoutFields, FiniteElement DEF Laid

\* The package that a file is in.
LEMMA OwnerFacts ==
  ASSUME Laid, NEW p \in Seq(Names)
  PROVE  /\ OwnerOf(p) \in layout.pkgs
         /\ OwnerOf(p) \in Seq(Names)
         /\ Under(OwnerOf(p), p)
         /\ \A d \in layout.pkgs : Under(d, p) => Len(d) <= Len(OwnerOf(p))
         /\ OwnerOf(p) \o RelTo(OwnerOf(p), p) = p
<1>1. /\ OwnerOf(p) \in layout.pkgs
      /\ OwnerOf(p) \in Seq(Names)
      /\ Under(OwnerOf(p), p)
      /\ \A d \in layout.pkgs : Under(d, p) => Len(d) <= Len(OwnerOf(p))
  BY PackageFacts, OwnerIsDeepest DEF OwnerOf
<1>2. QED
  BY <1>1, RestOfPath

\* Where rules are: a target where it was declared, a generator with its first
\* output.
LEMMA LandingFacts ==
  ASSUME Laid, NEW n \in SplitTargets
  PROVE  /\ layout.landing[n] \in layout.pkgs
         /\ n \notin Generators => layout.landing[n] = lowered[n].dir
         /\ n \in Generators => layout.landing[n] = OwnerOf(lowered[n].outs[1])
<1>1. layout.landing[n] = LandingAmong(layout.pkgs, n)
  BY LayoutFields DEF Laid
<1>2. CASE n \in Generators
  <2>1. lowered[n].outs[1] \in Seq(Names)
    BY <1>2, GeneratorFacts, TargetFacts DEF FilesOf, Laid
  <2>2. lowered[n].dir = <<>>
    BY <1>2, GeneratorFacts DEF Laid
  <2>3. layout.landing[n] = OwnerOf(lowered[n].outs[1])
    BY <1>1, <1>2, <2>2 DEF LandingAmong, OwnerOf
  <2>4. QED
    BY <1>2, <2>1, <2>3, OwnerFacts
<1>3. CASE n \notin Generators
  BY <1>1, <1>3, PackageFacts DEF LandingAmong
<1>4. QED
  BY <1>2, <1>3

(***************************************************************************)
(* The rules.                                                              *)
(***************************************************************************)

Emission ==
    /\ Laid
    /\ ~WrapperNameTaken
    /\ split = [refused |-> FALSE, rules |-> SplitRules, exports |-> ExportedFiles]

\* What is emitted is the rules and exports of the element's layout.
LEMMA EmittedIs ==
  ASSUME SplitInv, Emitted
  PROVE  Emission
<1>1. split # NotSplit /\ ~split.refused
  BY DEF Emitted
<1>2. split # [refused |-> TRUE]
  <2>1. SUFFICES ASSUME split = [refused |-> TRUE] PROVE split.refused
    BY <1>1
  <2>2. QED
    BY <2>1, Zenon
<1>3. QED
  BY <1>1, <1>2 DEF SplitInv, Emission, Laid, Elem

RealLabels == {RealLabel(n) : n \in SplitTargets}
LibLabels == {HeaderLib(r) : r \in layout.roots}
RootedLabels == {RootHdrLib(d) : d \in layout.rootHdrs}
AggLabels == {RootHdrAgg : d \in layout.rootHdrs}
WrapLabels == {GeneratedIncludes(OwnerOf(o)) : o \in WantedHeaders}

\* The labels of rules.
LEMMA RuleLabels ==
  ASSUME Emission
  PROVE  DOMAIN split.rules = RealLabels \cup LibLabels \cup RootedLabels \cup AggLabels \cup WrapLabels
<1>1. split.rules = SplitRules
  BY DEF Emission
<1>2. QED
  BY <1>1 DEF SplitRules, RealLabels, LibLabels, RootedLabels, AggLabels, WrapLabels

\* Rules are told apart by their names.
LEMMA LabelsApart ==
  ASSUME Elem
  PROVE  /\ \A n \in SplitTargets : RealLabel(n)[1] = layout.landing[n] /\ RealLabel(n)[2][1] = n
         /\ \A n \in SplitTargets : RealLabel(n) \notin LibLabels \cup RootedLabels \cup AggLabels
         /\ \A r : HeaderLib(r) \notin RootedLabels \cup AggLabels \cup WrapLabels
         /\ \A d : RootHdrLib(d) \notin LibLabels \cup AggLabels \cup WrapLabels
         /\ RootHdrAgg \notin LibLabels \cup RootedLabels \cup WrapLabels
         /\ \A d : GeneratedIncludes(d) \notin LibLabels \cup RootedLabels \cup AggLabels
<1>1. \A n \in SplitTargets : RealLabel(n)[1] = layout.landing[n] /\ RealLabel(n)[2][1] = n
  BY DEF RealLabel
<1>2. \A n \in SplitTargets : n \notin {"headers", "root_hdrs", "element_root_headers"}
  BY TargetFacts
<1>3. /\ \A r : HeaderLib(r)[2][1] = "headers"
      /\ \A d : RootHdrLib(d)[2][1] = "root_hdrs"
      /\ RootHdrAgg[2][1] = "element_root_headers"
      /\ \A d : GeneratedIncludes(d)[2][1] = "generated_includes"
  BY DEF HeaderLib, RootHdrLib, RootHdrAgg, GeneratedIncludes
<1>4. /\ \A l \in LibLabels : l[2][1] = "headers"
      /\ \A l \in RootedLabels : l[2][1] = "root_hdrs"
      /\ \A l \in AggLabels : l[2][1] = "element_root_headers"
      /\ \A l \in WrapLabels : l[2][1] = "generated_includes"
  BY <1>3 DEF LibLabels, RootedLabels, AggLabels, WrapLabels
<1>5. QED
  BY <1>1, <1>2, <1>3, <1>4

\* The rules by label.
LEMMA RulesByLabel ==
  ASSUME Emission
  PROVE  /\ \A n \in SplitTargets :
              RealLabel(n) \in DOMAIN split.rules /\ split.rules[RealLabel(n)] = RewriteTarget(n)
         /\ \A r \in layout.roots :
              HeaderLib(r) \in DOMAIN split.rules /\ split.rules[HeaderLib(r)] = HeaderLibTarget(r)
         /\ \A d \in layout.rootHdrs :
              /\ RootHdrLib(d) \in DOMAIN split.rules /\ split.rules[RootHdrLib(d)] = RootHdrLibTarget(d)
              /\ RootHdrAgg \in DOMAIN split.rules /\ split.rules[RootHdrAgg] = RootHdrAggTarget
         /\ \A o \in WantedHeaders :
              /\ GeneratedIncludes(OwnerOf(o)) \in DOMAIN split.rules
              /\ GeneratedIncludes(OwnerOf(o)) \notin RealLabels =>
                   split.rules[GeneratedIncludes(OwnerOf(o))] = WrapperTarget(OwnerOf(o))
<1> DEFINE labels == RealLabels \cup LibLabels \cup RootedLabels \cup AggLabels \cup WrapLabels
           RuleOf(l) == IF l \in RealLabels THEN RewriteTarget(l[2][1])
                        ELSE IF l \in LibLabels THEN HeaderLibTarget(l[1])
                        ELSE IF l \in RootedLabels THEN RootHdrLibTarget(l[1])
                        ELSE IF l \in AggLabels THEN RootHdrAggTarget ELSE WrapperTarget(l[1])
<1>1. split.rules = [l \in labels |-> RuleOf(l)]
  <2>1. split.rules = SplitRules
    BY DEF Emission
  <2>2. SplitRules = [l \in labels |-> RuleOf(l)]
    BY DEF SplitRules, RealLabels, LibLabels, RootedLabels, AggLabels, WrapLabels
  <2>3. QED
    BY <2>1, <2>2
<1>2. \A l \in labels : l \in DOMAIN split.rules /\ split.rules[l] = RuleOf(l)
  BY <1>1
<1>3. Elem
  BY DEF Emission, Laid
<1>4. ASSUME NEW n \in SplitTargets
      PROVE  RealLabel(n) \in DOMAIN split.rules /\ split.rules[RealLabel(n)] = RewriteTarget(n)
  <2>1. RealLabel(n) \in RealLabels /\ RealLabel(n)[2][1] = n
    BY <1>3, LabelsApart DEF RealLabels
  <2>2. RuleOf(RealLabel(n)) = RewriteTarget(n)
    BY <2>1
  <2> HIDE DEF RuleOf
  <2>3. QED
    BY <1>2, <2>1, <2>2
<1>5. ASSUME NEW r \in layout.roots
      PROVE  HeaderLib(r) \in DOMAIN split.rules /\ split.rules[HeaderLib(r)] = HeaderLibTarget(r)
  <2>1. HeaderLib(r) \in LibLabels /\ HeaderLib(r)[1] = r
    BY DEF LibLabels, HeaderLib
  <2>2. HeaderLib(r) \notin RealLabels
    BY <1>3, <2>1, LabelsApart DEF RealLabels
  <2>3. RuleOf(HeaderLib(r)) = HeaderLibTarget(r)
    BY <2>1, <2>2
  <2> HIDE DEF RuleOf
  <2>4. QED
    BY <1>2, <2>1, <2>3
<1>6. ASSUME NEW d \in layout.rootHdrs
      PROVE  RootHdrLib(d) \in DOMAIN split.rules /\ split.rules[RootHdrLib(d)] = RootHdrLibTarget(d)
  <2>1. RootHdrLib(d) \in RootedLabels /\ RootHdrLib(d)[1] = d
    BY DEF RootedLabels, RootHdrLib
  <2>2. RootHdrLib(d) \notin RealLabels \cup LibLabels
    BY <1>3, <2>1, LabelsApart DEF RealLabels
  <2>3. RuleOf(RootHdrLib(d)) = RootHdrLibTarget(d)
    BY <2>1, <2>2
  <2> HIDE DEF RuleOf
  <2>4. QED
    BY <1>2, <2>1, <2>3
<1>7. ASSUME NEW d \in layout.rootHdrs
      PROVE  RootHdrAgg \in DOMAIN split.rules /\ split.rules[RootHdrAgg] = RootHdrAggTarget
  <2>1. RootHdrAgg \in AggLabels
    BY DEF AggLabels
  <2>2. RootHdrAgg \notin RealLabels \cup LibLabels \cup RootedLabels
    BY <1>3, <2>1, LabelsApart DEF RealLabels
  <2>3. RuleOf(RootHdrAgg) = RootHdrAggTarget
    BY <2>1, <2>2
  <2> HIDE DEF RuleOf
  <2>4. QED
    BY <1>2, <2>1, <2>3
<1>8. ASSUME NEW o \in WantedHeaders
      PROVE  /\ GeneratedIncludes(OwnerOf(o)) \in DOMAIN split.rules
             /\ GeneratedIncludes(OwnerOf(o)) \notin RealLabels =>
                  split.rules[GeneratedIncludes(OwnerOf(o))] = WrapperTarget(OwnerOf(o))
  <2> DEFINE l == GeneratedIncludes(OwnerOf(o))
  <2>1. l \in WrapLabels /\ l[1] = OwnerOf(o)
    BY DEF WrapLabels, GeneratedIncludes
  <2>2. l \notin LibLabels \cup RootedLabels \cup AggLabels
    BY <1>3, LabelsApart
  <2>3. l \notin RealLabels => RuleOf(l) = WrapperTarget(OwnerOf(o))
    BY <2>1, <2>2
  <2> HIDE DEF RuleOf, l
  <2>4. l \in DOMAIN split.rules /\ (l \notin RealLabels => split.rules[l] = WrapperTarget(OwnerOf(o)))
    BY <1>2, <2>1, <2>3
  <2>5. QED
    BY <2>4 DEF l
<1>9. QED
  BY <1>4, <1>5, <1>6, <1>7, <1>8

\* There are finitely many rules.
LEMMA FinitelyManyRules ==
  ASSUME Emission
  PROVE  IsFiniteSet(DOMAIN split.rules)
<1> DEFINE real == [n \in SplitTargets |-> RealLabel(n)]
           lib == [r \in layout.roots |-> HeaderLib(r)]
           owner == [h \in AllHeaders |-> RootHdrLib(OwnerOf(h))]
           wrap == [o \in WantedHeaders |-> GeneratedIncludes(OwnerOf(o))]
<1>1. Laid /\ Elem /\ layout = SplitPlan
  BY DEF Emission, Laid
<1>2. /\ IsFiniteSet(SplitTargets) /\ IsFiniteSet(layout.roots)
      /\ IsFiniteSet(AllHeaders) /\ IsFiniteSet(WantedHeaders)
  BY <1>1, FiniteElement, PackageFacts, LoweredAssumption DEF Elem, IsLowered, SplitTargets
<1>3. /\ DOMAIN real = SplitTargets /\ DOMAIN lib = layout.roots
      /\ DOMAIN owner = AllHeaders /\ DOMAIN wrap = WantedHeaders
  OBVIOUS
<1>4. /\ RealLabels = {real[n] : n \in DOMAIN real}
      /\ LibLabels = {lib[r] : r \in DOMAIN lib}
      /\ WrapLabels = {wrap[o] : o \in DOMAIN wrap}
  BY DEF RealLabels, LibLabels, WrapLabels
<1>5. RootedLabels \subseteq {owner[h] : h \in DOMAIN owner}
  <2>1. RootWalk \subseteq AllHeaders
    BY DEF RootWalk, AllHeaders
  <2>2. layout.rootHdrs \subseteq {OwnerOf(h) : h \in RootWalk}
    BY <1>1, LayoutFields
  <2>3. QED
    BY <2>1, <2>2 DEF RootedLabels
<1> HIDE DEF real, lib, owner, wrap
<1>6. /\ IsFiniteSet(RealLabels) /\ IsFiniteSet(LibLabels) /\ IsFiniteSet(WrapLabels)
      /\ IsFiniteSet({owner[h] : h \in DOMAIN owner})
  BY <1>2, <1>3, <1>4, FiniteImage
<1>7. IsFiniteSet(RootedLabels)
  BY <1>5, <1>6, FS_Subset
<1>8. IsFiniteSet(AggLabels)
  <2>1. AggLabels \subseteq {RootHdrAgg}
    BY DEF AggLabels
  <2>2. IsFiniteSet({RootHdrAgg})
    BY FS_Singleton
  <2>3. QED
    BY <2>1, <2>2, FS_Subset
<1>9. QED
  BY <1>6, <1>7, <1>8, FS_Union, RuleLabels

(***************************************************************************)
(* What may be included.                                                   *)
(***************************************************************************)

DepsOf == [k \in DOMAIN split.rules |-> split.rules[k].deps \cap DOMAIN split.rules]
Behind(l) == {l} \cup ReachedFrom((split.rules[l].deps \cup split.rules[l].privDeps) \cap DOMAIN split.rules, DepsOf)

\* What is behind a rule: itself, its deps, and theirs.
LEMMA BehindFacts ==
  ASSUME Emission, NEW l \in DOMAIN split.rules
  PROVE  /\ l \in Behind(l)
         /\ (split.rules[l].deps \cup split.rules[l].privDeps) \cap DOMAIN split.rules \subseteq Behind(l)
         /\ \A k \in Behind(l) : split.rules[k].deps \cap DOMAIN split.rules \subseteq Behind(l)
<1> DEFINE S == (split.rules[l].deps \cup split.rules[l].privDeps) \cap DOMAIN split.rules
<1>1. /\ DOMAIN DepsOf = DOMAIN split.rules
      /\ \A k \in DOMAIN split.rules : DepsOf[k] = split.rules[k].deps \cap DOMAIN split.rules
  BY DEF DepsOf
<1>2. IsGraph(DepsOf)
  BY <1>1, FinitelyManyRules DEF IsGraph
<1>3. S \subseteq DOMAIN DepsOf
  BY <1>1
<1> HIDE DEF S
<1>4. /\ S \subseteq ReachedFrom(S, DepsOf)
      /\ ReachedFrom(S, DepsOf) \subseteq DOMAIN DepsOf
      /\ Closed(ReachedFrom(S, DepsOf), DepsOf)
  BY <1>2, <1>3, ReachedCloses
<1>5. Behind(l) = {l} \cup ReachedFrom(S, DepsOf)
  BY DEF Behind, S
<1>6. split.rules[l].deps \cap DOMAIN split.rules \subseteq S
  BY DEF S
<1>7. \A k \in ReachedFrom(S, DepsOf) : split.rules[k].deps \cap DOMAIN split.rules \subseteq ReachedFrom(S, DepsOf)
  BY <1>1, <1>4 DEF Closed
<1>8. QED
  BY <1>4, <1>5, <1>6, <1>7 DEF S

\* A header of a rule that is behind may be included from where another's
\* include directory is, or by the prefix its own rule gives it.
LEMMA IncludableFacts ==
  ASSUME Emission, NEW l \in DOMAIN split.rules, NEW h \in Seq(Names),
         NEW j \in Behind(l), FileLabel(h) \in split.rules[j].hdrs
  PROVE  /\ \A k \in Behind(l) : split.rules[k].includes => <<RelTo(k[1], h), h>> \in IncludableBy(l)
         /\ split.rules[j].prefix # <<>> => <<split.rules[j].prefix \o RelTo(OwnerOf(h), h), h>> \in IncludableBy(l)
<1> DEFINE f == FileLabel(h)
           headers == UNION {{g[1] \o g[2] : g \in split.rules[k].hdrs} : k \in Behind(l)}
           searched == {k[1] : k \in {i \in Behind(l) : split.rules[i].includes}}
           prefixed == {k \in Behind(l) : split.rules[k].prefix # <<>>}
           Spelt(k) == {<<split.rules[k].prefix \o g[2], g[1] \o g[2]>> : g \in split.rules[k].hdrs}
<1>1. f[1] = OwnerOf(h) /\ f[2] = RelTo(OwnerOf(h), h) /\ f[1] \o f[2] = h
  BY OwnerFacts DEF FileLabel, Emission
<1>2. IncludableBy(l) = {<<RelTo(d, g), g>> : d \in searched, g \in headers} \cup (UNION {Spelt(k) : k \in prefixed})
  BY DEF IncludableBy, Behind, DepsOf
<1>3. h \in headers
  <2>1. f[1] \o f[2] \in {g[1] \o g[2] : g \in split.rules[j].hdrs}
    OBVIOUS
  <2>2. QED
    BY <1>1, <2>1
<1> HIDE DEF headers
<1>4. ASSUME NEW k \in Behind(l), split.rules[k].includes
      PROVE  <<RelTo(k[1], h), h>> \in IncludableBy(l)
  <2>1. k[1] \in searched
    BY <1>4
  <2> HIDE DEF searched, Spelt, prefixed
  <2>2. <<RelTo(k[1], h), h>> \in {<<RelTo(d, g), g>> : d \in searched, g \in headers}
    BY <1>3, <2>1
  <2>3. QED
    BY <1>2, <2>2
<1>5. ASSUME split.rules[j].prefix # <<>>
      PROVE  <<split.rules[j].prefix \o RelTo(OwnerOf(h), h), h>> \in IncludableBy(l)
  <2>1. j \in prefixed
    BY <1>5
  <2>2. <<split.rules[j].prefix \o f[2], f[1] \o f[2]>> \in Spelt(j)
    <3> HIDE DEF f
    <3> QED
      BY DEF f
  <2> HIDE DEF prefixed, Spelt, searched, f
  <2>3. <<split.rules[j].prefix \o f[2], f[1] \o f[2]>> \in UNION {Spelt(k) : k \in prefixed}
    BY <2>1, <2>2
  <2>4. UNION {Spelt(k) : k \in prefixed} \subseteq IncludableBy(l)
    BY <1>2
  <2>5. <<split.rules[j].prefix \o RelTo(OwnerOf(h), h), h>> = <<split.rules[j].prefix \o f[2], f[1] \o f[2]>>
    BY <1>1
  <2>6. QED
    BY <2>3, <2>4, <2>5
<1>6. QED
  BY <1>4, <1>5

\* What an include root's library and those of the directories in it have: each
\* header below it that is not compiled, by the spelling from there.
LEMMA LibraryHasHeaders ==
  ASSUME Emission, NEW l \in DOMAIN split.rules,
         NEW r \in layout.roots, HeaderLib(r) \in Behind(l),
         NEW h \in AllHeaders, Under(r, h), ~Compiled(h)
  PROVE  <<RelTo(r, h), h>> \in IncludableBy(l)
<1> DEFINE roots == layout.roots \cup {<<>>}
           q == OwnerAmong(roots, h)
<1>1. Laid /\ Elem
  BY DEF Emission, Laid
<1>2. roots \subseteq Seq(Names) /\ <<>> \in roots /\ r \in Seq(Names)
  BY <1>1, PackageFacts
<1>3. h \in Seq(Names)
  BY <1>1, TargetFacts DEF AllHeaders, FilesOf
<1>4. q \in roots /\ Under(q, h) /\ Len(r) <= Len(q)
  <2> HIDE DEF roots
  <2>1. r \in roots
    BY DEF roots
  <2>2. QED
    BY <1>2, <1>3, <2>1, OwnerIsDeepest
<1>5. h \in HeadersIn(layout.roots, q)
  BY DEF HeadersIn
<1> HIDE DEF q
<1>6. Under(r, q) /\ (Len(r) = Len(q) => r = q)
  BY <1>2, <1>3, <1>4, UnderBoth
<1>7. q \in layout.roots
  <2>1. CASE q = <<>>
    <3>1. Len(q) = 0 /\ Len(r) \in Nat
      BY <1>2, <2>1, LenProperties, EmptySeq
    <3>2. Len(r) = Len(q)
      BY <1>4, <3>1
    <3>3. QED
      BY <1>6, <3>2
  <2>2. CASE q # <<>>
    BY <1>4, <2>2
  <2>3. QED
    BY <2>1, <2>2
<1>8. /\ HeaderLib(q) \in DOMAIN split.rules
      /\ split.rules[HeaderLib(q)] = HeaderLibTarget(q)
      /\ split.rules[HeaderLib(r)] = HeaderLibTarget(r)
  BY <1>7, RulesByLabel
<1>9. HeaderLib(q) \in Behind(l)
  <2>1. CASE q = r
    BY <2>1
  <2>2. CASE q # r
    <3>1. HeaderLib(q) \in HeaderLibTarget(r).deps
      BY <1>6, <1>7, <2>2 DEF HeaderLibTarget, PublicRule
    <3>2. QED
      BY <1>8, <3>1, BehindFacts
  <2>3. QED
    BY <2>1, <2>2
<1>10. FileLabel(h) \in split.rules[HeaderLib(q)].hdrs
  <2>1. FileLabel(h) \in HeaderLibTarget(q).hdrs
    BY <1>5 DEF HeaderLibTarget, PublicRule
  <2>2. QED
    BY <1>8, <2>1
<1>11. split.rules[HeaderLib(r)].includes
  <2>1. HeaderLibTarget(r).includes = TRUE
    BY DEF HeaderLibTarget, PublicRule
  <2>2. QED
    BY <1>8, <2>1
<1>12. HeaderLib(r)[1] = r
  BY DEF HeaderLib
<1>13. QED
  BY <1>3, <1>9, <1>10, <1>11, <1>12, IncludableFacts

\* The graph of the deps that an element was lowered with.
LoweredDeps == [k \in SplitTargets |-> lowered[k].deps]

\* It is a finite graph of targets.
LEMMA LoweredDepsFacts ==
  ASSUME Elem
  PROVE  IsGraph(LoweredDeps) /\ DOMAIN LoweredDeps = SplitTargets
<1>1. IsFiniteSet(SplitTargets)
  BY LoweredAssumption DEF Elem, IsLowered, SplitTargets
<1>2. \A n \in SplitTargets : lowered[n].deps \subseteq SplitTargets
  BY TargetFacts
<1>3. QED
  BY <1>1, <1>2 DEF IsGraph, LoweredDeps

\* The rules of a target's deps, and of theirs, are behind its rule, those of
\* generators excepted.
LEMMA DepsAreBehind ==
  ASSUME Emission, NEW n \in SplitTargets \ Generators,
         NEW m \in ReachedFrom(lowered[n].deps, LoweredDeps)
  PROVE  m \in SplitTargets /\ (m \notin Generators => RealLabel(m) \in Behind(RealLabel(n)))
<1> DEFINE l == RealLabel(n)
           C == {d \in SplitTargets : d \notin Generators => RealLabel(d) \in Behind(l)}
<1>1. Laid /\ Elem
  BY DEF Emission, Laid
<1>2. l \in DOMAIN split.rules
  BY RulesByLabel
<1>3. \A d \in SplitTargets \ Generators : TargetLabel(d) = RealLabel(d)
  BY <1>1, LandingFacts DEF TargetLabel, RealLabel
<1>4. ASSUME NEW k \in SplitTargets \ Generators, RealLabel(k) \in Behind(l)
      PROVE  lowered[k].deps \subseteq C
  <2> SUFFICES ASSUME NEW d \in lowered[k].deps, d \notin Generators
               PROVE  d \in SplitTargets /\ RealLabel(d) \in Behind(l)
    <3>1. lowered[k].deps \subseteq SplitTargets
      BY <1>1, TargetFacts
    <3>2. QED
      BY <3>1
  <2>1. d \in SplitTargets
    BY <1>1, TargetFacts
  <2>2. RealLabel(d) \in RewriteTarget(k).deps
    BY <1>3, <2>1 DEF RewriteTarget
  <2>3. RealLabel(d) \in split.rules[RealLabel(k)].deps \cap DOMAIN split.rules
    BY <2>1, <2>2, RulesByLabel
  <2>4. QED
    BY <1>2, <1>4, <2>1, <2>3, BehindFacts
<1>5. l \in Behind(l)
  BY <1>2, BehindFacts
<1>6. lowered[n].deps \subseteq C
  BY <1>4, <1>5
<1>7. \A k \in C : LoweredDeps[k] \subseteq C
  <2> SUFFICES ASSUME NEW k \in C PROVE lowered[k].deps \subseteq C
    BY DEF LoweredDeps
  <2>1. CASE k \in Generators
    BY <1>1, <2>1, GeneratorFacts
  <2>2. CASE k \notin Generators
    BY <1>4, <2>2
  <2>3. QED
    BY <2>1, <2>2
<1>8. lowered[n].deps \subseteq DOMAIN LoweredDeps
  BY <1>6 DEF LoweredDeps
<1> HIDE DEF C, l
<1>9. ReachedFrom(lowered[n].deps, LoweredDeps) \subseteq C
  BY <1>1, <1>6, <1>7, <1>8, LoweredDepsFacts, ReachedStays
<1>10. QED
  BY <1>9 DEF C, l

\* What an include directory of a target, or a public one of what it depends
\* on, grants is still granted, but for a tool's own directory.
LEMMA GrantsKept ==
  ASSUME Emission, NEW l \in DOMAIN split.rules, NEW m \in SplitTargets, RealLabel(m) \in Behind(l),
         NEW roots, roots \subseteq RootsOf(m), roots \subseteq lowered[m].incs \/ l = RealLabel(m)
  PROVE  Grants(m, roots) \ Forgone(m) \subseteq IncludableBy(l)
<1>1. Laid /\ Elem
  BY DEF Emission, Laid
<1>2. SUFFICES ASSUME NEW x \in Grants(m, roots), x \notin Forgone(m)
               PROVE  x \in IncludableBy(l)
  OBVIOUS
<1>3. PICK r \in roots : x \in {<<RelTo(r, h), h>> : h \in {g \in lowered[m].hdrs : Under(r, g) /\ ~Compiled(g)}}
  BY <1>2 DEF Grants
<1>4. PICK h \in lowered[m].hdrs : x = <<RelTo(r, h), h>> /\ Under(r, h) /\ ~Compiled(h)
  BY <1>3
<1>5. r \notin layout.toolRoots[m]
  <2>1. SUFFICES ASSUME r \in ToolRoots(m) PROVE FALSE
    BY <1>1, LayoutFields DEF Laid
  <2>2. PICK g \in Generators : m \in ToolClosure(g) /\ \E o \in Outs(g) : Len(o) > 1 /\ r = <<o[1]>>
    BY <2>1 DEF ToolRoots
  <2>3. r \in {q \in RootsOf(m) : Len(q) = 1 /\ \E f \in Generators :
                 m \in ToolClosure(f) /\ \E p \in Outs(f) : p[1] = q[1] /\ Len(p) > 1}
    BY <2>2
  <2>4. x \in Grants(m, {r})
    BY <1>3 DEF Grants
  <2>5. x \in Forgone(m)
    BY <2>3, <2>4 DEF Forgone
  <2>6. QED
    BY <1>2, <2>5
<1>6. r \in GrantedRoots(m)
  BY <1>5 DEF GrantedRoots
<1>7. \/ HeaderLib(r) \in split.rules[RealLabel(m)].deps
      \/ l = RealLabel(m) /\ HeaderLib(r) \in split.rules[l].privDeps
  <2>1. r \in lowered[m].incs => HeaderLib(r) \in HeaderDeps(m)
    BY <1>6 DEF HeaderDeps
  <2>2. HeaderLib(r) \in HeaderDeps(m) \cup PrivHeaderDeps(m)
    BY <1>6 DEF PrivHeaderDeps
  <2>3. RewriteTarget(m).privDeps = PrivHeaderDeps(m) /\ HeaderDeps(m) \subseteq RewriteTarget(m).deps
    BY DEF RewriteTarget
  <2>4. split.rules[RealLabel(m)] = RewriteTarget(m)
    BY RulesByLabel
  <2>5. QED
    BY <2>1, <2>2, <2>3, <2>4
<1>8. r \in layout.roots
  BY <1>1, PackageFacts
<1>9. HeaderLib(r) \in DOMAIN split.rules
  BY <1>8, RulesByLabel
<1>10. HeaderLib(r) \in Behind(l)
  BY <1>7, <1>9, BehindFacts
<1>11. h \in AllHeaders
  BY DEF AllHeaders
<1>12. QED
  BY <1>4, <1>8, <1>10, <1>11, LibraryHasHeaders

\* What a target grants from the element's root is still granted: through the
\* libraries of the element's packages, or under its own package's name.
LEMMA RootGrantsKept ==
  ASSUME Emission, NEW l \in DOMAIN split.rules, NEW m \in SplitTargets, RealLabel(m) \in Behind(l),
         lowered[m].rootInclude, NEW h \in lowered[m].hdrs, SurvivesAtRoot(m, h)
  PROVE  <<h, h>> \in IncludableBy(l)
<1>1. Laid /\ Elem
  BY DEF Emission, Laid
<1>2. h \in Seq(Names)
  BY <1>1, TargetFacts DEF FilesOf
<1>3. m \notin Generators
  BY <1>1, GeneratorFacts
<1>4. split.rules[RealLabel(m)] = RewriteTarget(m) /\ RealLabel(m) \in DOMAIN split.rules
  BY RulesByLabel
<1>5. OwnerOf(h) \o RelTo(OwnerOf(h), h) = h
  BY <1>1, <1>2, OwnerFacts
<1>6. CASE layout.rootHdrs # {}
  <2> DEFINE d == OwnerOf(h)
  <2>1. FastPath(m) /\ h \notin GeneratedFiles /\ h \in RootWalk
    BY <1>6 DEF FastPath, SurvivesAtRoot, RootWalk
  <2>2. d \in layout.rootHdrs
    BY <1>1, <1>6, <2>1, LayoutFields DEF Laid
  <2>3. /\ RootHdrLib(d) \in DOMAIN split.rules /\ split.rules[RootHdrLib(d)] = RootHdrLibTarget(d)
        /\ RootHdrAgg \in DOMAIN split.rules /\ split.rules[RootHdrAgg] = RootHdrAggTarget
    BY <2>2, RulesByLabel
  <2>4. RootHdrAgg \in RewriteTarget(m).deps
    BY <2>1 DEF RewriteTarget
  <2>5. RootHdrAgg \in Behind(l)
    BY <1>4, <2>3, <2>4, BehindFacts
  <2>6. RootHdrLib(d) \in RootHdrAggTarget.deps
    BY <2>2 DEF RootHdrAggTarget, PublicRule
  <2>7. RootHdrLib(d) \in Behind(l)
    BY <2>3, <2>5, <2>6, BehindFacts
  <2>8. /\ FileLabel(h) \in RootHdrLibTarget(d).hdrs
        /\ RootHdrLibTarget(d).prefix = d
    BY <2>1 DEF RootHdrLibTarget, PublicRule
  <2>9. CASE d = <<>>
    <3>1. RootHdrLibTarget(d).includes = TRUE
      BY <2>9 DEF RootHdrLibTarget, PublicRule
    <3>2. split.rules[RootHdrLib(d)].includes
      BY <2>3, <3>1
    <3>3. RootHdrLib(d)[1] = <<>>
      BY <2>9 DEF RootHdrLib
    <3>4. <<RelTo(<<>>, h), h>> \in IncludableBy(l)
      BY <1>2, <2>3, <2>7, <2>8, <3>2, <3>3, IncludableFacts
    <3>5. QED
      BY <1>2, <3>4, UnderRoot
  <2>10. CASE d # <<>>
    <3>1. <<d \o RelTo(OwnerOf(h), h), h>> \in IncludableBy(l)
      BY <1>2, <2>3, <2>7, <2>8, <2>10, IncludableFacts
    <3>2. QED
      BY <1>5, <3>1
  <2>11. QED
    BY <2>9, <2>10
<1>7. CASE layout.rootHdrs = {}
  <2>1. /\ lowered[m].dir # <<>>
        /\ \A g \in lowered[m].hdrs : OwnerOf(g) = lowered[m].dir /\ \A r \in RootsOf(m) : ~Under(r, g)
    BY <1>7 DEF SurvivesAtRoot
  <2>2. layout.landing[m] = lowered[m].dir
    BY <1>1, <1>3, LandingFacts
  <2>3. ~FastPath(m)
    BY <1>7 DEF FastPath
  <2>4. KeptHdrs(m) = lowered[m].hdrs
    BY <2>1, <2>3 DEF KeptHdrs, GrantedRoots
  <2>5. PrefixOf(m) = OwnerOf(h) /\ OwnerOf(h) # <<>>
    BY <2>1, <2>2, <2>3, <2>4 DEF PrefixOf
  <2>6. FileLabel(h) \in RewriteTarget(m).hdrs /\ RewriteTarget(m).prefix = PrefixOf(m)
    BY <2>4 DEF RewriteTarget
  <2>7. <<OwnerOf(h) \o RelTo(OwnerOf(h), h), h>> \in IncludableBy(l)
    BY <1>2, <1>4, <2>5, <2>6, IncludableFacts
  <2>8. QED
    BY <1>5, <2>7
<1>8. QED
  BY <1>6, <1>7

\* Each #include that a target's or its dependencies' directories made work
\* still finds its header after the split, by the same spelling, but for those
\* that the split is known to take away (Forgone, SurvivesAtRoot).
THEOREM IncludesKept == SplitSpec => []IncludesSurvive
<1>1. SplitInv => IncludesSurvive
  <2> SUFFICES ASSUME Emission, NEW n \in SplitTargets \ Generators
               PROVE  GrantsOf(n, RootsOf(n))
                      \cup UNION {GrantsOf(m, lowered[m].incs) : m \in ReachedFrom(lowered[n].deps, LoweredDeps)}
                      \subseteq IncludableBy(RealLabel(n))
    BY EmittedIs DEF IncludesSurvive, LoweredDeps
  <2> DEFINE l == RealLabel(n)
  <2>1. Laid /\ Elem /\ l \in DOMAIN split.rules
    BY RulesByLabel DEF Emission, Laid
  <2>2. ASSUME NEW m \in SplitTargets, RealLabel(m) \in Behind(l),
               NEW roots, roots \subseteq RootsOf(m), roots \subseteq lowered[m].incs \/ l = RealLabel(m)
        PROVE  GrantsOf(m, roots) \subseteq IncludableBy(l)
    <3> HIDE DEF l
    <3>1. Grants(m, roots) \ Forgone(m) \subseteq IncludableBy(l)
      BY <2>1, <2>2, GrantsKept
    <3>2. lowered[m].rootInclude => \A h \in lowered[m].hdrs : SurvivesAtRoot(m, h) => <<h, h>> \in IncludableBy(l)
      BY <2>1, <2>2, RootGrantsKept
    <3>3. QED
      BY <3>1, <3>2 DEF GrantsOf
  <2>3. GrantsOf(n, RootsOf(n)) \subseteq IncludableBy(l)
    BY <2>1, <2>2, BehindFacts
  <2>4. ASSUME NEW m \in ReachedFrom(lowered[n].deps, LoweredDeps)
        PROVE  GrantsOf(m, lowered[m].incs) \subseteq IncludableBy(l)
    <3>1. m \in SplitTargets /\ (m \notin Generators => RealLabel(m) \in Behind(l))
      BY DepsAreBehind
    <3>2. CASE m \notin Generators
      BY <2>2, <3>1, <3>2 DEF RootsOf
    <3>3. CASE m \in Generators
      <4>1. lowered[m].incs = {} /\ ~lowered[m].rootInclude
        BY <2>1, <3>3, GeneratorFacts DEF RootsOf
      <4>2. QED
        BY <4>1 DEF GrantsOf, Grants
    <3>4. QED
      BY <3>2, <3>3
  <2>5. QED
    BY <2>3, <2>4
<1>2. QED
  BY <1>1, SplitsKnown, PTL

(***************************************************************************)
(* What labels lead to.                                                    *)
(***************************************************************************)

\* An emitted element of which a generator writes into one package, a target
\* that others name stays where it was declared, and names do not collide.
Settled == Emission /\ OneHomeEach /\ NamesStay /\ NamesApart

\* Files of an element.
LEMMA FileFacts ==
  ASSUME Elem
  PROVE  /\ SplitFiles \cup GeneratedFiles \subseteq Seq(Names) \ {<<>>}
         /\ WantedHeaders \subseteq GeneratedFiles
         /\ AllHeaders \subseteq SplitFiles
         /\ RootWalk \subseteq AllHeaders
<1>1. \A n \in SplitTargets : FilesOf(n) \subseteq Seq(Names) \ {<<>>} /\ lowered[n].wants \subseteq GeneratedFiles
  BY TargetFacts
<1>2. \A n \in SplitTargets :
        /\ Outs(n) \subseteq Seq(Names) \ {<<>>}
        /\ lowered[n].srcs \cup lowered[n].arms \cup lowered[n].hdrs \subseteq Seq(Names) \ {<<>>}
  BY <1>1 DEF FilesOf
<1>3. SplitFiles \subseteq Seq(Names) \ {<<>>}
  BY <1>2 DEF SplitFiles
<1>4. GeneratedFiles \subseteq Seq(Names) \ {<<>>}
  BY <1>2 DEF GeneratedFiles, Generators
<1>5. WantedHeaders \subseteq GeneratedFiles
  BY <1>1 DEF WantedHeaders
<1>6. AllHeaders \subseteq SplitFiles /\ RootWalk \subseteq AllHeaders
  BY DEF AllHeaders, SplitFiles, RootWalk
<1>7. QED
  BY <1>3, <1>4, <1>5, <1>6

\* A file's label is its package and the rest of its path, and no other file's.
LEMMA FileLabels ==
  ASSUME Laid, NEW p \in Seq(Names)
  PROVE  /\ FileLabel(p)[1] = OwnerOf(p)
         /\ FileLabel(p)[2] = RelTo(OwnerOf(p), p)
         /\ FileLabel(p)[1] \o FileLabel(p)[2] = p
         /\ \A q \in Seq(Names) : FileLabel(q) = FileLabel(p) => q = p
<1>1. /\ FileLabel(p)[1] = OwnerOf(p)
      /\ FileLabel(p)[2] = RelTo(OwnerOf(p), p)
      /\ FileLabel(p)[1] \o FileLabel(p)[2] = p
  BY OwnerFacts DEF FileLabel
<1>2. \A q \in Seq(Names) : FileLabel(q)[1] \o FileLabel(q)[2] = q
  BY OwnerFacts DEF FileLabel
<1>3. QED
  BY <1>1, <1>2

\* A generator is where all of its outputs are.
LEMMA GeneratorsHome ==
  ASSUME Laid, OneHomeEach, NEW g \in Generators, NEW o \in Outs(g)
  PROVE  OwnerOf(o) = layout.landing[g]
<1>1. g \in SplitTargets /\ lowered[g].outs[1] \in Outs(g)
  BY GeneratorFacts DEF Laid
<1>2. layout.landing[g] = OwnerOf(lowered[g].outs[1])
  BY <1>1, LandingFacts
<1>3. QED
  BY <1>1, <1>2 DEF OneHomeEach

\* A rule of the split is a target's, a header library, a part of the root's
\* headers, all of those, or a wrapper of generated headers.
LEMMA EveryRule ==
  ASSUME Settled, NEW k \in DOMAIN split.rules
  PROVE  \/ \E n \in SplitTargets : k = RealLabel(n) /\ split.rules[k] = RewriteTarget(n)
         \/ \E r \in layout.roots : k = HeaderLib(r) /\ split.rules[k] = HeaderLibTarget(r)
         \/ \E d \in layout.rootHdrs : k = RootHdrLib(d) /\ split.rules[k] = RootHdrLibTarget(d)
         \/ layout.rootHdrs # {} /\ k = RootHdrAgg /\ split.rules[k] = RootHdrAggTarget
         \/ \E o \in WantedHeaders :
              k = GeneratedIncludes(OwnerOf(o)) /\ split.rules[k] = WrapperTarget(OwnerOf(o))
<1>1. Emission
  BY DEF Settled
<1>2. k \in RealLabels \cup LibLabels \cup RootedLabels \cup AggLabels \cup WrapLabels
  BY <1>1, RuleLabels
<1>3. CASE k \in RealLabels
  <2>1. PICK n \in SplitTargets : k = RealLabel(n)
    BY <1>3 DEF RealLabels
  <2>2. split.rules[k] = RewriteTarget(n)
    BY <1>1, <2>1, RulesByLabel
  <2>3. QED
    BY <2>1, <2>2
<1>4. CASE k \in LibLabels
  <2>1. PICK r \in layout.roots : k = HeaderLib(r)
    BY <1>4 DEF LibLabels
  <2>2. split.rules[k] = HeaderLibTarget(r)
    BY <1>1, <2>1, RulesByLabel
  <2>3. QED
    BY <2>1, <2>2
<1>5. CASE k \in RootedLabels
  <2>1. PICK d \in layout.rootHdrs : k = RootHdrLib(d)
    BY <1>5 DEF RootedLabels
  <2>2. split.rules[k] = RootHdrLibTarget(d)
    BY <1>1, <2>1, RulesByLabel
  <2>3. QED
    BY <2>1, <2>2
<1>6. CASE k \in AggLabels
  <2>1. PICK d \in layout.rootHdrs : k = RootHdrAgg
    BY <1>6 DEF AggLabels
  <2>2. split.rules[k] = RootHdrAggTarget
    BY <1>1, <2>1, RulesByLabel
  <2>3. QED
    BY <2>1, <2>2
<1>7. CASE k \in WrapLabels
  <2>1. PICK o \in WantedHeaders : k = GeneratedIncludes(OwnerOf(o))
    BY <1>7 DEF WrapLabels
  <2>2. k \notin RealLabels
    BY <2>1 DEF RealLabels, Settled, NamesApart
  <2>3. split.rules[k] = WrapperTarget(OwnerOf(o))
    BY <1>1, <2>1, <2>2, RulesByLabel
  <2>4. QED
    BY <2>1, <2>3
<1>8. QED
  BY <1>2, <1>3, <1>4, <1>5, <1>6, <1>7

\* What rules that are no target's have in common.
LEMMA LibraryFields ==
  /\ \A r : HeaderLibTarget(r).outs = {} /\ HeaderLibTarget(r).public = TRUE
  /\ \A d : RootHdrLibTarget(d).outs = {} /\ RootHdrLibTarget(d).public = TRUE
  /\ RootHdrAggTarget.outs = {} /\ RootHdrAggTarget.public = TRUE
  /\ \A d : WrapperTarget(d).outs = {} /\ WrapperTarget(d).public = TRUE
BY DEF HeaderLibTarget, RootHdrLibTarget, RootHdrAggTarget, WrapperTarget, PublicRule

\* An output of a rule is a generator's, and its label the file's.
LEMMA EveryOutput ==
  ASSUME Settled, NEW k \in DOMAIN split.rules, NEW o \in split.rules[k].outs
  PROVE  \E g \in Generators : k = RealLabel(g) /\ \E p \in Outs(g) : FileLabel(p) = <<k[1], o>>
<1>1. Laid /\ Elem /\ OneHomeEach
  BY DEF Settled, Emission, Laid
<1>2. PICK n \in SplitTargets : k = RealLabel(n) /\ split.rules[k] = RewriteTarget(n)
  BY EveryRule, LibraryFields
<1>3. k[1] = layout.landing[n]
  BY <1>1, <1>2, LabelsApart
<1>4. RewriteTarget(n).outs =
        {IF Under(layout.landing[n], p) THEN RelTo(layout.landing[n], p) ELSE p : p \in Outs(n)}
  BY DEF RewriteTarget
<1>5. PICK p \in Outs(n) : o = IF Under(layout.landing[n], p) THEN RelTo(layout.landing[n], p) ELSE p
  BY <1>2, <1>4
<1>6. n \in Generators
  <2>1. lowered[n].outs # <<>>
    BY <1>5 DEF Outs
  <2>2. QED
    BY <2>1 DEF Generators
<1>7. OwnerOf(p) = layout.landing[n]
  BY <1>1, <1>6, GeneratorsHome
<1>8. p \in Seq(Names)
  BY <1>1, TargetFacts DEF FilesOf
<1>9. o = RelTo(OwnerOf(p), p)
  BY <1>1, <1>5, <1>7, <1>8, OwnerFacts
<1>10. FileLabel(p) = <<k[1], o>>
  BY <1>3, <1>7, <1>9 DEF FileLabel
<1>11. QED
  BY <1>2, <1>6, <1>10

\* Behind a file's label is the rule of its producer, if it is generated.
LEMMA BehindFile ==
  ASSUME Settled, NEW p \in SplitFiles \cup GeneratedFiles
  PROVE  RulesBehind(FileLabel(p)) = IF p \in GeneratedFiles THEN {RealLabel(ProducerOf(p))} ELSE {}
<1> DEFINE l == FileLabel(p)
<1>1. Laid /\ Elem /\ OneHomeEach /\ Emission
  BY DEF Settled, Emission, Laid
<1>2. p \in Seq(Names)
  BY <1>1, FileFacts
<1>3. l \notin DOMAIN split.rules
  BY DEF Settled, NamesApart
<1>4. l = <<l[1], l[2]>>
  BY DEF FileLabel
<1>5. ASSUME NEW k \in RulesBehind(l)
      PROVE  p \in GeneratedFiles /\ k = RealLabel(ProducerOf(p))
  <2>1. k \in DOMAIN split.rules /\ k[1] = l[1] /\ l[2] \in split.rules[k].outs
    BY <1>3, <1>5 DEF RulesBehind
  <2>2. PICK g \in Generators : k = RealLabel(g) /\ \E q \in Outs(g) : FileLabel(q) = <<k[1], l[2]>>
    BY <2>1, EveryOutput
  <2>3. PICK q \in Outs(g) : FileLabel(q) = <<k[1], l[2]>>
    BY <2>2
  <2>4. q \in GeneratedFiles /\ ProducerOf(q) = g
    BY <1>1, ProducerFacts
  <2>5. q = p
    <3>1. FileLabel(q) = FileLabel(p)
      BY <1>4, <2>1, <2>3
    <3>2. q \in Seq(Names)
      BY <1>1, <2>4, FileFacts
    <3>3. QED
      BY <1>1, <1>2, <3>1, <3>2, FileLabels
  <2>6. QED
    BY <2>2, <2>4, <2>5
<1>6. ASSUME p \in GeneratedFiles
      PROVE  RealLabel(ProducerOf(p)) \in RulesBehind(l)
  <2> DEFINE g == ProducerOf(p)
  <2>1. g \in Generators /\ p \in Outs(g) /\ g \in SplitTargets
    BY <1>1, <1>6, ProducerFacts, GeneratorFacts
  <2> HIDE DEF g
  <2>2. OwnerOf(p) = layout.landing[g] /\ RealLabel(g)[1] = layout.landing[g]
    BY <1>1, <2>1, GeneratorsHome, LabelsApart
  <2>3. RealLabel(g) \in DOMAIN split.rules /\ split.rules[RealLabel(g)] = RewriteTarget(g)
    BY <1>1, <2>1, RulesByLabel
  <2>4. RewriteTarget(g).outs =
          {IF Under(layout.landing[g], o) THEN RelTo(layout.landing[g], o) ELSE o : o \in Outs(g)}
    BY DEF RewriteTarget
  <2>5. Under(layout.landing[g], p)
    BY <1>1, <1>2, <2>2, OwnerFacts
  <2>6. RelTo(layout.landing[g], p) \in RewriteTarget(g).outs
    BY <2>1, <2>4, <2>5
  <2>7. l[1] = layout.landing[g] /\ l[2] = RelTo(layout.landing[g], p)
    BY <2>2 DEF FileLabel
  <2> HIDE DEF l
  <2>8. RealLabel(g) \in RulesBehind(l)
    BY <2>2, <2>3, <2>6, <2>7 DEF RulesBehind
  <2>9. QED
    BY <2>8 DEF g
<1> HIDE DEF l
<1>7. QED
  BY <1>5, <1>6 DEF l

\* Behind a rule's label is the rule.
LEMMA BehindRule ==
  ASSUME Settled, NEW l \in DOMAIN split.rules
  PROVE  RulesBehind(l) = {l}
<1>1. l = <<l[1], l[2]>>
  BY EveryRule DEF RealLabel, HeaderLib, RootHdrLib, RootHdrAgg, GeneratedIncludes
<1>2. ASSUME NEW k \in RulesBehind(l), k # l
      PROVE  FALSE
  <2>1. k \in DOMAIN split.rules /\ k[1] = l[1] /\ l[2] \in split.rules[k].outs
    BY <1>2 DEF RulesBehind
  <2>2. PICK g \in Generators : \E q \in Outs(g) : FileLabel(q) = <<k[1], l[2]>>
    BY <2>1, EveryOutput
  <2>3. PICK q \in Outs(g) : FileLabel(q) = <<k[1], l[2]>>
    BY <2>2
  <2>4. q \in GeneratedFiles
    BY DEF GeneratedFiles
  <2>5. FileLabel(q) = l
    BY <1>1, <2>1, <2>3
  <2>6. QED
    BY <2>4, <2>5 DEF Settled, NamesApart
<1>3. QED
  BY <1>2 DEF RulesBehind

(***************************************************************************)
(* What rules refer to.                                                    *)
(***************************************************************************)

FilesIn(r) == {g \in HeadersIn(layout.roots, r) : ~(g \in GeneratedFiles /\ Compiled(g) /\ OwnerOf(g) # r)}

\* A target's rule refers to its files, to the rules of what it was lowered
\* with, and to libraries of headers.
LEMMA TargetRefers ==
  ASSUME Settled, NEW n \in SplitTargets, NEW l \in References(RewriteTarget(n))
  PROVE  \/ \E p \in lowered[n].srcs \cup lowered[n].arms \cup KeptHdrs(n) : l = FileLabel(p)
         \/ \E d \in lowered[n].deps \cup lowered[n].tools \cup lowered[n].order : l = RealLabel(d)
         \/ \E r \in GrantedRoots(n) : l = HeaderLib(r)
         \/ \E w \in lowered[n].wants : l = GeneratedIncludes(OwnerOf(w))
         \/ FastPath(n) /\ l = RootHdrAgg
<1>1. l \in RewriteTarget(n).srcs \cup RewriteTarget(n).hdrs \cup RewriteTarget(n).deps
            \cup RewriteTarget(n).privDeps \cup RewriteTarget(n).runs
  BY DEF References
<1>2. /\ RewriteTarget(n).srcs = {FileLabel(p) : p \in lowered[n].srcs \cup lowered[n].arms}
      /\ RewriteTarget(n).hdrs = {FileLabel(h) : h \in KeptHdrs(n)}
      /\ RewriteTarget(n).deps =
           {TargetLabel(d) : d \in lowered[n].deps} \cup HeaderDeps(n)
           \cup {GeneratedIncludes(OwnerOf(o)) : o \in lowered[n].wants}
           \cup IF FastPath(n) THEN {RootHdrAgg} ELSE {}
      /\ RewriteTarget(n).privDeps = PrivHeaderDeps(n)
      /\ RewriteTarget(n).runs = {TargetLabel(d) : d \in lowered[n].tools \cup lowered[n].order}
  BY DEF RewriteTarget
<1>3. HeaderDeps(n) \cup PrivHeaderDeps(n) \subseteq {HeaderLib(r) : r \in GrantedRoots(n)}
  BY DEF HeaderDeps, PrivHeaderDeps
<1>4. \A d \in lowered[n].deps \cup lowered[n].tools \cup lowered[n].order : TargetLabel(d) = RealLabel(d)
  BY DEF Settled, NamesStay, TargetLabel, RealLabel
<1>5. QED
  BY <1>1, <1>2, <1>3, <1>4

\* A header library refers to its headers and to those of directories in it.
LEMMA LibraryRefers ==
  ASSUME NEW r, NEW l \in References(HeaderLibTarget(r))
  PROVE  \/ \E h \in FilesIn(r) : l = FileLabel(h)
         \/ \E q \in layout.roots \ {r} : Under(r, q) /\ l = HeaderLib(q)
BY DEF References, HeaderLibTarget, PublicRule, FilesIn

\* A part of the root's headers refers to files of its package that are not
\* generated; and all of them to the parts.
LEMMA RootedRefers ==
  /\ \A d : \A l \in References(RootHdrLibTarget(d)) :
       \E h \in RootWalk \ GeneratedFiles : OwnerOf(h) = d /\ l = FileLabel(h)
  /\ \A l \in References(RootHdrAggTarget) : \E d \in layout.rootHdrs : l = RootHdrLib(d)
BY DEF References, RootHdrLibTarget, RootHdrAggTarget, PublicRule

\* A wrapper refers to generated headers of its package.
LEMMA WrapperRefers ==
  ASSUME NEW d, NEW l \in References(WrapperTarget(d))
  PROVE  \E w \in WantedHeaders : OwnerOf(w) = d /\ l = FileLabel(w)
BY DEF References, WrapperTarget, PublicRule

(***************************************************************************)
(* Every label may be named where it is.                                   *)
(***************************************************************************)

\* A package with a BUILD file is one of the layout.
LEMMA BuildFilesAreLaid ==
  ASSUME Settled
  PROVE  BuildFiles \subseteq layout.pkgs
<1>1. Laid /\ Elem /\ Emission
  BY DEF Settled, Emission, Laid
<1>2. \A p \in SplitFiles \cup GeneratedFiles : OwnerOf(p) \in layout.pkgs
  BY <1>1, FileFacts, OwnerFacts
<1>3. \A k \in DOMAIN split.rules : k[1] \in layout.pkgs
  <2> SUFFICES ASSUME NEW k \in DOMAIN split.rules PROVE k[1] \in layout.pkgs
    OBVIOUS
  <2>1. \A n \in SplitTargets : RealLabel(n)[1] \in layout.pkgs
    BY <1>1, LabelsApart, LandingFacts
  <2>2. \A r \in layout.roots : HeaderLib(r)[1] \in layout.pkgs
    BY <1>1, PackageFacts DEF HeaderLib
  <2>3. \A d \in layout.rootHdrs : RootHdrLib(d)[1] \in layout.pkgs
    <3>1. layout.rootHdrs \subseteq layout.pkgs
      BY <1>1, <1>2, LayoutFields, FileFacts DEF Laid
    <3>2. QED
      BY <3>1 DEF RootHdrLib
  <2>4. RootHdrAgg[1] \in layout.pkgs
    BY <1>1, PackageFacts DEF RootHdrAgg
  <2>5. \A o \in WantedHeaders : GeneratedIncludes(OwnerOf(o))[1] \in layout.pkgs
    BY <1>1, <1>2, FileFacts DEF GeneratedIncludes
  <2>6. QED
    BY <2>1, <2>2, <2>3, <2>4, <2>5, EveryRule
<1>4. \A e \in split.exports : e[1] \in layout.pkgs
  <2>1. \A from, files : files \subseteq SplitFiles => \A e \in CrossExports(from, files) : e[1] \in layout.pkgs
    BY <1>2 DEF CrossExports, FileLabel
  <2>2. \A n \in SplitTargets : lowered[n].srcs \cup lowered[n].arms \cup KeptHdrs(n) \subseteq SplitFiles
    BY DEF SplitFiles, KeptHdrs
  <2>3. \A r : HeadersIn(layout.roots, r) \subseteq SplitFiles
    BY <1>1, FileFacts DEF HeadersIn
  <2>4. split.exports = ExportedFiles
    BY <1>1 DEF Emission
  <2>5. \A n \in SplitTargets :
          \A e \in CrossExports(layout.landing[n], lowered[n].srcs \cup lowered[n].arms \cup KeptHdrs(n)) :
            e[1] \in layout.pkgs
    BY <2>1, <2>2
  <2>6. \A r \in layout.roots : \A e \in CrossExports(r, HeadersIn(layout.roots, r)) : e[1] \in layout.pkgs
    BY <2>1, <2>3
  <2>7. QED
    BY <2>4, <2>5, <2>6 DEF ExportedFiles
<1>5. QED
  BY <1>3, <1>4 DEF BuildFiles

\* No package lies between a file's and the file.
LEMMA FilesInside ==
  ASSUME Settled, NEW p \in Seq(Names)
  PROVE  Inside(FileLabel(p)[1], FileLabel(p)[2])
<1>1. Laid
  BY DEF Settled, Emission
<1>2. /\ FileLabel(p)[1] = OwnerOf(p)
      /\ FileLabel(p)[1] \o FileLabel(p)[2] = p
  BY <1>1, FileLabels
<1>3. \A d \in layout.pkgs : Under(d, p) => Len(d) <= Len(OwnerOf(p))
  BY <1>1, OwnerFacts
<1>4. QED
  BY <1>2, <1>3, BuildFilesAreLaid DEF Inside

\* A file that is not generated may be named in its package, and in others if
\* it is exported.
LEMMA SourceUsable ==
  ASSUME Settled, NEW p \in SplitFiles \ GeneratedFiles, NEW pkg \in BuildFiles,
         OwnerOf(p) = pkg \/ FileLabel(p) \in split.exports
  PROVE  Usable(FileLabel(p), pkg)
<1>1. Laid /\ Elem
  BY DEF Settled, Emission, Laid
<1>2. p \in Seq(Names)
  BY <1>1, FileFacts
<1>3. FileLabel(p)[1] = OwnerOf(p) /\ FileLabel(p)[1] \o FileLabel(p)[2] = p
  BY <1>1, <1>2, FileLabels
<1>4. Inside(FileLabel(p)[1], FileLabel(p)[2])
  BY <1>2, FilesInside
<1>5. FileLabel(p)[1] \in BuildFiles
  BY <1>3 DEF BuildFiles
<1>6. QED
  BY <1>3, <1>4, <1>5 DEF Usable

\* A generated file may be named in its generator's package, and in others if
\* that is public.
LEMMA GeneratedUsable ==
  ASSUME Settled, NEW p \in GeneratedFiles, NEW pkg,
         \/ OwnerOf(p) = pkg
         \/ Public(ProducerOf(p))
  PROVE  Usable(FileLabel(p), pkg)
<1> DEFINE g == ProducerOf(p)
<1>1. Laid /\ Elem /\ Emission
  BY DEF Settled, Emission, Laid
<1>2. RealLabel(g) \in RulesBehind(FileLabel(p))
  BY BehindFile
<1>3. g \in SplitTargets
  BY <1>1, ProducerFacts, GeneratorFacts
<1>4. split.rules[RealLabel(g)].public = Public(g)
  <2>1. split.rules[RealLabel(g)] = RewriteTarget(g)
    BY <1>1, <1>3, RulesByLabel
  <2>2. RewriteTarget(g).public = Public(g)
    BY Zenon DEF RewriteTarget
  <2> HIDE DEF g
  <2>3. QED
    BY <2>1, <2>2, Zenon
<1>5. FileLabel(p)[1] = OwnerOf(p)
  BY DEF FileLabel
<1>6. CASE OwnerOf(p) = pkg
  BY <1>2, <1>5, <1>6 DEF Usable
<1>7. CASE Public(g)
  <2> HIDE DEF g
  <2>1. split.rules[RealLabel(g)].public
    BY <1>4, <1>7, Zenon
  <2>2. QED
    BY <1>2, <2>1, Zenon DEF Usable
<1>8. QED
  BY <1>6, <1>7

\* A target may be named in its package, and in others if it is public.
LEMMA TargetUsable ==
  ASSUME Settled, NEW d \in SplitTargets, NEW n \in SplitTargets, MayName(n, d)
  PROVE  Usable(RealLabel(d), layout.landing[n])
<1>1. Laid /\ Elem /\ Emission
  BY DEF Settled, Emission, Laid
<1>2. RealLabel(d) \in RulesBehind(RealLabel(d)) /\ RealLabel(d)[1] = layout.landing[d]
  BY <1>1, RulesByLabel, BehindRule, LabelsApart
<1>3. split.rules[RealLabel(d)].public = Public(d)
  <2>1. split.rules[RealLabel(d)] = RewriteTarget(d)
    BY <1>1, RulesByLabel
  <2>2. RewriteTarget(d).public = Public(d)
    BY Zenon DEF RewriteTarget
  <2>3. QED
    BY <2>1, <2>2, Zenon
<1>4. CASE layout.landing[d] = layout.landing[n]
  BY <1>2, <1>4 DEF Usable
<1>5. CASE Public(d)
  <2>1. split.rules[RealLabel(d)].public
    BY <1>3, <1>5, Zenon
  <2>2. QED
    BY <1>2, <2>1, Zenon DEF Usable
<1>6. QED
  BY <1>4, <1>5 DEF MayName

\* A library of headers may be named anywhere.
LEMMA LibraryUsable ==
  ASSUME Settled, NEW pkg
  PROVE  /\ \A r \in layout.roots : Usable(HeaderLib(r), pkg)
         /\ \A d \in layout.rootHdrs : Usable(RootHdrLib(d), pkg) /\ Usable(RootHdrAgg, pkg)
         /\ \A o \in WantedHeaders : Usable(GeneratedIncludes(OwnerOf(o)), pkg)
<1>1. Emission
  BY DEF Settled
<1>2. \A l \in DOMAIN split.rules : split.rules[l].public = TRUE => Usable(l, pkg)
  <2> SUFFICES ASSUME NEW l \in DOMAIN split.rules, split.rules[l].public = TRUE PROVE Usable(l, pkg)
    OBVIOUS
  <2>1. l \in RulesBehind(l)
    BY BehindRule
  <2>2. split.rules[l].public
    OBVIOUS
  <2>3. QED
    BY <2>1, <2>2, Zenon DEF Usable
<1>3. \A o \in WantedHeaders : GeneratedIncludes(OwnerOf(o)) \notin RealLabels
  BY DEF RealLabels, Settled, NamesApart
<1>4. QED
  BY <1>1, <1>2, <1>3, RulesByLabel, LibraryFields

\* A file that is not generated and that another package's target or header
\* library names is exported.
LEMMA ExportsCover ==
  ASSUME Settled
  PROVE  /\ \A n \in SplitTargets :
              \A p \in (lowered[n].srcs \cup lowered[n].arms \cup KeptHdrs(n)) \ GeneratedFiles :
                OwnerOf(p) = layout.landing[n] \/ FileLabel(p) \in split.exports
         /\ \A r \in layout.roots : \A h \in HeadersIn(layout.roots, r) \ GeneratedFiles :
              OwnerOf(h) = r \/ FileLabel(h) \in split.exports
<1>1. split.exports = ExportedFiles
  BY DEF Settled, Emission
<1>2. \A from, files : \A p \in files \ GeneratedFiles :
        OwnerOf(p) = from \/ FileLabel(p) \in CrossExports(from, files)
  BY DEF CrossExports
<1>3. \A n \in SplitTargets :
        CrossExports(layout.landing[n], lowered[n].srcs \cup lowered[n].arms \cup KeptHdrs(n)) \subseteq split.exports
  BY <1>1 DEF ExportedFiles
<1>4. \A r \in layout.roots : CrossExports(r, HeadersIn(layout.roots, r)) \subseteq split.exports
  BY <1>1 DEF ExportedFiles
<1>5. ASSUME NEW n \in SplitTargets,
             NEW p \in (lowered[n].srcs \cup lowered[n].arms \cup KeptHdrs(n)) \ GeneratedFiles
      PROVE  OwnerOf(p) = layout.landing[n] \/ FileLabel(p) \in split.exports
  BY <1>2, <1>3
<1>6. ASSUME NEW r \in layout.roots, NEW h \in HeadersIn(layout.roots, r) \ GeneratedFiles
      PROVE  OwnerOf(h) = r \/ FileLabel(h) \in split.exports
  BY <1>2, <1>4
<1>7. QED
  BY <1>5, <1>6

\* A generator whose output another package's target, in its sources or
\* headers, or a header library names is public; and so is a target that one in
\* another package is built after.
LEMMA PublicizeCovers ==
  ASSUME Settled
  PROVE  /\ \A n \in SplitTargets : \A p \in (lowered[n].srcs \cup lowered[n].hdrs) \cap GeneratedFiles :
              OwnerOf(p) = layout.landing[n] \/ Public(ProducerOf(p))
         /\ \A r \in layout.roots : \A h \in FilesIn(r) \cap GeneratedFiles :
              OwnerOf(h) = r \/ Public(ProducerOf(h))
         /\ \A n \in SplitTargets : \A d \in lowered[n].order : MayName(n, d)
<1>1. Laid /\ Elem /\ OneHomeEach
  BY DEF Settled, Emission, Laid
<1>2. /\ layout.publicize = Publicize(layout.pkgs, IncludeRoots)
      /\ layout.roots = IncludeRoots
      /\ \A n \in SplitTargets : layout.landing[n] = LandingAmong(layout.pkgs, n)
  BY <1>1, LayoutFields DEF Laid
<1>3. ASSUME NEW n \in SplitTargets, NEW p \in (lowered[n].srcs \cup lowered[n].hdrs) \cap GeneratedFiles,
             OwnerOf(p) # layout.landing[n]
      PROVE  Public(ProducerOf(p))
  <2> DEFINE g == ProducerOf(p)
  <2>1. g \in Generators /\ p \in Outs(g)
    BY <1>1, ProducerFacts
  <2> HIDE DEF g
  <2>2. n # g
    BY <1>1, <1>3, <2>1, GeneratorsHome
  <2>3. p \in lowered[n].srcs \cup lowered[n].hdrs /\ OwnerAmong(layout.pkgs, p) # LandingAmong(layout.pkgs, n)
    BY <1>2, <1>3 DEF OwnerOf
  <2>4. g \in Publicize(layout.pkgs, IncludeRoots)
    BY <2>1, <2>2, <2>3 DEF Publicize
  <2>5. ~lowered[g].rootInclude
    BY <1>1, <2>1, GeneratorFacts
  <2>6. Public(g)
    BY <1>2, <2>4, <2>5 DEF Public, FastPath
  <2>7. QED
    BY <2>6 DEF g
<1>4. ASSUME NEW r \in layout.roots, NEW h \in FilesIn(r) \cap GeneratedFiles, OwnerOf(h) # r
      PROVE  Public(ProducerOf(h))
  <2> DEFINE g == ProducerOf(h)
  <2>1. g \in Generators /\ h \in Outs(g)
    BY <1>1, ProducerFacts
  <2> HIDE DEF g
  <2>2. h \in HeadersIn(IncludeRoots, r) /\ ~Compiled(h) /\ OwnerAmong(layout.pkgs, h) # r /\ r \in IncludeRoots
    BY <1>2, <1>4 DEF FilesIn, OwnerOf
  <2>3. g \in Publicize(layout.pkgs, IncludeRoots)
    BY <2>1, <2>2 DEF Publicize
  <2>4. ~lowered[g].rootInclude
    BY <1>1, <2>1, GeneratorFacts
  <2>5. Public(g)
    BY <1>2, <2>3, <2>4 DEF Public, FastPath
  <2>6. QED
    BY <2>5 DEF g
<1>5. ASSUME NEW n \in SplitTargets, NEW d \in lowered[n].order
      PROVE  MayName(n, d)
  <2>1. SUFFICES ASSUME layout.landing[d] # layout.landing[n] PROVE Public(d)
    BY DEF MayName
  <2>2. d \in SplitTargets /\ n \in SplitTargets \ {d}
    BY <1>1, <2>1, TargetFacts
  <2>3. LandingAmong(layout.pkgs, d) # LandingAmong(layout.pkgs, n)
    BY <1>2, <2>1, <2>2
  <2>4. d \in Publicize(layout.pkgs, IncludeRoots)
    BY <2>2, <2>3 DEF Publicize
  <2>5. lowered[d].rootInclude => lowered[d].public
    BY <1>1, <2>2, TargetFacts
  <2>6. QED
    BY <1>2, <2>4, <2>5 DEF Public, FastPath
<1>6. QED
  BY <1>3, <1>4, <1>5

\* Every label of every rule may be named from there.
LEMMA EveryLabelUsable ==
  ASSUME Settled, ArmsAreLocal, ToolsAreVisible,
         NEW k \in DOMAIN split.rules, NEW l \in References(split.rules[k])
  PROVE  Usable(l, k[1])
<1>1. Laid /\ Elem /\ OneHomeEach /\ Emission
  BY DEF Settled, Emission, Laid
<1>2. k[1] \in BuildFiles
  BY DEF BuildFiles
<1>3. CASE \E n \in SplitTargets : k = RealLabel(n) /\ split.rules[k] = RewriteTarget(n)
  <2>1. PICK n \in SplitTargets : k = RealLabel(n) /\ split.rules[k] = RewriteTarget(n)
    BY <1>3
  <2>2. k[1] = layout.landing[n] /\ l \in References(RewriteTarget(n))
    BY <1>1, <2>1, LabelsApart
  <2>3. KeptHdrs(n) \subseteq lowered[n].hdrs
    BY DEF KeptHdrs
  <2>4. ASSUME NEW p \in lowered[n].srcs \cup lowered[n].arms \cup KeptHdrs(n), l = FileLabel(p)
        PROVE  Usable(l, k[1])
    <3>1. p \in SplitFiles
      BY <2>3 DEF SplitFiles
    <3>2. CASE p \notin GeneratedFiles
      <4>1. OwnerOf(p) = layout.landing[n] \/ FileLabel(p) \in split.exports
        BY <3>2, ExportsCover
      <4>2. QED
        BY <1>2, <2>2, <2>4, <3>1, <3>2, <4>1, SourceUsable
    <3>3. CASE p \in GeneratedFiles
      <4>1. p \in lowered[n].srcs \cup KeptHdrs(n) => OwnerOf(p) = k[1] \/ Public(ProducerOf(p))
        BY <2>2, <2>3, <3>3, PublicizeCovers
      <4>2. p \in lowered[n].arms => MayName(n, ProducerOf(p))
        BY <3>3 DEF ArmsAreLocal
      <4>3. layout.landing[ProducerOf(p)] = OwnerOf(p)
        BY <1>1, <3>3, ProducerFacts, GeneratorsHome
      <4>4. OwnerOf(p) = k[1] \/ Public(ProducerOf(p))
        BY <2>2, <4>1, <4>2, <4>3, Zenon DEF MayName
      <4>5. QED
        BY <2>4, <3>3, <4>4, GeneratedUsable
    <3>4. QED
      BY <3>2, <3>3
  <2>5. ASSUME NEW d \in lowered[n].deps \cup lowered[n].tools \cup lowered[n].order, l = RealLabel(d)
        PROVE  Usable(l, k[1])
    <3>1. d \in SplitTargets
      BY <1>1, TargetFacts
    <3>2. MayName(n, d)
      BY PublicizeCovers DEF ToolsAreVisible
    <3>3. QED
      BY <2>2, <2>5, <3>1, <3>2, TargetUsable
  <2>6. GrantedRoots(n) \subseteq layout.roots /\ lowered[n].wants \subseteq WantedHeaders
    BY <1>1, PackageFacts DEF GrantedRoots, WantedHeaders
  <2>7. FastPath(n) => layout.rootHdrs # {}
    BY DEF FastPath
  <2>8. QED
    BY <2>2, <2>4, <2>5, <2>6, <2>7, TargetRefers, LibraryUsable
<1>4. CASE \E r \in layout.roots : k = HeaderLib(r) /\ split.rules[k] = HeaderLibTarget(r)
  <2>1. PICK r \in layout.roots : k = HeaderLib(r) /\ split.rules[k] = HeaderLibTarget(r)
    BY <1>4
  <2>2. k[1] = r /\ l \in References(HeaderLibTarget(r))
    BY <2>1 DEF HeaderLib
  <2>3. ASSUME NEW h \in FilesIn(r), l = FileLabel(h)
        PROVE  Usable(l, k[1])
    <3>1. h \in SplitFiles /\ h \in HeadersIn(layout.roots, r)
      BY <1>1, FileFacts DEF FilesIn, HeadersIn
    <3>2. CASE h \notin GeneratedFiles
      <4>1. OwnerOf(h) = r \/ FileLabel(h) \in split.exports
        BY <3>1, <3>2, ExportsCover
      <4>2. QED
        BY <1>2, <2>2, <2>3, <3>1, <3>2, <4>1, SourceUsable
    <3>3. CASE h \in GeneratedFiles
      <4>1. OwnerOf(h) = k[1] \/ Public(ProducerOf(h))
        BY <2>2, <3>3, PublicizeCovers
      <4>2. QED
        BY <2>3, <3>3, <4>1, GeneratedUsable
    <3>4. QED
      BY <3>2, <3>3
  <2>4. QED
    BY <2>2, <2>3, LibraryRefers, LibraryUsable
<1>5. CASE \E d \in layout.rootHdrs : k = RootHdrLib(d) /\ split.rules[k] = RootHdrLibTarget(d)
  <2>1. PICK d \in layout.rootHdrs : k = RootHdrLib(d) /\ split.rules[k] = RootHdrLibTarget(d)
    BY <1>5
  <2>2. PICK h \in RootWalk \ GeneratedFiles : OwnerOf(h) = d /\ l = FileLabel(h)
    BY <2>1, RootedRefers
  <2>3. k[1] = d /\ h \in SplitFiles
    BY <1>1, <2>1, FileFacts DEF RootHdrLib
  <2>4. QED
    BY <1>2, <2>2, <2>3, SourceUsable
<1>6. CASE layout.rootHdrs # {} /\ k = RootHdrAgg /\ split.rules[k] = RootHdrAggTarget
  BY <1>6, RootedRefers, LibraryUsable
<1>7. CASE \E o \in WantedHeaders : k = GeneratedIncludes(OwnerOf(o)) /\ split.rules[k] = WrapperTarget(OwnerOf(o))
  <2>1. PICK o \in WantedHeaders : k = GeneratedIncludes(OwnerOf(o)) /\ split.rules[k] = WrapperTarget(OwnerOf(o))
    BY <1>7
  <2>2. PICK w \in WantedHeaders : OwnerOf(w) = OwnerOf(o) /\ l = FileLabel(w)
    BY <2>1, WrapperRefers
  <2>3. k[1] = OwnerOf(o) /\ w \in GeneratedFiles
    BY <1>1, <2>1, FileFacts DEF GeneratedIncludes
  <2>4. QED
    BY <2>2, <2>3, GeneratedUsable
<1>8. QED
  BY <1>3, <1>4, <1>5, <1>6, <1>7, EveryRule

\* Outputs are in no other package, and no rule has an output's name.
LEMMA OutputsInside ==
  ASSUME Settled, NEW k \in DOMAIN split.rules, NEW o \in split.rules[k].outs
  PROVE  Inside(k[1], o) /\ <<k[1], o>> \notin DOMAIN split.rules
<1>1. PICK g \in Generators : \E p \in Outs(g) : FileLabel(p) = <<k[1], o>>
  BY EveryOutput
<1>2. PICK p \in Outs(g) : FileLabel(p) = <<k[1], o>>
  BY <1>1
<1>3. p \in GeneratedFiles
  BY DEF GeneratedFiles
<1>4. p \in Seq(Names)
  BY <1>3, FileFacts DEF Settled, Emission, Laid
<1>5. Inside(FileLabel(p)[1], FileLabel(p)[2])
  BY <1>4, FilesInside
<1>6. FileLabel(p) \notin DOMAIN split.rules
  BY <1>3 DEF Settled, NamesApart
<1>7. QED
  BY <1>2, <1>5, <1>6

(***************************************************************************)
(* What rules are built from.                                              *)
(***************************************************************************)

\* The graph of rules, and that of what targets needed as lowered.
LEMMA BuildGraphs ==
  ASSUME Emission
  PROVE  /\ IsGraph(BuiltFrom) /\ DOMAIN BuiltFrom = DOMAIN split.rules
         /\ IsGraph(LoweredNeeds) /\ DOMAIN LoweredNeeds = SplitTargets
<1>1. Laid /\ Elem
  BY DEF Emission, Laid
<1>2. \A l : RulesBehind(l) \subseteq DOMAIN split.rules
  BY DEF RulesBehind
<1>3. IsGraph(BuiltFrom) /\ DOMAIN BuiltFrom = DOMAIN split.rules
  BY <1>2, FinitelyManyRules DEF BuiltFrom, IsGraph
<1>4. DOMAIN LoweredNeeds = SplitTargets
  BY DEF LoweredNeeds
<1>5. IsFiniteSet(SplitTargets)
  BY <1>1, LoweredAssumption DEF Elem, IsLowered, SplitTargets
<1>6. ASSUME NEW n \in SplitTargets
      PROVE  LoweredNeeds[n] \subseteq SplitTargets
  <2>1. lowered[n].deps \cup lowered[n].tools \cup lowered[n].order \subseteq SplitTargets
    BY <1>1, TargetFacts
  <2>2. \A o \in GeneratedFiles : ProducerOf(o) \in SplitTargets
    BY <1>1, ProducerFacts, GeneratorFacts
  <2>3. QED
    BY <2>1, <2>2 DEF LoweredNeeds
<1>7. QED
  BY <1>3, <1>4, <1>5, <1>6 DEF IsGraph

\* What a rule is built from is behind what it refers to.
LEMMA BuiltFromOne ==
  ASSUME Settled, NEW k \in DOMAIN split.rules, NEW s \in BuiltFrom[k]
  PROVE  \E l \in References(split.rules[k]) :
           /\ s \in RulesBehind(l)
           /\ l \in DOMAIN split.rules => s = l
           /\ \A p \in SplitFiles \cup GeneratedFiles :
                l = FileLabel(p) => p \in GeneratedFiles /\ s = RealLabel(ProducerOf(p))
<1>1. BuiltFrom[k] = UNION {RulesBehind(l) : l \in References(split.rules[k])}
  BY DEF BuiltFrom
<1>2. PICK l \in References(split.rules[k]) : s \in RulesBehind(l)
  BY <1>1
<1>3. l \in DOMAIN split.rules => s = l
  BY <1>2, BehindRule
<1>4. \A p \in SplitFiles \cup GeneratedFiles :
        l = FileLabel(p) => p \in GeneratedFiles /\ s = RealLabel(ProducerOf(p))
  BY <1>2, BehindFile
<1>5. QED
  BY <1>2, <1>3, <1>4

\* A target is built from what it needed as lowered and libraries of headers.
LEMMA TargetBuiltFrom ==
  ASSUME Settled, NEW n \in SplitTargets, NEW s \in BuiltFrom[RealLabel(n)]
  PROVE  \/ \E d \in LoweredNeeds[n] : s = RealLabel(d)
         \/ \E r \in GrantedRoots(n) : s = HeaderLib(r)
         \/ \E w \in lowered[n].wants : s = GeneratedIncludes(OwnerOf(w))
         \/ FastPath(n) /\ s = RootHdrAgg
<1>1. Laid /\ Elem /\ Emission
  BY DEF Settled, Emission, Laid
<1>2. RealLabel(n) \in DOMAIN split.rules /\ split.rules[RealLabel(n)] = RewriteTarget(n)
  BY <1>1, RulesByLabel
<1>3. PICK l \in References(RewriteTarget(n)) :
        /\ l \in DOMAIN split.rules => s = l
        /\ \A p \in SplitFiles \cup GeneratedFiles :
             l = FileLabel(p) => p \in GeneratedFiles /\ s = RealLabel(ProducerOf(p))
  BY <1>2, BuiltFromOne
<1>4. CASE \E p \in lowered[n].srcs \cup lowered[n].arms \cup KeptHdrs(n) : l = FileLabel(p)
  <2>1. PICK p \in lowered[n].srcs \cup lowered[n].arms \cup KeptHdrs(n) : l = FileLabel(p)
    BY <1>4
  <2>2. p \in lowered[n].srcs \cup lowered[n].arms \cup lowered[n].hdrs
    BY DEF KeptHdrs
  <2>3. p \in SplitFiles
    BY <2>2 DEF SplitFiles
  <2>4. p \in GeneratedFiles /\ s = RealLabel(ProducerOf(p))
    BY <1>3, <2>1, <2>3
  <2>5. ProducerOf(p) \in LoweredNeeds[n]
    BY <2>2, <2>4 DEF LoweredNeeds
  <2>6. QED
    BY <2>4, <2>5
<1>5. CASE \E d \in lowered[n].deps \cup lowered[n].tools \cup lowered[n].order : l = RealLabel(d)
  <2>1. PICK d \in lowered[n].deps \cup lowered[n].tools \cup lowered[n].order : l = RealLabel(d)
    BY <1>5
  <2>2. d \in SplitTargets
    BY <1>1, TargetFacts
  <2>3. s = RealLabel(d)
    BY <1>1, <1>3, <2>1, <2>2, RulesByLabel
  <2>4. d \in LoweredNeeds[n]
    BY DEF LoweredNeeds
  <2>5. QED
    BY <2>3, <2>4
<1>6. CASE \E r \in GrantedRoots(n) : l = HeaderLib(r)
  <2>1. GrantedRoots(n) \subseteq layout.roots
    BY <1>1, PackageFacts DEF GrantedRoots
  <2>2. QED
    BY <1>1, <1>3, <1>6, <2>1, RulesByLabel
<1>7. CASE \E w \in lowered[n].wants : l = GeneratedIncludes(OwnerOf(w))
  <2>1. lowered[n].wants \subseteq WantedHeaders
    BY DEF WantedHeaders
  <2>2. QED
    BY <1>1, <1>3, <1>7, <2>1, RulesByLabel
<1>8. CASE FastPath(n) /\ l = RootHdrAgg
  <2>1. layout.rootHdrs # {}
    BY <1>8 DEF FastPath
  <2>2. QED
    BY <1>1, <1>3, <1>8, <2>1, RulesByLabel
<1>9. QED
  BY <1>4, <1>5, <1>6, <1>7, <1>8, TargetRefers

\* A header library is built from those of directories in it, and generators of
\* headers below it.
LEMMA LibraryBuiltFrom ==
  ASSUME Settled, NEW r \in layout.roots, NEW s \in BuiltFrom[HeaderLib(r)]
  PROVE  \/ \E q \in layout.roots \ {r} : Under(r, q) /\ s = HeaderLib(q)
         \/ \E h \in AllHeaders \cap GeneratedFiles : Under(r, h) /\ s = RealLabel(ProducerOf(h))
<1>1. Laid /\ Elem /\ Emission
  BY DEF Settled, Emission, Laid
<1>2. HeaderLib(r) \in DOMAIN split.rules /\ split.rules[HeaderLib(r)] = HeaderLibTarget(r)
  BY <1>1, RulesByLabel
<1>3. PICK l \in References(HeaderLibTarget(r)) :
        /\ l \in DOMAIN split.rules => s = l
        /\ \A p \in SplitFiles \cup GeneratedFiles :
             l = FileLabel(p) => p \in GeneratedFiles /\ s = RealLabel(ProducerOf(p))
  BY <1>2, BuiltFromOne
<1>4. CASE \E h \in FilesIn(r) : l = FileLabel(h)
  <2>1. PICK h \in FilesIn(r) : l = FileLabel(h)
    BY <1>4
  <2>2. h \in AllHeaders /\ h \in SplitFiles /\ h \in Seq(Names) /\ OwnerAmong(layout.roots \cup {<<>>}, h) = r
    BY <1>1, FileFacts DEF FilesIn, HeadersIn
  <2>3. h \in GeneratedFiles /\ s = RealLabel(ProducerOf(h))
    BY <1>3, <2>1, <2>2
  <2>4. Under(r, h)
    <3> DEFINE roots == layout.roots \cup {<<>>}
    <3>1. roots \subseteq Seq(Names) /\ <<>> \in roots
      BY <1>1, PackageFacts
    <3> HIDE DEF roots
    <3>2. Under(OwnerAmong(roots, h), h)
      BY <2>2, <3>1, OwnerIsDeepest
    <3>3. QED
      BY <2>2, <3>2 DEF roots
  <2>5. QED
    BY <2>2, <2>3, <2>4
<1>5. CASE \E q \in layout.roots \ {r} : Under(r, q) /\ l = HeaderLib(q)
  BY <1>1, <1>3, <1>5, RulesByLabel
<1>6. QED
  BY <1>4, <1>5, LibraryRefers

\* The root's headers are built from nothing, and all of them from the parts.
LEMMA RootedBuiltFrom ==
  ASSUME Settled
  PROVE  /\ \A d \in layout.rootHdrs : BuiltFrom[RootHdrLib(d)] = {}
         /\ layout.rootHdrs # {} => BuiltFrom[RootHdrAgg] \subseteq RootedLabels
<1>1. Laid /\ Elem /\ Emission
  BY DEF Settled, Emission, Laid
<1>2. ASSUME NEW d \in layout.rootHdrs, NEW s \in BuiltFrom[RootHdrLib(d)]
      PROVE  FALSE
  <2>1. RootHdrLib(d) \in DOMAIN split.rules /\ split.rules[RootHdrLib(d)] = RootHdrLibTarget(d)
    BY <1>1, RulesByLabel
  <2>2. PICK l \in References(RootHdrLibTarget(d)) :
          \A p \in SplitFiles \cup GeneratedFiles : l = FileLabel(p) => p \in GeneratedFiles
    BY <1>2, <2>1, BuiltFromOne
  <2>3. PICK h \in RootWalk \ GeneratedFiles : l = FileLabel(h)
    BY RootedRefers
  <2>4. h \in SplitFiles
    BY <1>1, FileFacts
  <2>5. QED
    BY <2>2, <2>3, <2>4
<1>3. ASSUME layout.rootHdrs # {}, NEW s \in BuiltFrom[RootHdrAgg]
      PROVE  s \in RootedLabels
  <2>1. RootHdrAgg \in DOMAIN split.rules /\ split.rules[RootHdrAgg] = RootHdrAggTarget
    BY <1>1, <1>3, RulesByLabel
  <2>2. PICK l \in References(RootHdrAggTarget) : l \in DOMAIN split.rules => s = l
    BY <1>3, <2>1, BuiltFromOne
  <2>3. PICK d \in layout.rootHdrs : l = RootHdrLib(d)
    BY RootedRefers
  <2>4. RootHdrLib(d) \in DOMAIN split.rules
    BY <1>1, RulesByLabel
  <2>5. QED
    BY <2>2, <2>3, <2>4 DEF RootedLabels
<1>4. QED
  BY <1>2, <1>3

\* A wrapper is built from generators of headers that are wanted, in its
\* package.
LEMMA WrapperBuiltFrom ==
  ASSUME Settled, NEW o \in WantedHeaders, NEW s \in BuiltFrom[GeneratedIncludes(OwnerOf(o))]
  PROVE  \E w \in WantedHeaders : OwnerOf(w) = OwnerOf(o) /\ s = RealLabel(ProducerOf(w))
<1>1. Laid /\ Elem /\ Emission
  BY DEF Settled, Emission, Laid
<1>2. GeneratedIncludes(OwnerOf(o)) \notin RealLabels
  BY DEF RealLabels, Settled, NamesApart
<1>3. /\ GeneratedIncludes(OwnerOf(o)) \in DOMAIN split.rules
      /\ split.rules[GeneratedIncludes(OwnerOf(o))] = WrapperTarget(OwnerOf(o))
  BY <1>1, <1>2, RulesByLabel
<1>4. PICK l \in References(WrapperTarget(OwnerOf(o))) :
        \A p \in SplitFiles \cup GeneratedFiles :
          l = FileLabel(p) => p \in GeneratedFiles /\ s = RealLabel(ProducerOf(p))
  BY <1>3, BuiltFromOne
<1>5. PICK w \in WantedHeaders : OwnerOf(w) = OwnerOf(o) /\ l = FileLabel(w)
  BY WrapperRefers
<1>6. w \in GeneratedFiles
  BY <1>1, FileFacts
<1>7. QED
  BY <1>4, <1>5, <1>6

(***************************************************************************)
(* No rule is built from itself.                                           *)
(***************************************************************************)

OnCycle(k) == k \in ReachedFrom(BuiltFrom[k], BuiltFrom)

\* A generator's rules reach only what it needed as lowered, and libraries of
\* headers that were generated for it: it is on no cycle.
LEMMA GeneratorsOnNoCycle ==
  ASSUME Settled, NothingNewForTools, \A n \in SplitTargets : n \notin NeededBy(n), NEW g \in Generators
  PROVE  ~OnCycle(RealLabel(g))
<1> DEFINE N == NeededBy(g)
           Reals == {RealLabel(m) : m \in N}
           Libs == {HeaderLib(r) : r \in {q \in layout.roots :
                      \A h \in AllHeaders \cap GeneratedFiles : Under(q, h) => ProducerOf(h) \in N}}
           Wraps == {GeneratedIncludes(OwnerOf(o)) : o \in {v \in WantedHeaders :
                      \A w \in WantedHeaders : OwnerOf(w) = OwnerOf(v) => ProducerOf(w) \in N}}
           C == Reals \cup Libs \cup RootedLabels \cup AggLabels \cup Wraps
<1>1. Laid /\ Elem /\ Emission /\ g \in SplitTargets
  BY GeneratorFacts DEF Settled, Emission, Laid
<1>2. /\ IsGraph(BuiltFrom) /\ DOMAIN BuiltFrom = DOMAIN split.rules
      /\ IsGraph(LoweredNeeds) /\ DOMAIN LoweredNeeds = SplitTargets
  BY <1>1, BuildGraphs
<1>3. LoweredNeeds[g] \subseteq SplitTargets
  BY <1>1, <1>2 DEF IsGraph
<1>4. LoweredNeeds[g] \subseteq N /\ N \subseteq SplitTargets /\ Closed(N, LoweredNeeds)
  BY <1>2, <1>3, ReachedCloses DEF NeededBy
<1>5. \A m \in N : NeededBy(m) \subseteq N
  BY <1>2, <1>3, ReachedAgain DEF NeededBy
<1> HIDE DEF N
<1>6. \A m \in Generators : GrantedRoots(m) = {} /\ lowered[m].wants = {} /\ ~FastPath(m)
  BY <1>1, GeneratorFacts DEF GrantedRoots, FastPath
<1>7. layout.rootHdrs # {} => RootHdrAgg \in AggLabels
  BY DEF AggLabels
<1>8. BuiltFrom[RealLabel(g)] \subseteq C
  <2> SUFFICES ASSUME NEW s \in BuiltFrom[RealLabel(g)] PROVE s \in C
    OBVIOUS
  <2>1. PICK d \in LoweredNeeds[g] : s = RealLabel(d)
    BY <1>1, <1>6, TargetBuiltFrom
  <2>2. QED
    BY <1>4, <2>1
<1>9. ASSUME NEW m \in N
      PROVE  BuiltFrom[RealLabel(m)] \subseteq C
  <2> SUFFICES ASSUME NEW s \in BuiltFrom[RealLabel(m)] PROVE s \in C
    OBVIOUS
  <2>1. m \in SplitTargets
    BY <1>4
  <2>2. CASE \E d \in LoweredNeeds[m] : s = RealLabel(d)
    BY <1>4, <2>2 DEF Closed
  <2>3. CASE \E r \in GrantedRoots(m) : s = HeaderLib(r)
    <3>1. PICK r \in GrantedRoots(m) : s = HeaderLib(r)
      BY <2>3
    <3>2. r \in RootsOf(m) /\ r \in layout.roots /\ r \notin ToolRoots(m) /\ m \notin Generators
      BY <1>1, <1>6, <2>1, PackageFacts, LayoutFields DEF GrantedRoots, Laid
    <3>3. ASSUME NEW h \in AllHeaders \cap GeneratedFiles, Under(r, h)
          PROVE  ProducerOf(h) \in N
      <4>1. ProducerOf(h) \in NeededBy(m) \/ (r = <<h[1]>> /\ m \in ToolClosure(ProducerOf(h)))
        BY <3>2, <3>3 DEF NothingNewForTools, N
      <4>2. CASE ProducerOf(h) \in NeededBy(m)
        BY <1>5, <4>2
      <4>3. CASE r = <<h[1]>> /\ m \in ToolClosure(ProducerOf(h))
        <5>1. ProducerOf(h) \in Generators /\ h \in Outs(ProducerOf(h))
          BY <1>1, ProducerFacts
        <5>2. h \in Seq(Names) \ {<<>>} /\ r # h
          BY <1>1, <2>1, <3>2, FileFacts, TargetFacts
        <5>3. Len(h) > 1
          <6> HIDE DEF Reals, Libs, Wraps
          <6> QED
            BY <4>3, <5>2, OnlyName
        <5>4. r \in ToolRoots(m)
          BY <4>3, <5>1, <5>3 DEF ToolRoots
        <5>5. QED
          BY <3>2, <5>4
      <4>4. QED
        BY <4>1, <4>2, <4>3
    <3>4. QED
      BY <3>1, <3>2, <3>3
  <2>4. CASE \E w \in lowered[m].wants : s = GeneratedIncludes(OwnerOf(w))
    <3>1. PICK w \in lowered[m].wants : s = GeneratedIncludes(OwnerOf(w))
      BY <2>4
    <3>2. w \in WantedHeaders /\ m \notin Generators
      BY <1>6, <2>1 DEF WantedHeaders
    <3>3. \A o \in WantedHeaders : OwnerOf(o) = OwnerOf(w) => ProducerOf(o) \in N
      BY <1>5, <3>2 DEF NothingNewForTools, N
    <3>4. QED
      BY <3>1, <3>2, <3>3
  <2>5. CASE FastPath(m) /\ s = RootHdrAgg
    BY <1>7, <2>5 DEF FastPath
  <2>6. QED
    BY <2>1, <2>2, <2>3, <2>4, <2>5, TargetBuiltFrom
<1>10. ASSUME NEW r \in layout.roots,
              \A h \in AllHeaders \cap GeneratedFiles : Under(r, h) => ProducerOf(h) \in N
       PROVE  BuiltFrom[HeaderLib(r)] \subseteq C
  <2> SUFFICES ASSUME NEW s \in BuiltFrom[HeaderLib(r)] PROVE s \in C
    OBVIOUS
  <2>1. CASE \E q \in layout.roots \ {r} : Under(r, q) /\ s = HeaderLib(q)
    <3>1. PICK q \in layout.roots \ {r} : Under(r, q) /\ s = HeaderLib(q)
      BY <2>1
    <3>2. layout.roots \subseteq Seq(Names) /\ AllHeaders \subseteq Seq(Names)
      BY <1>1, PackageFacts, FileFacts
    <3>3. \A h \in AllHeaders \cap GeneratedFiles : Under(q, h) => ProducerOf(h) \in N
      BY <1>10, <3>1, <3>2, UnderUnder
    <3>4. QED
      BY <3>1, <3>3
  <2>2. CASE \E h \in AllHeaders \cap GeneratedFiles : Under(r, h) /\ s = RealLabel(ProducerOf(h))
    BY <1>10, <2>2
  <2>3. QED
    BY <2>1, <2>2, LibraryBuiltFrom
<1>11. ASSUME NEW o \in WantedHeaders, \A w \in WantedHeaders : OwnerOf(w) = OwnerOf(o) => ProducerOf(w) \in N
       PROVE  BuiltFrom[GeneratedIncludes(OwnerOf(o))] \subseteq C
  <2> SUFFICES ASSUME NEW s \in BuiltFrom[GeneratedIncludes(OwnerOf(o))] PROVE s \in C
    OBVIOUS
  <2>1. PICK w \in WantedHeaders : OwnerOf(w) = OwnerOf(o) /\ s = RealLabel(ProducerOf(w))
    BY WrapperBuiltFrom
  <2>2. QED
    BY <1>11, <2>1
<1>12. /\ \A k \in RootedLabels : BuiltFrom[k] = {}
       /\ \A k \in AggLabels : BuiltFrom[k] \subseteq RootedLabels
  BY RootedBuiltFrom DEF RootedLabels, AggLabels
<1>13. \A k \in C : BuiltFrom[k] \subseteq C
  BY <1>9, <1>10, <1>11, <1>12
<1>14. RealLabel(g) \notin C
  <2>1. g \notin N
    BY <1>1 DEF N
  <2>2. RealLabel(g) \notin Reals
    BY <1>1, <1>4, <2>1, LabelsApart
  <2>3. Libs \subseteq LibLabels /\ Wraps \subseteq WrapLabels
    BY DEF LibLabels, WrapLabels
  <2>4. RealLabel(g) \notin WrapLabels
    BY <1>1 DEF WrapLabels, Settled, NamesApart
  <2>5. RealLabel(g) \notin LibLabels \cup RootedLabels \cup AggLabels
    BY <1>1, LabelsApart
  <2>6. QED
    BY <2>2, <2>3, <2>4, <2>5
<1>15. RealLabel(g) \in DOMAIN BuiltFrom
  BY <1>1, <1>2, RulesByLabel
<1>16. BuiltFrom[RealLabel(g)] \subseteq DOMAIN BuiltFrom
  BY <1>2, <1>15 DEF IsGraph
<1> HIDE DEF C
<1>17. ReachedFrom(BuiltFrom[RealLabel(g)], BuiltFrom) \subseteq C
  BY <1>2, <1>8, <1>13, <1>16, ReachedStays
<1>18. QED
  BY <1>14, <1>17 DEF OnCycle

\* Neither are the libraries: each leads to others of deeper directories, or to
\* generators.
LEMMA LibrariesOnNoCycle ==
  ASSUME Settled, NothingNewForTools, \A n \in SplitTargets : n \notin NeededBy(n)
  PROVE  /\ \A d \in layout.rootHdrs : ~OnCycle(RootHdrLib(d)) /\ ~OnCycle(RootHdrAgg)
         /\ \A o \in WantedHeaders : ~OnCycle(GeneratedIncludes(OwnerOf(o)))
         /\ \A r \in layout.roots : ~OnCycle(HeaderLib(r))
<1> DEFINE Deeper(r) == {q \in layout.roots \ {r} : Under(r, q)}
           Bad == {r \in layout.roots : OnCycle(HeaderLib(r))}
<1>1. Laid /\ Elem /\ Emission
  BY DEF Settled, Emission, Laid
<1>2. IsGraph(BuiltFrom) /\ DOMAIN BuiltFrom = DOMAIN split.rules
  BY <1>1, BuildGraphs
<1>3. \A k \in DOMAIN split.rules : OnCycle(k) => \E s \in BuiltFrom[k] : OnCycle(s)
  BY <1>2, CycleGoesOn DEF OnCycle
<1>4. \A o \in GeneratedFiles : ~OnCycle(RealLabel(ProducerOf(o)))
  BY <1>1, ProducerFacts, GeneratorsOnNoCycle
<1>5. \A d \in layout.rootHdrs : ~OnCycle(RootHdrLib(d))
  BY <1>1, <1>3, RootedBuiltFrom, RulesByLabel
<1>6. \A d \in layout.rootHdrs : ~OnCycle(RootHdrAgg)
  BY <1>1, <1>3, <1>5, RootedBuiltFrom, RulesByLabel DEF RootedLabels
<1>7. \A o \in WantedHeaders : ~OnCycle(GeneratedIncludes(OwnerOf(o)))
  <2> SUFFICES ASSUME NEW o \in WantedHeaders, OnCycle(GeneratedIncludes(OwnerOf(o))) PROVE FALSE
    OBVIOUS
  <2>1. GeneratedIncludes(OwnerOf(o)) \in DOMAIN split.rules
    BY <1>1, RulesByLabel
  <2>2. PICK s \in BuiltFrom[GeneratedIncludes(OwnerOf(o))] : OnCycle(s)
    BY <1>3, <2>1
  <2>3. PICK w \in WantedHeaders : s = RealLabel(ProducerOf(w))
    BY WrapperBuiltFrom
  <2>4. QED
    BY <1>1, <1>4, <2>2, <2>3, FileFacts
<1>8. \A r \in layout.roots : IsFiniteSet(Deeper(r)) /\ Cardinality(Deeper(r)) \in Nat
  <2> SUFFICES ASSUME NEW r \in layout.roots PROVE IsFiniteSet(Deeper(r))
    BY FS_CardinalityType
  <2>1. Deeper(r) \subseteq layout.roots /\ IsFiniteSet(layout.roots)
    BY <1>1, PackageFacts
  <2>2. QED
    BY <2>1, FS_Subset
<1>9. layout.roots \subseteq Seq(Names)
  BY <1>1, PackageFacts
<1>10. ASSUME NEW r \in Bad
       PROVE  \E q \in Bad : Cardinality(Deeper(q)) < Cardinality(Deeper(r))
  <2>1. HeaderLib(r) \in DOMAIN split.rules
    BY <1>1, RulesByLabel
  <2>2. PICK s \in BuiltFrom[HeaderLib(r)] : OnCycle(s)
    BY <1>3, <2>1
  <2>3. PICK q \in layout.roots \ {r} : Under(r, q) /\ s = HeaderLib(q)
    BY <1>4, <2>2, LibraryBuiltFrom
  <2>4. q \in Bad
    BY <2>2, <2>3
  <2>5. ~Under(q, r)
    <3>1. SUFFICES ASSUME Under(q, r) PROVE FALSE
      OBVIOUS
    <3>2. r \in Seq(Names) /\ q \in Seq(Names) /\ Len(r) \in Nat /\ Len(q) \in Nat
      BY <1>9, LenProperties
    <3>3. Len(q) <= Len(r) /\ Len(r) <= Len(q)
      BY <2>3, <3>1, <3>2, UnderNames
    <3>4. Under(r, r)
      BY <3>2, UnderNames
    <3>5. Len(q) = Len(r) => q = r
      BY <3>1, <3>2, <3>3, <3>4, UnderBoth
    <3>6. QED
      BY <2>3, <3>2, <3>3, <3>5
  <2>6. Deeper(q) \subseteq Deeper(r)
    <3> SUFFICES ASSUME NEW t \in Deeper(q) PROVE t \in Deeper(r)
      OBVIOUS
    <3>1. t \in layout.roots /\ Under(q, t)
      OBVIOUS
    <3>2. Under(r, t)
      BY <1>9, <2>3, <3>1, UnderUnder
    <3>3. t # r
      BY <2>5, <3>1
    <3>4. QED
      BY <3>1, <3>2, <3>3
  <2>7. q \in Deeper(r) /\ q \notin Deeper(q)
    BY <2>3
  <2> HIDE DEF Deeper, Bad
  <2>8. Deeper(q) # Deeper(r) /\ IsFiniteSet(Deeper(r))
    BY <1>8, <2>7 DEF Bad
  <2>9. Cardinality(Deeper(q)) <= Cardinality(Deeper(r)) /\ Cardinality(Deeper(q)) # Cardinality(Deeper(r))
    BY <2>6, <2>8, FS_Subset
  <2>10. Cardinality(Deeper(q)) \in Nat /\ Cardinality(Deeper(r)) \in Nat
    BY <1>8, <2>3 DEF Bad
  <2>11. QED
    BY <2>4, <2>9, <2>10
<1>11. Bad = {}
  <2>1. SUFFICES ASSUME Bad # {} PROVE FALSE
    OBVIOUS
  <2> DEFINE sizes == {Cardinality(Deeper(r)) : r \in Bad}
  <2>2. sizes # {} /\ sizes \subseteq Nat
    BY <1>8, <2>1
  <2> HIDE DEF sizes
  <2>3. PICK x \in sizes : \A y \in sizes : x <= y
    BY <2>2, LeastNumber
  <2>4. PICK r \in Bad : x = Cardinality(Deeper(r))
    BY <2>3 DEF sizes
  <2>5. PICK q \in Bad : Cardinality(Deeper(q)) < Cardinality(Deeper(r))
    BY <1>10
  <2>6. Cardinality(Deeper(q)) \in sizes
    BY DEF sizes
  <2>7. Cardinality(Deeper(q)) \in Nat /\ Cardinality(Deeper(r)) \in Nat
    BY <1>8
  <2>8. x <= Cardinality(Deeper(q))
    BY <2>3, <2>6
  <2> HIDE DEF Deeper, Bad
  <2>9. QED
    BY <2>4, <2>5, <2>7, <2>8
<1>12. QED
  BY <1>5, <1>6, <1>7, <1>11

\* Nor are targets: one on a cycle would be built from another that needed
\* less.
LEMMA TargetsOnNoCycle ==
  ASSUME Settled, NothingNewForTools, \A n \in SplitTargets : n \notin NeededBy(n)
  PROVE  \A n \in SplitTargets : ~OnCycle(RealLabel(n))
<1> DEFINE Bad == {n \in SplitTargets : OnCycle(RealLabel(n))}
           sizes == {Cardinality(NeededBy(n)) : n \in Bad}
<1>1. Laid /\ Elem /\ Emission
  BY DEF Settled, Emission, Laid
<1>2. /\ IsGraph(BuiltFrom) /\ DOMAIN BuiltFrom = DOMAIN split.rules
      /\ IsGraph(LoweredNeeds) /\ DOMAIN LoweredNeeds = SplitTargets
  BY <1>1, BuildGraphs
<1>3. ASSUME NEW n \in SplitTargets
      PROVE  /\ LoweredNeeds[n] \subseteq NeededBy(n)
             /\ LoweredNeeds[n] \subseteq SplitTargets
             /\ IsFiniteSet(NeededBy(n)) /\ Cardinality(NeededBy(n)) \in Nat
             /\ \A d \in NeededBy(n) : NeededBy(d) \subseteq NeededBy(n)
  <2>1. LoweredNeeds[n] \subseteq SplitTargets
    BY <1>2 DEF IsGraph
  <2>2. LoweredNeeds[n] \subseteq NeededBy(n) /\ NeededBy(n) \subseteq SplitTargets
    BY <1>2, <2>1, ReachedCloses DEF NeededBy
  <2>3. IsFiniteSet(NeededBy(n)) /\ Cardinality(NeededBy(n)) \in Nat
    BY <1>2, <2>2, FS_Subset, FS_CardinalityType DEF IsGraph
  <2>4. \A d \in NeededBy(n) : NeededBy(d) \subseteq NeededBy(n)
    BY <1>2, <2>1, ReachedAgain DEF NeededBy
  <2>5. QED
    BY <2>1, <2>2, <2>3, <2>4
<1>4. ASSUME NEW n \in Bad
      PROVE  \E d \in Bad : Cardinality(NeededBy(d)) < Cardinality(NeededBy(n))
  <2>1. RealLabel(n) \in DOMAIN split.rules
    BY <1>1, RulesByLabel
  <2>2. PICK s \in BuiltFrom[RealLabel(n)] : OnCycle(s)
    BY <1>2, <2>1, CycleGoesOn DEF OnCycle
  <2>3. GrantedRoots(n) \subseteq layout.roots /\ lowered[n].wants \subseteq WantedHeaders
    BY <1>1, PackageFacts DEF GrantedRoots, WantedHeaders
  <2>4. FastPath(n) => layout.rootHdrs # {}
    BY DEF FastPath
  <2>5. PICK d \in LoweredNeeds[n] : s = RealLabel(d)
    BY <2>2, <2>3, <2>4, TargetBuiltFrom, LibrariesOnNoCycle
  <2>6. d \in SplitTargets /\ d \in NeededBy(n)
    BY <1>3
  <2>7. d \in Bad
    BY <2>2, <2>5, <2>6
  <2>8. NeededBy(d) \subseteq NeededBy(n) /\ NeededBy(d) # NeededBy(n)
    BY <1>3, <2>6
  <2>9. Cardinality(NeededBy(d)) <= Cardinality(NeededBy(n)) /\ Cardinality(NeededBy(d)) # Cardinality(NeededBy(n))
    BY <1>3, <2>8, FS_Subset
  <2>10. Cardinality(NeededBy(d)) \in Nat /\ Cardinality(NeededBy(n)) \in Nat
    BY <1>3, <2>6
  <2>11. QED
    BY <2>7, <2>9, <2>10
<1>5. Bad = {}
  <2>1. SUFFICES ASSUME Bad # {} PROVE FALSE
    OBVIOUS
  <2>2. sizes # {} /\ sizes \subseteq Nat
    BY <1>3, <2>1
  <2> HIDE DEF sizes
  <2>3. PICK x \in sizes : \A y \in sizes : x <= y
    BY <2>2, LeastNumber
  <2>4. PICK n \in Bad : x = Cardinality(NeededBy(n))
    BY <2>3 DEF sizes
  <2>5. PICK d \in Bad : Cardinality(NeededBy(d)) < Cardinality(NeededBy(n))
    BY <1>4
  <2>6. x <= Cardinality(NeededBy(d))
    BY <2>3 DEF sizes
  <2>7. Cardinality(NeededBy(d)) \in Nat /\ Cardinality(NeededBy(n)) \in Nat
    BY <1>3
  <2> HIDE DEF Bad
  <2>8. QED
    BY <2>4, <2>5, <2>6, <2>7
<1>6. QED
  BY <1>5

\* An element that loads as one package loads as many: every label leads to a
\* file or rule that may be named from there, and no rule is built from itself,
\* if no generator writes into two packages, none is run under the name it had
\* before it moved, targets and arms name no private one of another package,
\* names do not collide, and tools are given no header that they did not need.
THEOREM SplittingLoads == SplitSpec => []SplitLoads
<1>1. SplitInv => SplitLoads
  <2> SUFFICES ASSUME Emission, \A n \in SplitTargets : n \notin NeededBy(n),
                      OneHomeEach, ArmsAreLocal, NothingNewForTools, NamesStay, ToolsAreVisible, NamesApart
               PROVE  SplitPackagesLoad
    BY EmittedIs DEF SplitLoads
  <2>1. Settled
    BY DEF Settled
  <2>2. \A k \in DOMAIN split.rules : \A l \in References(split.rules[k]) : Usable(l, k[1])
    BY <2>1, EveryLabelUsable
  <2>3. \A k \in DOMAIN split.rules : \A o \in split.rules[k].outs :
          Inside(k[1], o) /\ <<k[1], o>> \notin DOMAIN split.rules
    BY <2>1, OutputsInside
  <2>4. \A k \in DOMAIN split.rules : ~OnCycle(k)
    BY <2>1, EveryRule, TargetsOnNoCycle, LibrariesOnNoCycle
  <2>5. DOMAIN BuiltFrom = DOMAIN split.rules
    BY BuildGraphs
  <2>6. QED
    BY <2>2, <2>3, <2>4, <2>5 DEF SplitPackagesLoad, OnCycle
<1>2. QED
  BY <1>1, SplitsKnown, PTL
===============================================================================
