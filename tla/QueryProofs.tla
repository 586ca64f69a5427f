---------------------------- MODULE QueryProofs ----------------------------
(***************************************************************************)
(* Proofs about the walks of the query tools: GraphWalk, ImportCycles and  *)
(* BarrelLeaves, each for every value of its constants.                    *)
(*                                                                         *)
(* A section comes first that they share: induction over the numbers, and  *)
(* the existence of what a recursive definition over them describes.       *)
(***************************************************************************)
EXTENDS MCQueries, SequenceTheorems, FiniteSetTheorems, WellFoundedInduction, TLAPS


----------------------------------------------------------------------------
(* Induction and recursion *)

\* A set of natural numbers that is not empty has a least element.
LEMMA LeastNat ==
  ASSUME NEW T \in SUBSET Nat, T # {}
  PROVE  \E m \in T : \A k \in T : m <= k
<1> DEFINE Less == {p \in Nat \X Nat : p[1] < p[2]}
<1>1. IsWellFoundedOn(Less, Nat)
  BY NatLessThanWellFounded DEF OpToRel
<1>2. \E x \in T : \A y \in T : ~ (<<y, x>> \in Less)
  BY <1>1, WFMin
<1>3. ASSUME NEW x \in T, NEW y \in T, ~ (<<y, x>> \in Less)
      PROVE  x <= y
  BY <1>3, SMT DEF Less
<1>4. QED
  <2>1. PICK x \in T : \A y \in T : ~ (<<y, x>> \in Less)
    BY <1>2
  <2>2. \A y \in T : x <= y
    BY <1>3, <2>1
  <2>3. QED
    BY <2>2

\* Induction over the numbers, with the property given as the set of those
\* that have it: the library's own rule takes the property as an operator.
LEMMA NatInductionSet ==
  ASSUME NEW G \in SUBSET Nat, 0 \in G, \A n \in G : n + 1 \in G
  PROVE  \A n \in Nat : n \in G
<1> SUFFICES ASSUME Nat \ G # {} PROVE FALSE
  OBVIOUS
<1>1. PICK m \in Nat \ G : \A k \in Nat \ G : m <= k
  BY LeastNat
<1>2. m # 0 /\ m - 1 \in Nat
  BY <1>1
<1>3. m - 1 \in G
  BY <1>1, <1>2
<1>4. (m - 1) + 1 = m
  BY <1>1
<1>5. QED
  BY <1>1, <1>3, <1>4

\* What a recursive definition over the numbers describes exists.
Steps(g, D, base, step) ==
    g[0] = base /\ \A n \in D : n + 1 \in D => g[n + 1] = step[g[n]]

\* The recursion up to a number, for every number.
LEMMA RecursionUpTo ==
  ASSUME NEW X, NEW base \in X, NEW step \in [X -> X]
  PROVE  \A n \in Nat : \E g \in [0..n -> X] : Steps(g, 0..n, base, step)
<1> DEFINE Good == {n \in Nat : \E g \in [0..n -> X] : Steps(g, 0..n, base, step)}
<1>1. 0 \in Good
  <2> DEFINE g == [i \in 0..0 |-> base]
  <2>1. g \in [0..0 -> X] /\ g[0] = base
    OBVIOUS
  <2>2. \A n \in 0..0 : n + 1 \notin 0..0
    OBVIOUS
  <2> HIDE DEF g
  <2>3. QED
    BY <2>1, <2>2 DEF Steps
<1>2. ASSUME NEW n \in Good PROVE n + 1 \in Good
  <2>1. n \in Nat /\ n + 1 \in Nat
    OBVIOUS
  <2>2. PICK g \in [0..n -> X] : Steps(g, 0..n, base, step)
    OBVIOUS
  <2> DEFINE h == [i \in 0..(n + 1) |-> IF i = n + 1 THEN step[g[n]] ELSE g[i]]
  <2>3. n \in 0..n /\ g[n] \in X /\ step[g[n]] \in X
    BY <2>1
  <2>4. h \in [0..(n + 1) -> X]
    BY <2>1, <2>3
  <2>5. h[0] = base
    BY <2>1, <2>2 DEF Steps
  <2>6. ASSUME NEW i \in 0..(n + 1), i + 1 \in 0..(n + 1)
        PROVE  h[i + 1] = step[h[i]]
    <3>1. i \in 0..n /\ h[i] = g[i]
      BY <2>1, <2>6
    <3>2. CASE i = n
      BY <2>1, <3>1, <3>2
    <3>3. CASE i # n
      <4>1. i + 1 \in 0..n /\ i + 1 # n + 1
        BY <2>1, <2>6, <3>3
      <4>2. h[i + 1] = g[i + 1]
        BY <2>6, <4>1
      <4>3. QED
        BY <2>2, <3>1, <4>1, <4>2 DEF Steps
    <3>4. QED
      BY <3>2, <3>3
  <2> HIDE DEF h
  <2>7. Steps(h, 0..(n + 1), base, step)
    BY <2>5, <2>6 DEF Steps
  <2>8. QED
    BY <2>1, <2>4, <2>7
<1> HIDE DEF Good
<1>3. \A n \in Nat : n \in Good
  <2>1. Good \in SUBSET Nat
    BY DEF Good
  <2>2. QED
    BY <1>1, <1>2, <2>1, NatInductionSet
<1>4. QED
  BY <1>3 DEF Good

\* Two such recursions agree as far as both go.
LEMMA RecursionUnique ==
  ASSUME NEW X, NEW base \in X, NEW step \in [X -> X],
         NEW n \in Nat, NEW m \in Nat, n <= m,
         NEW g, Steps(g, 0..n, base, step),
         NEW h, Steps(h, 0..m, base, step)
  PROVE  g[n] = h[n]
<1> DEFINE Good == {i \in Nat : i <= n => g[i] = h[i]}
<1>1. 0 \in Good
  BY DEF Steps
<1>2. ASSUME NEW i \in Good PROVE i + 1 \in Good
  <2>1. SUFFICES ASSUME i + 1 <= n PROVE g[i + 1] = h[i + 1]
    OBVIOUS
  <2>2. /\ i \in 0..n /\ i + 1 \in 0..n /\ i \in 0..m /\ i + 1 \in 0..m
        /\ g[i] = h[i]
    BY <2>1
  <2>3. QED
    BY <2>2 DEF Steps
<1> HIDE DEF Good
<1>3. \A i \in Nat : i \in Good
  <2>1. Good \in SUBSET Nat
    BY DEF Good
  <2>2. QED
    BY <1>1, <1>2, <2>1, NatInductionSet
<1>4. QED
  BY <1>3 DEF Good

\* The recursion over all numbers.
LEMMA NatRecursion ==
  ASSUME NEW X, NEW base \in X, NEW step \in [X -> X]
  PROVE  \E g \in [Nat -> X] : Steps(g, Nat, base, step)
<1> DEFINE UpTo(n) == CHOOSE g \in [0..n -> X] : Steps(g, 0..n, base, step)
<1>1. ASSUME NEW n \in Nat
      PROVE  UpTo(n) \in [0..n -> X] /\ Steps(UpTo(n), 0..n, base, step)
  BY RecursionUpTo
<1> DEFINE g == [n \in Nat |-> UpTo(n)[n]]
<1> HIDE DEF UpTo
<1>2. ASSUME NEW n \in Nat PROVE UpTo(n)[n] \in X
  <2>1. n \in 0..n
    OBVIOUS
  <2>2. QED
    BY <1>1, <2>1
<1>3. g \in [Nat -> X]
  BY <1>2
<1>4. g[0] = base
  BY <1>1 DEF Steps
<1>5. ASSUME NEW n \in Nat PROVE g[n + 1] = step[g[n]]
  <2>1. n + 1 \in Nat /\ n <= n + 1 /\ n \in 0..(n + 1) /\ n + 1 \in 0..(n + 1)
    OBVIOUS
  <2>2. Steps(UpTo(n), 0..n, base, step) /\ Steps(UpTo(n + 1), 0..(n + 1), base, step)
    BY <1>1, <2>1
  <2>3. UpTo(n)[n] = UpTo(n + 1)[n]
    BY <2>1, <2>2, RecursionUnique
  <2>4. UpTo(n + 1)[n + 1] = step[UpTo(n + 1)[n]]
    BY <2>1, <2>2 DEF Steps
  <2>5. QED
    BY <2>1, <2>3, <2>4
<1> HIDE DEF g
<1>6. Steps(g, Nat, base, step)
  BY <1>4, <1>5 DEF Steps
<1>7. QED
  BY <1>3, <1>6

\* A recursion's value at the next number.
LEMMA StepsNext ==
  ASSUME NEW g, NEW base, NEW step, Steps(g, Nat, base, step)
  PROVE  g[0] = base /\ \A n \in Nat : g[n + 1] = step[g[n]]
BY DEF Steps

\* An enumeration of a finite set has every element of it.
LEMMA SetToSeqsIs ==
  ASSUME NEW S, IsFiniteSet(S), NEW q \in SetToSeqs(S)
  PROVE  /\ q \in Seq(S) /\ Len(q) = Cardinality(S) /\ DOMAIN q = 1..Len(q)
         /\ \A x \in S : \E i \in DOMAIN q : q[i] = x
<1> DEFINE n == Cardinality(S)
<1>1. n \in Nat /\ IsFiniteSet(1..n) /\ Cardinality(1..n) = n
  BY FS_CardinalityType, FS_Interval
<1>2. q \in [1..n -> S] /\ \A i, j \in 1..n : i # j => q[i] # q[j]
  BY DEF SetToSeqs
<1>3. q \in Injection(1..n, S)
  BY <1>2 DEF Injection, IsInjective
<1>4. q \in Surjection(1..n, S)
  BY <1>1, <1>3, FS_Injection
<1>5. q \in Seq(S) /\ Len(q) = n /\ DOMAIN q = 1..n
  BY <1>1, <1>2
<1>6. \A x \in S : \E i \in 1..n : q[i] = x
  BY <1>4 DEF Surjection
<1>7. QED
  BY <1>5, <1>6

\* What one sequence followed by another has where.
Joined(S, T, p, q, k, r) ==
    /\ r \in Seq(S \cup T) /\ Len(r) = k + Len(q)
    /\ k \in Nat /\ Len(q) \in Nat
    /\ DOMAIN p = 1..k /\ DOMAIN q = 1..Len(q) /\ DOMAIN r = 1..(k + Len(q))
    /\ \A i \in 1..k : i \in DOMAIN r /\ r[i] = p[i]
    /\ \A i \in 1..Len(q) : k + i \in DOMAIN r /\ r[k + i] = q[i]
    /\ \A i \in DOMAIN r : i \notin 1..k => i - k \in 1..Len(q) /\ r[i] = q[i - k]

\* A concatenation, by positions: the first sequence and then the second.
LEMMA Concatenated ==
  ASSUME NEW S, NEW T, NEW p \in Seq(S), NEW q \in Seq(T)
  PROVE  Joined(S, T, p, q, Len(p), p \o q)
<1> DEFINE k == Len(p)
<1>1. p \in Seq(S \cup T) /\ q \in Seq(S \cup T)
  OBVIOUS
<1>2. k \in Nat /\ Len(q) \in Nat /\ Len(p) = k
  OBVIOUS
<1>3. p \o q \in Seq(S \cup T) /\ Len(p \o q) = k + Len(q)
  BY <1>1, <1>2
<1>4. DOMAIN p = 1..k /\ DOMAIN q = 1..Len(q) /\ DOMAIN (p \o q) = 1..(k + Len(q))
  BY <1>1, <1>2, <1>3
<1>5. \A i \in 1..(k + Len(q)) : (p \o q)[i] = IF i <= k THEN p[i] ELSE q[i - k]
  BY <1>1, <1>2
<1>6. ASSUME NEW i \in 1..k PROVE i \in 1..(k + Len(q)) /\ (p \o q)[i] = p[i]
  BY <1>2, <1>5
<1>7. ASSUME NEW i \in 1..Len(q) PROVE k + i \in 1..(k + Len(q)) /\ (p \o q)[k + i] = q[i]
  <2>1. k + i \in 1..(k + Len(q)) /\ ~ (k + i <= k) /\ (k + i) - k = i
    BY <1>2
  <2>2. QED
    BY <1>5, <2>1
<1>8. ASSUME NEW i \in 1..(k + Len(q)), i \notin 1..k
      PROVE  i - k \in 1..Len(q) /\ (p \o q)[i] = q[i - k]
  <2>1. i - k \in 1..Len(q) /\ ~ (i <= k)
    BY <1>2, <1>8
  <2>2. QED
    BY <1>5, <2>1
<1>9. QED
  BY <1>2, <1>3, <1>4, <1>6, <1>7, <1>8 DEF Joined

----------------------------------------------------------------------------
(* The bounded walks *)

\* What is within k steps of the roots, by the recursion of the property.
Near(W) ==
    /\ W \in [Nat -> SUBSET Nodes]
    /\ W[0] = roots
    /\ \A k \in Nat, m \in Nodes :
         m \in W[k + 1] <=> m \in W[k] \/ \E n \in W[k] : m \in Adjacent(n)

\* What a walk finds next to a node are nodes.
LEMMA AdjacentNodes == \A n : Adjacent(n) \in SUBSET Nodes
BY DEF Adjacent, Imports

\* The recursive function of the properties is that sequence of sets.
LEMMA WithinIsNear ==
  ASSUME roots \in SUBSET Nodes
  PROVE  Near(Within)
<1> DEFINE step == [S \in SUBSET Nodes |-> S \cup UNION {Adjacent(n) : n \in S}]
<1>1. step \in [SUBSET Nodes -> SUBSET Nodes]
  BY AdjacentNodes
<1>2. PICK g \in [Nat -> SUBSET Nodes] : Steps(g, Nat, roots, step)
  <2> HIDE DEF step
  <2>1. QED
    BY <1>1, NatRecursion
<1> HIDE DEF step
<1>a. g[0] = roots /\ \A i \in Nat : g[i + 1] = step[g[i]]
  BY <1>2, StepsNext
<1>b. \A S \in SUBSET Nodes : step[S] = S \cup UNION {Adjacent(n) : n \in S}
  BY DEF step
<1>c. \A i \in Nat : g[i] \in SUBSET Nodes
                     /\ g[i + 1] = g[i] \cup UNION {Adjacent(n) : n \in g[i]}
  BY <1>2, <1>a, <1>b
<1> DEFINE Rec(f) == f = [k \in Nat |-> IF k = 0 THEN roots
                            ELSE LET near == f[k - 1]
                                 IN  near \cup UNION {Adjacent(n) : n \in near}]
<1>3. Rec(g)
  <2>1. ASSUME NEW k \in Nat
        PROVE  g[k] = IF k = 0 THEN roots
                      ELSE g[k - 1] \cup UNION {Adjacent(n) : n \in g[k - 1]}
    <3>1. CASE k = 0
      BY <1>a, <3>1
    <3>2. CASE k # 0
      <4>1. k - 1 \in Nat /\ (k - 1) + 1 = k
        BY <3>2
      <4>2. g[(k - 1) + 1] = g[k - 1] \cup UNION {Adjacent(n) : n \in g[k - 1]}
        BY <4>1, <1>c
      <4>3. QED
        BY <3>2, <4>1, <4>2
    <3>3. QED
      BY <3>1, <3>2
  <2>2. QED
    BY <1>2, <2>1
<1>4. Within = CHOOSE f : Rec(f)
  BY Zenon DEF Within
<1>5. Rec(Within)
  <2> HIDE DEF Rec
  <2>1. QED
    BY <1>3, <1>4
<1>6. Within = g
  <2>1. ASSUME NEW k \in Nat
        PROVE  Within[k] = IF k = 0 THEN roots
                           ELSE Within[k - 1] \cup UNION {Adjacent(n) : n \in Within[k - 1]}
    BY <1>5
  <2> DEFINE Same == {k \in Nat : Within[k] = g[k]}
  <2>2. 0 \in Same
    BY <2>1, <1>a
  <2>3. ASSUME NEW k \in Same PROVE k + 1 \in Same
    <3>1. k + 1 \in Nat /\ k + 1 # 0 /\ (k + 1) - 1 = k /\ g[k] \in SUBSET Nodes
          /\ Within[k] = g[k]
      BY <1>2
    <3>2. g[k + 1] = g[k] \cup UNION {Adjacent(n) : n \in g[k]}
      BY <1>c, <3>1
    <3>3. Within[k + 1] = g[k] \cup UNION {Adjacent(n) : n \in g[k]}
      BY <2>1, <3>1
    <3>4. QED
      BY <3>1, <3>2, <3>3
  <2> HIDE DEF Same
  <2>4. \A k \in Nat : k \in Same
    <3>1. Same \in SUBSET Nat
      BY DEF Same
    <3>2. QED
      BY <2>2, <2>3, <3>1, NatInductionSet
  <2>5. \A k \in Nat : Within[k] = g[k]
    BY <2>4 DEF Same
  <2>6. Within = [k \in Nat |-> Within[k]]
    BY <1>5
  <2>7. QED
    BY <2>5, <2>6, <1>2
<1>7. ASSUME NEW k \in Nat, NEW m \in Nodes
      PROVE  m \in g[k + 1] <=> m \in g[k] \/ \E n \in g[k] : m \in Adjacent(n)
  BY <1>c
<1>8. QED
  BY <1>2, <1>6, <1>7, <1>a DEF Near

\* A node waits to be expanded.
Waits(n) == \E i \in DOMAIN work : work[i] = n

\* The nodes found, with their depths, and what has been done with those that
\* do not wait any more: in every walk.
Walked ==
    /\ kind = "none" => found = {} /\ work = <<>> /\ depth = [n \in Nodes |-> 0]
    /\ \A n \in roots : depth[n] = 0
    /\ \A n \in found : depth[n] <= limit
    /\ \A n \in found : \A d \in 0..depth[n] : \E m \in found : depth[m] = d
    /\ \A n \in found : ~Waits(n) /\ depth[n] < limit => Adjacent(n) \subseteq found
    /\ \A W : Near(W) => \A n \in found : n \in W[depth[n]]

\* A queue has nodes of one depth and then of the next, no less deep than those
\* that have left it.
Queue ==
    kind # "impact" =>
      /\ \A i, j \in DOMAIN work :
           /\ i <= j => depth[work[i]] <= depth[work[j]]
           /\ depth[work[j]] <= depth[work[i]] + 1
      /\ \A n \in found : ~Waits(n) => \A i \in DOMAIN work : depth[n] <= depth[work[i]]
      /\ \A n \in found : ~Waits(n) /\ depth[n] < limit =>
           \A m \in Adjacent(n) : m \in found /\ depth[m] <= depth[n] + 1

WalkInv == WalkTypeOK /\ Walked /\ Queue

\* The types, as facts about single nodes.
LEMMA WalkTyped ==
  ASSUME WalkTypeOK
  PROVE  /\ IsFiniteSet(Nodes) /\ Unlimited \in Nat /\ limit \in Nat
         /\ found \in SUBSET Nodes /\ roots \in SUBSET found
         /\ depth \in [Nodes -> Nat]
         /\ work \in Seq(found) /\ Len(work) \in Nat /\ DOMAIN work = 1..Len(work)
         /\ \A i \in DOMAIN work : work[i] \in found
<1>1. IsFiniteSet(Nodes) /\ Unlimited \in Nat
  BY WalkAssumption, FS_CardinalityType DEF Unlimited
<1>2. limit \in Nat
  BY <1>1, WalkAssumption DEF WalkTypeOK
<1>3. depth \in [Nodes -> Nat]
  BY <1>1 DEF WalkTypeOK
<1>4. QED
  BY <1>1, <1>2, <1>3 DEF WalkTypeOK

\* A list that loses its first or last element.
Rest(q, n) == IF n = q[1] THEN Tail(q) ELSE Front(q)

Shortened(S, q, n, r) ==
    /\ r \in Seq(S) /\ Len(r) = Len(q) - 1 /\ Len(q) \in Nat \ {0}
    /\ \A i \in 1..(Len(q) - 1) : \E j \in DOMAIN q : r[i] = q[j]
    /\ n = q[1] => \A i \in 1..(Len(q) - 1) : r[i] = q[i + 1]
    /\ \A j \in DOMAIN q : q[j] = n \/ \E i \in 1..(Len(q) - 1) : r[i] = q[j]

\* A queue that loses its first element, or a stack its last, by positions.
LEMMA RestIs ==
  ASSUME NEW S, NEW q \in Seq(S), q # <<>>, NEW n \in {q[1], q[Len(q)]}
  PROVE  Shortened(S, q, n, Rest(q, n))
<1>1. Len(q) \in Nat \ {0} /\ DOMAIN q = 1..Len(q)
  BY EmptySeq
<1>2. CASE n = q[1]
  <2>1. /\ Rest(q, n) = Tail(q) /\ Tail(q) \in Seq(S) /\ Len(Tail(q)) = Len(q) - 1
        /\ \A i \in 1..(Len(q) - 1) : Tail(q)[i] = q[i + 1]
    BY <1>1, <1>2 DEF Rest
  <2>2. \A j \in DOMAIN q : q[j] = n \/ \E i \in 1..(Len(q) - 1) : Tail(q)[i] = q[j]
    <3>1. SUFFICES ASSUME NEW j \in DOMAIN q, q[j] # n
                   PROVE  \E i \in 1..(Len(q) - 1) : Tail(q)[i] = q[j]
      OBVIOUS
    <3>2. j # 1 /\ j - 1 \in 1..(Len(q) - 1) /\ (j - 1) + 1 = j
      BY <1>1, <1>2, <3>1
    <3>3. QED
      BY <2>1, <3>2
  <2>3. \A i \in 1..(Len(q) - 1) : i + 1 \in DOMAIN q
    BY <1>1
  <2>4. QED
    BY <1>1, <1>2, <2>1, <2>2, <2>3 DEF Shortened
<1>3. CASE n # q[1]
  <2>1. /\ Rest(q, n) = SubSeq(q, 1, Len(q) - 1) /\ n = q[Len(q)]
    BY <1>3 DEF Rest, Front
  <2>2. /\ SubSeq(q, 1, Len(q) - 1) \in Seq(S)
        /\ Len(SubSeq(q, 1, Len(q) - 1)) = Len(q) - 1
        /\ \A i \in 1..(Len(q) - 1) : SubSeq(q, 1, Len(q) - 1)[i] = q[i]
    BY <1>1
  <2>3. \A j \in DOMAIN q : q[j] = n \/ j \in 1..(Len(q) - 1)
    BY <1>1, <2>1
  <2>4. 1..(Len(q) - 1) \subseteq DOMAIN q
    BY <1>1
  <2>5. QED
    BY <1>1, <1>3, <2>1, <2>2, <2>3, <2>4 DEF Shortened
<1>4. QED
  BY <1>2, <1>3

\* One turn of a walk: n leaves the list, and new ones are found and join it.
Turn(n, new) ==
    /\ n \in found /\ Waits(n)
    /\ new = IF depth[n] < limit THEN Adjacent(n) \ found ELSE {}
    /\ found' = found \cup new
    /\ depth' = [m \in Nodes |-> IF m \in new THEN depth[n] + 1 ELSE depth[m]]
    /\ work' \in Seq(found \cup new) /\ Len(work') \in Nat /\ DOMAIN work' = 1..Len(work')
    /\ \A x \in found : Waits(x) => x = n \/ Waits(x)'
    /\ \A x \in new : Waits(x)'
    /\ kind # "impact" =>
         /\ DOMAIN work # {} /\ work[1] = n
         /\ \A i \in DOMAIN work' : \/ i + 1 \in DOMAIN work /\ work'[i] = work[i + 1]
                                    \/ i \notin 1..(Len(work) - 1) /\ work'[i] \in new

\* Whatever the order in which a walk finds the neighbours, it takes one turn.
LEMMA PopIsTurn ==
  ASSUME WalkTypeOK, Pop
  PROVE  \E n, new : Turn(n, new)
<1> DEFINE n == Taken
           rest == Rest(work, n)
           new == IF depth[n] < limit THEN Adjacent(n) \ found ELSE {}
<1>1. PICK order \in SetToSeqs(new) :
        /\ work' = rest \o order
        /\ found' = found \cup new
        /\ depth' = [m \in Nodes |-> IF m \in new THEN depth[n] + 1 ELSE depth[m]]
  BY Zenon DEF Pop, Expands, Rest
<1>2. /\ work # <<>> /\ work \in Seq(found) /\ Len(work) \in Nat \ {0}
      /\ DOMAIN work = 1..Len(work)
      /\ found \in SUBSET Nodes
  BY WalkTyped, EmptySeq DEF Pop
<1>3. /\ n = work[1] \/ n = work[Len(work)]
      /\ kind # "impact" => n = work[1]
      /\ n \in found /\ Waits(n)
  BY <1>2 DEF Taken, Waits
<1>4. IsFiniteSet(new)
  <2>1. new \in SUBSET Nodes
    BY AdjacentNodes
  <2>2. QED
    BY <2>1, WalkTyped, FS_Subset
<1> HIDE DEF n, new, rest
<1> DEFINE k == Len(work) - 1
<1>5. /\ rest \in Seq(found) /\ Len(rest) = k /\ k \in Nat
      /\ \A i \in 1..k : \E j \in DOMAIN work : rest[i] = work[j]
      /\ n = work[1] => \A i \in 1..k : rest[i] = work[i + 1]
      /\ \A j \in DOMAIN work : work[j] = n \/ \E i \in 1..k : rest[i] = work[j]
  <2>1. Shortened(found, work, n, rest)
    BY <1>2, <1>3, RestIs DEF rest
  <2>2. k \in Nat
    BY <1>2
  <2>3. QED
    BY <2>1, <2>2 DEF Shortened
<1>6. /\ order \in Seq(new) /\ Len(order) \in Nat
      /\ \A x \in new : \E i \in 1..Len(order) : order[i] = x
      /\ \A i \in 1..Len(order) : order[i] \in new
  BY <1>1, <1>4, SetToSeqsIs
<1>7. \A i \in 1..k : i + 1 \in DOMAIN work
  BY <1>2
<1>8. k = Len(rest)
  BY <1>5
<1> HIDE DEF k
<1>9. /\ work' \in Seq(found \cup new) /\ Len(work') = k + Len(order)
      /\ DOMAIN work' = 1..(k + Len(order))
      /\ \A i \in 1..k : i \in DOMAIN work' /\ work'[i] = rest[i]
      /\ \A i \in 1..Len(order) : k + i \in DOMAIN work' /\ work'[k + i] = order[i]
      /\ \A i \in DOMAIN work' : i \notin 1..k =>
           i - k \in 1..Len(order) /\ work'[i] = order[i - k]
  <2>1. Joined(found, new, rest, order, k, work')
    BY <1>1, <1>5, <1>6, <1>8, Concatenated
  <2>2. QED
    BY <2>1 DEF Joined
<1>10. ASSUME NEW x \in found, Waits(x), x # n
       PROVE  Waits(x)'
  <2>1. PICK j \in DOMAIN work : work[j] = x
    BY <1>10 DEF Waits
  <2>2. PICK i \in 1..k : rest[i] = x
    BY <1>5, <1>10, <2>1
  <2>3. i \in DOMAIN work' /\ work'[i] = x
    BY <1>9, <2>2
  <2>4. QED
    BY <2>3 DEF Waits
<1>11. ASSUME NEW x \in new PROVE Waits(x)'
  <2>1. PICK i \in 1..Len(order) : order[i] = x
    BY <1>6
  <2>2. k + i \in DOMAIN work' /\ work'[k + i] = x
    BY <1>9, <2>1
  <2>3. QED
    BY <2>2 DEF Waits
<1>12. ASSUME kind # "impact", NEW i \in DOMAIN work'
       PROVE  \/ i + 1 \in DOMAIN work /\ work'[i] = work[i + 1]
              \/ i \notin 1..(Len(work) - 1) /\ work'[i] \in new
  <2>1. CASE i \in 1..k
    BY <1>3, <1>5, <1>7, <1>9, <1>12, <2>1
  <2>2. CASE i \notin 1..k
    <3>1. i - k \in 1..Len(order) /\ work'[i] = order[i - k]
      BY <1>9, <2>2
    <3>2. QED
      BY <1>6, <2>2, <3>1 DEF k
  <2>3. QED
    BY <2>1, <2>2
<1>13. kind # "impact" => DOMAIN work # {} /\ work[1] = n
  BY <1>2, <1>3
<1>14. Turn(n, new)
  <2>1. new = IF depth[n] < limit THEN Adjacent(n) \ found ELSE {}
    BY DEF new
  <2>2. Len(work') \in Nat /\ DOMAIN work' = 1..Len(work')
    BY <1>5, <1>6, <1>9
  <2>3. QED
    BY <1>1, <1>3, <1>9, <1>10, <1>11, <1>12, <1>13, <2>1, <2>2 DEF Turn
<1>15. QED
  BY <1>14

\* A set of nodes whose depths leave no gap: the greatest of them is less than
\* the number of nodes.
LEMMA DepthBounded ==
  ASSUME NEW F \in SUBSET Nodes, NEW e \in [Nodes -> Nat], NEW n \in F,
         \A d \in 0..e[n] : \E m \in F : e[m] = d
  PROVE  e[n] + 1 <= Unlimited
<1>1. IsFiniteSet(F) /\ Cardinality(F) <= Unlimited /\ Unlimited \in Nat
      /\ Cardinality(F) \in Nat
  BY WalkAssumption, FS_Subset, FS_CardinalityType DEF Unlimited
<1> DEFINE D == 0..e[n]
           f == [m \in F |-> IF e[m] \in D THEN e[m] ELSE 0]
<1>2. e[n] \in Nat
  OBVIOUS
<1>3. f \in [F -> D]
  BY <1>2
<1>4. ASSUME NEW d \in D PROVE \E m \in F : f[m] = d
  OBVIOUS
<1>5. f \in Surjection(F, D)
  BY <1>3, <1>4 DEF Surjection
<1>6. Cardinality(D) <= Cardinality(F)
  <2> HIDE DEF f, D
  <2>1. QED
    BY <1>1, <1>5, FS_Surjection
<1>7. Cardinality(D) = e[n] + 1
  BY <1>2, FS_Interval
<1>8. QED
  BY <1>1, <1>2, <1>6, <1>7

\* Before a call nothing is found and no work is left.
LEMMA WalkInitInv == WalkInit => WalkInv
<1> SUFFICES ASSUME WalkInit PROVE WalkInv
  OBVIOUS
<1>1. Unlimited \in Nat /\ MaxDepth \in Nat
  BY WalkAssumption, FS_CardinalityType DEF Unlimited
<1>2. WalkTypeOK
  BY <1>1 DEF WalkInit, WalkTypeOK
<1>3. Walked
  BY DEF WalkInit, Walked
<1>4. Queue
  BY DEF WalkInit, Queue
<1>5. QED
  BY <1>2, <1>3, <1>4 DEF WalkInv

\* A walk starts with its roots in the list, in any order.
LEMMA AskInv ==
  ASSUME WalkInv, NEW k \in {"levels", "impact", "live"}, NEW starts \in SUBSET Nodes,
         NEW l \in Nat, l \in 0..MaxDepth \cup {Unlimited}, Ask(k, starts, l)
  PROVE  WalkInv'
<1>1. /\ kind = "none" /\ found = {} /\ work = <<>> /\ depth = [n \in Nodes |-> 0]
      /\ kind' = k /\ roots' = starts /\ limit' = l /\ found' = starts /\ depth' = depth
      /\ edges' \in SUBSET (Nodes \X Nodes)
      /\ work' \in SetToSeqs(starts)
  BY DEF WalkInv, Walked, Ask
<1>2. IsFiniteSet(starts) /\ Unlimited \in Nat
  BY WalkAssumption, FS_Subset, FS_CardinalityType DEF Unlimited
<1>3. /\ work' \in Seq(starts)
      /\ \A x \in starts : \E i \in DOMAIN work' : work'[i] = x
  BY <1>1, <1>2, SetToSeqsIs
<1>4. WalkTypeOK'
  BY <1>1, <1>2, <1>3 DEF WalkTypeOK, Unlimited
<1>5. \A n \in starts : Waits(n)'
  BY <1>3 DEF Waits
<1>6. \A n \in Nodes : depth'[n] = 0
  BY <1>1
<1>7. Walked'
  <2>1. kind' # "none"
    BY <1>1
  <2>2. \A n \in found' : \A d \in 0..depth'[n] : \E m \in found' : depth'[m] = d
    BY <1>1, <1>6
  <2>3. ASSUME NEW W, Near(W)', NEW n \in found' PROVE n \in W[depth'[n]]
    BY <1>1, <1>6, <2>3 DEF Near
  <2>4. /\ \A n \in roots' : depth'[n] = 0
        /\ \A n \in found' : depth'[n] <= limit'
    BY <1>1, <1>6
  <2>5. \A n \in found' : Waits(n)'
    BY <1>1, <1>5
  <2>6. QED
    BY <2>1, <2>2, <2>3, <2>4, <2>5 DEF Walked
<1>8. Queue'
  <2>1. \A i \in DOMAIN work' : depth'[work'[i]] = 0
    <3>1. \A i \in DOMAIN work' : work'[i] \in Nodes
      BY <1>3
    <3>2. QED
      BY <1>6, <3>1
  <2>2. \A n \in found' : Waits(n)'
    BY <1>1, <1>5
  <2>3. QED
    BY <2>1, <2>2 DEF Queue
<1>9. QED
  BY <1>4, <1>7, <1>8 DEF WalkInv

\* The turn of a walk keeps the types: no depth exceeds the number of nodes.
LEMMA TurnType ==
  ASSUME WalkInv, NEW n, NEW new, Turn(n, new), UNCHANGED <<kind, edges, roots, limit>>
  PROVE  WalkTypeOK' /\ new \in SUBSET Nodes
<1>1. /\ WalkTypeOK /\ n \in found /\ found \in SUBSET Nodes /\ depth \in [Nodes -> Nat]
      /\ Unlimited \in Nat
  BY WalkTyped DEF WalkInv, Turn
<1>2. new \in SUBSET Nodes
  BY AdjacentNodes DEF Turn
<1>3. depth[n] + 1 <= Unlimited
  <2>1. \A d \in 0..depth[n] : \E m \in found : depth[m] = d
    BY <1>1 DEF WalkInv, Walked
  <2>2. QED
    BY <1>1, <2>1, DepthBounded
<1>4. depth' \in [Nodes -> 0..Unlimited]
  <2>1. depth \in [Nodes -> 0..Unlimited] /\ depth[n] + 1 \in 0..Unlimited
    BY <1>1, <1>3 DEF WalkTypeOK
  <2>2. depth' = [m \in Nodes |-> IF m \in new THEN depth[n] + 1 ELSE depth[m]]
    BY DEF Turn
  <2>3. QED
    BY <2>1, <2>2
<1>5. QED
  BY <1>1, <1>2, <1>4 DEF Turn, WalkTypeOK, Unlimited

\* The depths after a turn.
LEMMA TurnDepths ==
  ASSUME WalkInv, NEW n, NEW new, Turn(n, new), UNCHANGED <<kind, edges, roots, limit>>
  PROVE  /\ n \in found /\ found \in SUBSET Nodes /\ new \in SUBSET Nodes
         /\ \A m \in found : m \notin new /\ depth'[m] = depth[m] /\ depth[m] \in Nat
         /\ \A m \in new : depth'[m] = depth[n] + 1 /\ depth[n] < limit /\ m \in Adjacent(n)
         /\ found' = found \cup new /\ limit \in Nat
         /\ depth[n] < limit => Adjacent(n) \subseteq found \cup new
         /\ \A m : Adjacent(m)' = Adjacent(m)
<1>1. /\ WalkTypeOK /\ n \in found /\ found \in SUBSET Nodes /\ depth \in [Nodes -> Nat]
      /\ limit \in Nat
  BY WalkTyped DEF WalkInv, Turn
<1>2. new \in SUBSET Nodes
  BY TurnType
<1>3. /\ depth' = [m \in Nodes |-> IF m \in new THEN depth[n] + 1 ELSE depth[m]]
      /\ new = IF depth[n] < limit THEN Adjacent(n) \ found ELSE {}
      /\ found' = found \cup new
  BY DEF Turn
<1>4. \A m : Adjacent(m)' = Adjacent(m)
  BY DEF Adjacent, Imports
<1>5. QED
  BY <1>1, <1>2, <1>3, <1>4

\* A turn of any walk keeps this: what is found is within its recorded distance,
\* and all neighbours of what was taken up are found.
LEMMA TurnWalked ==
  ASSUME WalkInv, NEW n, NEW new, Turn(n, new), UNCHANGED <<kind, edges, roots, limit>>
  PROVE  Walked'
<1>1. /\ n \in found /\ found \in SUBSET Nodes /\ new \in SUBSET Nodes
      /\ \A m \in found : m \notin new /\ depth'[m] = depth[m] /\ depth[m] \in Nat
      /\ \A m \in new : depth'[m] = depth[n] + 1 /\ depth[n] < limit /\ m \in Adjacent(n)
      /\ found' = found \cup new /\ limit \in Nat
      /\ depth[n] < limit => Adjacent(n) \subseteq found \cup new
      /\ \A m : Adjacent(m)' = Adjacent(m)
  BY TurnDepths
<1>2. Walked /\ WalkTypeOK
  BY DEF WalkInv
<1>3. kind' # "none"
  BY <1>1, <1>2 DEF Walked
<1>4. \A m \in roots' : depth'[m] = 0
  BY <1>1, <1>2 DEF Walked, WalkTypeOK
<1>5. ASSUME NEW m \in found' PROVE depth'[m] <= limit'
  <2>1. CASE m \in found
    BY <1>1, <1>2, <2>1 DEF Walked
  <2>2. CASE m \in new
    BY <1>1, <2>2
  <2>3. QED
    BY <1>1, <2>1, <2>2
<1>6. ASSUME NEW m \in found', NEW d \in 0..depth'[m]
      PROVE  \E o \in found' : depth'[o] = d
  <2>1. ASSUME NEW x \in found, d \in 0..depth[x] PROVE \E o \in found' : depth'[o] = d
    <3>1. PICK o \in found : depth[o] = d
      BY <1>2, <2>1 DEF Walked
    <3>2. QED
      BY <1>1, <3>1
  <2>2. CASE m \in found
    BY <1>1, <2>1, <2>2
  <2>3. CASE m \in new
    <3>1. d = depth[n] + 1 \/ d \in 0..depth[n]
      BY <1>1, <2>3
    <3>2. QED
      BY <1>1, <2>1, <2>3, <3>1
  <2>4. QED
    BY <1>1, <2>2, <2>3
<1>7. ASSUME NEW m \in found', ~Waits(m)', depth'[m] < limit'
      PROVE  Adjacent(m)' \subseteq found'
  <2>1. m \in found
    BY <1>1, <1>7 DEF Turn
  <2>2. m = n \/ ~Waits(m)
    BY <1>7, <2>1 DEF Turn
  <2>3. CASE m = n
    BY <1>1, <1>7, <2>3
  <2>4. CASE ~Waits(m)
    BY <1>1, <1>2, <1>7, <2>1, <2>4 DEF Walked
  <2>5. QED
    BY <2>2, <2>3, <2>4
<1>8. ASSUME NEW W, Near(W)', NEW m \in found' PROVE m \in W[depth'[m]]
  <2>1. Near(W)
    BY <1>1, <1>8 DEF Near
  <2>2. CASE m \in found
    BY <1>1, <1>2, <2>1, <2>2 DEF Walked
  <2>3. CASE m \in new
    <3>1. n \in W[depth[n]] /\ depth[n] \in Nat /\ m \in Nodes
      BY <1>1, <1>2, <2>1, <2>3 DEF Walked
    <3>2. m \in W[depth[n] + 1]
      BY <1>1, <2>1, <2>3, <3>1 DEF Near
    <3>3. QED
      BY <1>1, <2>3, <3>2
  <2>4. QED
    BY <1>1, <2>2, <2>3
<1>9. QED
  BY <1>3, <1>4, <1>5, <1>6, <1>7, <1>8 DEF Walked

\* A turn of a walk with a queue keeps this: the distances in the queue grow, by one
\* at most, and the neighbours of what has left it are found no further than one on.
LEMMA TurnQueue ==
  ASSUME WalkInv, NEW n, NEW new, Turn(n, new), UNCHANGED <<kind, edges, roots, limit>>
  PROVE  Queue'
<1> SUFFICES ASSUME kind # "impact" PROVE Queue'
  BY DEF Queue
<1>1. /\ n \in found /\ found \in SUBSET Nodes /\ new \in SUBSET Nodes
      /\ \A m \in found : m \notin new /\ depth'[m] = depth[m] /\ depth[m] \in Nat
      /\ \A m \in new : depth'[m] = depth[n] + 1 /\ depth[n] < limit /\ m \in Adjacent(n)
      /\ found' = found \cup new /\ limit \in Nat
      /\ depth[n] < limit => Adjacent(n) \subseteq found \cup new
      /\ \A m : Adjacent(m)' = Adjacent(m)
  BY TurnDepths
<1>2. /\ \A i, j \in DOMAIN work : /\ i <= j => depth[work[i]] <= depth[work[j]]
                                   /\ depth[work[j]] <= depth[work[i]] + 1
      /\ \A m \in found : ~Waits(m) => \A i \in DOMAIN work : depth[m] <= depth[work[i]]
      /\ \A m \in found : ~Waits(m) /\ depth[m] < limit =>
           \A x \in Adjacent(m) : x \in found /\ depth[x] <= depth[m] + 1
  BY DEF WalkInv, Queue
<1>3. /\ Len(work) \in Nat /\ DOMAIN work = 1..Len(work)
      /\ \A i \in DOMAIN work : work[i] \in found
      /\ Len(work') \in Nat /\ DOMAIN work' = 1..Len(work')
      /\ 1 \in DOMAIN work /\ work[1] = n
  BY WalkTyped DEF WalkInv, Turn
<1>4. \A i \in DOMAIN work' : \/ i + 1 \in DOMAIN work /\ work'[i] = work[i + 1]
                              \/ i \notin 1..(Len(work) - 1) /\ work'[i] \in new
  BY DEF Turn
<1>5. ASSUME NEW i \in DOMAIN work
      PROVE  /\ depth[work[i]] \in Nat /\ depth[n] \in Nat /\ work[i] \in found
             /\ depth[n] <= depth[work[i]] /\ depth[work[i]] <= depth[n] + 1
             /\ depth'[work[i]] = depth[work[i]]
  BY <1>1, <1>2, <1>3
<1>6. ASSUME NEW i \in DOMAIN work'
      PROVE  /\ i \in Nat /\ work'[i] \in found'
             /\ \/ /\ i + 1 \in DOMAIN work /\ work'[i] = work[i + 1]
                   /\ depth'[work'[i]] = depth[work[i + 1]]
                \/ i \notin 1..(Len(work) - 1) /\ depth'[work'[i]] = depth[n] + 1
             /\ depth'[work'[i]] \in Nat /\ depth[n] \in Nat
             /\ depth[n] <= depth'[work'[i]] /\ depth'[work'[i]] <= depth[n] + 1
  <2>1. i \in Nat
    BY <1>3
  <2>2. CASE i + 1 \in DOMAIN work /\ work'[i] = work[i + 1]
    BY <1>1, <1>5, <2>1, <2>2
  <2>3. CASE i \notin 1..(Len(work) - 1) /\ work'[i] \in new
    BY <1>1, <2>1, <2>3
  <2>4. QED
    BY <1>4, <2>2, <2>3
<1>7. ASSUME NEW i \in DOMAIN work', NEW j \in DOMAIN work', i <= j
      PROVE  depth'[work'[i]] <= depth'[work'[j]]
  <2>1. CASE i + 1 \in DOMAIN work /\ work'[i] = work[i + 1]
    <3>1. CASE j + 1 \in DOMAIN work /\ work'[j] = work[j + 1]
      <4>1. i + 1 <= j + 1
        BY <1>6, <1>7
      <4>2. depth[work[i + 1]] <= depth[work[j + 1]]
        BY <1>2, <2>1, <3>1, <4>1
      <4>3. QED
        BY <1>5, <2>1, <3>1, <4>2
    <3>2. CASE depth'[work'[j]] = depth[n] + 1
      BY <1>6, <3>2
    <3>3. QED
      BY <1>6, <3>1, <3>2
  <2>2. CASE i \notin 1..(Len(work) - 1) /\ depth'[work'[i]] = depth[n] + 1
    <3>1. j \notin 1..(Len(work) - 1)
      BY <1>3, <1>6, <1>7, <2>2
    <3>2. j + 1 \notin DOMAIN work
      BY <1>3, <3>1, <1>6
    <3>3. depth'[work'[j]] = depth[n] + 1
      BY <1>6, <3>2
    <3>4. QED
      BY <1>6, <2>2, <3>3
  <2>3. QED
    BY <1>6, <2>1, <2>2
<1>8. ASSUME NEW i \in DOMAIN work', NEW j \in DOMAIN work'
      PROVE  depth'[work'[j]] <= depth'[work'[i]] + 1
  BY <1>6
<1>9. ASSUME NEW m \in found', ~Waits(m)'
      PROVE  m \in found /\ (m = n \/ ~Waits(m)) /\ depth'[m] = depth[m] /\ depth[m] \in Nat
  BY <1>1, <1>9 DEF Turn
<1>10. ASSUME NEW m \in found', ~Waits(m)', NEW i \in DOMAIN work'
       PROVE  depth'[m] <= depth'[work'[i]]
  <2>1. depth[m] <= depth[n]
    BY <1>2, <1>3, <1>9, <1>10
  <2>2. QED
    BY <1>6, <1>9, <1>10, <2>1
<1>11. ASSUME NEW m \in found', ~Waits(m)', depth'[m] < limit', NEW x \in Adjacent(m)'
       PROVE  x \in found' /\ depth'[x] <= depth'[m] + 1
  <2>1. /\ m \in found /\ depth'[m] = depth[m] /\ depth[m] \in Nat
        /\ x \in Adjacent(m) /\ depth[m] < limit
    BY <1>1, <1>9, <1>11
  <2>2. CASE ~Waits(m)
    <3>1. x \in found /\ depth[x] <= depth[m] + 1
      BY <1>2, <2>1, <2>2
    <3>2. QED
      BY <1>1, <2>1, <3>1
  <2>3. CASE m = n
    <3>1. x \in found \cup new
      BY <1>1, <2>1, <2>3
    <3>2. CASE x \in new
      BY <1>1, <2>1, <2>3, <3>2
    <3>3. CASE x \in found
      <4>1. depth[x] \in Nat /\ depth'[x] = depth[x]
        BY <1>1, <3>3
      <4>2. CASE Waits(x)
        <5>1. PICK i \in DOMAIN work : work[i] = x
          BY <4>2 DEF Waits
        <5>2. depth[x] <= depth[n] + 1
          BY <1>5, <5>1
        <5>3. QED
          BY <1>1, <2>1, <2>3, <3>3, <4>1, <5>2
      <4>3. CASE ~Waits(x)
        <5>1. depth[x] <= depth[n]
          BY <1>2, <1>3, <3>3, <4>3
        <5>2. QED
          BY <1>1, <2>1, <2>3, <3>3, <4>1, <5>1
      <4>4. QED
        BY <4>2, <4>3
    <3>4. QED
      BY <3>1, <3>2, <3>3
  <2>4. QED
    BY <1>9, <1>11, <2>2, <2>3
<1>12. QED
  BY <1>7, <1>8, <1>10, <1>11 DEF Queue

\* Every step of a walk keeps its invariant.
LEMMA WalkStepInv == WalkInv /\ [WalkNext]_walkVars => WalkInv'
<1> SUFFICES ASSUME WalkInv, [WalkNext]_walkVars PROVE WalkInv'
  OBVIOUS
<1>1. CASE UNCHANGED walkVars
  <2>1. \A n : Waits(n)' = Waits(n) /\ Adjacent(n)' = Adjacent(n)
    BY <1>1 DEF walkVars, Waits, Adjacent, Imports
  <2>2. \A W : Near(W)' = Near(W)
    BY <1>1, <2>1 DEF walkVars, Near
  <2>3. WalkTypeOK'
    BY <1>1 DEF walkVars, WalkInv, WalkTypeOK
  <2>4. Walked'
    BY <1>1, <2>1, <2>2 DEF walkVars, WalkInv, Walked
  <2>5. Queue'
    BY <1>1, <2>1 DEF walkVars, WalkInv, Queue
  <2>6. QED
    BY <2>3, <2>4, <2>5 DEF WalkInv
<1>2. ASSUME NEW n \in Nodes, NEW k \in {"levels", "impact"}, NEW l \in 1..MaxDepth,
             Ask(k, {n}, l)
      PROVE  WalkInv'
  <2>1. l \in Nat /\ l \in 0..MaxDepth
    BY WalkAssumption
  <2>2. QED
    BY <1>2, <2>1, AskInv
<1>3. ASSUME NEW starts \in SUBSET Nodes, Ask("live", starts, Unlimited)
      PROVE  WalkInv'
  <2>1. Unlimited \in Nat
    BY WalkAssumption, FS_CardinalityType DEF Unlimited
  <2>2. QED
    BY <1>3, <2>1, AskInv
<1>4. CASE Pop
  <2>1. UNCHANGED <<kind, edges, roots, limit>>
    BY <1>4 DEF Pop
  <2>2. PICK n, new : Turn(n, new)
    BY <1>4, PopIsTurn DEF WalkInv
  <2>3. QED
    BY <2>1, <2>2, TurnType, TurnWalked, TurnQueue DEF WalkInv
<1>5. QED
  BY <1>1, <1>2, <1>3, <1>4 DEF WalkNext

\* What is near within k steps is near within more.
LEMMA NearMonotone ==
  ASSUME NEW W, Near(W), NEW k \in Nat, NEW m \in Nat, k <= m
  PROVE  W[k] \subseteq W[m]
<1> DEFINE Good == {d \in Nat : W[k] \subseteq W[k + d]}
<1>1. 0 \in Good
  OBVIOUS
<1>2. ASSUME NEW d \in Good PROVE d + 1 \in Good
  <2>1. k + d \in Nat /\ (k + d) + 1 = k + (d + 1)
    OBVIOUS
  <2>2. W[k + d] \subseteq W[(k + d) + 1]
    BY <2>1 DEF Near
  <2>3. QED
    BY <2>1, <2>2
<1> HIDE DEF Good
<1>3. \A d \in Nat : d \in Good
  <2>1. Good \in SUBSET Nat
    BY DEF Good
  <2>2. QED
    BY <1>1, <1>2, <2>1, NatInductionSet
<1>4. m - k \in Nat /\ k + (m - k) = m
  OBVIOUS
<1>5. QED
  <2>1. m - k \in Good
    BY <1>3, <1>4
  <2>2. QED
    BY <1>4, <2>1 DEF Good

\* A queue's walk that has no node left of less than k steps has found all that is
\* within k steps, if the limit allows.
LEMMA FoundUpTo ==
  ASSUME WalkInv, kind # "impact", NEW W, Near(W)
  PROVE  \A k \in Nat :
           k <= limit /\ (\A i \in DOMAIN work : k <= depth[work[i]])
             => \A m \in W[k] : m \in found /\ depth[m] <= k
<1> DEFINE Good == {k \in Nat :
             k <= limit /\ (\A i \in DOMAIN work : k <= depth[work[i]])
               => \A m \in W[k] : m \in found /\ depth[m] <= k}
<1>0. /\ limit \in Nat /\ found \in SUBSET Nodes /\ roots \in SUBSET found
      /\ depth \in [Nodes -> Nat] /\ \A i \in DOMAIN work : work[i] \in found
  BY WalkTyped DEF WalkInv
<1>1. 0 \in Good
  <2>1. \A m \in W[0] : m \in found /\ depth[m] = 0
    BY <1>0 DEF WalkInv, Walked, Near
  <2>2. QED
    BY <2>1
<1>2. ASSUME NEW k \in Good PROVE k + 1 \in Good
  <2>1. SUFFICES ASSUME k + 1 <= limit, \A i \in DOMAIN work : k + 1 <= depth[work[i]],
                        NEW m \in W[k + 1]
                 PROVE  m \in found /\ depth[m] <= k + 1
    OBVIOUS
  <2>2. ASSUME NEW i \in DOMAIN work PROVE k <= depth[work[i]] /\ k # depth[work[i]]
    BY <1>0, <2>1
  <2>3. \A o \in W[k] : o \in found /\ depth[o] <= k
    BY <1>0, <2>1, <2>2
  <2>4. m \in Nodes /\ W[k] \in SUBSET Nodes
    BY <2>1 DEF Near
  <2>5. m \in W[k] \/ \E n \in W[k] : m \in Adjacent(n)
    BY <2>1, <2>4 DEF Near
  <2>6. CASE m \in W[k]
    BY <1>0, <2>3, <2>4, <2>6
  <2>7. CASE \E n \in W[k] : m \in Adjacent(n)
    <3>1. PICK n \in W[k] : m \in Adjacent(n)
      BY <2>7
    <3>2. n \in found /\ depth[n] <= k /\ depth[n] \in Nat
      BY <1>0, <2>3
    <3>3. ~Waits(n)
      <4>1. SUFFICES ASSUME NEW i \in DOMAIN work, work[i] = n PROVE FALSE
        BY DEF Waits
      <4>2. k + 1 <= depth[n]
        BY <2>1, <4>1
      <4>3. QED
        BY <3>2, <4>2
    <3>4. depth[n] < limit
      BY <1>0, <2>1, <3>2
    <3>5. m \in found /\ depth[m] <= depth[n] + 1
      BY <3>1, <3>2, <3>3, <3>4 DEF WalkInv, Queue
    <3>6. depth[m] \in Nat
      BY <1>0, <3>5
    <3>7. QED
      BY <3>2, <3>5, <3>6
  <2>8. QED
    BY <2>5, <2>6, <2>7
<1> HIDE DEF Good
<1>3. \A k \in Nat : k \in Good
  <2>1. Good \in SUBSET Nat
    BY DEF Good
  <2>2. QED
    BY <1>1, <1>2, <2>1, NatInductionSet
<1>4. QED
  BY <1>3 DEF Good

\* A walk with a queue records for no node a distance it is nearer than.
LEMMA NoNearer ==
  ASSUME WalkInv, kind # "impact", NEW W, Near(W), NEW n \in found, NEW k \in Nat,
         k < depth[n]
  PROVE  n \notin W[k]
<1> SUFFICES ASSUME n \in W[k] PROVE FALSE
  OBVIOUS
<1>1. /\ limit \in Nat /\ found \in SUBSET Nodes /\ depth \in [Nodes -> Nat]
      /\ \A i \in DOMAIN work : work[i] \in found
      /\ depth[n] \in Nat /\ depth[n] <= limit
  BY WalkTyped DEF WalkInv, Walked
<1>2. k <= limit
  BY <1>1
<1>3. CASE \A i \in DOMAIN work : k <= depth[work[i]]
  <2>1. depth[n] <= k
    BY <1>2, <1>3, FoundUpTo
  <2>2. QED
    BY <1>1, <2>1
<1>4. CASE \E i \in DOMAIN work : ~ (k <= depth[work[i]])
  <2>1. PICK i \in DOMAIN work : ~ (k <= depth[work[i]])
    BY <1>4
  <2>2. depth[work[i]] \in Nat /\ depth[work[i]] < k
    BY <1>1, <2>1
  <2>3. CASE Waits(n)
    <3>1. PICK j \in DOMAIN work : work[j] = n
      BY <2>3 DEF Waits
    <3>2. depth[n] <= depth[work[i]] + 1
      BY <3>1 DEF WalkInv, Queue
    <3>3. QED
      BY <1>1, <2>2, <3>2
  <2>4. CASE ~Waits(n)
    <3>1. depth[n] <= depth[work[i]]
      BY <2>4 DEF WalkInv, Queue
    <3>2. QED
      BY <1>1, <2>2, <3>1
  <2>5. QED
    BY <2>3, <2>4
<1>5. QED
  BY <1>3, <1>4

\* Every recorded distance is one the node is within, and so the limit is kept.
LEMMA WalkInvWithin == WalkInv => Near(Within) /\ FoundWithinLimit
<1> SUFFICES ASSUME WalkInv PROVE Near(Within) /\ FoundWithinLimit
  OBVIOUS
<1>1. /\ limit \in Nat /\ found \in SUBSET Nodes /\ roots \in SUBSET found
      /\ depth \in [Nodes -> Nat]
  BY WalkTyped DEF WalkInv
<1>2. Near(Within)
  BY <1>1, WithinIsNear
<1>3. ASSUME NEW n \in found PROVE n \in Within[limit]
  <2>1. n \in Within[depth[n]] /\ depth[n] \in Nat /\ depth[n] <= limit
    BY <1>1, <1>2 DEF WalkInv, Walked
  <2>2. QED
    BY <1>1, <1>2, <2>1, NearMonotone
<1>4. QED
  BY <1>2, <1>3 DEF FoundWithinLimit

\* The recorded distance is the distance, and when the queue is empty all is found.
LEMMA WalkInvLevels == WalkInv => LevelsAreDistances
<1> SUFFICES ASSUME WalkInv, kind # "impact" PROVE LevelsAreDistances
  BY WalkInvWithin DEF LevelsAreDistances
<1>1. Near(Within) /\ FoundWithinLimit
  BY WalkInvWithin
<1>2. limit \in Nat /\ DOMAIN work = 1..Len(work) /\ Unlimited \in Nat
  BY WalkTyped DEF WalkInv
<1>3. \A n \in found : n \in Within[depth[n]]
  BY <1>1 DEF WalkInv, Walked
<1>4. ASSUME NEW n \in found, NEW k \in 0..Unlimited, k < depth[n]
      PROVE  n \notin Within[k]
  <2>1. k \in Nat
    BY <1>2
  <2>2. QED
    BY <1>1, <1>4, <2>1, NoNearer
<1>5. ASSUME work = <<>> PROVE found = Within[limit]
  <2>1. \A m \in Within[limit] : m \in found
    <3>1. DOMAIN work = {}
      BY <1>5
    <3>2. QED
      BY <1>1, <1>2, <3>1, FoundUpTo
  <2>2. QED
    BY <1>1, <2>1 DEF FoundWithinLimit
<1>6. QED
  BY <1>1, <1>3, <1>4, <1>5 DEF LevelsAreDistances

\* A queue's walk, whatever the graph and the order of what it finds, reports each
\* node under its distance and ends with all nodes within the limit (_bfs,
\* _bfs_importers, bfs_callers, bfs_callees, _reachable_from_entry_points); and no walk
\* reports a node out of its limit, _compute_impact's stack included.
THEOREM LevelsRight == WalkSpec => []LevelsAreDistances
<1>1. QED
  BY WalkInitInv, WalkStepInv, WalkInvLevels, PTL DEF WalkSpec

----------------------------------------------------------------------------
(* The leaves of barrels *)

\* A recursion that adds to a set, within a finite one, has added everything after as
\* many steps as that has elements.
LEMMA Saturates ==
  ASSUME NEW D, IsFiniteSet(D), NEW base \in SUBSET D, base # {},
         NEW step \in [SUBSET D -> SUBSET D], \A S \in SUBSET D : S \subseteq step[S],
         NEW g \in [Nat -> SUBSET D], Steps(g, Nat, base, step)
  PROVE  step[g[Cardinality(D)]] = g[Cardinality(D)]
<1> DEFINE N == Cardinality(D)
<1>1. N \in Nat
  BY FS_CardinalityType
<1>2. g[0] = base /\ \A n \in Nat : g[n + 1] = step[g[n]]
  BY StepsNext
<1>3. ASSUME NEW n \in Nat
      PROVE  /\ g[n] \in SUBSET D /\ g[n] \subseteq g[n + 1] /\ IsFiniteSet(g[n])
             /\ Cardinality(g[n]) \in Nat /\ Cardinality(g[n]) <= N
  <2>1. g[n] \in SUBSET D /\ g[n] \subseteq g[n + 1]
    BY <1>2
  <2>2. IsFiniteSet(g[n]) /\ Cardinality(g[n]) <= N
    BY <2>1, FS_Subset
  <2>3. QED
    BY <2>1, <2>2, FS_CardinalityType
<1> SUFFICES ASSUME g[N + 1] # g[N] PROVE FALSE
  BY <1>1, <1>2
<1> HIDE DEF N
<1>4. ASSUME NEW n \in Nat, n <= N PROVE g[n + 1] # g[n]
  <2> SUFFICES ASSUME g[n + 1] = g[n] PROVE FALSE
    OBVIOUS
  <2> DEFINE Good == {d \in Nat : g[n + d] = g[n] /\ g[(n + d) + 1] = g[n]}
  <2>1. 0 \in Good
    OBVIOUS
  <2>2. ASSUME NEW d \in Good PROVE d + 1 \in Good
    <3>1. n + d \in Nat /\ n + (d + 1) = (n + d) + 1 /\ (n + d) + 1 \in Nat
      OBVIOUS
    <3>2. g[(n + d) + 1] = g[n] /\ g[((n + d) + 1) + 1] = step[g[n]] /\ step[g[n]] = g[n]
      BY <1>2, <3>1
    <3>3. QED
      BY <3>1, <3>2
  <2> HIDE DEF Good
  <2>3. \A d \in Nat : d \in Good
    <3>1. Good \in SUBSET Nat
      BY DEF Good
    <3>2. QED
      BY <2>1, <2>2, <3>1, NatInductionSet
  <2>4. N - n \in Nat /\ n + (N - n) = N
    BY <1>1, <1>4
  <2>5. N - n \in Good
    BY <2>3, <2>4
  <2>6. g[n + (N - n)] = g[n] /\ g[(n + (N - n)) + 1] = g[n]
    BY <2>5 DEF Good
  <2>7. QED
    BY <2>4, <2>6
<1> DEFINE Good == {n \in Nat : n <= N => Cardinality(g[n]) >= n + 1}
<1>5. 0 \in Good
  <2>1. Cardinality(g[0]) # 0
    BY <1>2, <1>3, FS_EmptySet
  <2>2. QED
    BY <2>1, <1>3
<1>6. ASSUME NEW n \in Good PROVE n + 1 \in Good
  <2>1. SUFFICES ASSUME n + 1 <= N PROVE Cardinality(g[n + 1]) >= (n + 1) + 1
    OBVIOUS
  <2>2. Cardinality(g[n]) >= n + 1 /\ n \in Nat /\ n <= N
    BY <1>1, <2>1
  <2>3. g[n] \subseteq g[n + 1] /\ g[n + 1] # g[n] /\ IsFiniteSet(g[n + 1])
    BY <1>3, <1>4, <2>2
  <2>4. Cardinality(g[n]) <= Cardinality(g[n + 1])
        /\ Cardinality(g[n]) # Cardinality(g[n + 1])
    BY <2>3, FS_Subset
  <2>5. Cardinality(g[n]) \in Nat /\ Cardinality(g[n + 1]) \in Nat
    BY <1>3, <2>2
  <2>6. QED
    BY <2>2, <2>4, <2>5
<1> HIDE DEF Good
<1>7. N \in Good
  <2>1. Good \in SUBSET Nat
    BY DEF Good
  <2>2. QED
    BY <1>1, <1>5, <1>6, <2>1, NatInductionSet
<1>8. Cardinality(g[N]) >= N + 1
  BY <1>1, <1>7 DEF Good
<1>9. QED
  BY <1>1, <1>3, <1>8

\* The files with the names that may be looked for in them.
Context == Barrels \X (Names \cup {AnyName})

\* There are as many pairs of a barrel and a name as Contexts says.
LEMMA ContextFinite == IsFiniteSet(Context) /\ Cardinality(Context) = Contexts /\ Contexts \in Nat
<1>1. IsFiniteSet(Names \cup {AnyName}) /\ Cardinality(Names \cup {AnyName}) = Cardinality(Names) + 1
  BY BarrelAssumption, FS_AddElement
<1>2. IsFiniteSet(Context)
      /\ Cardinality(Context) = Cardinality(Barrels) * (Cardinality(Names) + 1)
  BY <1>1, BarrelAssumption, FS_Product DEF Context
<1>3. QED
  BY <1>2, FS_CardinalityType DEF Contexts

\* Leads, member by member.
LEMMA LeadsIs ==
  ASSUME NEW c, NEW d
  PROVE  d \in Leads(c) <=>
           \/ \E e \in named : /\ e.from = c[1] /\ c[2] \in {e.exposed, AnyName}
                               /\ d = <<e.to, e.original>>
           \/ \E p \in wildcard :
                /\ p[1] = c[1] /\ d = <<p[2], c[2]>>
                /\ \/ c[2] = AnyName
                   \/ ~\E e \in named : e.from = c[1] /\ c[2] \in {e.exposed, AnyName}
BY DEF Leads

\* A statement leads from barrel and name to barrel and name.
LEMMA LeadsType ==
  ASSUME BarrelTypeOK, NEW c \in Context
  PROVE  Leads(c) \in SUBSET Context
<1>1. ASSUME NEW d \in Leads(c) PROVE d \in Context
  <2>1. CASE \E e \in named : /\ e.from = c[1] /\ c[2] \in {e.exposed, AnyName}
                              /\ d = <<e.to, e.original>>
    BY <2>1 DEF BarrelTypeOK, Entry, Context
  <2>2. CASE \E p \in wildcard : p[1] = c[1] /\ d = <<p[2], c[2]>>
    BY <2>2 DEF BarrelTypeOK, Context
  <2>3. QED
    BY <1>1, <2>1, <2>2, LeadsIs
<1>2. QED
  BY <1>1

\* Where an import starts.
Start == {<<direct, n>> : n \in IF wanted = {} THEN {AnyName} ELSE wanted}

\* A set of contexts that has those of the import, and where they lead.
Closed(C) ==
    /\ C \subseteq Context /\ Start \subseteq C
    /\ \A c \in C : Leads(c) \subseteq C

\* What the statements lead to is such a set, and has only what every such set has.
LEMMA LedIs ==
  ASSUME BarrelTypeOK, direct \in Barrels
  PROVE  /\ Closed(Led[Contexts])
         /\ \A C : Closed(C) => Led[Contexts] \subseteq C
<1> DEFINE step == [S \in SUBSET Context |-> S \cup UNION {Leads(c) : c \in S}]
<1>1. step \in [SUBSET Context -> SUBSET Context]
  BY LeadsType
<1>2. Start \in SUBSET Context /\ Start # {}
  <2> DEFINE ns == IF wanted = {} THEN {AnyName} ELSE wanted
  <2>1. ns \in SUBSET (Names \cup {AnyName}) /\ \E n \in ns : TRUE
    <3>1. wanted \in SUBSET Names
      BY DEF BarrelTypeOK
    <3>2. CASE wanted = {}
      BY <3>2
    <3>3. CASE wanted # {}
      BY <3>1, <3>3
    <3>4. QED
      BY <3>2, <3>3
  <2>2. Start = {<<direct, n>> : n \in ns}
    BY DEF Start
  <2> HIDE DEF ns
  <2>3. PICK n \in ns : TRUE
    BY <2>1
  <2>4. <<direct, n>> \in Start
    BY <2>2
  <2>5. ASSUME NEW c \in Start PROVE c \in Context
    <3>1. PICK m \in ns : c = <<direct, m>>
      BY <2>2
    <3>2. QED
      BY <2>1, <3>1 DEF Context
  <2>6. QED
    BY <2>4, <2>5
<1>3. \A S \in SUBSET Context : step[S] = S \cup UNION {Leads(c) : c \in S}
  OBVIOUS
<1> HIDE DEF step
<1>4. PICK g \in [Nat -> SUBSET Context] : Steps(g, Nat, Start, step)
  BY <1>1, <1>2, NatRecursion
<1>5. g[0] = Start /\ \A i \in Nat : g[i + 1] = step[g[i]]
  BY <1>4, StepsNext
<1>6. \A i \in Nat : g[i] \in SUBSET Context
                     /\ g[i + 1] = g[i] \cup UNION {Leads(c) : c \in g[i]}
  BY <1>3, <1>4, <1>5
<1>7. Contexts \in Nat /\ Contexts = Cardinality(Context) /\ IsFiniteSet(Context)
  BY ContextFinite
<1> DEFINE Rec(f) == f = [k \in 0..Contexts |-> IF k = 0
                            THEN {<<direct, n>> : n \in IF wanted = {} THEN {AnyName} ELSE wanted}
                            ELSE LET led == f[k - 1]
                                 IN  led \cup UNION {Leads(c) : c \in led}]
           h == [k \in 0..Contexts |-> g[k]]
<1>8. Rec(h)
  <2>1. ASSUME NEW k \in 0..Contexts
        PROVE  h[k] = IF k = 0 THEN Start
                      ELSE h[k - 1] \cup UNION {Leads(c) : c \in h[k - 1]}
    <3>1. CASE k = 0
      BY <1>5, <3>1
    <3>2. CASE k # 0
      <4>1. k - 1 \in Nat /\ (k - 1) + 1 = k /\ k - 1 \in 0..Contexts
        BY <1>7, <3>2
      <4>2. g[(k - 1) + 1] = g[k - 1] \cup UNION {Leads(c) : c \in g[k - 1]}
        BY <1>6, <4>1
      <4>3. h[k] = g[k] /\ h[k - 1] = g[k - 1]
        BY <4>1
      <4>4. QED
        BY <3>2, <4>1, <4>2, <4>3
    <3>3. QED
      BY <3>1, <3>2
  <2>2. QED
    BY <2>1 DEF Start
<1>9. Led = CHOOSE f : Rec(f)
  BY Zenon DEF Led
<1>10. Rec(Led)
  <2> HIDE DEF Rec
  <2>1. QED
    BY <1>8, <1>9
<1>11. ASSUME NEW k \in 0..Contexts
       PROVE  Led[k] = IF k = 0 THEN Start ELSE Led[k - 1] \cup UNION {Leads(c) : c \in Led[k - 1]}
  BY <1>10 DEF Start
<1> HIDE DEF Rec, h
<1>12. Led[Contexts] = g[Contexts]
  <2> DEFINE Same == {k \in Nat : k <= Contexts => Led[k] = g[k]}
  <2>1. 0 \in Same
    <3>1. 0 \in 0..Contexts
      BY <1>7
    <3>2. Led[0] = Start
      BY <1>11, <3>1
    <3>3. QED
      BY <1>5, <3>2
  <2>2. ASSUME NEW k \in Same PROVE k + 1 \in Same
    <3>1. SUFFICES ASSUME k + 1 <= Contexts PROVE Led[k + 1] = g[k + 1]
      OBVIOUS
    <3>2. k \in Nat /\ k + 1 \in 0..Contexts /\ k + 1 # 0 /\ (k + 1) - 1 = k /\ Led[k] = g[k]
      BY <1>7, <3>1
    <3>3. Led[k + 1] = Led[k] \cup UNION {Leads(c) : c \in Led[k]}
      BY <1>11, <3>2
    <3>4. g[k + 1] = g[k] \cup UNION {Leads(c) : c \in g[k]}
      BY <1>6, <3>2
    <3>5. QED
      BY <3>2, <3>3, <3>4
  <2> HIDE DEF Same
  <2>3. Contexts \in Same
    <3>1. Same \in SUBSET Nat
      BY DEF Same
    <3>2. QED
      BY <1>7, <2>1, <2>2, <3>1, NatInductionSet
  <2>4. QED
    BY <1>7, <2>3 DEF Same
<1>13. \A i \in Nat : Start \subseteq g[i]
  <2> DEFINE Good == {i \in Nat : Start \subseteq g[i]}
  <2>1. 0 \in Good
    BY <1>5
  <2>2. ASSUME NEW i \in Good PROVE i + 1 \in Good
    BY <1>6
  <2> HIDE DEF Good
  <2>3. \A i \in Nat : i \in Good
    <3>1. Good \in SUBSET Nat
      BY DEF Good
    <3>2. QED
      BY <2>1, <2>2, <3>1, NatInductionSet
  <2>4. QED
    BY <2>3 DEF Good
<1>14. step[g[Contexts]] = g[Contexts]
  <2>1. \A S \in SUBSET Context : S \subseteq step[S]
    BY <1>3
  <2>2. step[g[Cardinality(Context)]] = g[Cardinality(Context)]
    BY <1>1, <1>2, <1>4, <1>7, <2>1, Saturates, Zenon
  <2>3. QED
    BY <1>7, <2>2
<1>15. ASSUME NEW c \in g[Contexts] PROVE Leads(c) \subseteq g[Contexts]
  BY <1>3, <1>6, <1>7, <1>14
<1>16. Closed(Led[Contexts])
  BY <1>6, <1>7, <1>12, <1>13, <1>15 DEF Closed
<1>17. ASSUME NEW C, Closed(C) PROVE \A i \in Nat : g[i] \subseteq C
  <2> DEFINE Good == {i \in Nat : g[i] \subseteq C}
  <2>1. 0 \in Good
    BY <1>5, <1>17 DEF Closed
  <2>2. ASSUME NEW i \in Good PROVE i + 1 \in Good
    <3>1. g[i] \subseteq C /\ \A c \in g[i] : Leads(c) \subseteq C
      BY <1>17 DEF Closed
    <3>2. g[i + 1] = g[i] \cup UNION {Leads(c) : c \in g[i]}
      BY <1>6
    <3>3. QED
      BY <3>1, <3>2
  <2> HIDE DEF Good
  <2>3. \A i \in Nat : i \in Good
    <3>1. Good \in SUBSET Nat
      BY DEF Good
    <3>2. QED
      BY <2>1, <2>2, <3>1, NatInductionSet
  <2>4. QED
    BY <2>3 DEF Good
<1>18. QED
  BY <1>7, <1>12, <1>16, <1>17

\* One turn of the loop: the files that the first barrel's statements name join the
\* queue, each with the names it is to be walked for.
Visit(b, names, new) ==
    /\ b \in Barrels /\ names \in SUBSET Names /\ queue # <<>> /\ queue[1] = <<b, names>>
    /\ new = NotSeen(NamedSteps(b, names)) \cup NotSeen(WildSteps(b, names))
    /\ queue' \in Seq(Barrels \X SUBSET Names)
    /\ \A i \in DOMAIN queue' : \/ \E j \in DOMAIN queue : queue'[i] = queue[j]
                                \/ \E s \in new : queue'[i] = <<s.key[1], s.names>>
    /\ \A j \in DOMAIN queue : j = 1 \/ \E i \in DOMAIN queue' : queue'[i] = queue[j]
    /\ \A s \in new : \E i \in DOMAIN queue' : queue'[i] = <<s.key[1], s.names>>
    /\ seen' = seen \cup {s.key : s \in new}
    /\ leaves' = leaves \cup {s.key[1] : s \in new}

\* A step of a walk: a file, the name it is seen by, and the names to walk it for.
StepOf == [key : Context, names : SUBSET Names]

\* The steps of the named re-exports of a barrel, one by one.
LEMMA NamedStepsIs ==
  ASSUME BarrelTypeOK, NEW b, NEW names
  PROVE  /\ NamedSteps(b, names) \in SUBSET StepOf /\ IsFiniteSet(NamedSteps(b, names))
         /\ \A s : s \in NamedSteps(b, names) <=>
              \E e \in named : /\ e.from = b /\ (names = {} \/ e.exposed \in names)
                              /\ s = [key |-> <<e.to, e.original>>, names |-> {e.original}]
<1>1. \A s : s \in NamedSteps(b, names) <=>
              \E e \in named : /\ e.from = b /\ (names = {} \/ e.exposed \in names)
                              /\ s = [key |-> <<e.to, e.original>>, names |-> {e.original}]
  BY DEF NamedSteps
<1>2. ASSUME NEW s \in NamedSteps(b, names)
      PROVE  /\ s \in StepOf /\ s.names = {s.key[2]}
             /\ s = [key |-> s.key, names |-> s.names]
  <2>1. PICK e \in named : s = [key |-> <<e.to, e.original>>, names |-> {e.original}]
    BY <1>1
  <2>2. e \in Entry
    BY DEF BarrelTypeOK
  <2>3. QED
    BY <2>1, <2>2 DEF Entry, StepOf, Context
<1> DEFINE S == NamedSteps(b, names)
           f == [s \in S |-> s.key]
<1>3. f \in [S -> Context]
  BY <1>2 DEF StepOf
<1>4. ASSUME NEW s \in S, NEW t \in S, f[s] = f[t] PROVE s = t
  <2>1. s.key = t.key
    BY <1>4
  <2>2. s.names = t.names
    BY <1>2, <2>1
  <2>3. QED
    BY <1>2, <2>1, <2>2
<1>5. IsFiniteSet(S)
  <2>1. f \in Injection(S, Context)
    <3> HIDE DEF f, S
    <3>1. QED
      BY <1>3, <1>4 DEF Injection, IsInjective
  <2> HIDE DEF f, S
  <2>2. QED
    BY <2>1, ContextFinite, FS_Injection
<1>6. QED
  BY <1>1, <1>2, <1>5

\* The steps of its wildcard re-exports.
LEMMA WildStepsIs ==
  ASSUME BarrelTypeOK, NEW b, NEW names \in SUBSET Names
  PROVE  /\ WildSteps(b, names) \in SUBSET StepOf /\ IsFiniteSet(WildSteps(b, names))
         /\ \A s : s \in WildSteps(b, names) <=>
              /\ names = {} \/ Unrouted(b, names) # {}
              /\ \E p \in wildcard : /\ p[1] = b
                                     /\ s = [key |-> <<p[2], AnyName>>, names |-> Unrouted(b, names)]
<1>1. \A s : s \in WildSteps(b, names) <=>
              /\ names = {} \/ Unrouted(b, names) # {}
              /\ \E p \in wildcard : /\ p[1] = b
                                     /\ s = [key |-> <<p[2], AnyName>>, names |-> Unrouted(b, names)]
  BY DEF WildSteps
<1>2. Unrouted(b, names) \in SUBSET Names
  BY DEF Unrouted
<1>3. ASSUME NEW s \in WildSteps(b, names)
      PROVE  /\ s \in StepOf /\ s.names = Unrouted(b, names)
             /\ s = [key |-> s.key, names |-> s.names]
  <2>1. PICK p \in wildcard : s = [key |-> <<p[2], AnyName>>, names |-> Unrouted(b, names)]
    BY <1>1
  <2>2. p \in Barrels \X Barrels
    BY DEF BarrelTypeOK
  <2> DEFINE u == Unrouted(b, names)
  <2> HIDE DEF u
  <2>3. u \in SUBSET Names /\ s = [key |-> <<p[2], AnyName>>, names |-> u]
    BY <1>2, <2>1 DEF u
  <2>4. s \in StepOf /\ s.names = u /\ s = [key |-> s.key, names |-> s.names]
    BY <2>2, <2>3 DEF StepOf, Context
  <2>5. QED
    BY <2>4 DEF u
<1> DEFINE S == WildSteps(b, names)
           f == [s \in S |-> s.key]
<1>4. f \in [S -> Context]
  BY <1>3 DEF StepOf
<1>5. ASSUME NEW s \in S, NEW t \in S, f[s] = f[t] PROVE s = t
  <2>1. s.key = t.key
    BY <1>5
  <2>2. s.names = t.names
    BY <1>3
  <2>3. QED
    BY <1>3, <2>1, <2>2
<1>6. IsFiniteSet(S)
  <2>1. f \in Injection(S, Context)
    <3> HIDE DEF f, S
    <3>1. QED
      BY <1>4, <1>5 DEF Injection, IsInjective
  <2> HIDE DEF f, S
  <2>2. QED
    BY <2>1, ContextFinite, FS_Injection
<1>7. QED
  BY <1>1, <1>3, <1>6

\* Two enumerations, one after the other, enumerate the two sets.
Enumerates(U, r) ==
    /\ r \in Seq(U) /\ DOMAIN r = 1..Len(r) /\ Len(r) \in Nat
    /\ \A x \in U : \E i \in DOMAIN r : r[i] = x
    /\ \A i \in DOMAIN r : r[i] \in U

\* Two finite sets listed one after the other are both listed.
LEMMA EnumerateBoth ==
  ASSUME NEW S, NEW T, IsFiniteSet(S), IsFiniteSet(T),
         NEW p \in SetToSeqs(S), NEW q \in SetToSeqs(T)
  PROVE  Enumerates(S \cup T, p \o q)
<1>1. /\ p \in Seq(S) /\ DOMAIN p = 1..Len(p) /\ \A x \in S : \E i \in DOMAIN p : p[i] = x
      /\ q \in Seq(T) /\ DOMAIN q = 1..Len(q) /\ \A x \in T : \E i \in DOMAIN q : q[i] = x
  BY SetToSeqsIs
<1>2. Joined(S, T, p, q, Len(p), p \o q)
  BY <1>1, Concatenated
<1> DEFINE r == p \o q
           k == Len(p)
<1> HIDE DEF r, k
<1>3. /\ r \in Seq(S \cup T) /\ Len(r) = k + Len(q) /\ k \in Nat /\ Len(q) \in Nat
      /\ DOMAIN p = 1..k /\ DOMAIN q = 1..Len(q) /\ DOMAIN r = 1..(k + Len(q))
      /\ \A i \in 1..k : i \in DOMAIN r /\ r[i] = p[i]
      /\ \A i \in 1..Len(q) : k + i \in DOMAIN r /\ r[k + i] = q[i]
  BY <1>2 DEF Joined, r, k
<1>4. \A x \in S : \E i \in DOMAIN r : r[i] = x
  BY <1>1, <1>3
<1>5. \A x \in T : \E i \in DOMAIN r : r[i] = x
  BY <1>1, <1>3
<1>6. \A i \in DOMAIN r : r[i] \in S \cup T
  BY <1>3
<1>7. QED
  BY <1>3, <1>4, <1>5, <1>6 DEF r, Enumerates

\* Whatever the order of the statements, a turn of the loop visits one barrel.
LEMMA WalkIsVisit ==
  ASSUME BarrelTypeOK, Walk
  PROVE  /\ UNCHANGED <<wildcard, named, direct, wanted>>
         /\ \E b, names, new : Visit(b, names, new)
<1> DEFINE b == Head(queue)[1]
           names == Head(queue)[2]
           N == NotSeen(NamedSteps(b, names))
           W == NotSeen(WildSteps(b, names))
           new == N \cup W
<1>1. /\ queue # <<>> /\ queue \in Seq(Barrels \X SUBSET Names)
      /\ Len(queue) \in Nat \ {0} /\ DOMAIN queue = 1..Len(queue) /\ Head(queue) = queue[1]
  BY EmptySeq DEF Walk, BarrelTypeOK
<1>2. b \in Barrels /\ names \in SUBSET Names /\ queue[1] = <<b, names>>
  <2>1. queue[1] \in Barrels \X SUBSET Names
    BY <1>1
  <2>2. QED
    BY <1>1, <2>1
<1>3. PICK ns \in SetToSeqs(N), ws \in SetToSeqs(W) :
        LET steps == IF names = {} THEN ws \o ns ELSE ns \o ws
        IN  /\ queue' = Tail(queue) \o [i \in DOMAIN steps |-> <<steps[i].key[1], steps[i].names>>]
            /\ seen' = seen \cup {s.key : s \in Range(steps)}
            /\ leaves' = leaves \cup {s.key[1] : s \in Range(steps)}
  BY Zenon DEF Walk
<1>4. N \in SUBSET StepOf /\ IsFiniteSet(N) /\ W \in SUBSET StepOf /\ IsFiniteSet(W)
  <2> HIDE DEF b, names
  <2>1. NamedSteps(b, names) \in SUBSET StepOf /\ IsFiniteSet(NamedSteps(b, names))
    BY NamedStepsIs
  <2>2. WildSteps(b, names) \in SUBSET StepOf /\ IsFiniteSet(WildSteps(b, names))
    BY <1>2, WildStepsIs
  <2>3. N \in SUBSET NamedSteps(b, names) /\ W \in SUBSET WildSteps(b, names)
    BY DEF NotSeen
  <2>4. QED
    BY <2>1, <2>2, <2>3, FS_Subset
<1> DEFINE steps == IF names = {} THEN ws \o ns ELSE ns \o ws
           more == [i \in DOMAIN steps |-> <<steps[i].key[1], steps[i].names>>]
<1>5. /\ queue' = Tail(queue) \o more
      /\ seen' = seen \cup {s.key : s \in Range(steps)}
      /\ leaves' = leaves \cup {s.key[1] : s \in Range(steps)}
  BY <1>3
<1> HIDE DEF b, names, N, W
<1>6. /\ steps \in Seq(new) /\ DOMAIN steps = 1..Len(steps) /\ Len(steps) \in Nat
      /\ \A x \in new : \E i \in DOMAIN steps : steps[i] = x
      /\ \A i \in DOMAIN steps : steps[i] \in new
  <2>1. W \cup N = new /\ N \cup W = new
    OBVIOUS
  <2>2. Enumerates(new, ws \o ns) /\ Enumerates(new, ns \o ws)
    <3> HIDE DEF new
    <3>1. Enumerates(W \cup N, ws \o ns) /\ Enumerates(N \cup W, ns \o ws)
      BY <1>4, EnumerateBoth
    <3>2. QED
      BY <2>1, <3>1
  <2>3. Enumerates(new, steps)
    <3> HIDE DEF new
    <3>1. QED
      BY <2>2
  <2> HIDE DEF steps
  <2>4. QED
    BY <2>3 DEF Enumerates
<1> HIDE DEF steps
<1>7. \A s \in new : s.key[1] \in Barrels /\ s.names \in SUBSET Names
  BY <1>4 DEF StepOf, Context
<1>8. /\ more \in Seq(Barrels \X SUBSET Names) /\ Len(more) = Len(steps)
      /\ DOMAIN more = DOMAIN steps
      /\ \A i \in DOMAIN more : more[i] = <<steps[i].key[1], steps[i].names>>
  <2>1. \A i \in 1..Len(steps) : <<steps[i].key[1], steps[i].names>> \in Barrels \X SUBSET Names
    BY <1>6, <1>7
  <2>2. more \in [1..Len(steps) -> Barrels \X SUBSET Names]
    BY <1>6, <2>1
  <2>3. QED
    BY <1>6, <2>2
<1> HIDE DEF more, new
<1>9. /\ Tail(queue) \in Seq(Barrels \X SUBSET Names) /\ Len(Tail(queue)) = Len(queue) - 1
      /\ \A i \in 1..(Len(queue) - 1) : Tail(queue)[i] = queue[i + 1]
  BY <1>1
<1> DEFINE A == Barrels \X SUBSET Names
           k == Len(Tail(queue))
<1>10. Joined(A, A, Tail(queue), more, k, queue')
  BY <1>5, <1>8, <1>9, Concatenated
<1>11. /\ queue' \in Seq(A) /\ k \in Nat /\ k = Len(queue) - 1 /\ Len(more) \in Nat
       /\ DOMAIN queue' = 1..(k + Len(more)) /\ DOMAIN more = 1..Len(more)
       /\ \A i \in 1..k : i \in DOMAIN queue' /\ queue'[i] = Tail(queue)[i]
       /\ \A i \in 1..Len(more) : k + i \in DOMAIN queue' /\ queue'[k + i] = more[i]
       /\ \A i \in DOMAIN queue' : i \notin 1..k => i - k \in 1..Len(more) /\ queue'[i] = more[i - k]
  <2>1. A \cup A = A
    OBVIOUS
  <2> HIDE DEF A, k
  <2>2. /\ queue' \in Seq(A) /\ k \in Nat /\ Len(more) \in Nat
        /\ DOMAIN queue' = 1..(k + Len(more)) /\ DOMAIN more = 1..Len(more)
        /\ \A i \in 1..k : i \in DOMAIN queue' /\ queue'[i] = Tail(queue)[i]
        /\ \A i \in 1..Len(more) : k + i \in DOMAIN queue' /\ queue'[k + i] = more[i]
        /\ \A i \in DOMAIN queue' : i \notin 1..k => i - k \in 1..Len(more) /\ queue'[i] = more[i - k]
    BY <1>10, <2>1 DEF Joined
  <2>3. k = Len(queue) - 1
    BY <1>9 DEF k
  <2>4. QED
    BY <2>2, <2>3
<1>12. queue' \in Seq(Barrels \X SUBSET Names)
  BY <1>11
<1> HIDE DEF A, k
<1>13. ASSUME NEW i \in DOMAIN queue'
       PROVE  \/ \E j \in DOMAIN queue : queue'[i] = queue[j]
              \/ \E s \in new : queue'[i] = <<s.key[1], s.names>>
  <2>1. CASE i \in 1..k
    <3>1. queue'[i] = queue[i + 1] /\ i + 1 \in DOMAIN queue
      BY <1>1, <1>9, <1>11, <2>1
    <3>2. QED
      BY <3>1
  <2>2. CASE i \notin 1..k
    <3>1. i - k \in DOMAIN more /\ queue'[i] = more[i - k]
      BY <1>11, <2>2
    <3>2. steps[i - k] \in new /\ more[i - k] = <<steps[i - k].key[1], steps[i - k].names>>
      BY <1>6, <1>8, <3>1
    <3>3. QED
      BY <3>1, <3>2
  <2>3. QED
    BY <2>1, <2>2
<1>14. ASSUME NEW j \in DOMAIN queue, j # 1
       PROVE  \E i \in DOMAIN queue' : queue'[i] = queue[j]
  <2>1. j - 1 \in 1..k /\ (j - 1) + 1 = j
    BY <1>1, <1>11, <1>14
  <2>2. Tail(queue)[j - 1] = queue[j]
    BY <1>9, <1>11, <2>1
  <2>3. j - 1 \in DOMAIN queue' /\ queue'[j - 1] = queue[j]
    BY <1>11, <2>1, <2>2
  <2>4. QED
    BY <2>3
<1>15. ASSUME NEW s \in new
       PROVE  \E i \in DOMAIN queue' : queue'[i] = <<s.key[1], s.names>>
  <2>1. PICK i \in DOMAIN steps : steps[i] = s
    BY <1>6
  <2>2. more[i] = <<s.key[1], s.names>> /\ i \in 1..Len(more)
    BY <1>8, <1>11, <2>1
  <2>3. k + i \in DOMAIN queue' /\ queue'[k + i] = <<s.key[1], s.names>>
    BY <1>11, <2>2
  <2>4. QED
    BY <2>3
<1>16. Range(steps) = new
  BY <1>6 DEF Range
<1>17. /\ seen' = seen \cup {s.key : s \in new}
       /\ leaves' = leaves \cup {s.key[1] : s \in new}
  BY <1>5, <1>16
<1>18. new = NotSeen(NamedSteps(b, names)) \cup NotSeen(WildSteps(b, names))
  BY DEF new, N, W
<1>19. Visit(b, names, new)
  BY <1>1, <1>2, <1>12, <1>13, <1>14, <1>15, <1>17, <1>18 DEF Visit
<1>20. UNCHANGED <<wildcard, named, direct, wanted>>
  BY DEF Walk
<1>21. QED
  BY <1>19, <1>20

\* What a barrel in the queue is walked for is in a set of contexts.
Has(C, q) ==
    /\ q[2] = {} => <<q[1], AnyName>> \in C
    /\ \A n \in q[2] : <<q[1], n>> \in C

\* Nothing is credited or queued that the statements do not lead to.
Sound ==
    \A C : Closed(C) =>
      /\ \A b \in leaves : \E c \in C : c[1] = b
      /\ \A i \in DOMAIN queue : Has(C, queue[i])

NoRenames == \A e \in named : e.original = e.exposed

Queued(b) == \E i \in DOMAIN queue : queue[i][1] = b

\* Where one name is asked for and never renamed, it is asked for in every file, so
\* that what was seen was seen for it: a file credited is still in the queue, or
\* everything it leads to is credited.
Complete ==
    \A n : wanted = {n} /\ NoRenames =>
      /\ direct \in leaves
      /\ \A s \in seen : s[1] \in leaves
      /\ \A i \in DOMAIN queue : queue[i][2] = {n}
      /\ \A b \in leaves : Queued(b) \/ \A d \in Leads(<<b, n>>) : d[1] \in leaves

BarrelInv ==
    /\ BarrelTypeOK
    /\ direct = NoBarrel => queue = <<>> /\ seen = {}
    /\ direct # NoBarrel => Sound /\ Complete

\* No import was looked at.
LEMMA BarrelInitInv == BarrelInit => BarrelInv
BY DEF BarrelInit, BarrelInv, BarrelTypeOK

\* The statements are what they were.
LEMMA SameLeads ==
  ASSUME wildcard' = wildcard, named' = named
  PROVE  /\ \A c : Leads(c)' = Leads(c)
         /\ NoRenames' = NoRenames
         /\ direct' = direct /\ wanted' = wanted => \A C : Closed(C)' = Closed(C)
<1>1. \A c : Leads(c)' = Leads(c)
  BY DEF Leads
<1>2. NoRenames' = NoRenames
  BY DEF NoRenames
<1>3. ASSUME direct' = direct, wanted' = wanted PROVE Start' = Start
  BY <1>3 DEF Start
<1>4. QED
  BY <1>1, <1>2, <1>3 DEF Closed

\* An import starts the walk at the barrel it names.
LEMMA ImportInv ==
  ASSUME BarrelInv, NEW b \in Barrels, NEW names \in SUBSET Names, Import(b, names)
  PROVE  BarrelInv'
<1>1. /\ direct = NoBarrel /\ direct' = b /\ wanted' = names /\ leaves' = {b}
      /\ queue' = <<<<b, names>>>> /\ wildcard' = wildcard /\ named' = named
      /\ seen' = {} /\ direct' # NoBarrel
  BY BarrelAssumption DEF BarrelInv, Import
<1>2. /\ DOMAIN queue' = {1} /\ queue'[1] = <<b, names>>
      /\ queue' \in Seq(Barrels \X SUBSET Names)
  BY <1>1
<1>3. BarrelTypeOK'
  BY <1>1, <1>2 DEF BarrelInv, BarrelTypeOK
<1>4. Sound'
  <2>1. SUFFICES ASSUME NEW C, Closed(C)'
                 PROVE  /\ \A x \in leaves' : \E c \in C : c[1] = x
                        /\ \A i \in DOMAIN queue' : Has(C, queue'[i])
    BY DEF Sound, Has
  <2>2. \A n \in IF names = {} THEN {AnyName} ELSE names : <<b, n>> \in C
    BY <1>1, <2>1 DEF Closed, Start
  <2>3. names = {} => <<b, AnyName>> \in C
    BY <2>2
  <2>4. names # {} => \A n \in names : <<b, n>> \in C
    BY <2>2
  <2>5. \E c \in C : c[1] = b
    BY <2>3, <2>4
  <2>6. Has(C, <<b, names>>)
    BY <2>3, <2>4 DEF Has
  <2>7. QED
    BY <1>1, <1>2, <2>5, <2>6
<1>5. Complete'
  BY <1>1, <1>2 DEF Complete, Queued
<1>6. QED
  BY <1>1, <1>3, <1>4, <1>5 DEF BarrelInv

\* The statements lead to every step of a visit.
LEMMA StepsLed ==
  ASSUME BarrelTypeOK, NEW C, Closed(C), NEW b \in Barrels, NEW names \in SUBSET Names,
         Has(C, <<b, names>>), NEW s, s \in NamedSteps(b, names) \cup WildSteps(b, names)
  PROVE  /\ Has(C, <<s.key[1], s.names>>)
         /\ \E c \in C : c[1] = s.key[1]
<1>0. /\ names = {} => <<b, AnyName>> \in C
      /\ \A n \in names : <<b, n>> \in C
      /\ \A c \in C : Leads(c) \subseteq C
      /\ AnyName \notin Names
  BY BarrelAssumption DEF Has, Closed
<1>1. CASE s \in NamedSteps(b, names)
  <2>1. PICK e \in named : /\ e.from = b /\ (names = {} \/ e.exposed \in names)
                           /\ s = [key |-> <<e.to, e.original>>, names |-> {e.original}]
    BY <1>1, NamedStepsIs
  <2>2. \E c \in C : c[1] = b /\ c[2] \in {e.exposed, AnyName}
    <3>1. CASE names = {}
      <4>1. <<b, AnyName>> \in C
        BY <1>0, <3>1
      <4>2. QED
        BY <4>1
    <3>2. CASE e.exposed \in names
      <4>1. <<b, e.exposed>> \in C
        BY <1>0, <3>2
      <4>2. QED
        BY <4>1
    <3>3. QED
      BY <2>1, <3>1, <3>2
  <2>3. PICK c \in C : c[1] = b /\ c[2] \in {e.exposed, AnyName}
    BY <2>2
  <2>4. <<e.to, e.original>> \in Leads(c)
    BY <2>1, <2>3, LeadsIs
  <2>5. <<e.to, e.original>> \in C
    BY <1>0, <2>4
  <2>6. s.key[1] = e.to /\ s.names = {e.original}
    BY <2>1
  <2>7. Has(C, <<s.key[1], s.names>>)
    BY <2>5, <2>6 DEF Has
  <2>8. QED
    BY <2>5, <2>6, <2>7
<1>2. CASE s \in WildSteps(b, names)
  <2> DEFINE u == Unrouted(b, names)
  <2>1. /\ names = {} \/ u # {}
        /\ \E p \in wildcard : p[1] = b /\ s = [key |-> <<p[2], AnyName>>, names |-> u]
    BY <1>2, WildStepsIs
  <2>2. PICK p \in wildcard : p[1] = b /\ s = [key |-> <<p[2], AnyName>>, names |-> u]
    BY <2>1
  <2>3. \A n \in u : n \in names /\ ~\E e \in named : e.from = b /\ e.exposed = n
    BY DEF Unrouted
  <2> HIDE DEF u
  <2>4. s.key[1] = p[2] /\ s.names = u
    BY <2>2
  <2>5. ASSUME names = {} PROVE <<p[2], AnyName>> \in C
    <3>1. <<b, AnyName>> \in C
      BY <1>0, <2>5
    <3>2. <<p[2], AnyName>> \in Leads(<<b, AnyName>>)
      BY <2>2, LeadsIs
    <3>3. QED
      BY <1>0, <3>1, <3>2
  <2>6. ASSUME NEW n \in u PROVE <<p[2], n>> \in C
    <3>1. <<b, n>> \in C /\ n # AnyName
      BY <1>0, <2>3
    <3>2. ~\E e \in named : e.from = b /\ n \in {e.exposed, AnyName}
      BY <2>3, <3>1
    <3>3. <<p[2], n>> \in Leads(<<b, n>>)
      BY <2>2, <3>2, LeadsIs
    <3>4. QED
      BY <1>0, <3>1, <3>3
  <2>7. names = {} => u = {}
    BY <2>3
  <2>8. Has(C, <<p[2], u>>)
    <3>1. u = {} => <<p[2], AnyName>> \in C
      BY <2>1, <2>5
    <3>2. QED
      BY <2>6, <3>1 DEF Has
  <2>9. \E c \in C : c[1] = p[2]
    <3>1. CASE names = {}
      BY <2>5, <3>1
    <3>2. CASE u # {}
      <4>1. PICK n \in u : TRUE
        BY <3>2
      <4>2. <<p[2], n>> \in C
        BY <2>6
      <4>3. QED
        BY <4>2
    <3>3. QED
      BY <2>1, <3>1, <3>2
  <2>10. QED
    BY <2>4, <2>8, <2>9
<1>3. QED
  BY <1>1, <1>2

\* A visit for one name, where none is renamed, takes each file its barrel leads to,
\* unless it was seen, and takes it for that name.
LEMMA StepsOfOne ==
  ASSUME BarrelTypeOK, NoRenames, NEW b \in Barrels, NEW n \in Names
  PROVE  /\ \A s \in NamedSteps(b, {n}) \cup WildSteps(b, {n}) : s.names = {n}
         /\ \A d \in Leads(<<b, n>>) :
              \E s \in NamedSteps(b, {n}) \cup WildSteps(b, {n}) : s.key[1] = d[1]
<1>1. ASSUME NEW s \in NamedSteps(b, {n}) PROVE s.names = {n}
  <2>1. PICK e \in named : /\ e.exposed \in {n}
                           /\ s = [key |-> <<e.to, e.original>>, names |-> {e.original}]
    BY NamedStepsIs
  <2>2. QED
    BY <2>1 DEF NoRenames
<1>2. Unrouted(b, {n}) = {} \/ Unrouted(b, {n}) = {n}
  BY DEF Unrouted
<1> DEFINE only == {n}
<1>a. only \in SUBSET Names /\ only # {}
  OBVIOUS
<1>b. \A s : s \in WildSteps(b, only) <=>
           /\ Unrouted(b, only) # {}
           /\ \E p \in wildcard : /\ p[1] = b
                                  /\ s = [key |-> <<p[2], AnyName>>, names |-> Unrouted(b, only)]
  <2> HIDE DEF only
  <2>1. QED
    BY <1>a, WildStepsIs
<1>3. ASSUME NEW s \in WildSteps(b, {n}) PROVE s.names = {n}
  <2>1. Unrouted(b, {n}) # {}
        /\ \E p \in wildcard : s = [key |-> <<p[2], AnyName>>, names |-> Unrouted(b, {n})]
    BY <1>b
  <2>2. PICK p \in wildcard : s = [key |-> <<p[2], AnyName>>, names |-> {n}]
    BY <1>2, <2>1
  <2>3. QED
    BY <2>2
<1>4. ASSUME NEW d \in Leads(<<b, n>>)
      PROVE  \E s \in NamedSteps(b, {n}) \cup WildSteps(b, {n}) : s.key[1] = d[1]
  <2>0. n # AnyName
    BY BarrelAssumption
  <2>1. CASE \E e \in named : /\ e.from = b /\ n \in {e.exposed, AnyName}
                              /\ d = <<e.to, e.original>>
    <3>1. PICK e \in named : /\ e.from = b /\ n \in {e.exposed, AnyName}
                             /\ d = <<e.to, e.original>>
      BY <2>1
    <3> DEFINE s == [key |-> <<e.to, e.original>>, names |-> {e.original}]
    <3>2. e.exposed \in {n}
      BY <2>0, <3>1
    <3>3. s \in NamedSteps(b, {n})
      BY <3>1, <3>2, NamedStepsIs
    <3>4. s.key[1] = d[1]
      BY <3>1
    <3>5. QED
      BY <3>3, <3>4
  <2>2. CASE \E p \in wildcard :
               /\ p[1] = b /\ d = <<p[2], n>>
               /\ \/ n = AnyName
                  \/ ~\E e \in named : e.from = b /\ n \in {e.exposed, AnyName}
    <3>1. PICK p \in wildcard :
               /\ p[1] = b /\ d = <<p[2], n>>
               /\ ~\E e \in named : e.from = b /\ n \in {e.exposed, AnyName}
      BY <2>0, <2>2
    <3>2. n \in Unrouted(b, {n})
      BY <3>1 DEF Unrouted
    <3> DEFINE s == [key |-> <<p[2], AnyName>>, names |-> Unrouted(b, {n})]
    <3>3. Unrouted(b, {n}) # {}
      BY <3>2
    <3>4. s \in WildSteps(b, {n})
      BY <3>1, <3>3, <1>b
    <3>5. s.key[1] = d[1]
      BY <3>1
    <3>6. QED
      BY <3>4, <3>5
  <2> DEFINE c == <<b, n>>
  <2>3. c[1] = b /\ c[2] = n
    OBVIOUS
  <2>4. \/ \E e \in named : /\ e.from = c[1] /\ c[2] \in {e.exposed, AnyName}
                           /\ d = <<e.to, e.original>>
        \/ \E p \in wildcard :
              /\ p[1] = c[1] /\ d = <<p[2], c[2]>>
              /\ \/ c[2] = AnyName
                 \/ ~\E e \in named : e.from = c[1] /\ c[2] \in {e.exposed, AnyName}
    <3>1. d \in Leads(c)
      OBVIOUS
    <3> HIDE DEF c
    <3>2. QED
      BY <3>1, LeadsIs
  <2> HIDE DEF c
  <2>5. QED
    BY <2>1, <2>2, <2>3, <2>4
<1>5. QED
  BY <1>1, <1>3, <1>4

\* A visit adds only what the statements lead to, and, for an import of one name
\* that no statement renames, keeps all of that within the queue and the leaves.
LEMMA VisitInv ==
  ASSUME BarrelInv, NEW b, NEW names, NEW new, Visit(b, names, new),
         UNCHANGED <<wildcard, named, direct, wanted>>
  PROVE  BarrelInv'
<1>1. /\ BarrelTypeOK /\ direct # NoBarrel /\ Sound /\ Complete
      /\ direct' = direct /\ wanted' = wanted
  BY DEF BarrelInv, Visit
<1>2. /\ b \in Barrels /\ names \in SUBSET Names /\ 1 \in DOMAIN queue
      /\ queue[1] = <<b, names>>
      /\ queue' \in Seq(Barrels \X SUBSET Names)
      /\ \A i \in DOMAIN queue' : \/ \E j \in DOMAIN queue : queue'[i] = queue[j]
                                  \/ \E s \in new : queue'[i] = <<s.key[1], s.names>>
      /\ \A j \in DOMAIN queue : j = 1 \/ \E i \in DOMAIN queue' : queue'[i] = queue[j]
      /\ \A s \in new : \E i \in DOMAIN queue' : queue'[i] = <<s.key[1], s.names>>
      /\ seen' = seen \cup {s.key : s \in new}
      /\ leaves' = leaves \cup {s.key[1] : s \in new}
  <2>1. 1 \in DOMAIN queue
    BY <1>1, EmptySeq DEF Visit, BarrelTypeOK
  <2>2. QED
    BY <2>1 DEF Visit
<1>3. new = {s \in NamedSteps(b, names) \cup WildSteps(b, names) : s.key \notin seen}
  BY DEF Visit, NotSeen
<1>4. /\ \A c : Leads(c)' = Leads(c)
      /\ NoRenames' = NoRenames
      /\ \A C : Closed(C)' = Closed(C)
  BY SameLeads
<1>5. BarrelTypeOK'
  <2>1. new \in SUBSET StepOf
    BY <1>1, <1>2, <1>3, NamedStepsIs, WildStepsIs
  <2>2. \A s \in new : s.key \in Context /\ s.key[1] \in Barrels
    BY <2>1 DEF StepOf, Context
  <2>3. seen' \in SUBSET (Barrels \X (Names \cup {AnyName})) /\ leaves' \in SUBSET Barrels
    BY <1>1, <1>2, <2>2 DEF BarrelTypeOK, Context
  <2>4. QED
    BY <1>1, <1>2, <2>3 DEF BarrelTypeOK
<1>6. Sound'
  <2>1. SUFFICES ASSUME NEW C, Closed(C)
                 PROVE  /\ \A x \in leaves' : \E c \in C : c[1] = x
                        /\ \A i \in DOMAIN queue' : Has(C, queue'[i])
    BY <1>4 DEF Sound, Has
  <2>2. /\ \A x \in leaves : \E c \in C : c[1] = x
        /\ \A i \in DOMAIN queue : Has(C, queue[i])
    BY <1>1, <2>1 DEF Sound
  <2>3. Has(C, <<b, names>>)
    BY <1>2, <2>2
  <2>4. ASSUME NEW s \in new
        PROVE  Has(C, <<s.key[1], s.names>>) /\ \E c \in C : c[1] = s.key[1]
    <3>1. s \in NamedSteps(b, names) \cup WildSteps(b, names)
      BY <1>3
    <3>2. QED
      BY <1>1, <1>2, <2>1, <2>3, <3>1, StepsLed
  <2>5. \A x \in leaves' : \E c \in C : c[1] = x
    BY <1>2, <2>2, <2>4
  <2>6. ASSUME NEW i \in DOMAIN queue' PROVE Has(C, queue'[i])
    <3>1. CASE \E j \in DOMAIN queue : queue'[i] = queue[j]
      BY <2>2, <3>1
    <3>2. CASE \E s \in new : queue'[i] = <<s.key[1], s.names>>
      BY <2>4, <3>2
    <3>3. QED
      BY <1>2, <3>1, <3>2
  <2>7. QED
    BY <2>5, <2>6
<1>7. Complete'
  <2>1. SUFFICES ASSUME NEW n, wanted = {n}, NoRenames
                 PROVE  /\ direct \in leaves'
                        /\ \A s \in seen' : s[1] \in leaves'
                        /\ \A i \in DOMAIN queue' : queue'[i][2] = {n}
                        /\ \A x \in leaves' : Queued(x)' \/ \A d \in Leads(<<x, n>>) : d[1] \in leaves'
    BY <1>1, <1>4 DEF Complete
  <2>2. /\ direct \in leaves
        /\ \A s \in seen : s[1] \in leaves
        /\ \A i \in DOMAIN queue : queue[i][2] = {n}
        /\ \A x \in leaves : Queued(x) \/ \A d \in Leads(<<x, n>>) : d[1] \in leaves
    BY <1>1, <2>1 DEF Complete
  <2>3. names = {n} /\ n \in Names
    BY <1>1, <1>2, <2>1, <2>2 DEF BarrelTypeOK
  <2>4. /\ \A s \in NamedSteps(b, {n}) \cup WildSteps(b, {n}) : s.names = {n}
        /\ \A d \in Leads(<<b, n>>) :
              \E s \in NamedSteps(b, {n}) \cup WildSteps(b, {n}) : s.key[1] = d[1]
    BY <1>1, <1>2, <2>1, <2>3, StepsOfOne
  <2>5. \A s \in seen' : s[1] \in leaves'
    BY <1>2, <2>2
  <2>6. ASSUME NEW i \in DOMAIN queue' PROVE queue'[i][2] = {n}
    <3>1. CASE \E j \in DOMAIN queue : queue'[i] = queue[j]
      BY <2>2, <3>1
    <3>2. CASE \E s \in new : queue'[i] = <<s.key[1], s.names>>
      <4>1. PICK s \in new : queue'[i] = <<s.key[1], s.names>>
        BY <3>2
      <4>2. s.names = {n}
        BY <1>3, <2>3, <2>4
      <4>3. QED
        BY <4>1, <4>2
    <3>3. QED
      BY <1>2, <3>1, <3>2
  <2>7. ASSUME NEW x \in leaves'
        PROVE  Queued(x)' \/ \A d \in Leads(<<x, n>>) : d[1] \in leaves'
    <3>1. CASE x = b
      <4>1. ASSUME NEW d \in Leads(<<b, n>>) PROVE d[1] \in leaves'
        <5>1. PICK s \in NamedSteps(b, names) \cup WildSteps(b, names) : s.key[1] = d[1]
          BY <2>3, <2>4
        <5>2. CASE s.key \in seen
          BY <1>2, <2>2, <5>1, <5>2
        <5>3. CASE s.key \notin seen
          <6>1. s \in new
            BY <1>3, <5>3
          <6>2. QED
            BY <1>2, <5>1, <6>1
        <5>4. QED
          BY <5>2, <5>3
      <4>2. QED
        BY <3>1, <4>1
    <3>2. CASE x \in leaves /\ x # b
      <4>1. CASE Queued(x)
        <5>1. PICK j \in DOMAIN queue : queue[j][1] = x
          BY <4>1 DEF Queued
        <5>2. j # 1
          BY <1>2, <3>2, <5>1
        <5>3. QED
          BY <1>2, <5>1, <5>2 DEF Queued
      <4>2. CASE \A d \in Leads(<<x, n>>) : d[1] \in leaves
        BY <1>2, <4>2
      <4>3. QED
        BY <2>2, <3>2, <4>1, <4>2
    <3>3. CASE \E s \in new : x = s.key[1]
      <4>1. PICK s \in new : x = s.key[1]
        BY <3>3
      <4>2. PICK i \in DOMAIN queue' : queue'[i] = <<s.key[1], s.names>>
        BY <1>2
      <4>3. queue'[i][1] = x
        BY <4>1, <4>2
      <4>4. QED
        BY <4>3 DEF Queued
    <3>4. QED
      BY <1>2, <3>1, <3>2, <3>3
  <2>8. QED
    BY <1>2, <2>2, <2>5, <2>6, <2>7
<1>8. QED
  BY <1>1, <1>5, <1>6, <1>7 DEF BarrelInv

\* Every step keeps the invariant of the walk over barrels.
LEMMA BarrelStepInv == BarrelInv /\ [BarrelNext]_barrelVars => BarrelInv'
<1> SUFFICES ASSUME BarrelInv, [BarrelNext]_barrelVars PROVE BarrelInv'
  OBVIOUS
<1>1. CASE UNCHANGED barrelVars
  <2>1. /\ wildcard' = wildcard /\ named' = named /\ direct' = direct /\ wanted' = wanted
        /\ queue' = queue /\ seen' = seen /\ leaves' = leaves
    BY <1>1 DEF barrelVars
  <2>2. /\ \A c : Leads(c)' = Leads(c)
        /\ NoRenames' = NoRenames
        /\ \A C : Closed(C)' = Closed(C)
    BY <2>1, SameLeads
  <2>3. BarrelTypeOK'
    BY <2>1 DEF BarrelInv, BarrelTypeOK
  <2>4. Sound' = Sound
    BY <2>1, <2>2 DEF Sound, Has
  <2>5. Complete' = Complete
    BY <2>1, <2>2 DEF Complete, Queued
  <2>6. QED
    BY <2>1, <2>3, <2>4, <2>5 DEF BarrelInv
<1>2. ASSUME NEW b \in Barrels, NEW leaf \in Barrels, ExportAll(b, leaf) PROVE BarrelInv'
  BY <1>2 DEF BarrelInv, BarrelTypeOK, ExportAll, Indexing
<1>3. ASSUME NEW e \in Entry, ExportNamed(e) PROVE BarrelInv'
  BY <1>3 DEF BarrelInv, BarrelTypeOK, ExportNamed, Indexing
<1>4. ASSUME NEW b \in Barrels, NEW names \in SUBSET Names, Import(b, names) PROVE BarrelInv'
  BY <1>4, ImportInv
<1>5. CASE Walk
  <2>1. /\ UNCHANGED <<wildcard, named, direct, wanted>>
        /\ \E b, names, new : Visit(b, names, new)
    BY <1>5, WalkIsVisit DEF BarrelInv
  <2>2. QED
    BY <2>1, VisitInv
<1>6. QED
  BY <1>1, <1>2, <1>3, <1>4, <1>5 DEF BarrelNext

\* With nothing left in the queue, the leaves are those the statements lead to.
LEMMA BarrelInvRight == BarrelInv => LeavesRight
<1> SUFFICES ASSUME BarrelInv, direct # NoBarrel PROVE LeavesRight
  BY DEF LeavesRight
<1>1. BarrelTypeOK /\ Sound /\ Complete /\ direct \in Barrels
  BY DEF BarrelInv, BarrelTypeOK
<1>2. /\ Closed(Led[Contexts])
      /\ \A C : Closed(C) => Led[Contexts] \subseteq C
  BY <1>1, LedIs
<1>3. leaves \subseteq Credited
  BY <1>1, <1>2 DEF Sound, Credited
<1>4. ASSUME queue = <<>>, Cardinality(wanted) = 1, \A e \in named : e.original = e.exposed
      PROVE  Credited \subseteq leaves
  <2>1. PICK n \in Names : wanted = {n}
    <3>1. IsFiniteSet(wanted) /\ wanted \in SUBSET Names
      BY <1>1, BarrelAssumption, FS_Subset DEF BarrelTypeOK
    <3>2. \E n : wanted = {n}
      BY <1>4, <3>1, FS_Singleton
    <3>3. QED
      BY <3>1, <3>2
  <2>2. NoRenames
    BY <1>4 DEF NoRenames
  <2>3. /\ direct \in leaves
        /\ \A b \in leaves : \A d \in Leads(<<b, n>>) : d[1] \in leaves
    <3>1. \A b : ~Queued(b)
      BY <1>4 DEF Queued
    <3>2. QED
      BY <1>1, <2>1, <2>2, <3>1 DEF Complete
  <2> DEFINE C == {<<b, n>> : b \in leaves}
  <2>4. C \subseteq Context
    BY <1>1, <2>1 DEF BarrelTypeOK, Context
  <2>5. Start \subseteq C
    BY <2>1, <2>3 DEF Start
  <2>6. ASSUME NEW c \in C, NEW d \in Leads(c) PROVE d \in C
    <3>1. PICK b \in leaves : c = <<b, n>>
      OBVIOUS
    <3>2. d[1] \in leaves
      BY <2>3, <2>6, <3>1
    <3>3. n # AnyName
      BY <2>1, BarrelAssumption
    <3>4. c[1] = b /\ c[2] = n
      BY <3>1
    <3>5. CASE \E e \in named : /\ e.from = c[1] /\ c[2] \in {e.exposed, AnyName}
                                /\ d = <<e.to, e.original>>
      <4>1. PICK e \in named : /\ c[2] \in {e.exposed, AnyName} /\ d = <<e.to, e.original>>
        BY <3>5
      <4>2. e.original = n
        BY <2>2, <3>3, <3>4, <4>1 DEF NoRenames
      <4>3. QED
        BY <3>2, <4>1, <4>2
    <3>6. CASE \E p \in wildcard : p[1] = c[1] /\ d = <<p[2], c[2]>>
      <4>1. PICK p \in wildcard : d = <<p[2], c[2]>>
        BY <3>6
      <4>2. QED
        BY <3>2, <3>4, <4>1
    <3>7. QED
      <4> HIDE DEF C
      <4>1. QED
        BY <2>6, <3>5, <3>6, LeadsIs
  <2>7. Closed(C)
    BY <2>4, <2>5, <2>6 DEF Closed
  <2>8. Led[Contexts] \subseteq C
    BY <1>2, <2>7
  <2>9. QED
    BY <2>8 DEF Credited
<1>5. QED
  BY <1>3, <1>4 DEF LeavesRight

\* No importer is credited with a file its names cannot come from, through whatever
\* chains, renames, mixed barrels and cycles; and, where nothing is renamed, an import
\* of one name is credited to every file it can come from (expand_barrel_leaves).
THEOREM BarrelsRight == BarrelSpec => []LeavesRight
<1>1. QED
  BY BarrelInitInv, BarrelStepInv, BarrelInvRight, PTL DEF BarrelSpec

----------------------------------------------------------------------------
(* Circular imports *)

\* Reachability, by the sets of files that no import leaves.
Confines(C) == \A e \in imports : e[1] \in C => e[2] \in C

Reaches(x, y) ==
    /\ x \in Modules /\ y \in Modules
    /\ \A C \in SUBSET Modules : x \in C /\ Confines(C) => y \in C

\* A file reaches itself.
LEMMA ReachSelf == \A x \in Modules : Reaches(x, x)
BY DEF Reaches

\* It reaches what it imports.
LEMMA ReachImport ==
  ASSUME NEW x \in Modules, NEW y \in Modules, <<x, y>> \in imports
  PROVE  Reaches(x, y)
<1>1. ASSUME NEW C, x \in C, Confines(C) PROVE y \in C
  <2>1. <<x, y>>[1] \in C => <<x, y>>[2] \in C
    BY <1>1 DEF Confines
  <2>2. QED
    BY <1>1, <2>1
<1>2. QED
  BY <1>1 DEF Reaches

\* And what that reaches.
LEMMA ReachFurther ==
  ASSUME NEW x, NEW y, NEW z, Reaches(x, y), Reaches(y, z)
  PROVE  Reaches(x, z)
BY DEF Reaches

\* It reaches nothing outside a set that no import leaves.
LEMMA ReachWithin ==
  ASSUME NEW C \in SUBSET Modules, NEW x \in C, Confines(C), NEW y, Reaches(x, y)
  PROVE  y \in C
BY DEF Reaches

\* A file that no import touches reaches nothing else, and nothing else reaches it.
LEMMA ReachNothing ==
  ASSUME imports \in SUBSET (Modules \X Modules), NEW x \in Modules, x \notin AllNodes,
         NEW y, Reaches(x, y) \/ Reaches(y, x)
  PROVE  y = x
<1>1. CASE Reaches(x, y)
  <2>1. Confines({x})
    BY DEF Confines, AllNodes
  <2>2. y \in {x}
    BY <1>1, <2>1, ReachWithin
  <2>3. QED
    BY <2>2
<1>2. CASE Reaches(y, x)
  <2>1. SUFFICES ASSUME y # x PROVE FALSE
    OBVIOUS
  <2> DEFINE C == Modules \ {x}
  <2>2. \A e \in imports : e[2] # x /\ e[2] \in Modules
    BY DEF AllNodes
  <2>3. Confines(C)
    BY <2>2 DEF Confines
  <2>4. C \in SUBSET Modules /\ y \in C
    BY <1>2, <2>1 DEF Reaches
  <2> HIDE DEF C
  <2>5. x \in C
    BY <1>2, <2>3, <2>4, ReachWithin
  <2>6. QED
    BY <2>5 DEF C
<1>3. QED
  BY <1>1, <1>2

\* The imports alone say what is reached.
LEMMA Same ==
  ASSUME imports' = imports
  PROVE  /\ \A x, y : Reaches(x, y)' = Reaches(x, y)
         /\ AllNodes' = AllNodes
BY DEF Reaches, Confines, AllNodes

Mutual(x, y) == Reaches(x, y) /\ Reaches(y, x)

\* The strongly connected component of a file.
Component(x) == {y \in Modules : Mutual(x, y)}

\* To reach each other is an equivalence.
LEMMA MutualIs ==
  /\ \A x \in Modules : Mutual(x, x)
  /\ \A x, y : Mutual(x, y) => Mutual(y, x) /\ x \in Modules /\ y \in Modules
  /\ \A x, y, z : Mutual(x, y) /\ Mutual(y, z) => Mutual(x, z)
<1>1. \A x \in Modules : Mutual(x, x)
  BY ReachSelf DEF Mutual
<1>2. \A x, y : Mutual(x, y) => Mutual(y, x) /\ x \in Modules /\ y \in Modules
  BY DEF Mutual, Reaches
<1>3. \A x, y, z : Mutual(x, y) /\ Mutual(y, z) => Mutual(x, z)
  BY ReachFurther DEF Mutual
<1>4. QED
  BY <1>1, <1>2, <1>3

\* Two files that reach each other have one component.
LEMMA SameComponent ==
  ASSUME NEW x, NEW y, Mutual(x, y)
  PROVE  Component(x) = Component(y)
BY MutualIs DEF Component

-----------------------------------------------------------------------------

\* The positions of a sequence that an element is added to, or that loses its last.
Grown(s, m, t) ==
    /\ DOMAIN t = DOMAIN s \cup {Len(s) + 1} /\ Len(s) + 1 \notin DOMAIN s
    /\ DOMAIN t \subseteq Nat
    /\ \A i \in DOMAIN s : t[i] = s[i] /\ i < Len(s) + 1
    /\ t[Len(s) + 1] = m

Lessened(s, t) ==
    /\ DOMAIN t = DOMAIN s \ {Len(s)} /\ Len(s) \in DOMAIN s /\ DOMAIN s \subseteq Nat
    /\ \A i \in DOMAIN t : t[i] = s[i] /\ i < Len(s)

\* A sequence that an element is appended to, by positions.
LEMMA AppendGrows ==
  ASSUME NEW S, NEW s \in Seq(S), NEW m
  PROVE  Grown(s, m, Append(s, m))
<1>1. s \in Seq(S \cup {m}) /\ Len(s) \in Nat /\ DOMAIN s = 1..Len(s)
  OBVIOUS
<1>2. DOMAIN Append(s, m) = 1..(Len(s) + 1)
  BY <1>1
<1>3. \A i \in 1..Len(s) : Append(s, m)[i] = s[i] /\ i < Len(s) + 1
  BY <1>1
<1>4. Append(s, m)[Len(s) + 1] = m
  BY <1>1
<1>5. 1..(Len(s) + 1) = (1..Len(s)) \cup {Len(s) + 1} /\ Len(s) + 1 \notin 1..Len(s)
  BY <1>1
<1>6. 1..(Len(s) + 1) \subseteq Nat
  OBVIOUS
<1>7. QED
  BY <1>1, <1>2, <1>3, <1>4, <1>5, <1>6 DEF Grown

\* A sequence that loses its last element, by positions.
LEMMA FrontLessens ==
  ASSUME NEW S, NEW s \in Seq(S), s # <<>>
  PROVE  Front(s) \in Seq(S) /\ Lessened(s, Front(s))
<1>1. /\ Len(s) \in Nat /\ Len(s) # 0 /\ DOMAIN s = 1..Len(s)
      /\ Front(s) = SubSeq(s, 1, Len(s) - 1)
  BY DEF Front
<1>2. /\ Front(s) \in Seq(S) /\ Len(Front(s)) = Len(s) - 1
      /\ \A i \in 1..(Len(s) - 1) : Front(s)[i] = s[i]
  BY <1>1
<1>3. DOMAIN Front(s) = 1..(Len(s) - 1)
  BY <1>1, <1>2
<1>4. /\ 1..(Len(s) - 1) = (1..Len(s)) \ {Len(s)} /\ Len(s) \in 1..Len(s)
      /\ \A i \in 1..(Len(s) - 1) : i < Len(s)
  BY <1>1
<1>5. QED
  BY <1>1, <1>2, <1>3, <1>4 DEF Lessened

\* An element of a sequence.
In(x, s) == \E i \in DOMAIN s : s[i] = x

\* What a file reaches was finished no later than some file of its component.
LastOfItsOwn(f, x) ==
    \E r \in DOMAIN f :
       /\ Mutual(x, f[r])
       /\ \A y : Reaches(x, y) => \E j \in DOMAIN f : f[j] = y /\ j <= r

\* The first pass: v is visited, s is on the stack and f was finished.
DepthFirst(v, s, f) ==
    /\ v \subseteq AllNodes
    /\ \A x : x \in v <=> In(x, s) \/ In(x, f)
    /\ \A i, j \in DOMAIN s : s[i] = s[j] => i = j
    /\ \A i, j \in DOMAIN f : f[i] = f[j] => i = j
    /\ \A x : ~ (In(x, s) /\ In(x, f))
    /\ \A i, j \in DOMAIN s : i <= j => Reaches(s[i], s[j])
    /\ \A x, y : In(x, f) /\ <<x, y>> \in imports => y \in v
    /\ \A x : In(x, f) => LastOfItsOwn(f, x) \/ \E j \in DOMAIN s : Mutual(x, s[j])

\* A file once settled stays so when others are finished after it.
LEMMA LastGrows ==
  ASSUME NEW f, NEW m, NEW g, Grown(f, m, g), NEW x, LastOfItsOwn(f, x)
  PROVE  LastOfItsOwn(g, x)
BY DEF LastOfItsOwn, Grown

\* The elements of a sequence with one more.
LEMMA InGrown ==
  ASSUME NEW f, NEW m, NEW g, Grown(f, m, g)
  PROVE  \A x : In(x, g) <=> In(x, f) \/ x = m
BY DEF In, Grown

\* The elements of a sequence without its last.
LEMMA InLessened ==
  ASSUME NEW s, NEW t, Lessened(s, t), \A i, j \in DOMAIN s : s[i] = s[j] => i = j
  PROVE  \A x : In(x, t) <=> In(x, s) /\ x # s[Len(s)]
BY DEF In, Lessened

\* A file is visited: the first of the stack, or one that the last of it imports.
LEMMA PushDepthFirst ==
  ASSUME imports \in SUBSET (Modules \X Modules),
         NEW v, NEW s, NEW f, DepthFirst(v, s, f), NEW m \in AllNodes, m \notin v,
         NEW t, Grown(s, m, t), \A i \in DOMAIN s : Reaches(s[i], m)
  PROVE  DepthFirst(v \cup {m}, t, f)
<1>1. \A x : In(x, t) <=> In(x, s) \/ x = m
  BY InGrown
<1>2. m \in Modules
  BY DEF AllNodes
<1>3. /\ v \cup {m} \subseteq AllNodes
      /\ \A x : x \in v \cup {m} <=> In(x, t) \/ In(x, f)
      /\ \A x : ~ (In(x, t) /\ In(x, f))
      /\ \A x, y : In(x, f) /\ <<x, y>> \in imports => y \in v \cup {m}
  BY <1>1 DEF DepthFirst
<1>4. ASSUME NEW i \in DOMAIN t, NEW j \in DOMAIN t, t[i] = t[j] PROVE i = j
  <2>1. \A k \in DOMAIN s : s[k] # m
    BY DEF DepthFirst, In
  <2>2. QED
    BY <1>4, <2>1 DEF Grown, DepthFirst
<1>5. ASSUME NEW i \in DOMAIN t, NEW j \in DOMAIN t, i <= j PROVE Reaches(t[i], t[j])
  <2>1. CASE j \in DOMAIN s
    <3>1. i \in DOMAIN s
      <4>1. j < Len(s) + 1 /\ i \in Nat /\ j \in Nat /\ (i \in DOMAIN s \/ i = Len(s) + 1)
        BY <2>1 DEF Grown
      <4>2. QED
        BY <1>5, <4>1
    <3>2. QED
      BY <1>5, <2>1, <3>1 DEF Grown, DepthFirst
  <2>2. CASE j = Len(s) + 1
    BY <2>2, <1>2, ReachSelf DEF Grown
  <2>3. QED
    BY <2>1, <2>2 DEF Grown
<1>6. \A x : In(x, f) => LastOfItsOwn(f, x) \/ \E j \in DOMAIN t : Mutual(x, t[j])
  BY DEF Grown, DepthFirst
<1>7. \A i, j \in DOMAIN f : f[i] = f[j] => i = j
  BY DEF DepthFirst
<1>8. QED
  BY <1>3, <1>4, <1>5, <1>6, <1>7 DEF DepthFirst

\* The last of the stack is finished.  What it reaches of the stack is of its
\* component; when that is itself alone, all it reaches is finished.
LEMMA PopDepthFirst ==
  ASSUME imports \in SUBSET (Modules \X Modules),
         NEW v, NEW s, NEW f, DepthFirst(v, s, f),
         NEW t, Lessened(s, t), NEW g, Grown(f, s[Len(s)], g),
         \A m \in Modules : <<s[Len(s)], m>> \in imports => m \in v
  PROVE  DepthFirst(v, t, g)
<1> DEFINE top == s[Len(s)]
<1>0. Len(s) \in DOMAIN s /\ In(top, s) /\ top \in v /\ top \in Modules
  <2>1. Len(s) \in DOMAIN s /\ In(top, s)
    BY DEF Lessened, In
  <2>2. QED
    BY <2>1 DEF DepthFirst, AllNodes
<1>1. \A x : In(x, g) <=> In(x, f) \/ x = top
  BY InGrown
<1>2. \A x : In(x, t) <=> In(x, s) /\ x # top
  BY InLessened DEF DepthFirst
<1>3. /\ v \subseteq AllNodes
      /\ \A x : x \in v <=> In(x, t) \/ In(x, g)
      /\ \A x : ~ (In(x, t) /\ In(x, g))
  BY <1>0, <1>1, <1>2 DEF DepthFirst
<1>4. \A i, j \in DOMAIN t : t[i] = t[j] => i = j
  BY DEF DepthFirst, Lessened
<1>5. ASSUME NEW i \in DOMAIN g, NEW j \in DOMAIN g, g[i] = g[j] PROVE i = j
  <2>1. \A k \in DOMAIN f : f[k] # top
    BY <1>0 DEF DepthFirst, In
  <2>2. QED
    BY <1>5, <2>1 DEF Grown, DepthFirst
<1>6. \A i, j \in DOMAIN t : i <= j => Reaches(t[i], t[j])
  BY DEF DepthFirst, Lessened
<1>7. ASSUME NEW x, NEW y, In(x, g), <<x, y>> \in imports PROVE y \in v
  BY <1>1, <1>7 DEF DepthFirst
<1>8. \A i \in DOMAIN s : Reaches(s[i], top)
  <2>1. \A i \in DOMAIN s : i <= Len(s)
    BY DEF Lessened
  <2>2. QED
    BY <1>0, <2>1 DEF DepthFirst
<1>9. ASSUME NEW x, In(x, g), ~ LastOfItsOwn(g, x)
      PROVE  \E j \in DOMAIN t : Mutual(x, t[j])
  <2>1. CASE \E j \in DOMAIN t : Mutual(x, t[j])
    BY <2>1
  <2>2. CASE Mutual(x, top)
    <3>1. CASE \E i \in DOMAIN t : Reaches(top, s[i])
      <4>1. PICK i \in DOMAIN t : Reaches(top, s[i])
        BY <3>1
      <4>2. i \in DOMAIN s /\ t[i] = s[i]
        BY DEF Lessened
      <4>3. Mutual(top, t[i])
        BY <4>1, <4>2, <1>8 DEF Mutual
      <4>4. QED
        BY <2>2, <4>3, MutualIs
    <3>2. CASE \A i \in DOMAIN t : ~ Reaches(top, s[i])
      <4> DEFINE C == {y \in Modules : Reaches(top, y) /\ In(y, g)}
      <4>1. ASSUME NEW e \in imports, e[1] \in C PROVE e[2] \in C
        <5>1. e = <<e[1], e[2]>> /\ e[1] \in Modules /\ e[2] \in Modules
          OBVIOUS
        <5>2. Reaches(top, e[2])
          <6>1. Reaches(e[1], e[2])
            BY <5>1, ReachImport
          <6>2. Reaches(top, e[1])
            BY <4>1
          <6>3. QED
            BY <6>1, <6>2, ReachFurther
        <5>3. e[2] \in v
          <6>1. In(e[1], g)
            BY <4>1
          <6>2. QED
            BY <5>1, <6>1, <1>7
        <5>4. ~ In(e[2], t)
          BY <5>2, <3>2 DEF In, Lessened
        <5>5. QED
          BY <5>1, <5>2, <5>3, <5>4, <1>3
      <4>2. top \in C /\ C \in SUBSET Modules /\ Confines(C)
        BY <4>1, <1>0, <1>1, ReachSelf DEF Confines
      <4>3. \A y : Reaches(top, y) => In(y, g)
        <5> HIDE DEF C
        <5>1. \A y : Reaches(top, y) => y \in C
          BY <4>2, ReachWithin
        <5>2. QED
          BY <5>1 DEF C
      <4> DEFINE r == Len(f) + 1
      <4>4. r \in DOMAIN g /\ g[r] = top /\ \A j \in DOMAIN g : j <= r
        BY DEF Grown
      <4>5. \A y : Reaches(x, y) => Reaches(top, y)
        BY <2>2, ReachFurther DEF Mutual
      <4>6. LastOfItsOwn(g, x)
        <5> HIDE DEF r, top
        <5>1. \A y : Reaches(x, y) => \E j \in DOMAIN g : g[j] = y /\ j <= r
          BY <4>3, <4>4, <4>5 DEF In
        <5>2. QED
          BY <5>1, <4>4, <2>2 DEF LastOfItsOwn
      <4>7. QED
        BY <1>9, <4>6
    <3>3. QED
      BY <3>1, <3>2
  <2>3. CASE In(x, f)
    <3>1. CASE LastOfItsOwn(f, x)
      BY <3>1, <1>9, LastGrows
    <3>2. CASE \E j \in DOMAIN s : Mutual(x, s[j])
      <4>1. PICK j \in DOMAIN s : Mutual(x, s[j])
        BY <3>2
      <4>2. CASE j = Len(s)
        BY <4>1, <4>2, <2>2
      <4>3. CASE j # Len(s)
        BY <4>1, <4>3, <2>1 DEF Lessened
      <4>4. QED
        BY <4>2, <4>3
    <3>3. QED
      BY <2>3, <3>1, <3>2 DEF DepthFirst
  <2>4. QED
    BY <1>0, <1>1, <1>9, <2>2, <2>3, MutualIs
<1>10. QED
  BY <1>3, <1>4, <1>5, <1>6, <1>7, <1>9 DEF DepthFirst
-----------------------------------------------------------------------------

\* The components of the files of a set.
Circular(D) == {c \in {Component(m) : m \in D} : Cardinality(c) > 1}

\* The first pass finished every node, each once.
Ordered(f) ==
    /\ \A i \in DOMAIN f : f[i] \in AllNodes
    /\ \A i, j \in DOMAIN f : f[i] = f[j] => i = j
    /\ \A x \in AllNodes : LastOfItsOwn(f, x)

\* The whole components of D were collected.
Whole(D) == \A x \in D : \A y : Mutual(x, y) => y \in D

\* The files of c are of one component, that of a file that the others left reach
\* only from the same component.
Foremost(c, D) ==
    \E m \in c : /\ \A x \in c : Mutual(m, x)
                 /\ \A x \in AllNodes \ D : Reaches(x, m) => Mutual(m, x)

\* The second pass: v is visited, s is the work left and c is collected now.
Collecting(v, s, c, ready) ==
    /\ v \subseteq AllNodes /\ c \subseteq v
    /\ Whole(v \ c)
    /\ c # {} => Foremost(c, v \ c)
    /\ \A x \in c : In(x, s) \/ \A m \in Modules : <<m, x>> \in imports => m \in v
    /\ \A i \in DOMAIN s : s[i] \in c
    /\ ready = Circular(v \ c)

\* When no work is left, what was collected is a component.
LEMMA CollectedComponent ==
  ASSUME imports \in SUBSET (Modules \X Modules),
         NEW v, NEW c, NEW ready, NEW s, Collecting(v, s, c, ready), DOMAIN s = {}, c # {}
  PROVE  \E m \in c : c = Component(m)
<1>1. PICK m \in c : /\ \A x \in c : Mutual(m, x)
                     /\ \A x \in AllNodes \ (v \ c) : Reaches(x, m) => Mutual(m, x)
  BY DEF Collecting, Foremost
<1>2. c \subseteq Component(m)
  BY <1>1, MutualIs DEF Component
<1>3. ASSUME NEW y \in Modules, Mutual(m, y), y \notin c PROVE FALSE
  <2> DEFINE C == {z \in Modules : Reaches(y, z) /\ z \notin c}
  <2>1. ASSUME NEW e \in imports, e[1] \in C PROVE e[2] \in C
    <3>1. e = <<e[1], e[2]>> /\ e[1] \in Modules /\ e[2] \in Modules /\ e[1] \in AllNodes
      BY DEF AllNodes
    <3>2. Reaches(e[1], e[2])
      BY <3>1, ReachImport
    <3>3. Reaches(y, e[2])
      BY <2>1, <3>2, ReachFurther
    <3>4. ASSUME e[2] \in c PROVE FALSE
      <4>1. Reaches(e[2], m)
        BY <3>4, <1>1 DEF Mutual
      <4>2. Reaches(e[1], m)
        BY <3>2, <4>1, ReachFurther
      <4>3. Reaches(m, e[1])
        BY <1>3, <2>1, ReachFurther DEF Mutual
      <4>4. Mutual(m, e[1])
        BY <4>2, <4>3 DEF Mutual
      <4>5. e[1] \in v
        BY <3>1, <3>4 DEF Collecting, In
      <4>6. e[1] \in v \ c
        BY <2>1, <4>5
      <4>7. m \in v \ c
        BY <4>4, <4>6, MutualIs DEF Collecting, Whole
      <4>8. QED
        BY <4>7
    <3>5. QED
      BY <3>1, <3>3, <3>4
  <2>2. C \in SUBSET Modules /\ Confines(C) /\ y \in C
    BY <2>1, <1>3, ReachSelf DEF Confines
  <2>3. m \in C
    <3> HIDE DEF C
    <3>1. Reaches(y, m)
      BY <1>3 DEF Mutual
    <3>2. QED
      BY <2>2, <3>1, ReachWithin
  <2>4. QED
    BY <2>3
<1>4. Component(m) \subseteq c
  BY <1>3 DEF Component
<1>5. QED
  BY <1>2, <1>4

\* It is kept if it is more than one file, and then all that is visited is done.
LEMMA KeptWhole ==
  ASSUME IsFiniteSet(Modules), imports \in SUBSET (Modules \X Modules),
         NEW v, NEW c, NEW ready, NEW s, Collecting(v, s, c, ready), DOMAIN s = {}
  PROVE  /\ Whole(v)
         /\ (IF Cardinality(c) > 1 THEN ready \cup {c} ELSE ready) = Circular(v)
<1>1. CASE c = {}
  <2>1. Cardinality(c) = 0
    BY <1>1, FS_EmptySet
  <2>2. v \ c = v
    BY <1>1
  <2>3. ~ (Cardinality(c) > 1)
    BY <2>1
  <2>4. Whole(v) /\ ready = Circular(v)
    BY <2>2 DEF Collecting
  <2>5. QED
    BY <2>3, <2>4
<1>2. CASE c # {}
  <2>1. PICK m \in c : c = Component(m)
    BY <1>2, CollectedComponent
  <2>2. \A x \in c : \A y : Mutual(x, y) => y \in c
    BY <2>1, MutualIs DEF Component
  <2>3. Whole(v)
    BY <2>2 DEF Collecting, Whole
  <2>4. \A x \in c : Component(x) = c
    <3>1. \A x \in c : Mutual(x, m)
      BY <2>1, MutualIs DEF Component
    <3>2. QED
      BY <2>1, <3>1, SameComponent
  <2>5. {Component(x) : x \in v} = {Component(x) : x \in v \ c} \cup {c}
    BY <2>1, <2>4 DEF Collecting
  <2>6. ready = Circular(v \ c)
    BY DEF Collecting
  <2>7. QED
    <3>1. CASE Cardinality(c) > 1
      BY <2>3, <2>5, <2>6, <3>1 DEF Circular
    <3>2. CASE ~ (Cardinality(c) > 1)
      BY <2>3, <2>5, <2>6, <3>2 DEF Circular
    <3>3. QED
      BY <3>1, <3>2
<1>3. QED
  BY <1>1, <1>2

\* The next start is the last finished of those left: what reaches it is of its component.
LEMMA StartLeads ==
  ASSUME NEW v, NEW f, Ordered(f), Whole(v), v \subseteq AllNodes,
         NEW i \in DOMAIN f, f[i] \notin v, DOMAIN f \subseteq Nat,
         \A j \in DOMAIN f : i < j => f[j] \in v
  PROVE  \A x \in AllNodes \ v : Reaches(x, f[i]) => Mutual(f[i], x)
<1>1. SUFFICES ASSUME NEW x \in AllNodes \ v, Reaches(x, f[i]) PROVE Mutual(f[i], x)
  OBVIOUS
<1>2. PICK r \in DOMAIN f :
         /\ Mutual(x, f[r])
         /\ \A y : Reaches(x, y) => \E j \in DOMAIN f : f[j] = y /\ j <= r
  BY DEF Ordered, LastOfItsOwn
<1>3. f[r] \notin v
  BY <1>1, <1>2, MutualIs DEF Whole
<1>4. r <= i
  BY <1>3
<1>5. i <= r
  BY <1>1, <1>2 DEF Ordered
<1>6. r = i
  BY <1>4, <1>5
<1>7. QED
  BY <1>2, <1>6, MutualIs

\* It is collected alone.
LEMMA StartCollecting ==
  ASSUME NEW v, Whole(v), v \subseteq AllNodes, NEW m \in AllNodes, m \notin v,
         m \in Modules, \A x \in AllNodes \ v : Reaches(x, m) => Mutual(m, x),
         NEW ready, ready = Circular(v)
  PROVE  Collecting(v \cup {m}, <<m>>, {m}, ready)
<1>1. (v \cup {m}) \ {m} = v
  OBVIOUS
<1>2. DOMAIN <<m>> = {1} /\ <<m>>[1] = m
  OBVIOUS
<1>3. Foremost({m}, v)
  BY MutualIs DEF Foremost
<1>4. In(m, <<m>>)
  BY <1>2 DEF In
<1>5. QED
  BY <1>1, <1>2, <1>3, <1>4 DEF Collecting

\* What imports a collected file, of the files left, is of its component.
LEMMA BackCollecting ==
  ASSUME imports \in SUBSET (Modules \X Modules),
         NEW v, NEW s, NEW c, NEW ready, Collecting(v, s, c, ready),
         NEW top, In(top, s), NEW new,
         new = {m \in Modules \ v : <<m, top>> \in imports},
         NEW t, \A x : In(x, t) => In(x, s) \/ x \in new,
         \A x : In(x, s) => In(x, t) \/ x = top,
         \A x \in new : In(x, t)
  PROVE  Collecting(v \cup new, t, c \cup new, ready)
<1>1. top \in c /\ c # {}
  BY DEF Collecting, In
<1>2. (v \cup new) \ (c \cup new) = v \ c
  BY DEF Collecting
<1>3. \A x \in new : x \in AllNodes /\ x \in Modules /\ x \notin v
  BY DEF AllNodes
<1>4. PICK m \in c : /\ \A x \in c : Mutual(m, x)
                     /\ \A x \in AllNodes \ (v \ c) : Reaches(x, m) => Mutual(m, x)
  BY <1>1 DEF Collecting, Foremost
<1>5. ASSUME NEW x \in new PROVE Mutual(m, x)
  <2>1. Reaches(x, top)
    <3>1. <<x, top>> \in imports /\ x \in Modules /\ top \in Modules
      OBVIOUS
    <3>2. QED
      BY <3>1, ReachImport
  <2>2. Reaches(top, m)
    BY <1>1, <1>4 DEF Mutual
  <2>3. Reaches(x, m)
    BY <2>1, <2>2, ReachFurther
  <2>4. QED
    BY <2>3, <1>3, <1>4
<1>6. Foremost(c \cup new, v \ c)
  BY <1>4, <1>5 DEF Foremost
<1>7. ASSUME NEW x \in c \cup new, ~ In(x, t), NEW y \in Modules, <<y, x>> \in imports
      PROVE  y \in v \cup new
  <2>1. x \in c
    BY <1>7
  <2>2. CASE x = top
    BY <1>7, <2>2
  <2>3. CASE x # top
    BY <1>7, <2>1, <2>3 DEF Collecting
  <2>4. QED
    BY <2>2, <2>3
<1>8. \A i \in DOMAIN t : t[i] \in c \cup new
  <2>1. \A x : In(x, s) => x \in c
    BY DEF Collecting, In
  <2>2. QED
    BY <2>1 DEF In
<1>9. v \cup new \subseteq AllNodes /\ c \cup new \subseteq v \cup new
  BY <1>3 DEF Collecting
<1>10. QED
  BY <1>2, <1>6, <1>7, <1>8, <1>9 DEF Collecting

-----------------------------------------------------------------------------

CyclesInv ==
    /\ CyclesTypeOK
    /\ pass = 0 => /\ visited = {} /\ stack = <<>> /\ finished = <<>>
                   /\ scc = {} /\ cycles = {}
    /\ pass = 1 => DepthFirst(visited, stack, finished) /\ scc = {} /\ cycles = {}
    /\ pass = 2 => Ordered(finished) /\ Collecting(visited, stack, scc, cycles)
    /\ pass = 3 => cycles = Circular(Modules)

\* The graph is what it was.
LEMMA SameFiles ==
  ASSUME imports' = imports
  PROVE  /\ DepthFirst(visited, stack, finished)' <=> DepthFirst(visited', stack', finished')
         /\ Ordered(finished)' <=> Ordered(finished')
         /\ Collecting(visited, stack, scc, cycles)' <=> Collecting(visited', stack', scc', cycles')
         /\ (cycles = Circular(Modules))' <=> cycles' = Circular(Modules)
<1>1. \A x, y : Reaches(x, y)' = Reaches(x, y)
  BY Same
<1>2. AllNodes' = AllNodes
  BY Same
<1>3. \A x, y : Mutual(x, y)' = Mutual(x, y)
  BY <1>1 DEF Mutual
<1>4. \A D : Circular(D)' = Circular(D)
  BY <1>3 DEF Circular, Component
<1>5. \A f, x : LastOfItsOwn(f, x)' = LastOfItsOwn(f, x)
  BY <1>1, <1>3 DEF LastOfItsOwn
<1>6. DepthFirst(visited, stack, finished)' <=> DepthFirst(visited', stack', finished')
  BY <1>1, <1>2, <1>3 DEF DepthFirst, In, LastOfItsOwn
<1>7. Ordered(finished)' <=> Ordered(finished')
  BY <1>1, <1>2, <1>3 DEF Ordered, LastOfItsOwn
<1>8. Collecting(visited, stack, scc, cycles)' <=> Collecting(visited', stack', scc', cycles')
  BY <1>1, <1>2, <1>3 DEF Collecting, In, Whole, Foremost, Circular, Component
<1>9. (cycles = Circular(Modules))' <=> cycles' = Circular(Modules)
  BY <1>3 DEF Circular, Component
<1>10. QED
  BY <1>6, <1>7, <1>8, <1>9

\* Before the call there is no graph.
LEMMA CyclesInitInv == CyclesInit => CyclesInv
BY DEF CyclesInit, CyclesInv, CyclesTypeOK

\* The call: nothing is visited yet.
LEMMA FindCyclesInv ==
  ASSUME CyclesInv, FindCycles
  PROVE  CyclesInv'
<1>1. /\ pass' = 1 /\ imports' \in SUBSET (Modules \X Modules)
      /\ visited' = {} /\ stack' = <<>> /\ finished' = <<>> /\ scc' = {} /\ cycles' = {}
  BY DEF CyclesInv, FindCycles
<1>2. DepthFirst(visited, stack, finished)'
  BY <1>1 DEF DepthFirst, In
<1>3. CyclesTypeOK'
  BY <1>1 DEF CyclesTypeOK
<1>4. QED
  BY <1>1, <1>2, <1>3 DEF CyclesInv

\* A start of the first pass, and a file that the last one on the stack imports.
LEMMA PushInv ==
  ASSUME CyclesInv, NEW m \in Modules, StartFrom(m) \/ Descend(m)
  PROVE  CyclesInv'
<1>1. /\ CyclesTypeOK /\ pass = 1 /\ DepthFirst(visited, stack, finished)
      /\ scc = {} /\ cycles = {}
  BY DEF CyclesInv, StartFrom, Descend
<1>2. /\ pass' = 1 /\ imports' = imports /\ visited' = visited \cup {m}
      /\ finished' = finished /\ scc' = {} /\ cycles' = {}
      /\ m \in AllNodes /\ m \notin visited
  BY <1>1 DEF StartFrom, Descend, AllNodes
<1>3. stack \in Seq(visited) /\ stack' = Append(stack, m)
  <2>1. stack \in Seq(visited)
    BY <1>1 DEF CyclesTypeOK
  <2>2. Append(<<>>, m) = <<m>>
    OBVIOUS
  <2>3. (stack = <<>> /\ stack' = <<m>>) \/ stack' = Append(stack, m)
    BY DEF StartFrom, Descend
  <2>4. QED
    BY <2>1, <2>2, <2>3
<1>4. Grown(stack, m, stack')
  BY <1>3, AppendGrows
<1>5. imports \in SUBSET (Modules \X Modules)
  BY <1>1 DEF CyclesTypeOK
<1>6. \A i \in DOMAIN stack : Reaches(stack[i], m)
  <2>1. CASE stack = <<>>
    BY <2>1
  <2>2. CASE stack # <<>>
    <3>1. <<Top, m>> \in imports
      BY <2>2 DEF StartFrom, Descend
    <3>2. Len(stack) \in DOMAIN stack /\ \A i \in DOMAIN stack : i <= Len(stack)
      BY <1>3, <2>2
    <3>3. Top \in Modules /\ Reaches(Top, m)
      BY <1>5, <3>1, ReachImport
    <3>4. \A i \in DOMAIN stack : Reaches(stack[i], Top)
      BY <1>1, <3>2 DEF DepthFirst, Top
    <3>5. QED
      BY <3>3, <3>4, ReachFurther
  <2>3. QED
    BY <2>1, <2>2
<1>7. DepthFirst(visited \cup {m}, stack', finished)
  BY <1>1, <1>2, <1>4, <1>5, <1>6, PushDepthFirst
<1>8. DepthFirst(visited, stack, finished)'
  BY <1>2, <1>7, SameFiles
<1>9. CyclesTypeOK'
  <2>1. stack' \in Seq(visited')
    BY <1>2, <1>3
  <2>2. QED
    BY <1>1, <1>2, <2>1 DEF CyclesTypeOK
<1>10. QED
  BY <1>2, <1>8, <1>9 DEF CyclesInv

\* The last file on the stack is finished.
LEMMA FinishInv ==
  ASSUME CyclesInv, Finish
  PROVE  CyclesInv'
<1>1. /\ CyclesTypeOK /\ pass = 1 /\ DepthFirst(visited, stack, finished)
      /\ scc = {} /\ cycles = {}
  BY DEF CyclesInv, Finish
<1>2. /\ pass' = 1 /\ imports' = imports /\ visited' = visited
      /\ stack # <<>> /\ stack' = Front(stack) /\ finished' = Append(finished, Top)
      /\ \A m \in Modules : <<stack[Len(stack)], m>> \in imports => m \in visited
      /\ scc' = {} /\ cycles' = {}
  BY <1>1 DEF Finish, Top
<1>3. /\ stack \in Seq(visited) /\ finished \in Seq(Modules) /\ visited \in SUBSET Modules
      /\ imports \in SUBSET (Modules \X Modules)
  BY <1>1 DEF CyclesTypeOK
<1>4. stack' \in Seq(visited) /\ Lessened(stack, stack')
  BY <1>2, <1>3, FrontLessens
<1>5. Grown(finished, stack[Len(stack)], finished')
  BY <1>2, <1>3, AppendGrows DEF Top
<1>6. DepthFirst(visited, stack', finished')
  BY <1>1, <1>2, <1>3, <1>4, <1>5, PopDepthFirst
<1>7. DepthFirst(visited, stack, finished)'
  BY <1>2, <1>6, SameFiles
<1>8. CyclesTypeOK'
  <2>1. Top \in Modules
    BY <1>2, <1>3 DEF Top
  <2>2. QED
    BY <1>1, <1>2, <1>3, <1>4, <2>1 DEF CyclesTypeOK
<1>9. QED
  BY <1>2, <1>7, <1>8 DEF CyclesInv

\* With the stack empty, every node is finished and settled.
LEMMA EndPass1Inv ==
  ASSUME CyclesInv, EndPass1
  PROVE  CyclesInv'
<1>1. /\ CyclesTypeOK /\ DepthFirst(visited, stack, finished)
      /\ scc = {} /\ cycles = {} /\ stack = <<>> /\ visited = AllNodes
  BY DEF CyclesInv, EndPass1
<1>2. /\ pass' = 2 /\ imports' = imports /\ visited' = {} /\ stack' = <<>>
      /\ finished' = finished /\ scc' = {} /\ cycles' = {}
  BY <1>1 DEF EndPass1
<1>3. \A x : ~ In(x, stack)
  BY <1>1 DEF In
<1>4. Ordered(finished)
  <2>1. \A x : x \in AllNodes <=> In(x, finished)
    BY <1>1, <1>3 DEF DepthFirst
  <2>2. \A x : In(x, finished) => LastOfItsOwn(finished, x)
    BY <1>1 DEF DepthFirst
  <2>3. \A i \in DOMAIN finished : finished[i] \in AllNodes
    BY <2>1 DEF In
  <2>4. QED
    BY <1>1, <2>1, <2>2, <2>3 DEF Ordered, DepthFirst
<1>5. Collecting(visited', stack', scc', cycles')
  BY <1>2 DEF Collecting, Whole, Circular
<1>6. Ordered(finished)' /\ Collecting(visited, stack, scc, cycles)'
  BY <1>2, <1>4, <1>5, SameFiles
<1>7. CyclesTypeOK'
  BY <1>1, <1>2 DEF CyclesTypeOK
<1>8. QED
  BY <1>2, <1>6, <1>7 DEF CyclesInv

\* The second pass keeps what it collected and takes its next start.
LEMMA CollectInv ==
  ASSUME CyclesInv, NEW m \in Modules, Collect(m)
  PROVE  CyclesInv'
<1>1. /\ CyclesTypeOK /\ pass = 2 /\ Ordered(finished)
      /\ Collecting(visited, stack, scc, cycles) /\ stack = <<>> /\ NextStart(m)
  BY DEF CyclesInv, Collect
<1>2. /\ pass' = 2 /\ imports' = imports /\ visited' = visited \cup {m}
      /\ finished' = finished /\ stack' = <<m>> /\ scc' = {m} /\ cycles' = Kept
  BY <1>1 DEF Collect
<1>3. /\ finished \in Seq(Modules) /\ visited \in SUBSET Modules
      /\ imports \in SUBSET (Modules \X Modules) /\ IsFiniteSet(Modules)
      /\ scc \in SUBSET visited /\ cycles \in SUBSET SUBSET Modules
  BY <1>1, CyclesAssumption DEF CyclesTypeOK
<1>4. DOMAIN stack = {}
  BY <1>1
<1>5. Whole(visited) /\ Kept = Circular(visited)
  BY <1>1, <1>3, <1>4, KeptWhole DEF Kept
<1>6. PICK i \in DOMAIN finished :
        /\ finished[i] = m /\ m \notin visited
        /\ \A j \in (i + 1)..Len(finished) : finished[j] \in visited
  BY <1>1 DEF NextStart
<1>7. DOMAIN finished \subseteq Nat /\ \A j \in DOMAIN finished : i < j => finished[j] \in visited
  <2>1. DOMAIN finished = 1..Len(finished) /\ Len(finished) \in Nat
    BY <1>3
  <2>2. ASSUME NEW j \in DOMAIN finished, i < j PROVE j \in (i + 1)..Len(finished)
    BY <2>1, <2>2
  <2>3. QED
    BY <2>1, <2>2, <1>6
<1>8. visited \subseteq AllNodes /\ m \in AllNodes
  BY <1>1, <1>6 DEF Collecting, Ordered
<1>9. \A x \in AllNodes \ visited : Reaches(x, m) => Mutual(m, x)
  BY <1>1, <1>5, <1>6, <1>7, <1>8, StartLeads
<1>10. Collecting(visited', stack', scc', cycles')
  BY <1>2, <1>5, <1>6, <1>8, <1>9, StartCollecting
<1>11. Ordered(finished)' /\ Collecting(visited, stack, scc, cycles)'
  BY <1>1, <1>2, <1>10, SameFiles
<1>12. CyclesTypeOK'
  <2>1. Kept \in SUBSET SUBSET Modules
    BY <1>3 DEF Kept
  <2>2. stack' \in Seq(visited')
    BY <1>2
  <2>3. QED
    BY <1>1, <1>2, <1>3, <2>1, <2>2 DEF CyclesTypeOK
<1>13. QED
  BY <1>2, <1>11, <1>12 DEF CyclesInv

\* It goes back to the files that import the last of its work.
LEMMA FollowBackInv ==
  ASSUME CyclesInv, FollowBack
  PROVE  CyclesInv'
<1> DEFINE new == {m \in Modules \ visited : <<m, Top>> \in imports}
<1>1. /\ CyclesTypeOK /\ pass = 2 /\ Ordered(finished)
      /\ Collecting(visited, stack, scc, cycles) /\ stack # <<>>
  BY DEF CyclesInv, FollowBack
<1>2. /\ pass' = 2 /\ imports' = imports /\ visited' = visited \cup new
      /\ finished' = finished /\ scc' = scc \cup new /\ cycles' = cycles
      /\ \E order \in SetToSeqs(new) : stack' = Front(stack) \o order
  BY <1>1 DEF FollowBack
<1>3. /\ stack \in Seq(visited) /\ visited \in SUBSET Modules
      /\ imports \in SUBSET (Modules \X Modules) /\ IsFiniteSet(Modules)
  BY <1>1, CyclesAssumption DEF CyclesTypeOK
<1>4. PICK order \in SetToSeqs(new) : stack' = Front(stack) \o order
  BY <1>2
<1>5. IsFiniteSet(new) /\ new \in SUBSET Modules
      /\ new = {m \in Modules \ visited : <<m, Top>> \in imports}
  BY <1>3, FS_Subset
<1> HIDE DEF new
<1>6. /\ order \in Seq(new) /\ \A x \in new : In(x, order)
  BY <1>5, SetToSeqsIs DEF In
<1>7. Front(stack) \in Seq(visited) /\ Lessened(stack, Front(stack))
  BY <1>1, <1>3, FrontLessens
<1>8. Joined(visited, new, Front(stack), order, Len(Front(stack)), stack')
  BY <1>4, <1>6, <1>7, Concatenated
<1>9. stack' \in Seq(visited \cup new)
  BY <1>8 DEF Joined
<1>10. \A x : In(x, stack') <=> In(x, Front(stack)) \/ In(x, order)
  <2>1. \A x : In(x, stack') => In(x, Front(stack)) \/ In(x, order)
    BY <1>8 DEF Joined, In
  <2>2. \A x : In(x, Front(stack)) => In(x, stack')
    BY <1>8 DEF Joined, In
  <2>3. \A x : In(x, order) => In(x, stack')
    BY <1>8 DEF Joined, In
  <2>4. QED
    BY <2>1, <2>2, <2>3
<1>11. \A x : In(x, order) => x \in new
  BY <1>6 DEF In
<1>12. /\ In(Top, stack)
       /\ \A x : In(x, Front(stack)) => In(x, stack)
       /\ \A x : In(x, stack) => In(x, Front(stack)) \/ x = Top
  BY <1>7 DEF In, Lessened, Top
<1>13. Collecting(visited \cup new, stack', scc \cup new, cycles)
  <2>1. /\ \A x : In(x, stack') => In(x, stack) \/ x \in new
        /\ \A x : In(x, stack) => In(x, stack') \/ x = Top
        /\ \A x \in new : In(x, stack')
    BY <1>6, <1>10, <1>11, <1>12
  <2>2. QED
    BY <1>1, <1>3, <1>5, <1>12, <2>1, BackCollecting
<1>14. Ordered(finished)' /\ Collecting(visited, stack, scc, cycles)'
  BY <1>1, <1>2, <1>13, SameFiles
<1>15. CyclesTypeOK'
  BY <1>1, <1>2, <1>5, <1>9 DEF CyclesTypeOK
<1>16. QED
  BY <1>2, <1>14, <1>15 DEF CyclesInv

\* With every node visited, what it kept are the components.
LEMMA ReturnInv ==
  ASSUME CyclesInv, Return
  PROVE  CyclesInv'
<1>1. /\ CyclesTypeOK /\ pass = 2 /\ Collecting(visited, stack, scc, cycles)
      /\ stack = <<>> /\ visited = AllNodes
  BY DEF CyclesInv, Return
<1>2. /\ pass' = 3 /\ imports' = imports /\ visited' = visited /\ stack' = stack
      /\ finished' = finished /\ scc' = scc /\ cycles' = Kept
  BY <1>1 DEF Return
<1>3. /\ imports \in SUBSET (Modules \X Modules) /\ IsFiniteSet(Modules)
      /\ scc \in SUBSET Modules /\ cycles \in SUBSET SUBSET Modules
      /\ AllNodes \in SUBSET Modules
  BY <1>1, CyclesAssumption DEF CyclesTypeOK
<1>4. DOMAIN stack = {}
  BY <1>1
<1>5. Kept = Circular(AllNodes)
  BY <1>1, <1>3, <1>4, KeptWhole DEF Kept
<1>6. ASSUME NEW x \in Modules, x \notin AllNodes PROVE ~ (Cardinality(Component(x)) > 1)
  <2>1. Component(x) \subseteq {x} /\ x \in Component(x)
    BY <1>3, <1>6, ReachNothing, MutualIs DEF Component, Mutual
  <2>2. Component(x) = {x}
    BY <2>1
  <2>3. Cardinality(Component(x)) = 1
    BY <2>2, FS_Singleton
  <2>4. QED
    BY <2>3
<1>7. Circular(AllNodes) = Circular(Modules)
  BY <1>3, <1>6 DEF Circular
<1>8. (cycles = Circular(Modules))'
  BY <1>2, <1>5, <1>7, SameFiles
<1>9. CyclesTypeOK'
  <2>1. Kept \in SUBSET SUBSET Modules
    BY <1>3 DEF Kept
  <2>2. QED
    BY <1>1, <1>2, <2>1 DEF CyclesTypeOK
<1>10. QED
  BY <1>2, <1>8, <1>9 DEF CyclesInv

\* Every step of the two passes keeps the invariant.
LEMMA CyclesStepInv == CyclesInv /\ [CyclesNext]_cycleVars => CyclesInv'
<1> SUFFICES ASSUME CyclesInv, [CyclesNext]_cycleVars PROVE CyclesInv'
  OBVIOUS
<1>1. CASE UNCHANGED cycleVars
  <2>1. /\ pass' = pass /\ imports' = imports /\ visited' = visited /\ stack' = stack
        /\ finished' = finished /\ scc' = scc /\ cycles' = cycles
    BY <1>1 DEF cycleVars
  <2>2. CyclesTypeOK'
    BY <2>1 DEF CyclesInv, CyclesTypeOK
  <2>3. QED
    BY <2>1, <2>2, SameFiles DEF CyclesInv
<1>2. CASE FindCycles
  BY <1>2, FindCyclesInv
<1>3. ASSUME NEW m \in Modules, StartFrom(m) \/ Descend(m) PROVE CyclesInv'
  BY <1>3, PushInv
<1>4. ASSUME NEW m \in Modules, Collect(m) PROVE CyclesInv'
  BY <1>4, CollectInv
<1>5. CASE Finish
  BY <1>5, FinishInv
<1>6. CASE EndPass1
  BY <1>6, EndPass1Inv
<1>7. CASE FollowBack
  BY <1>7, FollowBackInv
<1>8. CASE Return
  BY <1>8, ReturnInv
<1>9. QED
  BY <1>1, <1>2, <1>3, <1>4, <1>5, <1>6, <1>7, <1>8 DEF CyclesNext

-----------------------------------------------------------------------------

\* What it finds in as many steps as there are files is what is reached.
LEMMA ReachIs ==
  ASSUME CyclesTypeOK, NEW m \in Modules
  PROVE  Reach(m) \in SUBSET Modules /\ \A n \in Modules : n \in Reach(m) <=> Reaches(m, n)
<1> DEFINE step == [S \in SUBSET Modules |-> S \cup {p[2] : p \in {e \in imports : e[1] \in S}}]
           only == {m}
           N == Cardinality(Modules)
<1>0. /\ imports \in SUBSET (Modules \X Modules) /\ IsFiniteSet(Modules)
      /\ only \in SUBSET Modules /\ only # {}
  BY CyclesAssumption DEF CyclesTypeOK
<1>1. step \in [SUBSET Modules -> SUBSET Modules]
  BY <1>0
<1>2. \A S \in SUBSET Modules :
        step[S] = S \cup {p[2] : p \in {e \in imports : e[1] \in S}} /\ S \subseteq step[S]
  OBVIOUS
<1> HIDE DEF step
<1>3. N \in Nat
  BY <1>0, FS_CardinalityType
<1> HIDE DEF only
<1>4. PICK g \in [Nat -> SUBSET Modules] : Steps(g, Nat, only, step)
  BY <1>0, <1>1, NatRecursion
<1>5. g[0] = {m} /\ \A i \in Nat : g[i + 1] = step[g[i]]
  BY <1>4, StepsNext DEF only
<1>6. \A i \in Nat : /\ g[i] \in SUBSET Modules
                     /\ g[i + 1] = g[i] \cup {p[2] : p \in {e \in imports : e[1] \in g[i]}}
  BY <1>2, <1>4, <1>5
<1> DEFINE Rec(f) == f = [k \in Nat |-> IF k = 0 THEN {m}
                            ELSE f[k - 1] \cup {p[2] : p \in {e \in imports : e[1] \in f[k - 1]}}]
           Rounds == CHOOSE f : Rec(f)
<1>7. Rec(g)
  <2>1. ASSUME NEW k \in Nat
        PROVE  g[k] = IF k = 0 THEN {m}
                      ELSE g[k - 1] \cup {p[2] : p \in {e \in imports : e[1] \in g[k - 1]}}
    <3>1. CASE k = 0
      BY <1>5, <3>1
    <3>2. CASE k # 0
      <4>1. k - 1 \in Nat /\ (k - 1) + 1 = k
        BY <3>2
      <4>2. g[(k - 1) + 1] = g[k - 1] \cup {p[2] : p \in {e \in imports : e[1] \in g[k - 1]}}
        BY <4>1, <1>6
      <4>3. QED
        BY <3>2, <4>1, <4>2
    <3>3. QED
      BY <3>1, <3>2
  <2>2. QED
    BY <1>4, <2>1
<1>8. Reach(m) = Rounds[N]
  BY Zenon DEF Reach
<1>9. Rec(Rounds)
  <2> HIDE DEF Rec
  <2>1. QED
    BY <1>7
<1> HIDE DEF Rounds
<1>10. \A k \in Nat :
         Rounds[k] = IF k = 0 THEN {m}
                   ELSE Rounds[k - 1] \cup {p[2] : p \in {e \in imports : e[1] \in Rounds[k - 1]}}
  BY <1>9
<1> HIDE DEF Rec, N
<1>11. Rounds[N] = g[N]
  <2> DEFINE Good == {k \in Nat : Rounds[k] = g[k]}
  <2>1. 0 \in Good
    BY <1>10, <1>5
  <2>2. ASSUME NEW k \in Good PROVE k + 1 \in Good
    <3>1. k + 1 \in Nat /\ k + 1 # 0 /\ (k + 1) - 1 = k /\ Rounds[k] = g[k] /\ k \in Nat
      OBVIOUS
    <3>2. g[k + 1] = g[k] \cup {p[2] : p \in {e \in imports : e[1] \in g[k]}}
      BY <1>6, <3>1
    <3>3. Rounds[k + 1] = Rounds[k] \cup {p[2] : p \in {e \in imports : e[1] \in Rounds[k]}}
      BY <1>10, <3>1
    <3>4. QED
      BY <3>1, <3>2, <3>3
  <2> HIDE DEF Good
  <2>3. Good \in SUBSET Nat
    BY DEF Good
  <2>4. \A k \in Nat : k \in Good
    BY <2>1, <2>2, <2>3, NatInductionSet
  <2>5. QED
    BY <1>3, <2>4 DEF Good
<1>12. step[g[N]] = g[N]
  <2>1. \A S \in SUBSET Modules : S \subseteq step[S]
    BY <1>2
  <2>2. step[g[Cardinality(Modules)]] = g[Cardinality(Modules)]
    BY <1>0, <1>1, <1>4, <2>1, Saturates
  <2>3. QED
    BY <2>2 DEF N
<1>13. Confines(g[N])
  <2>1. g[N] = g[N] \cup {p[2] : p \in {e \in imports : e[1] \in g[N]}}
    BY <1>3, <1>5, <1>6, <1>12
  <2>2. ASSUME NEW e \in imports, e[1] \in g[N] PROVE e[2] \in g[N]
    BY <2>1, <2>2
  <2>3. QED
    BY <2>2 DEF Confines
<1>14. ASSUME NEW C \in SUBSET Modules, m \in C, Confines(C)
       PROVE  \A i \in Nat : g[i] \subseteq C
  <2> DEFINE Good == {i \in Nat : g[i] \subseteq C}
  <2>1. 0 \in Good
    BY <1>5, <1>14
  <2>2. ASSUME NEW i \in Good PROVE i + 1 \in Good
    <3>1. /\ g[i] \subseteq C
          /\ g[i + 1] = g[i] \cup {p[2] : p \in {e \in imports : e[1] \in g[i]}}
      BY <1>6
    <3>2. ASSUME NEW e \in imports, e[1] \in g[i] PROVE e[2] \in C
      BY <1>14, <3>1, <3>2 DEF Confines
    <3>3. QED
      BY <3>1, <3>2
  <2> HIDE DEF Good
  <2>3. Good \in SUBSET Nat
    BY DEF Good
  <2>4. \A i \in Nat : i \in Good
    BY <2>1, <2>2, <2>3, NatInductionSet
  <2>5. QED
    BY <2>4 DEF Good
<1>15. m \in g[N]
  <2> DEFINE Good == {i \in Nat : m \in g[i]}
  <2>1. 0 \in Good /\ Good \in SUBSET Nat /\ \A i \in Good : i + 1 \in Good
    BY <1>5, <1>6
  <2> HIDE DEF Good
  <2>2. \A i \in Nat : i \in Good
    BY <2>1, NatInductionSet
  <2>3. QED
    BY <1>3, <2>2 DEF Good
<1>16. Reach(m) = g[N] /\ g[N] \in SUBSET Modules
  BY <1>3, <1>6, <1>8, <1>11
<1>17. ASSUME NEW n \in Modules PROVE n \in g[N] <=> Reaches(m, n)
  <2>1. ASSUME NEW C \in SUBSET Modules, m \in C, Confines(C) PROVE g[N] \subseteq C
    BY <1>3, <1>14, <2>1
  <2>2. ASSUME n \in g[N] PROVE Reaches(m, n)
    BY <2>1, <2>2 DEF Reaches
  <2>3. ASSUME Reaches(m, n) PROVE n \in g[N]
    BY <1>13, <1>15, <1>16, <2>3, ReachWithin
  <2>4. QED
    BY <2>2, <2>3
<1>18. QED
  BY <1>16, <1>17

\* When it returns, the cycles are the components of more than one file.
LEMMA CyclesInvRight == CyclesInv => CyclesAreComponents
<1> SUFFICES ASSUME CyclesInv, pass = 3
             PROVE  cycles = {c \in {{n \in Reach(m) : m \in Reach(n)} : m \in Modules} :
                                Cardinality(c) > 1}
  BY DEF CyclesAreComponents
<1>1. cycles = Circular(Modules) /\ CyclesTypeOK
  BY DEF CyclesInv
<1>2. \A m, n \in Modules : n \in Reach(m) <=> Reaches(m, n)
  BY <1>1, ReachIs
<1>3. \A m \in Modules : Reach(m) \in SUBSET Modules
  BY <1>1, ReachIs
<1>4. ASSUME NEW m \in Modules PROVE {n \in Reach(m) : m \in Reach(n)} = Component(m)
  BY <1>2, <1>3 DEF Component, Mutual
<1>5. {{n \in Reach(m) : m \in Reach(n)} : m \in Modules} = {Component(m) : m \in Modules}
  BY <1>4
<1>6. QED
  BY <1>1, <1>5 DEF Circular

\* Kosaraju's algorithm without recursion (get_repo_health.py, _find_cycles): for
\* any files and imports, and whatever the order of the set of nodes and of the
\* imports of a file, the cycles returned are the strongly connected components of
\* more than one file, each of them once and whole.
THEOREM CyclesRight == CyclesSpec => []CyclesAreComponents
<1>1. QED
  BY CyclesInitInv, CyclesStepInv, CyclesInvRight, PTL DEF CyclesSpec

----------------------------------------------------------------------------
(* All of them *)

\* The invariant of the walks has their types.
LEMMA WalkInvTypes == WalkInv => WalkTypeOK
BY DEF WalkInv

\* That of the barrels too.
LEMMA BarrelInvTypes == BarrelInv => BarrelTypeOK
BY DEF BarrelInv

\* That of the two passes too.
LEMMA CyclesInvTypes == CyclesInv => CyclesTypeOK
BY DEF CyclesInv

\* A behaviour runs one of the three, and the others stay where they were.
LEMMA QueryStep ==
  ASSUME [Next]_QueryVars
  PROVE  [WalkNext]_walkVars /\ [CyclesNext]_cycleVars /\ [BarrelNext]_barrelVars
<1>1. CASE UNCHANGED QueryVars
  BY <1>1 DEF QueryVars
<1>2. CASE Next
  BY <1>2 DEF Next
<1>3. QED
  BY <1>1, <1>2

\* The types of the three walks: what they find, list and collect are nodes,
\* barrels and files, and what the second pass collects it has visited.
THEOREM QueryTypes == Spec => []QueryTypeOK
<1>1. Init => WalkInv /\ CyclesInv /\ BarrelInv
  BY WalkInitInv, CyclesInitInv, BarrelInitInv DEF Init
<1>2. WalkInv /\ CyclesInv /\ BarrelInv /\ [Next]_QueryVars => (WalkInv /\ CyclesInv /\ BarrelInv)'
  BY QueryStep, WalkStepInv, CyclesStepInv, BarrelStepInv
<1>3. WalkInv /\ CyclesInv /\ BarrelInv => QueryTypeOK
  BY WalkInvTypes, CyclesInvTypes, BarrelInvTypes DEF QueryTypeOK
<1>4. QED
  BY <1>1, <1>2, <1>3, PTL DEF Spec
=============================================================================
