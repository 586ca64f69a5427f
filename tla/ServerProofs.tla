---------------------------- MODULE ServerProofs ----------------------------
(***************************************************************************)
(* Proofs about what server processes remember between calls and fetch:    *)
(* ToolResults, SessionState, TokenTracker, RepoIndexing and ProjectConfig,*)
(* each for every value of its constants, and the types of their union.    *)
(*                                                                         *)
(* A section comes first that the components share: the least element of a *)
(* set of numbers, induction over finite sets, the recursion that a fold   *)
(* of the community modules runs, and sequences that lose an element.      *)
(***************************************************************************)
EXTENDS MCServer, SequenceTheorems, FiniteSetTheorems, WellFoundedInduction, TLAPS


----------------------------------------------------------------------------
(* Induction, and folds *)

\* A set of natural numbers that is not empty has a least element.
LEMMA LeastNat ==
  ASSUME NEW T \in SUBSET Nat, T # {}
  PROVE  \E m \in T : \A k \in T : m <= k
<1> DEFINE Less == {p \in Nat \X Nat : p[1] < p[2]}
<1>1. IsWellFoundedOn(Less, Nat)
  BY NatLessThanWellFounded DEF OpToRel
<1>2. \E x \in T : \A y \in T : ~ (<<y, x>> \in Less)
  BY <1>1, WFMin
<1>3. ASSUME NEW x \in T, NEW y \in T, ~ (<<y, x>> \in Less)
      PROVE  x <= y
  BY <1>3, SMT DEF Less
<1>4. QED
  <2>1. PICK x \in T : \A y \in T : ~ (<<y, x>> \in Less)
    BY <1>2
  <2>2. \A y \in T : x <= y
    BY <1>3, <2>1
  <2>3. QED
    BY <2>2

\* Induction over the numbers, with the property given as the set of those
\* that have it: the library's own rule takes the property as an operator.
LEMMA NatInductionSet ==
  ASSUME NEW G \in SUBSET Nat, 0 \in G, \A n \in G : n + 1 \in G
  PROVE  \A n \in Nat : n \in G
<1> SUFFICES ASSUME Nat \ G # {} PROVE FALSE
  OBVIOUS
<1>1. PICK m \in Nat \ G : \A k \in Nat \ G : m <= k
  BY LeastNat
<1>2. m # 0 /\ m - 1 \in Nat
  BY <1>1
<1>3. m - 1 \in G
  BY <1>1, <1>2
<1>4. (m - 1) + 1 = m
  BY <1>1
<1>5. QED
  BY <1>1, <1>3, <1>4

\* Induction over a finite set: what a set has when all it leaves after the
\* loss of one element have it is had by every subset.
LEMMA SetInduction ==
  ASSUME NEW D, IsFiniteSet(D), NEW G \in SUBSET (SUBSET D), {} \in G,
         \A s \in SUBSET D : s # {} /\ (\A x \in s : s \ {x} \in G) => s \in G
  PROVE  \A s \in SUBSET D : s \in G
<1> SUFFICES ASSUME NEW z \in SUBSET D, z \notin G PROVE FALSE
  OBVIOUS
<1> DEFINE Sizes == {n \in Nat : \E s \in SUBSET D : s \notin G /\ Cardinality(s) = n}
<1>1. ASSUME NEW s \in SUBSET D
      PROVE  IsFiniteSet(s) /\ Cardinality(s) \in Nat
  BY FS_Subset, FS_CardinalityType
<1>2. PICK m \in Sizes : \A n \in Sizes : m <= n
  <2>1. Cardinality(z) \in Sizes
    BY <1>1
  <2> HIDE DEF Sizes
  <2>2. Sizes \in SUBSET Nat
    BY DEF Sizes
  <2>3. QED
    BY <2>1, <2>2, LeastNat
<1>3. PICK s \in SUBSET D : s \notin G /\ Cardinality(s) = m
  OBVIOUS
<1>4. PICK x \in s : s \ {x} \notin G
  BY <1>3
<1>5. Cardinality(s \ {x}) = m - 1
  BY <1>1, <1>3, <1>4, FS_RemoveElement
<1>7. Cardinality(s \ {x}) \in Sizes
  BY <1>1, <1>4
<1>8. m <= m - 1 /\ m \in Nat
  <2>1. m \in Nat
    OBVIOUS
  <2> HIDE DEF Sizes
  <2> QED BY <1>2, <1>5, <1>7, <2>1
<1>9. QED
  <2> HIDE DEF Sizes
  <2> QED BY <1>8

\* the recursion that MapThenFoldSet runs
Recursion(g, D, dom, base, choose, step) ==
    g = [s \in dom |-> IF s = {} THEN base ELSE step[choose[s], g[s \ {choose[s]}]]]

\* The function that a fold over a finite set describes exists: its value at a
\* set is a step away from its value at the set without the element chosen.
LEMMA SetRecursion ==
  ASSUME NEW D, IsFiniteSet(D), NEW X, NEW base \in X,
         NEW choose, \A s \in (SUBSET D) \ {{}} : choose[s] \in s,
         NEW step \in [D \X X -> X]
  PROVE  \E g \in [SUBSET D -> X] : Recursion(g, D, SUBSET D, base, choose, step)
<1> DEFINE Small(n) == {s \in SUBSET D : Cardinality(s) <= n}
           Good == {n \in Nat : \E g \in [Small(n) -> X] : Recursion(g, D, Small(n), base, choose, step)}
<1>0. ASSUME NEW s \in SUBSET D
      PROVE  IsFiniteSet(s) /\ Cardinality(s) \in Nat /\ Cardinality(s) <= Cardinality(D)
  BY FS_Subset, FS_CardinalityType
<1>1. 0 \in Good
  <2>1. ASSUME NEW s \in Small(0) PROVE s = {}
    BY <1>0, FS_EmptySet
  <2> DEFINE g == [s \in Small(0) |-> base]
  <2>2. g \in [Small(0) -> X]
    OBVIOUS
  <2>3. Recursion(g, D, Small(0), base, choose, step)
    <3> HIDE DEF Small
    <3> QED BY <2>1 DEF Recursion
  <2>4. QED
    BY <2>2, <2>3
<1>2. ASSUME NEW n \in Good PROVE n + 1 \in Good
  <2>0. n \in Nat
    OBVIOUS
  <2>1. PICK g \in [Small(n) -> X] : Recursion(g, D, Small(n), base, choose, step)
    OBVIOUS
  <2> DEFINE h == [s \in Small(n + 1) |->
                     IF s = {} THEN base ELSE step[choose[s], g[s \ {choose[s]}]]]
  <2>2. ASSUME NEW s \in Small(n + 1), s # {}
        PROVE  /\ choose[s] \in s /\ choose[s] \in D
               /\ s \ {choose[s]} \in Small(n)
    <3>1. choose[s] \in s /\ choose[s] \in D
      BY <2>2
    <3>2. Cardinality(s \ {choose[s]}) = Cardinality(s) - 1
      BY <3>1, <1>0, FS_RemoveElement
    <3>3. Cardinality(s) - 1 <= n
      BY <1>0, <2>0
    <3>4. QED
      BY <3>1, <3>2, <3>3
  <2>3. ASSUME NEW s \in Small(n) PROVE s \in Small(n + 1)
    BY <1>0, <2>0
  <2>4. ASSUME NEW s \in Small(n) PROVE h[s] = g[s]
    <3> HIDE DEF Small
    <3> QED BY <2>1, <2>3 DEF Recursion
  <2>5. h \in [Small(n + 1) -> X]
    <3> HIDE DEF Small
    <3>1. ASSUME NEW s \in Small(n + 1), s # {}
          PROVE  step[choose[s], g[s \ {choose[s]}]] \in X
      BY <3>1, <2>2
    <3> QED BY <3>1
  <2>6. Recursion(h, D, Small(n + 1), base, choose, step)
    <3>1. ASSUME NEW s \in Small(n + 1), s # {}
          PROVE  h[s \ {choose[s]}] = g[s \ {choose[s]}]
      BY <3>1, <2>2, <2>4
    <3>2. h = [s \in Small(n + 1) |->
                 IF s = {} THEN base ELSE step[choose[s], h[s \ {choose[s]}]]]
      <4> HIDE DEF Small
      <4>1. ASSUME NEW s \in Small(n + 1)
            PROVE  h[s] = IF s = {} THEN base ELSE step[choose[s], h[s \ {choose[s]}]]
        BY <3>1
      <4> QED BY <4>1
    <3> QED BY <3>2 DEF Recursion
  <2>7. QED
    <3> HIDE DEF h, Small
    <3>1. n + 1 \in Nat
      BY <2>0
    <3>2. \E f \in [Small(n + 1) -> X] : Recursion(f, D, Small(n + 1), base, choose, step)
      BY <2>5, <2>6
    <3>3. QED
      BY <3>1, <3>2
<1>3. Cardinality(D) \in Good
  <2> HIDE DEF Good
  <2>1. Good \subseteq Nat
    BY DEF Good
  <2> QED BY <2>1, <1>0, <1>1, <1>2, NatInductionSet
<1>4. Small(Cardinality(D)) = SUBSET D
  BY <1>0
<1>5. QED
  BY <1>3, <1>4

----------------------------------------------------------------------------
(* Sequences *)

\* A sequence without one of its elements.
LEMMA RemoveAtProperties ==
  ASSUME NEW S, NEW s \in Seq(S), NEW i \in 1..Len(s)
  PROVE  /\ RemoveAt(s, i) \in Seq(S)
         /\ Len(RemoveAt(s, i)) = Len(s) - 1
         /\ \A j \in 1..(Len(s) - 1) : RemoveAt(s, i)[j] = IF j < i THEN s[j] ELSE s[j + 1]
<1> DEFINE before == SubSeq(s, 1, i - 1)
           after  == SubSeq(s, i + 1, Len(s))
<1>1. /\ Len(s) \in Nat /\ i \in Nat /\ 1 <= i /\ i <= Len(s)
      /\ \A j \in 1..Len(s) : s[j] \in S
  BY LenProperties, ElementOfSeq
<1>2. /\ before \in Seq(S) /\ Len(before) = i - 1
      /\ \A j \in 1..(i - 1) : before[j] = s[j]
  <2>1. \A j \in 1..(i - 1) : s[j] \in S
    BY <1>1
  <2>2. /\ before \in Seq(S) /\ Len(before) = IF 1 <= i - 1 THEN i - 1 - 1 + 1 ELSE 0
        /\ \A j \in 1..(i - 1 - 1 + 1) : before[j] = s[1 + j - 1]
    BY <1>1, <2>1, SubSeqProperties
  <2>3. QED BY <1>1, <2>2
<1>3. /\ after \in Seq(S) /\ Len(after) = Len(s) - i
      /\ \A j \in 1..(Len(s) - i) : after[j] = s[i + j]
  <2>1. \A j \in (i + 1)..Len(s) : s[j] \in S
    BY <1>1
  <2>2. /\ after \in Seq(S)
        /\ Len(after) = IF i + 1 <= Len(s) THEN Len(s) - (i + 1) + 1 ELSE 0
        /\ \A j \in 1..(Len(s) - (i + 1) + 1) : after[j] = s[i + 1 + j - 1]
    BY <1>1, <2>1, SubSeqProperties
  <2>3. QED BY <1>1, <2>2
<1> HIDE DEF before, after
<1>4. /\ before \o after \in Seq(S) /\ Len(before \o after) = Len(before) + Len(after)
      /\ \A j \in 1..(Len(before) + Len(after)) :
           (before \o after)[j] = IF j <= Len(before) THEN before[j] ELSE after[j - Len(before)]
  BY <1>2, <1>3, ConcatProperties
<1>5. ASSUME NEW j \in 1..(Len(s) - 1)
      PROVE  (before \o after)[j] = IF j < i THEN s[j] ELSE s[j + 1]
  <2>1. CASE j < i
    BY <1>1, <1>2, <1>3, <1>4, <2>1
  <2>2. CASE ~(j < i)
    <3>1. j - Len(before) \in 1..(Len(s) - i) /\ i + (j - Len(before)) = j + 1
      BY <1>1, <1>2, <2>2
    <3>2. (before \o after)[j] = after[j - Len(before)]
      BY <1>1, <1>2, <1>3, <1>4, <2>2
    <3>3. QED BY <1>3, <2>2, <3>1, <3>2
  <2>3. QED BY <2>1, <2>2
<1>6. RemoveAt(s, i) = before \o after
  BY DEF RemoveAt, before, after
<1>7. Len(before \o after) = Len(s) - 1
  BY <1>1, <1>2, <1>3, <1>4
<1>8. QED BY <1>4, <1>5, <1>6, <1>7


\* An element is appended, and the first one dropped if there is one too many.
Newest(s, e, max) ==
    IF Len(Append(s, e)) > max THEN Tail(Append(s, e)) ELSE Append(s, e)

\* What cache_put leaves in a queue was there before or is the entry put.
LEMMA NewestElements ==
  ASSUME NEW S, NEW s \in Seq(S), NEW e \in S, NEW max \in Nat, Len(s) <= max
  PROVE  /\ Newest(s, e, max) \in Seq(S) /\ Len(Newest(s, e, max)) <= max
         /\ \A i \in DOMAIN Newest(s, e, max) :
              Newest(s, e, max)[i] = e \/ \E j \in DOMAIN s : Newest(s, e, max)[i] = s[j]
<1> DEFINE kept  == Append(s, e)
           moved == Newest(s, e, max)
<1>1. /\ Len(s) \in Nat /\ DOMAIN s = 1..Len(s)
      /\ kept \in Seq(S) /\ kept # <<>> /\ Len(kept) = Len(s) + 1 /\ DOMAIN kept = 1..Len(kept)
      /\ \A i \in 1..Len(s) : kept[i] = s[i]
      /\ kept[Len(s) + 1] = e
  BY AppendProperties, LenProperties
<1>2. moved = IF Len(kept) > max THEN Tail(kept) ELSE kept
  BY DEF Newest
<1> HIDE DEF kept, moved
<1>3. ASSUME NEW i \in DOMAIN kept PROVE kept[i] = e \/ \E j \in DOMAIN s : kept[i] = s[j]
  <2>1. i \in 1..Len(s) \/ i = Len(s) + 1
    BY <1>1
  <2>2. QED BY <1>1, <2>1
<1>4. CASE Len(kept) > max
  <2>1. /\ moved \in Seq(S) /\ Len(moved) = Len(s) /\ DOMAIN moved = 1..Len(s)
        /\ \A i \in 1..Len(s) : moved[i] = kept[i + 1]
    BY <1>1, <1>2, <1>4, HeadTailProperties, LenProperties
  <2>2. ASSUME NEW i \in DOMAIN moved PROVE moved[i] = kept[i + 1] /\ i + 1 \in DOMAIN kept
    BY <1>1, <2>1
  <2>3. QED BY <1>3, <2>1, <2>2 DEF moved
<1>5. CASE ~(Len(kept) > max)
  BY <1>1, <1>2, <1>3, <1>5 DEF moved
<1>6. QED BY <1>4, <1>5

\* The elements that stay when one is removed.
LEMMA RemoveAtElements ==
  ASSUME NEW S, NEW s \in Seq(S), NEW k \in DOMAIN s
  PROVE  /\ RemoveAt(s, k) \in Seq(S) /\ Len(RemoveAt(s, k)) <= Len(s)
         /\ \A i \in DOMAIN RemoveAt(s, k) : \E j \in DOMAIN s : RemoveAt(s, k)[i] = s[j]
<1> DEFINE t == RemoveAt(s, k)
<1>1. k \in 1..Len(s) /\ Len(s) \in Nat /\ DOMAIN s = 1..Len(s)
  BY LenProperties
<1>2. /\ t \in Seq(S) /\ Len(t) = Len(s) - 1
      /\ \A j \in 1..(Len(s) - 1) : t[j] = IF j < k THEN s[j] ELSE s[j + 1]
  BY <1>1, RemoveAtProperties
<1>3. Len(t) \in Nat /\ DOMAIN t = 1..Len(t)
  BY <1>2, LenProperties
<1> HIDE DEF t
<1>4. ASSUME NEW i \in DOMAIN t PROVE \E j \in DOMAIN s : t[i] = s[j]
  <2>1. i \in 1..Len(s) /\ i + 1 \in 1..Len(s) /\ t[i] \in {s[i], s[i + 1]}
    BY <1>1, <1>2, <1>3
  <2>2. QED BY <1>1, <2>1
<1>5. QED BY <1>1, <1>2, <1>4 DEF t

----------------------------------------------------------------------------
(* Tool results *)

\* A search result is found under the version it is of; a result of get_blast_radius is
\* of the current version, unless the cache may be behind.
ResultsCurrent ==
    /\ \A i \in DOMAIN cache["search_symbols"] :
         cache["search_symbols"][i].of = cache["search_symbols"][i].at
    /\ ~behind => \A i \in DOMAIN cache["get_blast_radius"] :
         cache["get_blast_radius"][i].of >= version

\* What a call has loaded is no older than what there was when it was asked.
CallsCurrent ==
    \A c \in Calls : call[c] # Idle =>
      /\ call[c].asked <= version
      /\ call[c].pc # "load" /\ (call[c].tool = "search_symbols" \/ call[c].current)
           => call[c].of >= call[c].asked

ToolInv == ToolTypeOK /\ ResultsCurrent /\ CallsCurrent /\ AnswersCurrent

\* The results after one was moved, or added, to the end: it and some there were.
LEMMA MovedToEnd ==
  ASSUME ToolTypeOK, NEW tool \in Tools, NEW r \in Result, MoveToEnd(tool, r)
  PROVE  /\ cache' \in [Tools -> Seq(Result)]
         /\ \A t \in Tools : Len(cache'[t]) <= CacheMax
         /\ \A t \in Tools \ {tool} : cache'[t] = cache[t]
         /\ \A i \in DOMAIN cache'[tool] :
              \/ cache'[tool][i] = r
              \/ \E j \in DOMAIN cache[tool] : cache'[tool][i] = cache[tool][j]
<1> DEFINE s == cache[tool]
           others == Others(s, r.query, r.at)
           moved == Newest(others, r, CacheMax)
<1>1. s \in Seq(Result) /\ Len(s) \in Nat /\ Len(s) <= CacheMax /\ CacheMax \in Nat \ {0}
  BY LenProperties, ToolAssumption DEF ToolTypeOK
<1>2. /\ others \in Seq(Result) /\ Len(others) <= Len(s) /\ Len(others) \in Nat
      /\ \A i \in DOMAIN others : \E j \in DOMAIN s : others[i] = s[j]
  <2>1. CASE \E i \in DOMAIN s : Has(s[i], r.query, r.at)
    <3> DEFINE k == CHOOSE i \in DOMAIN s : Has(s[i], r.query, r.at)
    <3>1. k \in DOMAIN s /\ others = RemoveAt(s, k)
      BY <2>1 DEF Others
    <3> HIDE DEF k, s, others
    <3>2. QED BY <1>1, <3>1, RemoveAtElements, LenProperties
  <2>2. CASE ~\E i \in DOMAIN s : Has(s[i], r.query, r.at)
    BY <1>1, <2>2 DEF Others
  <2>3. QED BY <2>1, <2>2
<1> HIDE DEF others, s
<1>3. Len(others) <= CacheMax
  BY <1>1, <1>2
<1>4. /\ moved \in Seq(Result) /\ Len(moved) <= CacheMax
      /\ \A i \in DOMAIN moved : moved[i] = r \/ \E j \in DOMAIN others : moved[i] = others[j]
  BY <1>1, <1>2, <1>3, NewestElements
<1>5. cache' = [cache EXCEPT ![tool] = moved]
  BY DEF MoveToEnd, Newest, others, s
<1> HIDE DEF moved
<1>6. cache \in [Tools -> Seq(Result)] /\ \A t \in Tools : Len(cache[t]) <= CacheMax
  BY DEF ToolTypeOK
<1>7. cache'[tool] = moved /\ cache' \in [Tools -> Seq(Result)]
      /\ \A t \in Tools \ {tool} : cache'[t] = cache[t]
  BY <1>4, <1>5, <1>6
<1>8. \A i \in DOMAIN moved : moved[i] = r \/ \E j \in DOMAIN s : moved[i] = s[j]
  BY <1>2, <1>4
<1>9. QED BY <1>4, <1>6, <1>7, <1>8 DEF s

\* Nothing is cached, and no call runs.
LEMMA ToolInitInv == ToolInit => ToolInv
<1> SUFFICES ASSUME ToolInit PROVE ToolInv
  OBVIOUS
<1>1. /\ version = 1 /\ 1 \in Versions
      /\ \A t \in Tools : cache[t] = <<>>
      /\ \A c \in Calls : call[c] = Idle
      /\ reply = NoReply
  BY ToolAssumption DEF ToolInit, Versions
<1>2. ToolTypeOK
  <2>1. cache \in [Tools -> Seq(Result)] /\ \A t \in Tools : Len(cache[t]) <= CacheMax
    BY <1>1, ToolAssumption, EmptySeq DEF ToolInit
  <2>2. call \in [Calls -> {Idle} \cup Working] /\ reply \in {NoReply} \cup Reply
    BY DEF ToolInit
  <2>3. spent \in 0..Threshold
    BY ToolAssumption DEF ToolInit
  <2>4. QED BY <1>1, <2>1, <2>2, <2>3 DEF ToolInit, ToolTypeOK
<1>3. ResultsCurrent /\ CallsCurrent /\ AnswersCurrent
  BY <1>1 DEF ResultsCurrent, CallsCurrent, AnswersCurrent, Tools
<1>4. QED BY <1>2, <1>3 DEF ToolInv

\* What the components of the state are.
LEMMA ToolParts ==
  ASSUME ToolTypeOK
  PROVE  /\ version \in Versions /\ Versions \subseteq Nat
         /\ \A c \in Calls : call[c] # Idle =>
              /\ call[c] \in Working /\ call[c].pc \in {"load", "compute", "dispatch"}
              /\ call[c].tool \in Tools /\ call[c].query \in Queries
              /\ call[c].asked \in Nat /\ call[c].of \in Versions /\ call[c].of \in Nat
              /\ call[c].current \in BOOLEAN /\ call[c].warned \in BOOLEAN
              /\ call[c].asked \in Versions
         /\ \A t \in Tools : \A i \in DOMAIN cache[t] :
              /\ cache[t][i] \in Result /\ cache[t][i].of \in Versions /\ cache[t][i].of \in Nat
              /\ cache[t][i].warned \in BOOLEAN
<1>1. version \in Versions /\ Versions \subseteq Nat
  BY ToolAssumption DEF ToolTypeOK, Versions
<1>2. ASSUME NEW c \in Calls, call[c] # Idle
      PROVE  /\ call[c] \in Working /\ call[c].pc \in {"load", "compute", "dispatch"}
             /\ call[c].tool \in Tools /\ call[c].query \in Queries
             /\ call[c].asked \in Versions /\ call[c].of \in Versions
             /\ call[c].current \in BOOLEAN /\ call[c].warned \in BOOLEAN
  BY <1>2 DEF ToolTypeOK, Working
<1>3. ASSUME NEW t \in Tools, NEW i \in DOMAIN cache[t]
      PROVE  cache[t][i] \in Result
  <2>1. cache[t] \in Seq(Result)
    BY DEF ToolTypeOK
  <2>2. QED BY <2>1, LenProperties, ElementOfSeq
<1>4. ASSUME NEW r \in Result PROVE r.of \in Versions /\ r.warned \in BOOLEAN
  BY DEF Result
<1>5. QED BY <1>1, <1>2, <1>3, <1>4

\* A call that begins, with what it has of a version.
LEMMA WorkBegins ==
  ASSUME ToolInv, NEW c \in Calls, NEW pc \in {"load", "compute", "dispatch"},
         NEW tool \in Tools, NEW q \in Queries, NEW of \in Versions, NEW warned \in BOOLEAN,
         Work(c, pc, tool, q, of, warned), version' = version,
         pc # "load" /\ (tool = "search_symbols" \/ ~behind) => of >= version
  PROVE  call' \in [Calls -> {Idle} \cup Working] /\ CallsCurrent'
<1> DEFINE w == [pc |-> pc, tool |-> tool, query |-> q, asked |-> version,
                 current |-> ~behind, of |-> of, warned |-> warned]
<1>1. version \in Versions /\ Versions \subseteq Nat /\ behind \in BOOLEAN
      /\ call \in [Calls -> {Idle} \cup Working]
  BY ToolParts DEF ToolInv, ToolTypeOK
<1>2. /\ w \in Working /\ w.asked = version /\ w.pc = pc /\ w.tool = tool
      /\ w.current => ~behind
      /\ w.of = of
  BY <1>1 DEF Working
<1>3. call' = [call EXCEPT ![c] = w]
  BY DEF Work
<1> HIDE DEF w
<1>4. call' \in [Calls -> {Idle} \cup Working] /\ call'[c] = w
      /\ \A d \in Calls \ {c} : call'[d] = call[d]
  BY <1>1, <1>2, <1>3
<1>5. ASSUME NEW d \in Calls, (call[d] # Idle)'
      PROVE  /\ call'[d].asked <= version
             /\ call'[d].pc # "load" /\ (call'[d].tool = "search_symbols" \/ call'[d].current)
                  => call'[d].of >= call'[d].asked
  <2>1. CASE d = c
    BY <1>1, <1>2, <1>4, <2>1
  <2>2. CASE d # c
    BY <1>4, <1>5, <2>2 DEF ToolInv, CallsCurrent
  <2>3. QED BY <2>1, <2>2
<1>6. QED BY <1>4, <1>5 DEF CallsCurrent

\* A call that ends, with an answer.
LEMMA AnswerEnds ==
  ASSUME ToolInv, NEW c \in Calls, NEW r \in Reply,
         reply' = r, call' = [call EXCEPT ![c] = Idle], version' = version,
         r.tool = "search_symbols" \/ r.current => r.of >= r.asked
  PROVE  /\ call' \in [Calls -> {Idle} \cup Working] /\ CallsCurrent'
         /\ reply' \in Reply /\ AnswersCurrent'
<1>1. AnswersCurrent'
  BY DEF AnswersCurrent
<1>2. call \in [Calls -> {Idle} \cup Working]
  BY DEF ToolInv, ToolTypeOK
<1>3. /\ call' \in [Calls -> {Idle} \cup Working] /\ call'[c] = Idle
      /\ \A d \in Calls \ {c} : call'[d] = call[d]
  BY <1>2
<1>4. CallsCurrent'
  BY <1>3 DEF ToolInv, CallsCurrent
<1>5. QED BY <1>1, <1>3, <1>4

\* The results stay current when one of them is moved to the end.
LEMMA MovedCurrent ==
  ASSUME ToolInv, NEW tool \in Tools, NEW r \in Result, MoveToEnd(tool, r),
         version' = version, behind' \in BOOLEAN, behind => behind',
         tool = "search_symbols" => r.of = r.at,
         tool = "get_blast_radius" /\ ~behind' => r.of >= version
  PROVE  ResultsCurrent'
<1>1. /\ \A t \in Tools \ {tool} : cache'[t] = cache[t]
      /\ \A i \in DOMAIN cache'[tool] :
           \/ cache'[tool][i] = r
           \/ \E j \in DOMAIN cache[tool] : cache'[tool][i] = cache[tool][j]
  BY MovedToEnd DEF ToolInv
<1>2. CASE tool = "search_symbols"
  <2>1. cache'["get_blast_radius"] = cache["get_blast_radius"]
    BY <1>1, <1>2 DEF Tools
  <2>2. ASSUME NEW i \in DOMAIN cache'["search_symbols"]
        PROVE  cache'["search_symbols"][i].of = cache'["search_symbols"][i].at
    BY <1>1, <1>2 DEF ToolInv, ResultsCurrent
  <2>3. QED BY <2>1, <2>2 DEF ToolInv, ResultsCurrent
<1>3. CASE tool = "get_blast_radius"
  <2>1. cache'["search_symbols"] = cache["search_symbols"]
    BY <1>1, <1>3 DEF Tools
  <2>2. ASSUME NEW i \in DOMAIN cache'["get_blast_radius"], ~behind'
        PROVE  cache'["get_blast_radius"][i].of >= version
    BY <1>1, <1>3, <2>2 DEF ToolInv, ResultsCurrent
  <2>3. QED BY <2>1, <2>2 DEF ToolInv, ResultsCurrent
<1>4. QED BY <1>2, <1>3 DEF Tools

\* What a hit is.
LEMMA CachedResult ==
  ASSUME ToolInv, NEW tool \in Tools, NEW q, NEW at, NEW r \in Cached(tool, q, at)
  PROVE  /\ r \in Result /\ r.of \in Versions /\ r.warned \in BOOLEAN /\ r.at = at
         /\ tool = "search_symbols" => r.of = r.at
         /\ tool = "get_blast_radius" /\ ~behind => r.of >= version
<1>1. PICK i \in DOMAIN cache[tool] : r = cache[tool][i]
  BY DEF Cached, Range
<1>2. r \in Result /\ r.of \in Versions /\ r.warned \in BOOLEAN
  BY <1>1, ToolParts DEF ToolInv
<1>3. r.at = at
  BY DEF Cached, Has
<1>4. /\ tool = "search_symbols" => r.of = r.at
      /\ tool = "get_blast_radius" /\ ~behind => r.of >= version
  BY <1>1 DEF ToolInv, ResultsCurrent
<1>5. QED BY <1>2, <1>3, <1>4

\* A search starts: it answers from a cached entry, which is of the index it sees, or goes on.
LEMMA SearchInv ==
  ASSUME ToolInv, NEW c \in Calls, NEW q \in Queries, Search(c, q)
  PROVE  ToolInv'
<1>0. /\ version' = version /\ writer' = writer /\ behind' = behind /\ spent' = spent
      /\ reply' = NoReply
      /\ version \in Versions /\ version \in Nat /\ behind \in BOOLEAN
      /\ "search_symbols" \in Tools /\ KeyVersion("search_symbols", version) = version
  BY ToolParts DEF Search, ToolInv, ToolTypeOK, Tools, KeyVersion
<1>1. ASSUME NEW r \in Cached("search_symbols", q, version),
             MoveToEnd("search_symbols", r),
             Work(c, "dispatch", "search_symbols", q, r.of, r.warned)
      PROVE  ToolInv'
  <2>1. /\ r \in Result /\ r.of \in Versions /\ r.warned \in BOOLEAN
        /\ r.of = r.at /\ r.at = version
    BY <1>0, <1>1, CachedResult
  <2>2. call' \in [Calls -> {Idle} \cup Working] /\ CallsCurrent'
    BY <1>0, <1>1, <2>1, WorkBegins
  <2>3. ResultsCurrent'
    BY <1>0, <1>1, <2>1, MovedCurrent
  <2>4. cache' \in [Tools -> Seq(Result)] /\ \A t \in Tools : Len(cache'[t]) <= CacheMax
    BY <1>0, <1>1, <2>1, MovedToEnd DEF ToolInv
  <2>5. QED BY <1>0, <2>2, <2>3, <2>4 DEF ToolInv, ToolTypeOK, AnswersCurrent
<1>2. ASSUME Work(c, "compute", "search_symbols", q, version, FALSE), cache' = cache
      PROVE  ToolInv'
  <2>1. version >= version /\ FALSE \in BOOLEAN
    BY <1>0
  <2>2. call' \in [Calls -> {Idle} \cup Working] /\ CallsCurrent'
    BY <1>0, <1>2, <2>1, WorkBegins
  <2>3. QED BY <1>0, <1>2, <2>2 DEF ToolInv, ToolTypeOK, ResultsCurrent, AnswersCurrent
<1>3. QED BY <1>0, <1>1, <1>2 DEF Search

\* The same for get_blast_radius, whose cached answer loses its _meta.
LEMMA BlastRadiusInv ==
  ASSUME ToolInv, NEW c \in Calls, NEW q \in Queries, BlastRadius(c, q)
  PROVE  ToolInv'
<1> DEFINE tool == "get_blast_radius"
           hits == Cached(tool, q, KeyVersion(tool, version))
<1>0. /\ version' = version /\ writer' = writer /\ behind' = behind /\ spent' = spent
      /\ version \in Versions /\ version \in Nat /\ behind \in BOOLEAN /\ tool \in Tools
  BY ToolParts DEF BlastRadius, ToolInv, ToolTypeOK, Tools
<1>1. ASSUME NEW r \in hits, MoveToEnd(tool, r),
             \/ Work(c, "dispatch", tool, q, r.of, r.warned) /\ reply' = NoReply
             \/ Answer(c, tool, FALSE, version, ~behind, r.of, FALSE, FALSE)
      PROVE  ToolInv'
  <2>1. /\ r \in Result /\ r.of \in Versions /\ r.warned \in BOOLEAN
        /\ ~behind => r.of >= version
    BY <1>0, <1>1, CachedResult
  <2>2. ResultsCurrent'
    BY <1>0, <1>1, <2>1, MovedCurrent
  <2>3. cache' \in [Tools -> Seq(Result)] /\ \A t \in Tools : Len(cache'[t]) <= CacheMax
    BY <1>0, <1>1, <2>1, MovedToEnd DEF ToolInv
  <2>4. CASE Work(c, "dispatch", tool, q, r.of, r.warned) /\ reply' = NoReply
    <3>1. call' \in [Calls -> {Idle} \cup Working] /\ CallsCurrent'
      BY <1>0, <2>1, <2>4, WorkBegins
    <3>2. QED BY <1>0, <2>2, <2>3, <2>4, <3>1 DEF ToolInv, ToolTypeOK, AnswersCurrent
  <2>5. CASE Answer(c, tool, FALSE, version, ~behind, r.of, FALSE, FALSE)
    <3> DEFINE answer == [tool |-> tool, ok |-> FALSE, asked |-> version,
                          current |-> ~behind, of |-> r.of, warned |-> FALSE, near |-> FALSE]
    <3>1. /\ answer \in Reply /\ answer.of = r.of /\ answer.asked = version
          /\ answer.tool = tool
          /\ answer.current => ~behind
      BY <1>0, <2>1 DEF Reply
    <3>2. reply' = answer /\ call' = [call EXCEPT ![c] = Idle]
      BY <2>5 DEF Answer
    <3> HIDE DEF answer
    <3>3. answer.tool = "search_symbols" \/ answer.current => answer.of >= answer.asked
      BY <2>1, <3>1
    <3>4. /\ call' \in [Calls -> {Idle} \cup Working] /\ CallsCurrent'
          /\ reply' \in Reply /\ AnswersCurrent'
      BY <1>0, <3>1, <3>2, <3>3, AnswerEnds
    <3>5. QED BY <1>0, <2>2, <2>3, <3>4 DEF ToolInv, ToolTypeOK
  <2>6. QED BY <1>1, <2>4, <2>5
<1>2. ASSUME Work(c, "load", tool, q, version, FALSE), cache' = cache, reply' = NoReply
      PROVE  ToolInv'
  <2>1. call' \in [Calls -> {Idle} \cup Working] /\ CallsCurrent'
    BY <1>0, <1>2, WorkBegins
  <2>2. QED BY <1>0, <1>2, <2>1 DEF ToolInv, ToolTypeOK, ResultsCurrent, AnswersCurrent
<1>3. QED BY <1>1, <1>2 DEF BlastRadius

\* A call that goes on: its step, and perhaps the version it has.
LEMMA WorkGoesOn ==
  ASSUME ToolInv, NEW c \in Calls, call[c] # Idle, version' = version,
         call' \in [Calls -> {Idle} \cup Working],
         \A d \in Calls \ {c} : call'[d] = call[d],
         call'[c].asked = call[c].asked, call'[c].tool = call[c].tool,
         call'[c].current = call[c].current,
         call'[c].of = version \/ (call'[c].of = call[c].of /\ call[c].pc # "load")
  PROVE  CallsCurrent'
<1>1. version \in Nat /\ call[c].asked \in Nat /\ call[c].of \in Nat
  BY ToolParts DEF ToolInv
<1>2. /\ call[c].asked <= version
      /\ call[c].pc # "load" /\ (call[c].tool = "search_symbols" \/ call[c].current)
           => call[c].of >= call[c].asked
  BY DEF ToolInv, CallsCurrent
<1>3. call'[c].tool = "search_symbols" \/ call'[c].current => call'[c].of >= call'[c].asked
  BY <1>1, <1>2
<1>4. ASSUME NEW d \in Calls, (call[d] # Idle)'
      PROVE  /\ call'[d].asked <= version
             /\ call'[d].pc # "load" /\ (call'[d].tool = "search_symbols" \/ call'[d].current)
                  => call'[d].of >= call'[d].asked
  <2>1. CASE d = c
    BY <1>2, <1>3, <2>1
  <2>2. CASE d # c
    BY <1>4, <2>2 DEF ToolInv, CallsCurrent
  <2>3. QED BY <2>1, <2>2
<1>5. QED BY <1>4 DEF CallsCurrent

\* A call loads the index: what it holds is what is stored, whatever comes after.
LEMMA LoadIndexInv ==
  ASSUME ToolInv, NEW c \in Calls, LoadIndex(c)
  PROVE  ToolInv'
<1>1. /\ call[c] # Idle /\ call[c] \in Working /\ version \in Versions
      /\ call \in [Calls -> {Idle} \cup Working]
  BY ToolParts DEF LoadIndex, Idle, ToolInv, ToolTypeOK
<1>2. call' = [call EXCEPT ![c] = [call[c] EXCEPT !.pc = "compute", !.of = version]]
  BY <1>1 DEF LoadIndex, Working
<1> DEFINE w == [call[c] EXCEPT !.pc = "compute", !.of = version]
<1>3. /\ w \in Working /\ w.asked = call[c].asked /\ w.tool = call[c].tool
      /\ w.current = call[c].current /\ w.of = version
  BY <1>1 DEF Working
<1> HIDE DEF w
<1>4. /\ call' \in [Calls -> {Idle} \cup Working] /\ call'[c] = w
      /\ \A d \in Calls \ {c} : call'[d] = call[d]
  BY <1>1, <1>2, <1>3 DEF w
<1>5. CallsCurrent'
  BY <1>1, <1>3, <1>4, WorkGoesOn DEF LoadIndex
<1>6. QED BY <1>4, <1>5 DEF LoadIndex, ToolInv, ToolTypeOK, ResultsCurrent, AnswersCurrent

\* A call computes its answer and caches it, under the stamp it read at its
\* start: an entry of the present stamp is of the present index.
LEMMA ComputeInv ==
  ASSUME ToolInv, NEW c \in Calls, ComputeAndKeep(c)
  PROVE  ToolInv'
<1> DEFINE tool == call[c].tool
           w == [call[c] EXCEPT !.pc = "dispatch"]
           r == [query |-> call[c].query, at |-> KeyVersion(tool, call[c].of),
                 of |-> call[c].of, meta |-> TRUE, warned |-> FALSE, sharedBy |-> {c}]
<1>1. /\ call[c] # Idle /\ call[c] \in Working /\ call[c].pc = "compute"
      /\ tool \in Tools /\ call[c].of \in Versions /\ call[c].of \in Nat
      /\ version \in Versions /\ version \in Nat /\ behind \in BOOLEAN
      /\ call \in [Calls -> {Idle} \cup Working]
  BY ToolParts DEF ComputeAndKeep, Idle, ToolInv, ToolTypeOK
<1>2. /\ r \in Result /\ r.of = call[c].of
      /\ tool = "search_symbols" => r.of = r.at
  <2>1. /\ KeyVersion(tool, call[c].of) \in Versions \cup {0} /\ call[c].query \in Queries
        /\ tool = "search_symbols" => KeyVersion(tool, call[c].of) = call[c].of
    BY <1>1, ToolParts DEF KeyVersion, ToolInv
  <2>2. QED BY <1>1, <2>1 DEF Result
<1>3. /\ w \in Working /\ w.asked = call[c].asked /\ w.tool = tool
      /\ w.current = call[c].current /\ w.of = call[c].of
  BY <1>1 DEF Working
<1>4. /\ MoveToEnd(tool, r) /\ call' = [call EXCEPT ![c] = w]
      /\ behind' = (behind \/ (tool = "get_blast_radius" /\ call[c].of < version))
      /\ version' = version /\ writer' = writer /\ spent' = spent /\ reply' = NoReply
  BY DEF ComputeAndKeep
<1> HIDE DEF r, w
<1>5. /\ call' \in [Calls -> {Idle} \cup Working] /\ call'[c] = w
      /\ \A d \in Calls \ {c} : call'[d] = call[d]
  BY <1>1, <1>3, <1>4
<1>6. CallsCurrent'
  BY <1>1, <1>3, <1>4, <1>5, WorkGoesOn
<1>7. ResultsCurrent'
  <2>1. behind' \in BOOLEAN /\ (behind => behind')
        /\ (tool = "get_blast_radius" /\ ~behind' => ~(call[c].of < version))
    BY <1>4
  <2>2. tool = "get_blast_radius" /\ ~behind' => r.of >= version
    BY <1>1, <1>2, <2>1
  <2>3. QED BY <1>1, <1>2, <1>4, <2>1, <2>2, MovedCurrent
<1>8. cache' \in [Tools -> Seq(Result)] /\ \A t \in Tools : Len(cache'[t]) <= CacheMax
  BY <1>1, <1>2, <1>4, MovedToEnd DEF ToolInv
<1>9. QED BY <1>4, <1>5, <1>6, <1>7, <1>8 DEF ToolInv, ToolTypeOK, AnswersCurrent

\* The dispatcher changes what is said of the shared results, and no version.
LEMMA DispatchInv ==
  ASSUME ToolInv, NEW c \in Calls, NEW strip \in BOOLEAN, Dispatch(c, strip)
  PROVE  ToolInv'
<1> DEFINE near == spent' = Threshold
           After(t) == [i \in DOMAIN cache[t] |->
                          IF c \in cache[t][i].sharedBy
                          THEN [cache[t][i] EXCEPT !.sharedBy = {}, !.meta = ~strip,
                                                   !.warned = near]
                          ELSE cache[t][i]]
<1> DEFINE warns == call[c].warned \/ near
<1>0. call[c] # Idle /\ call[c].pc = "dispatch"
  <2>1. call[c].pc = "dispatch"
    BY DEF Dispatch
  <2>2. QED BY <2>1 DEF Idle
<1>1. /\ call[c].tool \in Tools /\ call[c].asked \in Versions /\ call[c].of \in Versions
      /\ call[c].current \in BOOLEAN
  BY <1>0, ToolParts DEF ToolInv
<1> DEFINE answer == [tool |-> call[c].tool, ok |-> TRUE, asked |-> call[c].asked,
                      current |-> call[c].current, of |-> call[c].of, warned |-> warns,
                      near |-> near]
<1>2. /\ version' = version /\ writer' = writer /\ behind' = behind
      /\ reply' = answer /\ call' = [call EXCEPT ![c] = Idle]
  BY DEF Dispatch, Answer
<1>3. /\ call' \in [Calls -> {Idle} \cup Working] /\ CallsCurrent'
      /\ reply' \in Reply /\ AnswersCurrent'
  <2>1. near \in BOOLEAN /\ warns \in BOOLEAN
    OBVIOUS
  <2> HIDE DEF near, warns
  <2>2. /\ answer \in Reply /\ answer.tool = call[c].tool /\ answer.of = call[c].of
        /\ answer.asked = call[c].asked
        /\ answer.current = call[c].current
    BY <1>1, <2>1 DEF Reply
  <2>3. call[c].tool = "search_symbols" \/ call[c].current => call[c].of >= call[c].asked
    BY <1>0 DEF ToolInv, CallsCurrent
  <2> HIDE DEF answer
  <2>4. QED BY <1>2, <2>2, <2>3, AnswerEnds
<1>4. cache' = [t \in Tools |-> After(t)]
  BY DEF Dispatch
<1>5. ASSUME NEW t \in Tools
      PROVE  /\ After(t) \in Seq(Result) /\ Len(After(t)) = Len(cache[t])
             /\ DOMAIN After(t) = DOMAIN cache[t]
             /\ \A i \in DOMAIN cache[t] : /\ After(t)[i].of = cache[t][i].of
                                           /\ After(t)[i].at = cache[t][i].at
  <2>1. cache[t] \in Seq(Result) /\ DOMAIN cache[t] = 1..Len(cache[t]) /\ Len(cache[t]) \in Nat
    BY LenProperties DEF ToolInv, ToolTypeOK
  <2>2. ASSUME NEW i \in DOMAIN cache[t]
        PROVE  /\ After(t)[i] \in Result
               /\ After(t)[i].of = cache[t][i].of /\ After(t)[i].at = cache[t][i].at
    <3>1. cache[t][i] \in Result
      BY ToolParts DEF ToolInv
    <3>2. near \in BOOLEAN /\ (~strip) \in BOOLEAN
      OBVIOUS
    <3> DEFINE r == cache[t][i]
               told == [r EXCEPT !.sharedBy = {}, !.meta = ~strip, !.warned = near]
    <3> HIDE DEF near
    <3>3. told \in Result /\ told.of = r.of /\ told.at = r.at
      BY <3>1, <3>2 DEF Result
    <3>4. After(t)[i] = IF c \in r.sharedBy THEN told ELSE r
      OBVIOUS
    <3> HIDE DEF told, After
    <3>5. QED BY <3>1, <3>3, <3>4
  <2>3. After(t) \in [1..Len(cache[t]) -> Result] /\ DOMAIN After(t) = DOMAIN cache[t]
    BY <2>1, <2>2
  <2> HIDE DEF After
  <2>4. After(t) \in Seq(Result) /\ Len(After(t)) = Len(cache[t])
    BY <2>1, <2>3, SeqDef
  <2>5. QED BY <2>2, <2>3, <2>4
<1> HIDE DEF After, near
<1>6. cache' \in [Tools -> Seq(Result)] /\ \A t \in Tools : Len(cache'[t]) <= CacheMax
  BY <1>4, <1>5 DEF ToolInv, ToolTypeOK
<1>7. ResultsCurrent'
  <2>1. /\ "search_symbols" \in Tools /\ "get_blast_radius" \in Tools
        /\ cache'["search_symbols"] = After("search_symbols")
        /\ cache'["get_blast_radius"] = After("get_blast_radius")
    BY <1>4 DEF Tools
  <2>2. QED BY <1>2, <1>5, <2>1 DEF ToolInv, ResultsCurrent
<1>8. spent' \in 0..Threshold
  <2>1. /\ spent \in 0..Threshold /\ Threshold \in Nat
        /\ spent' = IF spent = Threshold THEN spent ELSE spent + 1
    BY ToolAssumption DEF Dispatch, ToolInv, ToolTypeOK
  <2>2. QED BY <2>1
<1>9. QED BY <1>2, <1>3, <1>6, <1>7, <1>8 DEF ToolInv, ToolTypeOK

\* What has been loaded stays what it was when the index is written.
LEMMA CommitKeeps ==
  ASSUME ToolInv, Commit, behind', cache' = cache, call' = call
  PROVE  version' \in Versions /\ ResultsCurrent' /\ CallsCurrent'
<1>1. version \in Nat /\ version \in Versions /\ version' = version + 1 /\ version' \in Versions
  BY ToolParts, ToolAssumption DEF ToolInv, Commit, Versions
<1>2. ASSUME NEW c \in Calls, call[c] # Idle
      PROVE  call[c].asked <= version'
  <2>1. call[c].asked <= version /\ call[c].asked \in Nat
    BY <1>2, ToolParts DEF ToolInv, CallsCurrent
  <2>2. QED BY <1>1, <2>1
<1>3. CallsCurrent'
  BY <1>2 DEF ToolInv, CallsCurrent
<1>4. QED BY <1>1, <1>3 DEF ToolInv, ResultsCurrent

\* Dropping one cache drops what might be stale in it.
LEMMA ClearedCache ==
  ASSUME ToolInv, NEW tool \in Tools, cache' = [cache EXCEPT ![tool] = <<>>],
         version' = version, behind' = behind \/ tool = "get_blast_radius"
  PROVE  /\ cache' \in [Tools -> Seq(Result)] /\ \A t \in Tools : Len(cache'[t]) <= CacheMax
         /\ ResultsCurrent'
<1>1. /\ cache \in [Tools -> Seq(Result)] /\ <<>> \in Seq(Result) /\ Len(<<>>) = 0
      /\ DOMAIN <<>> = {} /\ 0 <= CacheMax
  BY EmptySeq, ToolAssumption DEF ToolInv, ToolTypeOK
<1>2. /\ cache' \in [Tools -> Seq(Result)] /\ cache'[tool] = <<>>
      /\ \A t \in Tools \ {tool} : cache'[t] = cache[t]
  BY <1>1
<1>3. ResultsCurrent'
  BY <1>1, <1>2 DEF ToolInv, ResultsCurrent, Tools
<1>4. QED BY <1>1, <1>2, <1>3 DEF ToolInv, ToolTypeOK

\* The index changes, or the cache loses the repository's entries: a new save has
\* a new stamp, so no entry of an older one is found again.
LEMMA WritersInv ==
  ASSUME ToolInv,
         IndexToolCommits \/ Invalidate \/ WatcherCommits \/ RegisterEdit \/ EditCommits
  PROVE  ToolInv'
<1>1. AnswersCurrent' /\ reply' = NoReply
  BY DEF AnswersCurrent, IndexToolCommits, Invalidate, WatcherCommits, RegisterEdit, EditCommits
<1>2. CASE IndexToolCommits \/ WatcherCommits \/ EditCommits
  <2>1. /\ Commit /\ behind' = TRUE /\ cache' = cache /\ call' = call /\ spent' = spent
        /\ writer' \in {"none", "index", "edit"}
    BY <1>2 DEF IndexToolCommits, WatcherCommits, EditCommits, ToolInv, ToolTypeOK
  <2>2. version' \in Versions /\ ResultsCurrent' /\ CallsCurrent'
    BY <2>1, CommitKeeps
  <2>3. QED BY <1>1, <2>1, <2>2 DEF ToolInv, ToolTypeOK
<1>3. CASE Invalidate
  <2>1. /\ cache' = [cache EXCEPT !["get_blast_radius"] = <<>>]
        /\ version' = version /\ behind' = FALSE /\ call' = call /\ spent' = spent
        /\ writer' = "none" /\ "get_blast_radius" \in Tools
    BY <1>3 DEF Invalidate, Tools
  <2>2. /\ cache' \in [Tools -> Seq(Result)] /\ \A t \in Tools : Len(cache'[t]) <= CacheMax
        /\ ResultsCurrent'
    BY <2>1, ClearedCache
  <2>3. QED BY <1>1, <2>1, <2>2 DEF ToolInv, ToolTypeOK, CallsCurrent
<1>4. CASE RegisterEdit
  <2>1. /\ cache' = [cache EXCEPT !["search_symbols"] = <<>>]
        /\ version' = version /\ behind' = behind /\ call' = call /\ spent' = spent
        /\ writer' \in {"none", "edit"} /\ "search_symbols" \in Tools
    BY <1>4 DEF RegisterEdit, Tools
  <2>2. /\ cache' \in [Tools -> Seq(Result)] /\ \A t \in Tools : Len(cache'[t]) <= CacheMax
        /\ ResultsCurrent'
    BY <2>1, ClearedCache
  <2>3. QED BY <1>1, <2>1, <2>2 DEF ToolInv, ToolTypeOK, CallsCurrent
<1>5. QED BY <1>2, <1>3, <1>4

\* Every step of the tool calls keeps the invariant.
LEMMA ToolStepInv == ToolInv /\ [ToolNext]_toolVars => ToolInv'
<1> SUFFICES ASSUME ToolInv, [ToolNext]_toolVars PROVE ToolInv'
  OBVIOUS
<1>1. CASE UNCHANGED toolVars
  BY <1>1 DEF toolVars, ToolInv, ToolTypeOK, ResultsCurrent, CallsCurrent, AnswersCurrent
<1>2. CASE TurnGap
  <2>1. spent' \in 0..Threshold
    BY <1>2, ToolAssumption DEF TurnGap
  <2>2. QED BY <1>2, <2>1 DEF TurnGap, ToolInv, ToolTypeOK, ResultsCurrent, CallsCurrent,
                                 AnswersCurrent
<1>3. CASE IndexToolCommits \/ Invalidate \/ WatcherCommits \/ RegisterEdit \/ EditCommits
  BY <1>3, WritersInv
<1>4. ASSUME NEW c \in Calls, NEW strip \in StripMeta, Dispatch(c, strip)
      PROVE  ToolInv'
  <2>1. strip \in BOOLEAN
    BY ToolAssumption
  <2>2. QED BY <1>4, <2>1, DispatchInv
<1>5. QED BY <1>1, <1>2, <1>3, <1>4, SearchInv, BlastRadiusInv, LoadIndexInv, ComputeInv
             DEF ToolNext

\* The state of the caches, the calls and the writers has its type, and no cache
\* outgrows its capacity.
THEOREM ToolTypes == ToolSpec => []ToolTypeOK
<1>1. ToolInv => ToolTypeOK
  BY DEF ToolInv
<1>2. QED BY <1>1, ToolInitInv, ToolStepInv, PTL DEF ToolSpec

\* No search, and no get_blast_radius that finds its cache in step, is answered from an
\* index older than the one there was when it was asked: of any number of calls, queries
\* and versions, whatever the capacity of the caches, whoever writes the index between
\* the steps of a call and whatever the dispatcher does to the results it shares.
THEOREM NoStaleAnswer == ToolSpec => []AnswersCurrent
<1>1. ToolInv => AnswersCurrent
  BY DEF ToolInv
<1>2. QED BY <1>1, ToolInitInv, ToolStepInv, PTL DEF ToolSpec

----------------------------------------------------------------------------
(* Session state *)

Dict(j) == \A a, b \in DOMAIN j : j[a].file = j[b].file => a = b

Journal == {j \in Seq(Reads) : Len(j) <= JournalMax /\ Dict(j)}

Entry(j, f, n) == [file |-> f, reads |-> Counted(j, f) + n]

\* A file's count is that of its entry, if the journal has one.
LEMMA CountedIs ==
  ASSUME NEW j \in Seq(Reads), NEW f \in Files
  PROVE  /\ Counted(j, f) \in Nat
         /\ \/ Counted(j, f) = 0 /\ \A i \in DOMAIN j : j[i].file # f
            \/ \E i \in DOMAIN j : j[i].file = f /\ Counted(j, f) = j[i].reads
<1>1. CASE \E i \in DOMAIN j : j[i].file = f
  <2> DEFINE e == CHOOSE e \in Range(j) : e.file = f
  <2>1. \E d \in Range(j) : d.file = f
    BY <1>1 DEF Range
  <2>2. e \in Range(j) /\ e.file = f
    BY <2>1
  <2>3. Counted(j, f) = e.reads
    BY <1>1 DEF Counted
  <2> HIDE DEF e
  <2>4. PICK i \in DOMAIN j : j[i] = e
    BY <2>2 DEF Range
  <2>5. j[i] \in Reads
    BY <2>4, ElementOfSeq, LenProperties
  <2>6. e.reads \in Nat
    BY <2>4, <2>5 DEF Reads
  <2>7. QED
    BY <2>2, <2>3, <2>4, <2>6
<1>2. CASE ~ \E i \in DOMAIN j : j[i].file = f
  BY <1>2 DEF Counted
<1>3. QED
  BY <1>1, <1>2

\* The entry that a read of a file leaves.
LEMMA EntryType ==
  ASSUME NEW j \in Seq(Reads), NEW f \in Files, NEW n \in Nat \ {0}
  PROVE  Entry(j, f, n) \in Reads /\ Entry(j, f, n).file = f
         /\ Entry(j, f, n).reads = Counted(j, f) + n
<1>1. Counted(j, f) + n \in Nat \ {0}
  BY CountedIs
<1>2. QED
  BY <1>1 DEF Entry, Reads

\* A journal without a file's entry keeps the other entries.
LEMMA WithoutIs ==
  ASSUME NEW j \in Journal, NEW f \in Files
  PROVE  /\ Without(j, f) \in Journal
         /\ \A i \in DOMAIN Without(j, f) :
              Without(j, f)[i].file # f /\ \E a \in DOMAIN j : Without(j, f)[i] = j[a]
<1>0. j \in Seq(Reads) /\ Len(j) <= JournalMax /\ Dict(j) /\ Len(j) \in Nat
      /\ DOMAIN j = 1..Len(j)
  BY LenProperties DEF Journal
<1>1. CASE \E i \in DOMAIN j : j[i].file = f
  <2> DEFINE k == CHOOSE i \in DOMAIN j : j[i].file = f
             t == RemoveAt(j, k)
  <2>1. k \in DOMAIN j /\ j[k].file = f
    BY <1>1
  <2>2. Without(j, f) = t
    BY <1>1 DEF Without
  <2> HIDE DEF k
  <2>3. /\ t \in Seq(Reads) /\ Len(t) = Len(j) - 1
        /\ \A i \in 1..(Len(j) - 1) : t[i] = IF i < k THEN j[i] ELSE j[i + 1]
    BY <1>0, <2>1, RemoveAtProperties
  <2>4. Len(t) \in Nat /\ DOMAIN t = 1..Len(t)
    BY <2>3, LenProperties
  <2> HIDE DEF t
  <2> DEFINE from(i) == IF i < k THEN i ELSE i + 1
  <2>5. ASSUME NEW i \in DOMAIN t
        PROVE  from(i) \in DOMAIN j /\ from(i) # k /\ t[i] = j[from(i)]
    BY <1>0, <2>1, <2>3, <2>4
  <2>6. ASSUME NEW i \in DOMAIN t, NEW a \in DOMAIN t, from(i) = from(a) PROVE i = a
    BY <1>0, <2>1, <2>3, <2>4, <2>6
  <2> HIDE DEF from
  <2>7. Dict(t)
    BY <1>0, <2>5, <2>6 DEF Dict
  <2>8. ASSUME NEW i \in DOMAIN t PROVE t[i].file # f
    BY <1>0, <2>1, <2>5 DEF Dict
  <2>9. Len(t) <= JournalMax
    BY <1>0, <2>3, SessionAssumption
  <2>10. QED
    BY <2>2, <2>3, <2>5, <2>7, <2>8, <2>9 DEF Journal
<1>2. CASE ~ \E i \in DOMAIN j : j[i].file = f
  BY <1>2 DEF Without
<1>3. QED
  BY <1>1, <1>2

\* A recorded read is the file's new entry; every other was in the journal.
LEMMA RecordedIs ==
  ASSUME NEW j \in Journal, NEW f \in Files, NEW n \in Nat \ {0}
  PROVE  /\ Recorded(j, f, n) \in Journal
         /\ \A i \in DOMAIN Recorded(j, f, n) :
              \/ Recorded(j, f, n)[i] = Entry(j, f, n)
              \/ \E a \in DOMAIN j : Recorded(j, f, n)[i] = j[a]
<1> DEFINE w == Without(j, f)
           e == Entry(j, f, n)
           r == Recorded(j, f, n)
<1>1. /\ w \in Seq(Reads) /\ Len(w) <= JournalMax /\ Dict(w)
      /\ \A i \in DOMAIN w : w[i].file # f /\ \E a \in DOMAIN j : w[i] = j[a]
  BY WithoutIs DEF Journal
<1>2. e \in Reads /\ e.file = f
  BY EntryType DEF Journal
<1>3. r = Newest(w, e, JournalMax)
  BY DEF Recorded, Newest, Entry
<1>4. JournalMax \in Nat
  BY SessionAssumption
<1> HIDE DEF w, e, r
<1>5. /\ r \in Seq(Reads) /\ Len(r) <= JournalMax
      /\ \A i \in DOMAIN r : r[i] = e \/ \E a \in DOMAIN w : r[i] = w[a]
  BY <1>1, <1>2, <1>3, <1>4, NewestElements
<1>6. Dict(r)
  <2> DEFINE kept == Append(w, e)
  <2>1. /\ Len(w) \in Nat /\ DOMAIN w = 1..Len(w)
        /\ kept \in Seq(Reads) /\ kept # <<>> /\ Len(kept) = Len(w) + 1
        /\ DOMAIN kept = 1..Len(kept)
        /\ \A i \in 1..Len(w) : kept[i] = w[i]
        /\ kept[Len(w) + 1] = e
    BY <1>1, <1>2, AppendProperties, LenProperties
  <2>2. r = IF Len(kept) > JournalMax THEN Tail(kept) ELSE kept
    BY <1>3 DEF Newest
  <2> HIDE DEF kept
  <2>3. Dict(kept)
    <3>1. ASSUME NEW a \in DOMAIN kept, NEW b \in DOMAIN kept, kept[a].file = kept[b].file
          PROVE  a = b
      <4>1. a \in DOMAIN w \/ a = Len(w) + 1
        BY <2>1
      <4>2. b \in DOMAIN w \/ b = Len(w) + 1
        BY <2>1
      <4>3. \A i \in DOMAIN w : kept[i] = w[i]
        BY <2>1
      <4>4. CASE a \in DOMAIN w /\ b \in DOMAIN w
        BY <1>1, <3>1, <4>3, <4>4 DEF Dict
      <4>5. CASE a = Len(w) + 1 /\ b = Len(w) + 1
        BY <4>5
      <4>6. CASE a \in DOMAIN w /\ b = Len(w) + 1
        BY <1>1, <1>2, <2>1, <3>1, <4>3, <4>6
      <4>7. CASE b \in DOMAIN w /\ a = Len(w) + 1
        BY <1>1, <1>2, <2>1, <3>1, <4>3, <4>7
      <4>8. QED
        BY <4>1, <4>2, <4>4, <4>5, <4>6, <4>7
    <3>2. QED
      BY <3>1 DEF Dict
  <2>4. CASE Len(kept) > JournalMax
    <3>1. /\ DOMAIN r = 1..Len(w)
          /\ \A i \in 1..Len(w) : r[i] = kept[i + 1]
      BY <2>1, <2>2, <2>4, HeadTailProperties, LenProperties
    <3>2. ASSUME NEW a \in DOMAIN r, NEW b \in DOMAIN r, r[a].file = r[b].file
          PROVE  a = b
      <4>1. a \in Nat /\ b \in Nat /\ a + 1 \in DOMAIN kept /\ b + 1 \in DOMAIN kept
        BY <2>1, <3>1
      <4>2. kept[a + 1].file = kept[b + 1].file
        BY <3>1, <3>2
      <4>3. a + 1 = b + 1
        BY <2>3, <4>1, <4>2 DEF Dict
      <4>4. QED
        BY <4>1, <4>3
    <3>3. QED
      BY <3>2 DEF Dict
  <2>5. CASE ~ (Len(kept) > JournalMax)
    BY <2>2, <2>3, <2>5
  <2>6. QED
    BY <2>4, <2>5
<1>7. QED
  BY <1>1, <1>5, <1>6 DEF Journal, e, r

\* The largest of some indices is one of them.
LEMMA MaxIn ==
  ASSUME NEW n \in Nat, NEW s \in SUBSET (1..n), s # {}
  PROVE  Max(s) \in s
<1> DEFINE T == {n - x : x \in s}
<1>1. T \in SUBSET Nat /\ T # {}
  <2>1. \A x \in s : n - x \in Nat
    OBVIOUS
  <2>2. PICK x \in s : TRUE
    OBVIOUS
  <2>3. n - x \in T
    BY <2>2
  <2>4. T \in SUBSET Nat
    BY <2>1
  <2>5. QED
    BY <2>3, <2>4
<1>2. PICK m \in T : \A k \in T : m <= k
  BY <1>1, LeastNat
<1>3. PICK x \in s : m = n - x
  OBVIOUS
<1>4. ASSUME NEW y \in s PROVE x >= y
  <2>1. n - y \in T
    OBVIOUS
  <2>2. m <= n - y /\ x \in 1..n /\ y \in 1..n
    BY <1>2, <2>1
  <2>3. QED
    BY <1>3, <2>2
<1>5. QED
  BY <1>4 DEF Max

Replaying(g, files) ==
    g = [s \in SUBSET DOMAIN files |->
           IF s = {} THEN <<>>
           ELSE Recorded(g[s \ {Max(s)}], files[Max(s)].file, files[Max(s)].reads)]

\* A saved list of reads, element by element.
LEMMA FilesAre ==
  ASSUME NEW files \in Seq(Reads)
  PROVE  /\ Len(files) \in Nat /\ DOMAIN files = 1..Len(files)
         /\ \A i \in DOMAIN files :
              /\ files[i] \in Reads /\ files[i].file \in Files /\ files[i].reads \in Nat \ {0}
              /\ files[i] = [file |-> files[i].file, reads |-> files[i].reads]
<1>1. /\ Len(files) \in Nat /\ DOMAIN files = 1..Len(files)
      /\ \A i \in DOMAIN files : files[i] \in Reads
  BY LenProperties, ElementOfSeq
<1>2. ASSUME NEW e \in Reads
      PROVE  e.file \in Files /\ e.reads \in Nat \ {0}
             /\ e = [file |-> e.file, reads |-> e.reads]
  BY DEF Reads
<1>3. QED
  BY <1>1, <1>2

\* A journal may be empty.
LEMMA EmptyJournal == <<>> \in Journal
<1>1. <<>> \in Seq(Reads) /\ Len(<<>>) = 0 /\ DOMAIN <<>> = {}
  OBVIOUS
<1>2. QED
  BY <1>1, SessionAssumption DEF Journal, Dict

\* Replay is the value of a recursion over the entries that are still to come.
LEMMA ReplayRecursion ==
  ASSUME NEW files \in Seq(Reads)
  PROVE  \E g : Replaying(g, files) /\ Replay(files) = g[DOMAIN files]
<1> DEFINE D == DOMAIN files
           choose == [s \in (SUBSET D) \ {{}} |-> Max(s)]
           step == [p \in D \X Journal |-> Recorded(p[2], files[p[1]].file, files[p[1]].reads)]
<1>0. /\ Len(files) \in Nat /\ D = 1..Len(files)
      /\ \A i \in D : files[i].file \in Files /\ files[i].reads \in Nat \ {0}
  BY FilesAre
<1>1. \A s \in (SUBSET D) \ {{}} : choose[s] \in s
  BY <1>0, MaxIn
<1>2. step \in [D \X Journal -> Journal]
  <2>1. ASSUME NEW p \in D \X Journal
        PROVE  Recorded(p[2], files[p[1]].file, files[p[1]].reads) \in Journal
    BY <1>0, RecordedIs
  <2>2. QED
    BY <2>1
<1>3. IsFiniteSet(D)
  <2> HIDE DEF choose, step
  <2>1. IsFiniteSet(1..Len(files))
    <3>1. 1 \in Int /\ Len(files) \in Int
      BY <1>0
    <3> QED BY <3>1, FS_Interval
  <2>2. QED
    BY <1>0, <2>1
<1>4. PICK g \in [SUBSET D -> Journal] : Recursion(g, D, SUBSET D, <<>>, choose, step)
  <2> HIDE DEF choose, step, D
  <2> QED BY <1>1, <1>2, <1>3, EmptyJournal, SetRecursion
<1>5. Replaying(g, files)
  <2>1. ASSUME NEW s \in SUBSET D, s # {}
        PROVE  step[choose[s], g[s \ {choose[s]}]]
                = Recorded(g[s \ {Max(s)}], files[Max(s)].file, files[Max(s)].reads)
    <3>1. choose[s] = Max(s)
      BY <2>1
    <3>2. choose[s] \in D /\ s \ {choose[s]} \in SUBSET D
      BY <2>1, <1>1
    <3>3. \A p \in D, j \in Journal : step[p, j] = Recorded(j, files[p].file, files[p].reads)
      OBVIOUS
    <3>4. g[s \ {choose[s]}] \in Journal
      BY <3>2
    <3> HIDE DEF choose, step
    <3> QED BY <3>1, <3>2, <3>3, <3>4
  <2>2. g = [s \in SUBSET D |-> IF s = {} THEN <<>> ELSE step[choose[s], g[s \ {choose[s]}]]]
    BY <1>4 DEF Recursion
  <2> HIDE DEF choose, step
  <2> QED BY <2>1, <2>2 DEF Replaying
<1>6. Replaying(CHOOSE f : Replaying(f, files), files)
  BY <1>5
<1>7. Replay(files) = (CHOOSE f : Replaying(f, files))[D]
  BY Zenon DEF Replay, FoldLeft, MapThenFoldSet, Replaying
<1>8. QED
  BY <1>6, <1>7

\* A journal replayed from a file that names each path once has the file's entries.
LEMMA ReplayIs ==
  ASSUME NEW files \in Seq(Reads), Dict(files)
  PROVE  /\ Replay(files) \in Journal
         /\ \A i \in DOMAIN Replay(files) :
              \E a \in DOMAIN files : Replay(files)[i] = files[a]
<1> DEFINE D == DOMAIN files
<1>1. PICK g : Replaying(g, files) /\ Replay(files) = g[D]
  BY ReplayRecursion
<1> DEFINE G == {s \in SUBSET D : /\ g[s] \in Journal
                                 /\ \A i \in DOMAIN g[s] : \E a \in s : g[s][i] = files[a]}
<1>2. {} \in G
  <2>1. g[{}] = <<>>
    BY <1>1 DEF Replaying
  <2>2. DOMAIN <<>> = {}
    OBVIOUS
  <2>3. QED
    BY <2>1, <2>2, EmptyJournal
<1>3. ASSUME NEW s \in SUBSET D, s # {}, \A x \in s : s \ {x} \in G
      PROVE  s \in G
  <2> DEFINE m == Max(s)
             t == s \ {m}
             f == files[m].file
             n == files[m].reads
  <2>0. m \in s /\ m \in D
    BY <1>3, FilesAre, MaxIn
  <2>1. g[s] = Recorded(g[t], f, n)
    BY <1>1, <1>3 DEF Replaying
  <2>2. g[t] \in Journal /\ \A i \in DOMAIN g[t] : \E a \in t : g[t][i] = files[a]
    BY <1>3, <2>0
  <2>3. f \in Files /\ n \in Nat \ {0} /\ files[m] = [file |-> f, reads |-> n]
    BY <2>0, FilesAre
  <2> HIDE DEF m
  <2>4. Counted(g[t], f) = 0
    <3>1. \A i \in DOMAIN g[t] : g[t][i].file # f
      BY <2>0, <2>2 DEF Dict
    <3>2. g[t] \in Seq(Reads)
      BY <2>2 DEF Journal
    <3>3. QED
      BY <2>3, <3>1, <3>2, CountedIs
  <2>5. Entry(g[t], f, n) = files[m]
    BY <2>3, <2>4 DEF Entry
  <2>6. /\ g[s] \in Journal
        /\ \A i \in DOMAIN g[s] : g[s][i] = files[m] \/ \E a \in DOMAIN g[t] : g[s][i] = g[t][a]
    <3> HIDE DEF f, n, t
    <3> QED BY <2>1, <2>2, <2>3, <2>5, RecordedIs
  <2>7. \A i \in DOMAIN g[s] : \E a \in s : g[s][i] = files[a]
    BY <2>0, <2>2, <2>6
  <2>8. QED
    BY <2>6, <2>7
<1>4. D \in G
  <2>1. \A s \in SUBSET D : s # {} /\ (\A x \in s : s \ {x} \in G) => s \in G
    BY <1>3
  <2>2. IsFiniteSet(D)
    <3>1. Len(files) \in Nat /\ DOMAIN files = 1..Len(files)
      BY FilesAre
    <3>2. 1 \in Int /\ Len(files) \in Int
      BY <3>1
    <3>3. IsFiniteSet(1..Len(files))
      BY <3>2, FS_Interval
    <3>4. QED
      BY <3>1, <3>3
  <2> HIDE DEF G
  <2>3. G \in SUBSET (SUBSET D)
    BY DEF G
  <2> HIDE DEF D
  <2> QED BY <1>2, <2>1, <2>2, <2>3, SetInduction
<1>5. QED
  BY <1>1, <1>4

\* What is saved of a journal names each path once, with its journal's entry.
LEMMA MostRecentIs ==
  ASSUME NEW j \in Journal
  PROVE  /\ MostRecent(j) \in Seq(Reads) /\ Dict(MostRecent(j))
         /\ \A i \in DOMAIN MostRecent(j) : \E a \in DOMAIN j : MostRecent(j)[i] = j[a]
<1> DEFINE rev == Reverse(j)
           n   == IF Len(j) < SavedMax THEN Len(j) ELSE SavedMax
           m   == MostRecent(j)
<1>1. /\ Len(j) \in Nat /\ DOMAIN j = 1..Len(j) /\ Dict(j)
      /\ \A i \in 1..Len(j) : j[i] \in Reads
  BY LenProperties, ElementOfSeq DEF Journal
<1>2. rev = [i \in 1..Len(j) |-> j[(Len(j) - i) + 1]]
  BY DEF Reverse
<1>3. \A i \in 1..Len(j) : (Len(j) - i) + 1 \in 1..Len(j)
  BY <1>1
<1>4. \A i \in 1..Len(j) : rev[i] = j[(Len(j) - i) + 1] /\ rev[i] \in Reads
  BY <1>1, <1>2, <1>3
<1>n. n \in Nat /\ n <= Len(j)
  BY <1>1, SessionAssumption
<1>d. m = SubSeq(rev, 1, n)
  BY DEF MostRecent
<1> HIDE DEF rev, n, m
<1>5. m \in Seq(Reads) /\ Len(m) = n /\ \A i \in 1..n : m[i] = rev[i]
  <2>1. \A i \in 1..n : rev[i] \in Reads
    BY <1>1, <1>4, <1>n
  <2>2. /\ m \in Seq(Reads) /\ Len(m) = IF 1 <= n THEN n - 1 + 1 ELSE 0
        /\ \A i \in 1..(n - 1 + 1) : m[i] = rev[1 + i - 1]
    BY <1>d, <1>n, <2>1, SubSeqProperties
  <2>3. QED
    BY <1>n, <2>2
<1>6. DOMAIN m = 1..n
  BY <1>5, <1>n, LenProperties
<1>7. ASSUME NEW i \in DOMAIN m
      PROVE  (Len(j) - i) + 1 \in DOMAIN j /\ m[i] = j[(Len(j) - i) + 1]
  BY <1>1, <1>4, <1>5, <1>6, <1>n
<1>8. ASSUME NEW a \in DOMAIN m, NEW b \in DOMAIN m, m[a].file = m[b].file
      PROVE  a = b
  <2>1. (Len(j) - a) + 1 = (Len(j) - b) + 1
    BY <1>1, <1>7, <1>8 DEF Dict
  <2>2. a \in Nat /\ b \in Nat
    BY <1>6
  <2>3. QED
    BY <1>1, <2>1, <2>2
<1>9. QED
  BY <1>5, <1>7, <1>8 DEF Dict, m

----------------------------------------------------------------------------
\* The file of an entry was read at least as often as the entry says.
Counts(j, times) == \A i \in DOMAIN j : j[i].reads <= times[j[i].file]

SessionInv ==
    /\ SessionTypeOK
    /\ \A s \in Servers : Dict(journal[s]) /\ Counts(journal[s], wasRead)
    /\ Dict(saved.files) /\ Counts(saved.files, wasRead)
    /\ \A s \in Servers : \A e \in results[s] : e.of = e.at
    /\ \A e \in saved.results : e.of = e.at
    /\ RestoredCurrent

\* Nothing has been read, searched or saved.
LEMMA SessionInitInv == SessionInit => SessionInv
<1> SUFFICES ASSUME SessionInit PROVE SessionInv
  OBVIOUS
<1>1. <<>> \in Seq(Reads) /\ Len(<<>>) = 0 /\ DOMAIN <<>> = {}
  OBVIOUS
<1>2. Dict(<<>>) /\ Counts(<<>>, wasRead)
  BY <1>1 DEF Dict, Counts
<1>3. 0 \in Stamps /\ 0 \in 0..MaxReads /\ 0 <= JournalMax
  BY SessionAssumption DEF Stamps
<1>4. /\ saved \in [age : {"none", "young", "old"}, files : Seq(Reads), results : SUBSET Found]
      /\ saved.files = <<>> /\ saved.results = {}
  BY <1>1 DEF SessionInit, NoState
<1>5. SessionTypeOK
  BY <1>1, <1>3, <1>4 DEF SessionInit, SessionTypeOK
<1>6. \A s \in Servers : journal[s] = <<>> /\ results[s] = {}
  BY DEF SessionInit
<1>7. RestoredCurrent
  BY DEF SessionInit, RestoredCurrent
<1>8. QED
  BY <1>2, <1>4, <1>5, <1>6, <1>7 DEF SessionInv

\* A journal is counted right although files are read once more.
LEMMA CountsStill ==
  ASSUME NEW q \in Seq(Reads), NEW before \in [Files -> Nat], NEW after \in [Files -> Nat],
         \A g \in Files : before[g] <= after[g], Counts(q, before)
  PROVE  Counts(q, after)
<1>1. ASSUME NEW i \in DOMAIN q PROVE q[i].reads <= after[q[i].file]
  <2>1. /\ q[i].file \in Files /\ q[i].reads \in Nat
        /\ q[i].reads <= before[q[i].file]
    BY FilesAre DEF Counts
  <2>2. QED
    BY <2>1
<1>2. QED
  BY <1>1 DEF Counts

\* What a step does to the journals that the others do not see.
LEMMA ReadStep ==
  ASSUME SessionInv, NEW s \in Servers, NEW f \in Files, ReadFile(s, f)
  PROVE  SessionInv'
<1> DEFINE r == Recorded(journal[s], f, 1)
<1>t. SessionTypeOK
  BY DEF SessionInv
<1>j. journal[s] \in Journal /\ journal[s] \in Seq(Reads) /\ Counts(journal[s], wasRead)
  BY <1>t DEF SessionInv, SessionTypeOK, Journal
<1>1. /\ wasRead[f] < MaxReads /\ wasRead' = [wasRead EXCEPT ![f] = @ + 1]
      /\ journal' = [journal EXCEPT ![s] = r]
      /\ UNCHANGED <<up, results, saved, indexedAt, lastSave, served>>
  BY DEF ReadFile
<1>2. /\ r \in Journal
      /\ \A i \in DOMAIN r : \/ r[i] = Entry(journal[s], f, 1)
                            \/ \E a \in DOMAIN journal[s] : r[i] = journal[s][a]
  BY <1>j, RecordedIs
<1>3. /\ Entry(journal[s], f, 1).file = f
      /\ Entry(journal[s], f, 1).reads = Counted(journal[s], f) + 1
  BY <1>j, EntryType
<1> HIDE DEF r
<1>4. wasRead \in [Files -> 0..MaxReads] /\ wasRead' \in [Files -> 0..MaxReads]
  BY <1>t, <1>1, SessionAssumption DEF SessionTypeOK
<1>5. /\ wasRead'[f] = wasRead[f] + 1 /\ wasRead[f] \in Nat
      /\ wasRead \in [Files -> Nat] /\ wasRead' \in [Files -> Nat]
      /\ \A g \in Files : wasRead[g] <= wasRead'[g]
  BY <1>1, <1>4, SessionAssumption
<1>6. ASSUME NEW q \in Seq(Reads), Counts(q, wasRead) PROVE Counts(q, wasRead')
  BY <1>5, <1>6, CountsStill
<1>7. Counted(journal[s], f) + 1 <= wasRead'[f]
  <2>1. Counted(journal[s], f) \in Nat /\ Counted(journal[s], f) <= wasRead[f]
    <3>1. CASE Counted(journal[s], f) = 0
      BY <1>5, <3>1
    <3>2. CASE \E i \in DOMAIN journal[s] :
                 journal[s][i].file = f /\ Counted(journal[s], f) = journal[s][i].reads
      <4>1. Counted(journal[s], f) <= wasRead[f]
        BY <1>j, <3>2 DEF Counts
      <4>2. QED
        BY <1>j, <4>1, CountedIs
    <3>3. QED
      BY <1>j, <3>1, <3>2, CountedIs
  <2>2. QED
    BY <1>5, <2>1
<1>8. Counts(r, wasRead')
  <2>1. Counts(journal[s], wasRead')
    BY <1>6, <1>j
  <2>2. QED
    BY <1>2, <1>3, <1>7, <2>1 DEF Counts
<1>9. SessionTypeOK'
  BY <1>t, <1>1, <1>2, <1>4 DEF SessionTypeOK, Journal
<1>10. \A q \in Servers : Dict(journal'[q]) /\ Counts(journal'[q], wasRead')
  <2>1. ASSUME NEW q \in Servers PROVE Dict(journal'[q]) /\ Counts(journal'[q], wasRead')
    <3>1. CASE q = s
      BY <1>t, <1>1, <1>2, <1>8, <3>1 DEF Journal, SessionTypeOK
    <3>2. CASE q # s
      <4>1. journal'[q] = journal[q] /\ journal[q] \in Seq(Reads)
            /\ Dict(journal[q]) /\ Counts(journal[q], wasRead)
        BY <1>t, <1>1, <3>2 DEF SessionInv, SessionTypeOK
      <4>2. QED
        BY <1>6, <4>1
    <3>3. QED
      BY <3>1, <3>2
  <2>2. QED
    BY <2>1
<1>11. Dict(saved'.files) /\ Counts(saved'.files, wasRead')
  <2>1. saved' = saved /\ saved.files \in Seq(Reads)
        /\ Dict(saved.files) /\ Counts(saved.files, wasRead)
    BY <1>t, <1>1 DEF SessionInv, SessionTypeOK
  <2>2. QED
    BY <1>6, <2>1
<1>12. QED
  BY <1>1, <1>9, <1>10, <1>11 DEF SessionInv, RestoredCurrent

\* A server that ends, and one that starts: its journal and its results become those.
LEMMA LifeStep ==
  ASSUME SessionInv, NEW s \in Servers, NEW r \in Journal, Counts(r, wasRead),
         NEW c \in SUBSET Found, \A e \in c : e.of = e.at,
         up' \in SUBSET Servers,
         journal' = [journal EXCEPT ![s] = r], results' = [results EXCEPT ![s] = c],
         saved' \in [age : {"none", "young", "old"}, files : Seq(Reads), results : SUBSET Found],
         Dict(saved'.files), Counts(saved'.files, wasRead),
         \A e \in saved'.results : e.of = e.at,
         UNCHANGED <<indexedAt, lastSave, wasRead, served>>
  PROVE  SessionInv'
<1>t. SessionTypeOK
  BY DEF SessionInv
<1>1. SessionTypeOK'
  BY <1>t DEF SessionTypeOK, Journal
<1>2. \A q \in Servers : Dict(journal'[q]) /\ Counts(journal'[q], wasRead')
  BY <1>t DEF SessionInv, SessionTypeOK, Journal
<1>3. \A q \in Servers : \A e \in results'[q] : e.of = e.at
  BY <1>t DEF SessionInv, SessionTypeOK
<1>4. QED
  BY <1>1, <1>2, <1>3 DEF SessionInv, RestoredCurrent

\* Every step of the servers keeps the invariant.
LEMMA SessionStepInv ==
  ASSUME SessionInv, [SessionNext]_sessionVars
  PROVE  SessionInv'
<1>t. SessionTypeOK
  BY DEF SessionInv
<1>0. CASE UNCHANGED sessionVars
  BY <1>0 DEF SessionInv, SessionTypeOK, RestoredCurrent, sessionVars
<1>j. ASSUME NEW s \in Servers
      PROVE  journal[s] \in Journal /\ Counts(journal[s], wasRead)
  BY <1>t DEF SessionInv, SessionTypeOK, Journal
<1>e. <<>> \in Journal /\ Counts(<<>>, wasRead)
  <2>1. DOMAIN <<>> = {}
    OBVIOUS
  <2>2. QED
    BY <2>1, EmptyJournal DEF Counts
<1>s. /\ saved.files \in Seq(Reads) /\ Dict(saved.files) /\ Counts(saved.files, wasRead)
      /\ saved.results \in SUBSET Found /\ \A e \in saved.results : e.of = e.at
  BY <1>t DEF SessionInv, SessionTypeOK
<1>1. ASSUME NEW s \in Servers, NEW f \in Files, ReadFile(s, f) PROVE SessionInv'
  BY <1>1, ReadStep
<1>2. ASSUME NEW s \in Servers, NEW r \in Repos, SearchRepo(s, r) PROVE SessionInv'
  <2> DEFINE new == [repo |-> r, at |-> SearchKey(r), of |-> indexedAt[r]]
  <2>1. /\ UNCHANGED <<up, journal, saved, indexedAt, lastSave, wasRead>>
        /\ \/ /\ results' = results
              /\ \E e \in results[s] : /\ e.at = SearchKey(r)
                                       /\ served' = [asked |-> indexedAt[r], of |-> e.of]
           \/ /\ served' = [asked |-> indexedAt[r], of |-> new.of]
              /\ results' = [results EXCEPT ![s] = @ \cup {new}]
    BY <1>2 DEF SearchRepo
  <2>2. indexedAt[r] \in Stamps /\ SearchKey(r) = indexedAt[r]
    BY <1>t DEF SessionTypeOK, SearchKey
  <2>3. new \in Found /\ new.of = indexedAt[r] /\ new.at = indexedAt[r]
    BY <2>2 DEF Found
  <2> HIDE DEF new
  <2>4. /\ results' \in [Servers -> SUBSET Found]
        /\ \A q \in Servers : \A e \in results'[q] : e.of = e.at
    <3>1. /\ results \in [Servers -> SUBSET Found]
          /\ \A q \in Servers : \A e \in results[q] : e.of = e.at
      BY <1>t DEF SessionInv, SessionTypeOK
    <3>2. CASE results' = results
      BY <3>1, <3>2
    <3>3. CASE results' = [results EXCEPT ![s] = @ \cup {new}]
      <4>1. /\ results'[s] = results[s] \cup {new}
            /\ \A q \in Servers \ {s} : results'[q] = results[q]
        BY <3>1, <3>3
      <4>2. \A e \in results[s] \cup {new} : e \in Found /\ e.of = e.at
        BY <2>3, <3>1
      <4>3. results[s] \cup {new} \in SUBSET Found
        BY <4>2
      <4>4. \A q \in Servers : \A e \in results'[q] : e.of = e.at
        BY <3>1, <4>1, <4>2
      <4>5. QED
        BY <3>1, <3>3, <4>3, <4>4
    <3>4. QED
      BY <2>1, <3>2, <3>3
  <2>5. served'.of = served'.asked /\ served' \in [asked : Stamps, of : Stamps]
    BY <1>t, <2>1, <2>2, <2>3 DEF SessionInv, SessionTypeOK, Found
  <2>6. QED
    BY <1>t, <2>1, <2>4, <2>5 DEF SessionInv, SessionTypeOK, RestoredCurrent
<1>3. ASSUME NEW s \in Servers, Exit(s) PROVE SessionInv'
  <2>1. /\ up' = up \ {s}
        /\ journal' = [journal EXCEPT ![s] = <<>>] /\ results' = [results EXCEPT ![s] = {}]
        /\ UNCHANGED <<indexedAt, lastSave, wasRead, served>>
    BY <1>3 DEF Exit
  <2>2. PICK kept \in SUBSET results[s] :
          saved' = [age |-> "young", files |-> MostRecent(journal[s]), results |-> kept]
    BY <1>3 DEF Exit
  <2>3. /\ MostRecent(journal[s]) \in Seq(Reads) /\ Dict(MostRecent(journal[s]))
        /\ Counts(MostRecent(journal[s]), wasRead)
    BY <1>j, MostRecentIs DEF Counts
  <2>4. kept \in SUBSET Found /\ \A e \in kept : e.of = e.at
    BY <1>t DEF SessionInv, SessionTypeOK
  <2>5. /\ saved' \in [age : {"none", "young", "old"}, files : Seq(Reads), results : SUBSET Found]
        /\ saved'.files = MostRecent(journal[s]) /\ saved'.results = kept
    BY <2>2, <2>3, <2>4
  <2>6. up' \in SUBSET Servers
    BY <1>t, <2>1 DEF SessionTypeOK
  <2>7. QED
    BY <1>e, <2>1, <2>3, <2>4, <2>5, <2>6, LifeStep
<1>4. ASSUME NEW s \in Servers, Kill(s) PROVE SessionInv'
  <2>1. /\ up' = up \ {s} /\ saved' = saved
        /\ journal' = [journal EXCEPT ![s] = <<>>] /\ results' = [results EXCEPT ![s] = {}]
        /\ UNCHANGED <<indexedAt, lastSave, wasRead, served>>
    BY <1>4 DEF Kill
  <2>2. /\ up' \in SUBSET Servers
        /\ saved' \in [age : {"none", "young", "old"}, files : Seq(Reads), results : SUBSET Found]
    BY <1>t, <2>1 DEF SessionTypeOK
  <2>3. QED
    <3>1. {} \in SUBSET Found /\ \A e \in {} : e.of = e.at
      OBVIOUS
    <3>2. /\ Dict(saved'.files) /\ Counts(saved'.files, wasRead)
          /\ \A e \in saved'.results : e.of = e.at
      BY <1>s, <2>1
    <3>3. QED
      BY <1>e, <2>1, <2>2, <3>1, <3>2, LifeStep
<1>5. ASSUME NEW s \in Servers, Start(s) PROVE SessionInv'
  <2> DEFINE still == {e \in saved.results : StillCurrent(e)}
  <2>1. up' = up \cup {s} /\ saved' = saved
        /\ UNCHANGED <<indexedAt, lastSave, wasRead, served>>
    BY <1>5 DEF Start
  <2>2. /\ up' \in SUBSET Servers
        /\ saved' \in [age : {"none", "young", "old"}, files : Seq(Reads), results : SUBSET Found]
    BY <1>t, <2>1 DEF SessionTypeOK
  <2>3. CASE saved.age = "young"
    <3>1. /\ journal' = [journal EXCEPT ![s] = Replay(saved.files)]
          /\ results' = [results EXCEPT ![s] = still]
      BY <1>5, <2>3 DEF Start
    <3>2. Replay(saved.files) \in Journal /\ Counts(Replay(saved.files), wasRead)
      BY <1>s, ReplayIs DEF Counts
    <3>3. still \in SUBSET Found /\ \A e \in still : e.of = e.at
      BY <1>s
    <3> HIDE DEF still
    <3>4. QED
      BY <1>s, <2>1, <2>2, <3>1, <3>2, <3>3, LifeStep
  <2>4. CASE saved.age # "young"
    BY <1>5, <1>t, <2>1, <2>2, <2>4 DEF Start, SessionInv, SessionTypeOK, RestoredCurrent
  <2>5. QED
    BY <2>3, <2>4
<1>6. ASSUME NEW r \in Repos, SaveIndex(r) PROVE SessionInv'
  <2>1. lastSave + 1 \in Stamps
    BY <1>6, <1>t, SessionAssumption DEF SaveIndex, SessionTypeOK, Stamps
  <2>2. QED
    BY <1>6, <1>t, <2>1 DEF SaveIndex, SessionInv, SessionTypeOK, RestoredCurrent
<1>7. ASSUME NEW r \in Repos, DeleteIndex(r) PROVE SessionInv'
  <2>1. 0 \in Stamps
    BY SessionAssumption DEF Stamps
  <2>2. QED
    BY <1>7, <1>t, <2>1 DEF DeleteIndex, SessionInv, SessionTypeOK, RestoredCurrent
<1>8. CASE GrowOld
  <2>1. /\ saved' \in [age : {"none", "young", "old"}, files : Seq(Reads), results : SUBSET Found]
        /\ saved'.files = saved.files /\ saved'.results = saved.results
    BY <1>8, <1>t DEF GrowOld, SessionTypeOK
  <2>2. UNCHANGED <<up, journal, results, indexedAt, lastSave, wasRead, served>>
    BY <1>8 DEF GrowOld
  <2>3. QED
    BY <1>t, <2>1, <2>2 DEF SessionInv, SessionTypeOK, RestoredCurrent
<1>9. QED
  BY <1>0, <1>1, <1>2, <1>3, <1>4, <1>5, <1>6, <1>7, <1>8 DEF SessionNext

\* The types of the session state: what a server journals and what it saves are
\* sequences of reads within the limits (session_journal.py, session_state.py).
THEOREM SessionTypes == SessionSpec => []SessionTypeOK
<1>1. SessionInv => SessionTypeOK
  BY DEF SessionInv
<1>2. QED
  BY <1>1, SessionInitInv, SessionStepInv, PTL DEF SessionSpec

\* A search that a restarted server restores is one whose answer the index still
\* gives (session_state.py): entries of another version are left out.
THEOREM SearchesRestored == SessionSpec => []RestoredCurrent
<1>1. SessionInv => RestoredCurrent
  BY DEF SessionInv
<1>2. QED
  BY <1>1, SessionInitInv, SessionStepInv, PTL DEF SessionSpec

\* However often the sessions are saved and restored, a journal counts a file's
\* reads no more often than the file was read (session_state.py, restore_journal).
THEOREM ReadsNotCountedTwice == SessionSpec => []NoReadCountedTwice
<1>1. ASSUME SessionInv, NEW s \in Servers, NEW f \in Files
      PROVE  Counted(journal[s], f) <= wasRead[f]
  <2>1. journal[s] \in Seq(Reads) /\ Counts(journal[s], wasRead) /\ wasRead[f] \in Nat
    BY <1>1, SessionAssumption DEF SessionInv, SessionTypeOK
  <2>2. QED
    BY <2>1, CountedIs DEF Counts
<1>2. SessionInv => NoReadCountedTwice
  BY <1>1 DEF NoReadCountedTwice
<1>3. QED
  BY <1>2, SessionInitInv, SessionStepInv, PTL DEF SessionSpec

\* What a restarted server answers from the results it was given back the index still
\* gives, and it counts no read twice (session_state.py, restore_journal and
\* restore_search_cache).
THEOREM Restored == SessionSpec => []RestoredRight
<1>1. RestoredCurrent /\ NoReadCountedTwice => RestoredRight
  BY DEF RestoredRight
<1>2. QED
  BY <1>1, SearchesRestored, ReadsNotCountedTwice, PTL

----------------------------------------------------------------------------
(* Token tracker *)

SumOf(u, k) == MapThenSumSet(LAMBDA s : u[s][k], Procs)

\* The recursion
SumsUp(g, u, k) ==
    g = [s \in SUBSET Procs |->
           IF s = {} THEN 0
           ELSE u[CHOOSE x \in s : TRUE][k] + g[s \ {CHOOSE x \in s : TRUE}]]

\* The sum over the processes is the value of a recursion.
LEMMA SumRecursion ==
  ASSUME NEW u \in [Procs -> Total], NEW k \in Kinds
  PROVE  \E g \in [SUBSET Procs -> Nat] : SumsUp(g, u, k) /\ SumOf(u, k) = g[Procs]
<1> DEFINE choose == [s \in (SUBSET Procs) \ {{}} |-> CHOOSE x \in s : TRUE]
           step == [p \in Procs \X Nat |-> u[p[1]][k] + p[2]]
<1>1. \A s \in (SUBSET Procs) \ {{}} : choose[s] \in s
  OBVIOUS
<1>2. step \in [Procs \X Nat -> Nat]
  BY DEF Total
<1>3. PICK g \in [SUBSET Procs -> Nat] : Recursion(g, Procs, SUBSET Procs, 0, choose, step)
  <2> HIDE DEF choose, step
  <2> QED BY <1>1, <1>2, TrackerAssumption, SetRecursion
<1>4. SumsUp(g, u, k)
  <2>1. ASSUME NEW s \in SUBSET Procs, s # {}
        PROVE  step[choose[s], g[s \ {choose[s]}]] 
                = u[CHOOSE x \in s : TRUE][k] + g[s \ {CHOOSE x \in s : TRUE}]
    <3>1. choose[s] = CHOOSE x \in s : TRUE
      BY <2>1
    <3>2. choose[s] \in Procs /\ s \ {choose[s]} \in SUBSET Procs
      BY <2>1, <1>1
    <3>3. \A p \in Procs, n \in Nat : step[p, n] = u[p][k] + n
      OBVIOUS
    <3>4. g[s \ {choose[s]}] \in Nat
      BY <3>2
    <3> HIDE DEF choose, step
    <3> QED BY <3>1, <3>2, <3>3, <3>4
  <2>2. g = [s \in SUBSET Procs |-> IF s = {} THEN 0 ELSE step[choose[s], g[s \ {choose[s]}]]]
    BY <1>3 DEF Recursion
  <2> HIDE DEF choose, step
  <2> QED BY <2>1, <2>2 DEF SumsUp
<1>5. SumsUp(CHOOSE f : SumsUp(f, u, k), u, k)
  BY <1>4
<1>6. SumOf(u, k) = (CHOOSE f : SumsUp(f, u, k))[Procs]
  BY Zenon DEF SumOf, MapThenSumSet, MapThenFoldSet, SumsUp

<1> DEFINE f == CHOOSE h : SumsUp(h, u, k)
<1>7. f = [s \in SUBSET Procs |-> IF s = {} THEN 0 
               ELSE u[CHOOSE x \in s : TRUE][k] + f[s \ {CHOOSE x \in s : TRUE}]]
  BY <1>5 DEF SumsUp
<1>8. f \in [SUBSET Procs -> Nat]
  <2> DEFINE G == {s \in SUBSET Procs : f[s] \in Nat}
  <2> HIDE DEF f
  <2>1. {} \in G
    BY <1>7
  <2>2. ASSUME NEW s \in SUBSET Procs, s # {}, s \ {CHOOSE x \in s : TRUE} \in G
        PROVE  s \in G
    <3>1. (CHOOSE x \in s : TRUE) \in Procs
      BY <2>2
    <3>2. u[CHOOSE x \in s : TRUE][k] \in Nat
      BY <3>1 DEF Total
    <3>3. f[s] = u[CHOOSE x \in s : TRUE][k] + f[s \ {CHOOSE x \in s : TRUE}]
      BY <1>7, <2>2
    <3>4. QED
      BY <2>2, <3>2, <3>3
  <2>3. \A s \in SUBSET Procs : s \in G
    <3>1. \A s \in SUBSET Procs : s # {} /\ (\A x \in s : s \ {x} \in G) => s \in G
      BY <2>2
    <3> HIDE DEF G
    <3>2. G \in SUBSET (SUBSET Procs)
      BY DEF G
    <3> QED BY <2>1, <3>1, <3>2, TrackerAssumption, SetInduction
  <2>4. QED
    BY <1>7, <2>3
<1>9. SumsUp(f, u, k) /\ SumOf(u, k) = f[Procs]
  BY <1>5, <1>6
<1>10. QED
  <2> HIDE DEF f
  <2> QED BY <1>8, <1>9

\* When one process's total changes, the sum changes by as much.
LEMMA SumChanges ==
  ASSUME NEW u \in [Procs -> Total], NEW v \in [Procs -> Total], NEW k \in Kinds,
         NEW s \in Procs, \A p \in Procs \ {s} : v[p] = u[p]
  PROVE  /\ SumOf(u, k) \in Nat /\ SumOf(v, k) \in Nat
         /\ SumOf(v, k) + u[s][k] = SumOf(u, k) + v[s][k]
<1>1. PICK g \in [SUBSET Procs -> Nat] : SumsUp(g, u, k) /\ SumOf(u, k) = g[Procs]
  BY SumRecursion
<1>2. PICK h \in [SUBSET Procs -> Nat] : SumsUp(h, v, k) /\ SumOf(v, k) = h[Procs]
  BY SumRecursion
<1> DEFINE G == {z \in SUBSET Procs : IF s \in z THEN h[z] + u[s][k] = g[z] + v[s][k]
                                                ELSE h[z] = g[z]}
<1>3. {} \in G
  BY <1>1, <1>2 DEF SumsUp
<1>4. ASSUME NEW z \in SUBSET Procs, z # {}, \A x \in z : z \ {x} \in G
      PROVE  z \in G
  <2> DEFINE x == CHOOSE x \in z : TRUE
             y == z \ {x}
  <2>1. x \in z /\ x \in Procs /\ y \in G /\ y \in SUBSET Procs
    BY <1>4
  <2>2. g[z] = u[x][k] + g[y] /\ h[z] = v[x][k] + h[y]
    BY <1>1, <1>2, <1>4 DEF SumsUp
  <2>3. /\ u[x][k] \in Nat /\ v[x][k] \in Nat /\ u[s][k] \in Nat /\ v[s][k] \in Nat
        /\ g[y] \in Nat /\ h[y] \in Nat
    BY <2>1 DEF Total
  <2>4. IF s \in y THEN h[y] + u[s][k] = g[y] + v[s][k] ELSE h[y] = g[y]
    BY <2>1
  <2>5. x # s => v[x] = u[x] /\ (s \in z <=> s \in y)
    BY <2>1
  <2>6. x = s => s \in z /\ s \notin y
    BY <2>1
  <2> HIDE DEF x, y
  <2>7. CASE x = s
    BY <2>2, <2>3, <2>4, <2>6, <2>7
  <2>8. CASE x # s
    BY <2>2, <2>3, <2>4, <2>5, <2>8
  <2>9. QED
    BY <2>7, <2>8
<1>5. Procs \in G
  <2>1. \A z \in SUBSET Procs : z # {} /\ (\A x \in z : z \ {x} \in G) => z \in G
    BY <1>4
  <2> HIDE DEF G
  <2>2. G \in SUBSET (SUBSET Procs)
    BY DEF G
  <2> QED BY <1>3, <2>1, <2>2, TrackerAssumption, SetInduction
<1>6. QED
  BY <1>1, <1>2, <1>5

\* Processes that hold nothing sum up to nothing.
LEMMA SumOfZero ==
  ASSUME NEW k \in Kinds
  PROVE  SumOf([s \in Procs |-> Zero], k) = 0
<1> DEFINE u == [s \in Procs |-> Zero]
<1>0. u \in [Procs -> Total] /\ \A s \in Procs : u[s][k] = 0
  BY DEF Total, Zero
<1> HIDE DEF u
<1>1. PICK g \in [SUBSET Procs -> Nat] : SumsUp(g, u, k) /\ SumOf(u, k) = g[Procs]
  BY <1>0, SumRecursion
<1> DEFINE G == {z \in SUBSET Procs : g[z] = 0}
<1>2. {} \in G
  BY <1>1 DEF SumsUp
<1>3. ASSUME NEW z \in SUBSET Procs, z # {}, \A x \in z : z \ {x} \in G
      PROVE  z \in G
  <2> DEFINE x == CHOOSE x \in z : TRUE
  <2>1. x \in z /\ x \in Procs /\ g[z \ {x}] = 0
    BY <1>3
  <2>2. g[z] = u[x][k] + g[z \ {x}]
    BY <1>1, <1>3 DEF SumsUp
  <2>3. QED
    BY <1>0, <2>1, <2>2
<1>4. Procs \in G
  <2>1. \A z \in SUBSET Procs : z # {} /\ (\A x \in z : z \ {x} \in G) => z \in G
    BY <1>3
  <2> HIDE DEF G
  <2>2. G \in SUBSET (SUBSET Procs)
    BY DEF G
  <2> QED BY <1>2, <2>1, <2>2, TrackerAssumption, SetInduction
<1>5. QED
  BY <1>1, <1>4 DEF u

\* What waits to be flushed is such a sum.
LEMMA WaitingIsSum == ASSUME NEW k \in Kinds PROVE Waiting(k) = SumOf(unflushed, k)
BY DEF Waiting, SumOf

\* Totals add up to a total.
LEMMA PlusType == ASSUME NEW a \in Total, NEW b \in Total PROVE Plus(a, b) \in Total
BY DEF Plus, Total

\* No tokens are a total.
LEMMA ZeroType == Zero \in Total
BY DEF Zero, Total

\* The file is empty and no process has tokens to flush.
LEMMA TrackerInitType == TrackerInit => TrackerTypeOK
<1> SUFFICES ASSUME TrackerInit PROVE TrackerTypeOK
  OBVIOUS
<1>1. 0 \in 0..FlushInterval
  BY TrackerAssumption
<1>2. <<>> \in Seq(Nat)
  OBVIOUS
<1>3. QED
  BY <1>1, <1>2, ZeroType DEF TrackerInit, TrackerTypeOK

\* A sequence over a set is one over a larger set.
LEMMA SeqOfMore ==
  ASSUME NEW S, NEW T, S \subseteq T, NEW q \in Seq(S)
  PROVE  q \in Seq(T)
<1>1. q \in [1..Len(q) -> S] /\ Len(q) \in Nat
  BY LenProperties
<1>2. q \in [1..Len(q) -> T]
  BY <1>1
<1>3. QED
  BY <1>1, <1>2, SeqDef

\* What a flush leaves has the types of the state.
LEMMA FlushType ==
  ASSUME TrackerTypeOK, NEW s \in Procs, NEW waiting, Flush(s, waiting)
  PROVE  /\ since' \in [Procs -> 0..FlushInterval]
         /\ doing' \in [Procs -> {"idle", "modify", "write", "ended"}]
         /\ read' \in [Procs -> Total]
<1>1. 0 \in 0..FlushInterval
  BY TrackerAssumption
<1>2. file.total \in Total
  BY DEF TrackerTypeOK
<1>3. QED
  BY <1>1, <1>2, ZeroType DEF TrackerTypeOK, Flush

\* Every step keeps the types.
LEMMA TrackerStepType ==
  ASSUME TrackerTypeOK, [TrackerNext]_trackerVars
  PROVE  TrackerTypeOK'
<1>0. CASE UNCHANGED trackerVars
  BY <1>0 DEF TrackerTypeOK, trackerVars
<1>1. ASSUME NEW s \in Procs, NEW kind \in Kinds, NEW n \in 0..1, Record(s, kind, n)
      PROVE  TrackerTypeOK'
  <2>1. recorded' \in Total
    BY <1>1 DEF Record, TrackerTypeOK, Total
  <2>2. unflushed' \in [Procs -> Total]
    <3> DEFINE w == [unflushed[s] EXCEPT ![kind] = @ + n]
    <3>1. w \in Total
      BY <1>1 DEF TrackerTypeOK, Total
    <3>2. unflushed' = [unflushed EXCEPT ![s] = w]
      BY <1>1 DEF Record, TrackerTypeOK
    <3> HIDE DEF w
    <3>3. QED
      BY <3>1, <3>2 DEF TrackerTypeOK
  <2>3. /\ since' \in [Procs -> 0..FlushInterval]
        /\ doing' \in [Procs -> {"idle", "modify", "write", "ended"}]
        /\ read' \in [Procs -> Total]
    <3>1. CASE since[s] + 1 >= FlushInterval
      BY <1>1, <3>1, FlushType DEF Record
    <3>2. CASE ~ (since[s] + 1 >= FlushInterval)
      <4>1. since[s] + 1 \in 0..FlushInterval
        BY <3>2, TrackerAssumption DEF TrackerTypeOK
      <4>2. QED
        BY <1>1, <3>2, <4>1 DEF Record, TrackerTypeOK
    <3>3. QED
      BY <3>1, <3>2
  <2>4. QED
    BY <1>1, <2>1, <2>2, <2>3 DEF Record, TrackerTypeOK
<1>2. ASSUME NEW s \in Procs, Truncate(s) PROVE TrackerTypeOK'
  <2>1. file' \in [torn : BOOLEAN, total : Total]
    BY <1>2 DEF Truncate, TrackerTypeOK
  <2>2. QED
    BY <1>2, <2>1 DEF Truncate, TrackerTypeOK
<1>3. ASSUME NEW s \in Procs, NEW ok \in BOOLEAN, WriteTotals(s, ok) PROVE TrackerTypeOK'
  <2> DEFINE total == Plus(read[s], unflushed[s])
  <2>1. total \in Total
    BY PlusType DEF TrackerTypeOK
  <2>2. total["tokens"] \in Nat
    BY <2>1 DEF Total, Kinds
  <2>3. /\ file' = IF ok THEN [torn |-> FALSE, total |-> total] ELSE file
        /\ posts' = [posts EXCEPT ![s] = Append(@, total["tokens"])]
    BY <1>3 DEF WriteTotals
  <2> HIDE DEF total
  <2>4. file' \in [torn : BOOLEAN, total : Total]
    BY <2>1, <2>3 DEF TrackerTypeOK
  <2>5. posts' \in [Procs -> Seq(Nat)]
    <3>1. Append(posts[s], total["tokens"]) \in Seq(Nat)
      BY <2>2, AppendProperties DEF TrackerTypeOK
    <3>2. QED
      BY <2>3, <3>1 DEF TrackerTypeOK
  <2>6. 0 \in 0..FlushInterval
    BY TrackerAssumption
  <2>7. since' \in [Procs -> 0..FlushInterval] /\ read' \in [Procs -> Total]
        /\ doing' \in [Procs -> {"idle", "modify", "write", "ended"}]
    BY <1>3, <2>6, ZeroType DEF WriteTotals, TrackerTypeOK
  <2>8. unflushed' \in [Procs -> Total]
    BY <1>3, ZeroType DEF WriteTotals, WaitsAfterFlush, TrackerTypeOK
  <2>9. QED
    BY <1>3, <2>4, <2>5, <2>7, <2>8 DEF WriteTotals, TrackerTypeOK
<1>4. ASSUME NEW s \in Procs, FlushAtExit(s) PROVE TrackerTypeOK'
  <2>1. /\ since' \in [Procs -> 0..FlushInterval]
        /\ doing' \in [Procs -> {"idle", "modify", "write", "ended"}]
        /\ read' \in [Procs -> Total]
    BY <1>4, FlushType DEF FlushAtExit
  <2>2. QED
    BY <1>4, <2>1 DEF FlushAtExit, TrackerTypeOK
<1>5. ASSUME NEW s \in Procs, KillProc(s) PROVE TrackerTypeOK'
  <2>1. Plus(lost, unflushed[s]) \in Total
    BY PlusType DEF TrackerTypeOK
  <2>2. QED
    BY <1>5, <2>1, ZeroType DEF KillProc, TrackerTypeOK
<1>6. ASSUME NEW s \in Procs, NEW arrives \in BOOLEAN, Post(s, arrives) PROVE TrackerTypeOK'
  <2>1. posts[s] \in Seq(Nat) /\ posts[s] # <<>>
    BY <1>6 DEF Post, TrackerTypeOK
  <2>2. Head(posts[s]) \in Nat /\ Tail(posts[s]) \in Seq(Nat)
    BY <2>1, HeadTailProperties
  <2>3. meter' \in Nat
    BY <1>6, <2>2 DEF Post, Greatest, TrackerTypeOK
  <2>4. posts' \in [Procs -> Seq(Nat)]
    BY <1>6, <2>2 DEF Post, TrackerTypeOK
  <2>5. QED
    BY <1>6, <2>3, <2>4 DEF Post, TrackerTypeOK
<1>7. QED
  BY <1>0, <1>1, <1>2, <1>3, <1>4, <1>5, <1>6 DEF TrackerNext

\* The types of the token accounting (token_tracker.py, _State and the savings file).
THEOREM TrackerTypes == TrackerSpec => []TrackerTypeOK
BY TrackerInitType, TrackerStepType, PTL DEF TrackerSpec

----------------------------------------------------------------------------
Flushing(s) == doing[s] \in {"modify", "write"}

TrackerInv ==
    /\ TrackerTypeOK
    /\ \A s, t \in Procs : Flushing(s) /\ Flushing(t) => s = t
    /\ \A s \in Procs : Flushing(s) => read[s] = file.total
    /\ file.torn => \E s \in Procs : doing[s] = "write"
    /\ \A k \in Kinds : file.total[k] + SumOf(unflushed, k) + lost[k] = recorded[k]
    /\ meter <= file.total["tokens"]
    /\ \A s \in Procs : posts[s] \in Seq(0..file.total["tokens"])

\* No tokens are recorded, counted or lost.
LEMMA TrackerInitInv == TrackerInit => TrackerInv
<1> SUFFICES ASSUME TrackerInit PROVE TrackerInv
  OBVIOUS
<1>1. \A k \in Kinds : SumOf(unflushed, k) = 0 /\ Zero[k] = 0
  BY SumOfZero DEF TrackerInit, Zero
<1>2. \A k \in Kinds : file.total[k] + SumOf(unflushed, k) + lost[k] = recorded[k]
  BY <1>1 DEF TrackerInit
<1>3. meter <= file.total["tokens"]
  BY DEF TrackerInit, Zero, Kinds
<1>4. \A s \in Procs : posts[s] \in Seq(0..file.total["tokens"])
  BY DEF TrackerInit
<1>5. QED
  BY <1>2, <1>3, <1>4, TrackerInitType DEF TrackerInv, TrackerInit, Flushing

\* One flush at a time.
LEMMA FlushStarts ==
  ASSUME TrackerInv, ~Overlap, NEW s \in Procs, doing[s] = "idle", NEW waiting,
         Flush(s, waiting), file' = file
  PROVE  /\ \A p, t \in Procs : Flushing(p)' /\ Flushing(t)' => p = t
         /\ \A p \in Procs : Flushing(p)' => read'[p] = file'.total
         /\ file'.torn => \E p \in Procs : doing'[p] = "write"
<1>1. CASE waiting["tokens"] = 0
  <2>1. read' = read /\ doing'[s] \in {"ended", "idle"}
        /\ \A p \in Procs \ {s} : doing'[p] = doing[p]
    BY <1>1 DEF Flush, TrackerInv, TrackerTypeOK
  <2>2. QED
    BY <2>1 DEF TrackerInv, Flushing
<1>2. CASE waiting["tokens"] # 0
  <2>1. \A p \in Procs \ {s} : ~ Flushing(p)
    BY <1>2 DEF Flush, MayFlush, Flushing
  <2>2. ~ file.torn
    BY <2>1 DEF TrackerInv, Flushing
  <2>3. /\ doing' = [doing EXCEPT ![s] = "modify"]
        /\ read' = [read EXCEPT ![s] = file.total]
    BY <1>2, <2>2 DEF Flush
  <2>4. QED
    BY <2>1, <2>2, <2>3 DEF TrackerInv, TrackerTypeOK, Flushing
<1>3. QED
  BY <1>1, <1>2

\* Every step keeps the count, if no two flushes overlap and no write fails.
LEMMA TrackerStepInv ==
  ASSUME TrackerInv, ~Overlap, ~CanFail, [TrackerNext]_trackerVars
  PROVE  TrackerInv'
<1>t. TrackerTypeOK /\ TrackerTypeOK'
  BY TrackerStepType DEF TrackerInv
<1>n. \A k \in Kinds : file.total[k] \in Nat /\ recorded[k] \in Nat /\ lost[k] \in Nat
  BY <1>t DEF TrackerTypeOK, Total
<1>0. CASE UNCHANGED trackerVars
  BY <1>0, <1>t DEF TrackerInv, trackerVars, Flushing
<1>1. ASSUME NEW s \in Procs, NEW kind \in Kinds, NEW n \in 0..1, Record(s, kind, n)
      PROVE  TrackerInv'
  <2>1. /\ doing[s] = "idle" /\ file' = file /\ posts' = posts /\ meter' = meter
        /\ lost' = lost /\ unflushed' = [unflushed EXCEPT ![s][kind] = @ + n]
        /\ recorded' = [recorded EXCEPT ![kind] = @ + n]
    BY <1>1 DEF Record
  <2>2. ASSUME NEW k \in Kinds
        PROVE  file'.total[k] + SumOf(unflushed', k) + lost'[k] = recorded'[k]
    <3>1. /\ unflushed' \in [Procs -> Total] /\ unflushed \in [Procs -> Total]
          /\ \A p \in Procs \ {s} : unflushed'[p] = unflushed[p]
      BY <1>t, <2>1 DEF TrackerTypeOK
    <3>2. /\ SumOf(unflushed, k) \in Nat /\ SumOf(unflushed', k) \in Nat
          /\ SumOf(unflushed', k) + unflushed[s][k] = SumOf(unflushed, k) + unflushed'[s][k]
      BY <3>1, SumChanges
    <3>3. unflushed[s][k] \in Nat
      BY <3>1 DEF Total
    <3>4. /\ unflushed'[s][k] = IF k = kind THEN unflushed[s][k] + n ELSE unflushed[s][k]
          /\ recorded'[k] = IF k = kind THEN recorded[k] + n ELSE recorded[k]
      BY <1>t, <2>1 DEF TrackerTypeOK, Total
    <3>5. file.total[k] + SumOf(unflushed, k) + lost[k] = recorded[k]
      BY DEF TrackerInv
    <3>6. n \in Nat
      OBVIOUS
    <3>7. SumOf(unflushed', k) = IF k = kind THEN SumOf(unflushed, k) + n
                                             ELSE SumOf(unflushed, k)
      BY <3>2, <3>3, <3>4, <3>6
    <3>8. QED
      BY <1>n, <2>1, <3>2, <3>4, <3>5, <3>6, <3>7
  <2>3. /\ \A p, t \in Procs : Flushing(p)' /\ Flushing(t)' => p = t
        /\ \A p \in Procs : Flushing(p)' => read'[p] = file'.total
        /\ file'.torn => \E p \in Procs : doing'[p] = "write"
    <3>1. CASE since[s] + 1 >= FlushInterval
      BY <1>1, <2>1, <3>1, FlushStarts DEF Record
    <3>2. CASE ~ (since[s] + 1 >= FlushInterval)
      BY <1>1, <2>1, <3>2 DEF Record, TrackerInv, Flushing
    <3>3. QED
      BY <3>1, <3>2
  <2>4. QED
    BY <1>t, <2>1, <2>2, <2>3 DEF TrackerInv
<1>2. ASSUME NEW s \in Procs, Truncate(s) PROVE TrackerInv'
  <2>1. /\ doing[s] = "modify" /\ doing' = [doing EXCEPT ![s] = "write"]
        /\ file'.torn = TRUE /\ file'.total = file.total
        /\ UNCHANGED <<read, unflushed, posts, meter, recorded, lost>>
    BY <1>2, <1>t DEF Truncate, TrackerTypeOK
  <2>2. doing'[s] = "write" /\ \A p \in Procs : Flushing(p)' <=> Flushing(p)
    BY <1>t, <2>1 DEF Flushing, TrackerTypeOK
  <2>3. QED
    BY <1>t, <2>1, <2>2 DEF TrackerInv
<1>3. ASSUME NEW s \in Procs, NEW ok \in BOOLEAN, WriteTotals(s, ok) PROVE TrackerInv'
  <2> DEFINE total == Plus(read[s], unflushed[s])
  <2>1. /\ doing[s] = "write"
        /\ file' = [torn |-> FALSE, total |-> total]
        /\ posts' = [posts EXCEPT ![s] = Append(@, total["tokens"])]
        /\ unflushed' = [unflushed EXCEPT ![s] = Zero]
        /\ doing' = [doing EXCEPT ![s] = IF s \in closing THEN "ended" ELSE "idle"]
        /\ UNCHANGED <<meter, recorded, lost>>
    BY <1>3 DEF WriteTotals, WaitsAfterFlush
  <2>2. read[s] = file.total
    BY <2>1 DEF TrackerInv, Flushing
  <2>3. ASSUME NEW k \in Kinds
        PROVE  /\ total[k] = file.total[k] + unflushed[s][k] /\ unflushed[s][k] \in Nat
               /\ file.total[k] \in Nat
    BY <1>t, <2>2 DEF Plus, TrackerTypeOK, Total
  <2>4. file'.torn = FALSE /\ file'.total = total
    BY <2>1
  <2> HIDE DEF total
  <2>5. ASSUME NEW k \in Kinds
        PROVE  file'.total[k] + SumOf(unflushed', k) + lost'[k] = recorded'[k]
    <3>1. /\ unflushed' \in [Procs -> Total] /\ unflushed \in [Procs -> Total]
          /\ \A p \in Procs \ {s} : unflushed'[p] = unflushed[p]
      BY <1>t, <2>1 DEF TrackerTypeOK
    <3>2. /\ SumOf(unflushed, k) \in Nat /\ SumOf(unflushed', k) \in Nat
          /\ SumOf(unflushed', k) + unflushed[s][k] = SumOf(unflushed, k) + unflushed'[s][k]
      BY <3>1, SumChanges
    <3>3. unflushed'[s][k] = 0
      BY <1>t, <2>1 DEF TrackerTypeOK, Zero
    <3>4. file.total[k] + SumOf(unflushed, k) + lost[k] = recorded[k]
      BY DEF TrackerInv
    <3>5. QED
      BY <1>n, <2>1, <2>3, <2>4, <3>2, <3>3, <3>4
  <2>6. total["tokens"] \in Nat /\ file.total["tokens"] \in Nat
        /\ file.total["tokens"] <= total["tokens"]
    BY <2>3 DEF Kinds
  <2>7. ASSUME NEW p \in Procs PROVE posts'[p] \in Seq(0..total["tokens"])
    <3>1. posts[p] \in Seq(0..total["tokens"])
      <4>1. posts[p] \in Seq(0..file.total["tokens"])
        BY DEF TrackerInv
      <4>2. 0..file.total["tokens"] \subseteq 0..total["tokens"]
        BY <2>6
      <4>3. QED
        BY <4>1, <4>2, SeqOfMore
    <3>2. total["tokens"] \in 0..total["tokens"]
      BY <2>6
    <3>3. Append(posts[p], total["tokens"]) \in Seq(0..total["tokens"])
      BY <3>1, <3>2, AppendProperties
    <3>4. QED
      BY <1>t, <2>1, <3>1, <3>3 DEF TrackerTypeOK
  <2>8. \A p \in Procs : ~ (Flushing(p)')
    BY <1>t, <2>1 DEF TrackerInv, TrackerTypeOK, Flushing
  <2>9. meter' <= total["tokens"]
    <3>1. meter <= file.total["tokens"] /\ meter \in Nat
      BY <1>t DEF TrackerInv, TrackerTypeOK
    <3>2. QED
      BY <2>1, <2>6, <3>1
  <2>10. QED
    BY <1>t, <2>4, <2>5, <2>7, <2>8, <2>9 DEF TrackerInv
<1>4. ASSUME NEW s \in Procs, FlushAtExit(s) PROVE TrackerInv'
  <2>1. /\ \A p, t \in Procs : Flushing(p)' /\ Flushing(t)' => p = t
        /\ \A p \in Procs : Flushing(p)' => read'[p] = file'.total
        /\ file'.torn => \E p \in Procs : doing'[p] = "write"
    BY <1>4, FlushStarts DEF FlushAtExit
  <2>2. QED
    BY <1>t, <1>4, <2>1 DEF FlushAtExit, TrackerInv
<1>5. ASSUME NEW s \in Procs, KillProc(s) PROVE TrackerInv'
  <2>1. /\ doing[s] = "idle" /\ doing' = [doing EXCEPT ![s] = "ended"]
        /\ lost' = Plus(lost, unflushed[s])
        /\ unflushed' = [unflushed EXCEPT ![s] = Zero]
        /\ UNCHANGED <<file, read, posts, meter, recorded>>
    BY <1>5 DEF KillProc
  <2>2. ASSUME NEW k \in Kinds
        PROVE  file'.total[k] + SumOf(unflushed', k) + lost'[k] = recorded'[k]
    <3>1. /\ unflushed' \in [Procs -> Total] /\ unflushed \in [Procs -> Total]
          /\ \A p \in Procs \ {s} : unflushed'[p] = unflushed[p]
      BY <1>t, <2>1 DEF TrackerTypeOK
    <3>2. /\ SumOf(unflushed, k) \in Nat /\ SumOf(unflushed', k) \in Nat
          /\ SumOf(unflushed', k) + unflushed[s][k] = SumOf(unflushed, k) + unflushed'[s][k]
      BY <3>1, SumChanges
    <3>3. unflushed'[s][k] = 0 /\ unflushed[s][k] \in Nat
      BY <1>t, <2>1 DEF TrackerTypeOK, Zero, Total
    <3>4. file.total[k] + SumOf(unflushed, k) + lost[k] = recorded[k]
      BY DEF TrackerInv
    <3>5. lost'[k] = lost[k] + unflushed[s][k]
      BY <2>1 DEF Plus
    <3>6. QED
      BY <1>n, <2>1, <3>2, <3>3, <3>4, <3>5
  <2>3. doing'[s] = "ended" /\ \A p \in Procs \ {s} : doing'[p] = doing[p]
    BY <1>t, <2>1 DEF TrackerTypeOK
  <2>4. QED
    BY <1>t, <2>1, <2>2, <2>3 DEF TrackerInv, Flushing
<1>6. ASSUME NEW s \in Procs, NEW arrives \in BOOLEAN, Post(s, arrives) PROVE TrackerInv'
  <2>1. posts[s] \in Seq(0..file.total["tokens"]) /\ posts[s] # <<>>
    BY <1>6 DEF Post, TrackerInv
  <2>2. /\ Head(posts[s]) \in 0..file.total["tokens"]
        /\ Tail(posts[s]) \in Seq(0..file.total["tokens"])
    BY <2>1, HeadTailProperties
  <2>3. meter' <= file.total["tokens"]
    BY <1>6, <2>2 DEF Post, Greatest, TrackerInv
  <2>4. \A p \in Procs : posts'[p] \in Seq(0..file.total["tokens"])
    BY <1>6, <1>t, <2>2 DEF Post, TrackerInv, TrackerTypeOK
  <2>5. UNCHANGED <<file, doing, read, unflushed, recorded, lost>>
    BY <1>6 DEF Post
  <2>6. QED
    BY <1>t, <2>3, <2>4, <2>5 DEF TrackerInv, Flushing
<1>7. QED
  BY <1>0, <1>1, <1>2, <1>3, <1>4, <1>5, <1>6 DEF TrackerNext

\* Every token recorded is in the file, waits to be flushed, or was lost with a
\* process that was killed (token_tracker.py, _flush_locked), as long as no two
\* flushes overlap and none fails: the runs show that both conditions matter.
THEOREM TokensCounted == ~Overlap /\ ~CanFail => (TrackerSpec => []EveryTokenCounted)
<1> SUFFICES ASSUME ~Overlap, ~CanFail PROVE TrackerSpec => []EveryTokenCounted
  OBVIOUS
<1>1. TrackerInv => EveryTokenCounted
  BY WaitingIsSum DEF TrackerInv, EveryTokenCounted
<1>2. QED
  BY <1>1, TrackerInitInv, TrackerStepInv, PTL DEF TrackerSpec

\* The community meter never exceeds the file's total, under the same conditions and
\* however late, often or seldom a total is posted (token_tracker.py, _share_savings).
THEOREM MeterBehind == ~Overlap /\ ~CanFail => (TrackerSpec => []MeterNotAhead)
<1> SUFFICES ASSUME ~Overlap, ~CanFail PROVE TrackerSpec => []MeterNotAhead
  OBVIOUS
<1>1. TrackerInv => MeterNotAhead
  BY DEF TrackerInv, MeterNotAhead
<1>2. QED
  BY <1>1, TrackerInitInv, TrackerStepInv, PTL DEF TrackerSpec

----------------------------------------------------------------------------
BoundInv ==
    /\ TrackerTypeOK
    /\ \A k \in Kinds : file.total[k] + SumOf(unflushed, k) + lost[k] <= recorded[k]
    /\ \A s \in Procs, k \in Kinds : read[s][k] + SumOf(unflushed, k) + lost[k] <= recorded[k]
    /\ meter <= recorded["tokens"]
    /\ \A s \in Procs : posts[s] \in Seq(0..recorded["tokens"])

\* No tokens are recorded or on their way.
LEMMA BoundInitInv == TrackerInit => BoundInv
<1> SUFFICES ASSUME TrackerInit PROVE BoundInv
  OBVIOUS
<1>1. \A k \in Kinds : SumOf(unflushed, k) = 0 /\ Zero[k] = 0
  BY SumOfZero DEF TrackerInit, Zero
<1>2. /\ \A k \in Kinds : file.total[k] + SumOf(unflushed, k) + lost[k] <= recorded[k]
      /\ \A s \in Procs, k \in Kinds : read[s][k] + SumOf(unflushed, k) + lost[k] <= recorded[k]
  BY <1>1 DEF TrackerInit
<1>3. meter <= recorded["tokens"]
  BY DEF TrackerInit, Zero, Kinds
<1>4. \A s \in Procs : posts[s] \in Seq(0..recorded["tokens"])
  BY DEF TrackerInit
<1>5. QED
  BY <1>2, <1>3, <1>4, TrackerInitType DEF BoundInv

\* What waits, is lost, and was recorded, before and after a step of one process.
LEMMA WaitingSteps ==
  ASSUME TrackerTypeOK, TrackerTypeOK', NEW s \in Procs, NEW k \in Kinds,
         \A p \in Procs \ {s} : unflushed'[p] = unflushed[p]
  PROVE  /\ SumOf(unflushed, k) \in Nat /\ SumOf(unflushed', k) \in Nat
         /\ unflushed[s][k] \in Nat /\ unflushed'[s][k] \in Nat
         /\ SumOf(unflushed', k) + unflushed[s][k] = SumOf(unflushed, k) + unflushed'[s][k]
<1>1. unflushed \in [Procs -> Total] /\ unflushed' \in [Procs -> Total]
  BY DEF TrackerTypeOK
<1>2. /\ SumOf(unflushed, k) \in Nat /\ SumOf(unflushed', k) \in Nat
      /\ SumOf(unflushed', k) + unflushed[s][k] = SumOf(unflushed, k) + unflushed'[s][k]
  BY <1>1, SumChanges
<1>3. QED
  BY <1>1, <1>2 DEF Total

\* The numbers that the next lemma adds up are natural numbers.
LEMMA NumbersTyped ==
  ASSUME TrackerTypeOK, NEW k \in Kinds
  PROVE  /\ file.total[k] \in Nat /\ recorded[k] \in Nat /\ lost[k] \in Nat
         /\ \A s \in Procs : read[s][k] \in Nat /\ unflushed[s][k] \in Nat
BY DEF TrackerTypeOK, Total

\* The totals a flush may have read are those of the file, or 0.
LEMMA FlushReads ==
  ASSUME TrackerTypeOK, NEW s \in Procs, NEW waiting, Flush(s, waiting)
  PROVE  \A p \in Procs : read'[p] \in {read[p], file.total, Zero}
BY DEF Flush, TrackerTypeOK

\* Every step keeps the bound, whatever overlaps or fails.
LEMMA BoundStepInv ==
  ASSUME BoundInv, [TrackerNext]_trackerVars
  PROVE  BoundInv'
<1>t. TrackerTypeOK /\ TrackerTypeOK'
  BY TrackerStepType DEF BoundInv
<1>n. ASSUME NEW k \in Kinds
      PROVE  /\ file.total[k] \in Nat /\ recorded[k] \in Nat /\ lost[k] \in Nat
             /\ \A s \in Procs : read[s][k] \in Nat /\ unflushed[s][k] \in Nat
  BY <1>t, NumbersTyped
<1>tok. "tokens" \in Kinds /\ recorded["tokens"] \in Nat
  BY <1>n DEF Kinds
<1>0. CASE UNCHANGED trackerVars
  BY <1>0, <1>t DEF BoundInv, trackerVars
<1>1. ASSUME NEW s \in Procs, NEW kind \in Kinds, NEW n \in 0..1, Record(s, kind, n)
      PROVE  BoundInv'
  <2>1. /\ file' = file /\ posts' = posts /\ meter' = meter
        /\ lost' = lost /\ unflushed' = [unflushed EXCEPT ![s][kind] = @ + n]
        /\ recorded' = [recorded EXCEPT ![kind] = @ + n]
    BY <1>1 DEF Record
  <2>2. \A p \in Procs : read'[p] \in {read[p], file.total, Zero}
    BY <1>1, <1>t, FlushReads DEF Record
  <2>3. ASSUME NEW k \in Kinds
        PROVE  /\ file'.total[k] + SumOf(unflushed', k) + lost'[k] <= recorded'[k]
               /\ \A p \in Procs :
                    read'[p][k] + SumOf(unflushed', k) + lost'[k] <= recorded'[k]
    <3>1. \A p \in Procs \ {s} : unflushed'[p] = unflushed[p]
      BY <1>t, <2>1 DEF TrackerTypeOK
    <3>2. /\ SumOf(unflushed, k) \in Nat /\ SumOf(unflushed', k) \in Nat
          /\ unflushed[s][k] \in Nat /\ unflushed'[s][k] \in Nat
          /\ SumOf(unflushed', k) + unflushed[s][k] = SumOf(unflushed, k) + unflushed'[s][k]
      BY <1>t, <3>1, WaitingSteps
    <3>3. \E more \in 0..1 : /\ unflushed'[s][k] = unflushed[s][k] + more
                             /\ recorded'[k] = recorded[k] + more
      <4>1. /\ unflushed'[s][k] = IF k = kind THEN unflushed[s][k] + n ELSE unflushed[s][k]
            /\ recorded'[k] = IF k = kind THEN recorded[k] + n ELSE recorded[k]
        BY <1>t, <2>1 DEF TrackerTypeOK, Total
      <4>2. CASE k = kind
        BY <4>1, <4>2
      <4>3. CASE k # kind
        BY <4>1, <4>3, <3>2, <1>n
      <4>4. QED
        BY <4>2, <4>3
    <3>4. PICK more \in 0..1 : /\ unflushed'[s][k] = unflushed[s][k] + more
                              /\ recorded'[k] = recorded[k] + more
      BY <3>3
    <3>a. more \in Nat
      OBVIOUS
    <3>5. SumOf(unflushed', k) = SumOf(unflushed, k) + more
      BY <3>2, <3>4, <3>a
    <3>6. /\ file.total[k] + SumOf(unflushed, k) + lost[k] <= recorded[k]
          /\ \A p \in Procs : read[p][k] + SumOf(unflushed, k) + lost[k] <= recorded[k]
      BY DEF BoundInv
    <3>7. ASSUME NEW p \in Procs
          PROVE  read'[p][k] + SumOf(unflushed', k) + lost'[k] <= recorded'[k]
      <4>1. read'[p][k] \in {read[p][k], file.total[k], 0}
        BY <2>2 DEF Zero
      <4>2. QED
        BY <1>n, <2>1, <3>2, <3>4, <3>5, <3>6, <3>a, <4>1
    <3>8. file'.total[k] + SumOf(unflushed', k) + lost'[k] <= recorded'[k]
      BY <1>n, <2>1, <3>2, <3>4, <3>5, <3>6, <3>a
    <3>9. QED
      BY <3>7, <3>8
  <2>4. /\ recorded'["tokens"] \in Nat /\ recorded["tokens"] <= recorded'["tokens"]
    <3>1. /\ recorded'["tokens"] \in Nat
          /\ recorded'["tokens"] = IF kind = "tokens" THEN recorded["tokens"] + n
                                                     ELSE recorded["tokens"]
      BY <1>t, <1>tok, <2>1 DEF TrackerTypeOK, Total
    <3>2. n \in Nat
      OBVIOUS
    <3>3. QED
      BY <1>tok, <3>1, <3>2
  <2>5. meter' <= recorded'["tokens"]
    BY <1>t, <1>tok, <2>1, <2>4 DEF BoundInv, TrackerTypeOK
  <2>6. \A p \in Procs : posts'[p] \in Seq(0..recorded'["tokens"])
    <3>1. 0..recorded["tokens"] \subseteq 0..recorded'["tokens"]
      BY <1>tok, <2>4
    <3>2. QED
      BY <2>1, <3>1, SeqOfMore DEF BoundInv
  <2>7. QED
    BY <1>t, <2>3, <2>5, <2>6 DEF BoundInv
<1>2. ASSUME NEW s \in Procs, Truncate(s) PROVE BoundInv'
  <2>1. /\ file'.total = file.total
        /\ UNCHANGED <<read, unflushed, posts, meter, recorded, lost>>
    BY <1>2, <1>t DEF Truncate, TrackerTypeOK
  <2>2. QED
    BY <1>t, <2>1 DEF BoundInv
<1>3. ASSUME NEW s \in Procs, NEW ok \in BOOLEAN, WriteTotals(s, ok) PROVE BoundInv'
  <2> DEFINE total == Plus(read[s], unflushed[s])
  <2>1. /\ file'.total \in {total, file.total}
        /\ posts' = [posts EXCEPT ![s] = Append(@, total["tokens"])]
        /\ unflushed' = [unflushed EXCEPT ![s] = Zero]
        /\ read' = [read EXCEPT ![s] = Zero]
        /\ UNCHANGED <<meter, recorded, lost>>
    BY <1>3 DEF WriteTotals, WaitsAfterFlush
  <2>2. ASSUME NEW k \in Kinds PROVE total[k] = read[s][k] + unflushed[s][k]
    BY DEF Plus
  <2> HIDE DEF total
  <2>3. ASSUME NEW k \in Kinds
        PROVE  /\ file'.total[k] + SumOf(unflushed', k) + lost'[k] <= recorded'[k]
               /\ \A p \in Procs :
                    read'[p][k] + SumOf(unflushed', k) + lost'[k] <= recorded'[k]
               /\ total[k] \in Nat /\ total[k] <= recorded[k]
    <3>1. \A p \in Procs \ {s} : unflushed'[p] = unflushed[p]
      BY <1>t, <2>1 DEF TrackerTypeOK
    <3>2. /\ SumOf(unflushed, k) \in Nat /\ SumOf(unflushed', k) \in Nat
          /\ unflushed[s][k] \in Nat /\ unflushed'[s][k] \in Nat
          /\ SumOf(unflushed', k) + unflushed[s][k] = SumOf(unflushed, k) + unflushed'[s][k]
      BY <1>t, <3>1, WaitingSteps
    <3>3. unflushed'[s][k] = 0
      BY <1>t, <2>1 DEF TrackerTypeOK, Zero
    <3>4. /\ file.total[k] + SumOf(unflushed, k) + lost[k] <= recorded[k]
          /\ \A p \in Procs : read[p][k] + SumOf(unflushed, k) + lost[k] <= recorded[k]
      BY DEF BoundInv
    <3>5. file'.total[k] \in {file.total[k], read[s][k] + unflushed[s][k]}
      BY <2>1, <2>2
    <3>a. /\ file.total[k] \in Nat /\ recorded[k] \in Nat /\ lost[k] \in Nat
          /\ read[s][k] \in Nat /\ lost'[k] = lost[k] /\ recorded'[k] = recorded[k]
          /\ SumOf(unflushed', k) + unflushed[s][k] = SumOf(unflushed, k)
          /\ read[s][k] + SumOf(unflushed, k) + lost[k] <= recorded[k]
      BY <1>n, <2>1, <3>2, <3>3, <3>4
    <3>6. ASSUME NEW p \in Procs
          PROVE  read'[p][k] + SumOf(unflushed', k) + lost'[k] <= recorded'[k]
      <4>1. read'[p][k] = read[p][k] \/ read'[p][k] = 0
        BY <1>t, <2>1 DEF Zero, TrackerTypeOK
      <4>2. read[p][k] \in Nat /\ read[p][k] + SumOf(unflushed, k) + lost[k] <= recorded[k]
        BY <1>n, <3>4
      <4>3. QED
        BY <3>2, <3>a, <4>1, <4>2
    <3>7. total[k] \in Nat /\ total[k] <= recorded[k]
      BY <2>2, <3>2, <3>a
    <3>8. file'.total[k] + SumOf(unflushed', k) + lost'[k] <= recorded'[k]
      BY <3>2, <3>4, <3>5, <3>a
    <3>9. QED
      BY <3>6, <3>7, <3>8
  <2>4. \A p \in Procs : posts'[p] \in Seq(0..recorded["tokens"])
    <3>1. total["tokens"] \in 0..recorded["tokens"]
      BY <1>tok, <2>3
    <3>2. \A p \in Procs : posts[p] \in Seq(0..recorded["tokens"])
      BY DEF BoundInv
    <3>3. Append(posts[s], total["tokens"]) \in Seq(0..recorded["tokens"])
      BY <3>1, <3>2, AppendProperties
    <3>4. QED
      BY <1>t, <2>1, <3>2, <3>3 DEF TrackerTypeOK
  <2>5. QED
    BY <1>t, <2>1, <2>3, <2>4 DEF BoundInv
<1>4. ASSUME NEW s \in Procs, FlushAtExit(s) PROVE BoundInv'
  <2>1. /\ UNCHANGED <<file, unflushed, posts, meter, recorded, lost>>
        /\ \A p \in Procs : read'[p] \in {read[p], file.total, Zero}
    BY <1>4, <1>t, FlushReads DEF FlushAtExit
  <2>2. ASSUME NEW k \in Kinds, NEW p \in Procs
        PROVE  read'[p][k] + SumOf(unflushed, k) + lost[k] <= recorded[k]
    <3>1. read'[p][k] \in {read[p][k], file.total[k], 0}
      BY <2>1 DEF Zero
    <3>2. /\ file.total[k] + SumOf(unflushed, k) + lost[k] <= recorded[k]
          /\ read[p][k] + SumOf(unflushed, k) + lost[k] <= recorded[k]
      BY DEF BoundInv
    <3>3. SumOf(unflushed, k) \in Nat
      <4>1. unflushed \in [Procs -> Total]
        BY <1>t DEF TrackerTypeOK
      <4>2. QED
        BY <4>1, SumChanges
    <3>4. QED
      BY <1>n, <3>1, <3>2, <3>3
  <2>3. QED
    BY <1>t, <2>1, <2>2 DEF BoundInv
<1>5. ASSUME NEW s \in Procs, KillProc(s) PROVE BoundInv'
  <2>1. /\ lost' = Plus(lost, unflushed[s])
        /\ unflushed' = [unflushed EXCEPT ![s] = Zero]
        /\ UNCHANGED <<file, read, posts, meter, recorded>>
    BY <1>5 DEF KillProc
  <2>2. ASSUME NEW k \in Kinds
        PROVE  SumOf(unflushed', k) + lost'[k] = SumOf(unflushed, k) + lost[k]
    <3>1. \A p \in Procs \ {s} : unflushed'[p] = unflushed[p]
      BY <1>t, <2>1 DEF TrackerTypeOK
    <3>2. /\ SumOf(unflushed, k) \in Nat /\ SumOf(unflushed', k) \in Nat
          /\ unflushed[s][k] \in Nat /\ unflushed'[s][k] \in Nat
          /\ SumOf(unflushed', k) + unflushed[s][k] = SumOf(unflushed, k) + unflushed'[s][k]
      BY <1>t, <3>1, WaitingSteps
    <3>3. unflushed'[s][k] = 0
      BY <1>t, <2>1 DEF TrackerTypeOK, Zero
    <3>4. lost'[k] = lost[k] + unflushed[s][k]
      BY <2>1 DEF Plus
    <3>5. QED
      BY <1>n, <3>2, <3>3, <3>4
  <2>3. ASSUME NEW k \in Kinds
        PROVE  /\ file'.total[k] + SumOf(unflushed', k) + lost'[k] <= recorded'[k]
               /\ \A p \in Procs :
                    read'[p][k] + SumOf(unflushed', k) + lost'[k] <= recorded'[k]
    <3>1. /\ file.total[k] + SumOf(unflushed, k) + lost[k] <= recorded[k]
          /\ \A p \in Procs : read[p][k] + SumOf(unflushed, k) + lost[k] <= recorded[k]
      BY DEF BoundInv
    <3>2. /\ SumOf(unflushed, k) \in Nat /\ SumOf(unflushed', k) \in Nat
      <4>1. unflushed \in [Procs -> Total] /\ unflushed' \in [Procs -> Total]
        BY <1>t DEF TrackerTypeOK
      <4>2. QED
        BY <4>1, SumChanges
    <3>3. lost[k] \in Nat /\ lost'[k] \in Nat
      BY <1>t, NumbersTyped DEF TrackerTypeOK, Total
    <3>4. ASSUME NEW a \in Nat, a + SumOf(unflushed, k) + lost[k] <= recorded[k]
          PROVE  a + SumOf(unflushed', k) + lost'[k] <= recorded'[k]
      <4>1. recorded'[k] = recorded[k] /\ recorded[k] \in Nat
        BY <1>n, <2>1
      <4>2. SumOf(unflushed', k) + lost'[k] = SumOf(unflushed, k) + lost[k]
        BY <2>2
      <4>3. QED
        BY <3>2, <3>3, <3>4, <4>1, <4>2
    <3>5. file'.total[k] \in Nat /\ \A p \in Procs : read'[p][k] \in Nat
      BY <1>n, <2>1
    <3>6. QED
      BY <2>1, <3>1, <3>4, <3>5
  <2>4. QED
    BY <1>t, <2>1, <2>3 DEF BoundInv
<1>6. ASSUME NEW s \in Procs, NEW arrives \in BOOLEAN, Post(s, arrives) PROVE BoundInv'
  <2>1. posts[s] \in Seq(0..recorded["tokens"]) /\ posts[s] # <<>>
    BY <1>6 DEF Post, BoundInv
  <2>2. /\ Head(posts[s]) \in 0..recorded["tokens"]
        /\ Tail(posts[s]) \in Seq(0..recorded["tokens"])
    BY <2>1, HeadTailProperties
  <2>3. meter' <= recorded["tokens"]
    BY <1>6, <2>2 DEF Post, Greatest, BoundInv
  <2>4. \A p \in Procs : posts'[p] \in Seq(0..recorded["tokens"])
    BY <1>6, <1>t, <2>2 DEF Post, BoundInv, TrackerTypeOK
  <2>5. UNCHANGED <<file, doing, read, unflushed, recorded, lost>>
    BY <1>6 DEF Post
  <2>6. QED
    BY <1>t, <2>3, <2>4, <2>5 DEF BoundInv
<1>7. QED
  BY <1>0, <1>1, <1>2, <1>3, <1>4, <1>5, <1>6 DEF TrackerNext

\* Overlapping flushes and failing writes may lose tokens, and never make
\* more of them: the file and each process's unflushed tokens, taken with it,
\* stay within what was recorded (token_tracker.py, _flush_locked).
THEOREM NothingOvercounted == TrackerSpec => []NeverOvercounted
<1>1. BoundInv => NeverOvercounted
  BY WaitingIsSum DEF BoundInv, NeverOvercounted
<1>2. QED
  BY <1>1, BoundInitInv, BoundStepInv, PTL DEF TrackerSpec

----------------------------------------------------------------------------
(* Repository indexing *)

\* What the argument needs of GitHub and of the callers.
Orderly == ~CallsOverlap /\ ~FetchesFail /\ ~Reverts

\* One call is under way; it has downloaded nothing before it has loaded the index, and
\* the index stays the one it has loaded.
Alone ==
    /\ \A c, d \in Indexers : run[c].pc # "idle" /\ run[d].pc # "idle" => c = d
    /\ \A c \in Indexers : IF run[c].pc = "fetch" THEN run[c].old = stored
                                                 ELSE run[c].got = NoBlobs

\* No version is known that the file has not had.
Past(f) ==
    /\ head[f] <= newest[f]
    /\ \A c \in Indexers : run[c].tree[f] <= newest[f] /\ run[c].got[f] <= newest[f]
    /\ stored # NoIndex => stored.git_head[f] <= newest[f] /\ stored.blob[f] <= newest[f]
                             /\ stored.hash[f] <= newest[f]

\* The call has downloaded f: f was to be downloaded and no longer is.
Fetched(c, f) ==
    /\ run[c].tree[f] # 0 /\ f \notin run[c].get
    /\ DiffsBlobs(run[c].old, run[c].incremental) => f \in Different(run[c].old, run[c].tree)

\* A version that a call and the index know, and that HEAD still has, is the one that
\* was downloaded.
Downloads(c, f) ==
    /\ f \in run[c].get => run[c].tree[f] # 0
    /\ run[c].got[f] # 0 => run[c].tree[f] # 0
    /\ Fetched(c, f) => /\ head[f] = run[c].tree[f] => run[c].got[f] = head[f]
                        /\ stored # NoIndex /\ stored.hash[f] # 0 /\ head[f] = stored.hash[f]
                             => run[c].got[f] = head[f]

\* The tree, the blob and the hash that are stored for a file tell the truth of its
\* symbols as long as HEAD has that version.
Truthful(f) ==
    /\ stored.git_head[f] \in {0, head[f]} => stored.syms[f] = stored.git_head[f]
    /\ stored.blob[f] = 0 => stored.syms[f] = 0
    /\ stored.blob[f] # 0 /\ stored.blob[f] = head[f] => stored.syms[f] = head[f]
    /\ stored.blob[f] = 0 /\ stored.hash[f] # 0 => stored.hash[f] # head[f]

RepoInv ==
    /\ RepoTypeOK
    /\ Alone
    /\ \A f \in Paths : Past(f)
    /\ \A c \in Indexers, f \in Paths : run[c].pc = "fetch" => Downloads(c, f)
    /\ stored # NoIndex => \A f \in Paths : Truthful(f)

\* The values of an indexer that does not run.
LEMMA NoRunType == NoBlobs \in Tree /\ NoRun \in RunOf
  BY RepoAssumption DEF NoBlobs, NoRun, Tree, Blobs, RunOf, Steps

\* Nothing is pushed, stored or running.
LEMMA RepoInitInv == RepoInit => RepoInv
<1> SUFFICES ASSUME RepoInit PROVE RepoInv
  OBVIOUS
<1>1. RepoTypeOK
  BY NoRunType DEF RepoInit, RepoTypeOK
<1>2. ASSUME NEW f \in Paths PROVE Past(f)
  <2>1. head[f] = 0 /\ newest[f] = 0 /\ stored = NoIndex
    BY DEF RepoInit, NoBlobs
  <2>2. ASSUME NEW c \in Indexers PROVE run[c].tree[f] = 0 /\ run[c].got[f] = 0
    <3>1. run[c] = NoRun
      BY DEF RepoInit
    <3>2. QED BY <3>1 DEF NoRun, NoBlobs
  <2>3. QED BY <2>1, <2>2 DEF Past
<1>3. Alone /\ \A c \in Indexers : run[c].pc = "idle"
  BY DEF RepoInit, Alone, NoRun
<1>4. QED BY <1>1, <1>2, <1>3 DEF RepoInv, RepoInit

\* What the components of the state are.
LEMMA RepoVersions ==
  ASSUME RepoTypeOK, NEW f \in Paths
  PROVE  /\ head[f] \in Nat /\ newest[f] \in Nat
         /\ \A c \in Indexers : run[c].tree[f] \in Nat /\ run[c].got[f] \in Nat
         /\ stored # NoIndex => /\ stored.git_head[f] \in Nat /\ stored.blob[f] \in Nat
                                /\ stored.hash[f] \in Nat /\ stored.syms[f] \in Nat
  BY RepoAssumption DEF RepoTypeOK, Tree, Blobs, RunOf, Index

\* A push: the new head is newer than all that was fetched.
LEMMA RepoPushInv ==
  ASSUME Orderly, RepoInv, NEW g \in Paths, NEW v \in Blobs, Push(g, v)
  PROVE  RepoInv'
<1>1. RepoTypeOK'
  BY RepoAssumption DEF RepoInv, RepoTypeOK, Push, Tree, Blobs
<1>2. Alone'
  BY DEF RepoInv, Alone, Push
<1>3. ASSUME NEW f \in Paths
      PROVE  /\ newest[f] <= newest'[f] /\ head'[f] <= newest'[f]
             /\ head'[f] # 0 /\ head'[f] <= newest[f] => head'[f] = head[f]
  <2>1. Past(f) /\ head[f] \in Nat /\ newest[f] \in Nat /\ v \in Nat
    BY RepoVersions, RepoAssumption DEF RepoInv, Blobs
  <2>2. QED BY <2>1 DEF RepoInv, RepoTypeOK, Tree, Push, Orderly, Past
<1>4. ASSUME NEW f \in Paths PROVE Past(f)'
  <2>1. newest'[f] \in Nat /\ newest[f] \in Nat
    BY <1>1, RepoVersions, RepoAssumption DEF RepoInv, RepoTypeOK, Tree, Blobs
  <2>2. QED BY <1>3, <2>1, RepoVersions DEF RepoInv, Past, Push
<1>5. ASSUME NEW c \in Indexers, NEW f \in Paths, (run[c].pc = "fetch")'
      PROVE  Downloads(c, f)'
  <2>1. Downloads(c, f) /\ Past(f) /\ run' = run /\ stored' = stored
    BY <1>5 DEF RepoInv, Push
  <2>2. QED BY <1>3, <2>1, RepoVersions DEF RepoInv, Downloads, Fetched, DiffsBlobs, Different,
                                        Blobbed, Past
<1>6. ASSUME NEW f \in Paths, (stored # NoIndex)' PROVE Truthful(f)'
  <2>1. Truthful(f) /\ Past(f) /\ stored' = stored /\ stored # NoIndex
    BY <1>6 DEF RepoInv, Push
  <2>2. QED BY <1>3, <2>1, RepoVersions DEF RepoInv, Truthful, Past
<1>7. QED BY <1>1, <1>2, <1>4, <1>5, <1>6 DEF RepoInv

\* A run fetches the tree of the head.
LEMMA RepoFetchTreeInv ==
  ASSUME Orderly, RepoInv, NEW c \in Indexers, NEW incremental \in BOOLEAN,
         FetchTree(c, incremental)
  PROVE  RepoInv'
<1>1. run' \in [Indexers -> RunOf] /\ run'[c].pc = "load" /\ run'[c].tree = head
      /\ run'[c].got = NoBlobs
      /\ \A d \in Indexers : d # c => run'[d] = run[d] /\ run[d].pc = "idle"
  BY NoRunType DEF FetchTree, RepoInv, RepoTypeOK, NoRun, RunOf, Steps, Orderly
<1>2. RepoTypeOK' /\ Alone'
  BY <1>1 DEF FetchTree, RepoInv, RepoTypeOK, Alone
<1>3. ASSUME NEW f \in Paths PROVE Past(f)' /\ (stored # NoIndex => Truthful(f)')
  <2>1. Past(f) /\ run'[c].got[f] = 0 /\ 0 <= newest[f]
    BY <1>1, RepoVersions DEF RepoInv, NoBlobs
  <2>2. QED BY <1>1, <2>1 DEF FetchTree, RepoInv, Past, Truthful
<1>4. \A d \in Indexers : run'[d].pc # "fetch"
  BY <1>1
<1>5. QED BY <1>2, <1>3, <1>4 DEF RepoInv, FetchTree

\* A run loads the stored index, and compares it with the tree.
LEMMA RepoLoadInv ==
  ASSUME Orderly, RepoInv, NEW c \in Indexers, LoadExisting(c)
  PROVE  RepoInv'
<1> DEFINE diffs  == DiffsBlobs(stored, run[c].incremental)
           get    == IF diffs THEN Different(stored, run[c].tree) \cap InTree(run[c].tree)
                              ELSE InTree(run[c].tree)
           loaded == [run[c] EXCEPT !.pc = "fetch", !.old = stored, !.get = get]
<1>0. get \subseteq Paths /\ run[c] \in RunOf /\ run \in [Indexers -> RunOf]
      /\ stored \in Index \cup {NoIndex}
  BY DEF InTree, RepoInv, RepoTypeOK
<1>1. run' = [run EXCEPT ![c] = NoRun] \/ run' = [run EXCEPT ![c] = loaded]
  BY DEF LoadExisting
<1> HIDE DEF get
<1>a. /\ loaded \in RunOf
      /\ loaded.pc = "fetch" /\ loaded.old = stored /\ loaded.get = get
      /\ loaded.tree = run[c].tree /\ loaded.incremental = run[c].incremental
      /\ loaded.got = run[c].got
  BY <1>0 DEF RunOf, Steps
<1> HIDE DEF loaded
<1>2. /\ run' \in [Indexers -> RunOf]
      /\ \A d \in Indexers : d # c => run'[d] = run[d]
      /\ run'[c] = NoRun \/ run'[c] = loaded
  BY <1>0, <1>1, <1>a, NoRunType
<1>3. \A d \in Indexers : d # c => run[d].pc = "idle" /\ run'[d].pc = "idle"
  BY <1>2 DEF RepoInv, Alone, LoadExisting
<1>b. run[c].got = NoBlobs
  BY DEF RepoInv, Alone, LoadExisting
<1>4. RepoTypeOK' /\ Alone'
  BY <1>2, <1>3, <1>a, <1>b DEF LoadExisting, RepoInv, RepoTypeOK, Alone, NoRun
<1>5. ASSUME NEW f \in Paths PROVE Past(f)' /\ (stored # NoIndex => Truthful(f)')
  <2>1. Past(f) /\ NoRun.tree[f] = 0 /\ NoRun.got[f] = 0 /\ 0 <= newest[f]
    BY RepoVersions DEF RepoInv, NoRun, NoBlobs
  <2>2. QED BY <1>2, <1>a, <2>1 DEF LoadExisting, RepoInv, Past, Truthful
<1>6. ASSUME NEW d \in Indexers, NEW f \in Paths, (run[d].pc = "fetch")'
      PROVE  Downloads(d, f)'
  <2>1. d = c /\ run'[c] = loaded
    BY <1>2, <1>3, <1>6 DEF NoRun
  <2>2. loaded.got[f] = 0 /\ stored' = stored /\ head' = head
    BY <1>a, <1>b DEF NoBlobs, LoadExisting
  <2>3. f \in get => loaded.tree[f] # 0
    BY <1>a DEF get, InTree
  <2>4. ~Fetched(d, f)'
    BY <1>a, <2>1, <2>2 DEF Fetched, get, InTree
  <2>5. QED BY <1>a, <2>1, <2>2, <2>3, <2>4 DEF Downloads
<1>7. QED BY <1>4, <1>5, <1>6 DEF RepoInv, LoadExisting

\* A run fetches a file, or fails to.
LEMMA RepoFetchFileInv ==
  ASSUME Orderly, RepoInv, NEW c \in Indexers, NEW g \in Paths, NEW fails \in BOOLEAN,
         FetchFile(c, g, fails)
  PROVE  RepoInv'
<1> DEFINE fetched == [run[c] EXCEPT !.get = @ \ {g}, !.got = [@ EXCEPT ![g] = head[g]]]
<1>0. run[c] \in RunOf /\ run \in [Indexers -> RunOf] /\ head \in Tree
  BY DEF RepoInv, RepoTypeOK
<1>1. run' = [run EXCEPT ![c] = fetched]
  BY <1>0 DEF FetchFile, Orderly, RunOf
<1>a. /\ fetched \in RunOf
      /\ fetched.pc = run[c].pc /\ fetched.old = run[c].old
      /\ fetched.tree = run[c].tree /\ fetched.incremental = run[c].incremental
      /\ fetched.get = run[c].get \ {g} /\ fetched.got = [run[c].got EXCEPT ![g] = head[g]]
  BY <1>0 DEF RunOf, Steps, Tree
<1> HIDE DEF fetched
<1>2. /\ run' \in [Indexers -> RunOf] /\ run'[c] = fetched
      /\ \A d \in Indexers : d # c => run'[d] = run[d]
  BY <1>0, <1>1, <1>a
<1>3. RepoTypeOK' /\ Alone'
  BY <1>2, <1>a DEF FetchFile, RepoInv, RepoTypeOK, Alone
<1>4. ASSUME NEW f \in Paths PROVE Past(f)' /\ (stored # NoIndex => Truthful(f)')
  <2>1. fetched.got[f] \in {run[c].got[f], head[f]}
    BY <1>0, <1>a DEF RunOf, Tree
  <2>2. QED BY <1>2, <1>a, <2>1 DEF FetchFile, RepoInv, Past, Truthful
<1>5. ASSUME NEW d \in Indexers, NEW f \in Paths, (run[d].pc = "fetch")'
      PROVE  Downloads(d, f)'
  <2>1. Downloads(d, f) /\ stored' = stored /\ head' = head
    BY <1>2, <1>5, <1>a DEF RepoInv, FetchFile
  <2>2. CASE d # c
    BY <1>2, <2>1, <2>2 DEF Downloads, Fetched
  <2>3. CASE d = c /\ f # g
    <3>1. fetched.got[f] = run[c].got[f] /\ (f \in fetched.get <=> f \in run[c].get)
      BY <1>0, <1>a, <2>3 DEF RunOf, Tree
    <3>2. QED BY <1>2, <1>a, <2>1, <2>3, <3>1 DEF Downloads, Fetched
  <2>4. CASE d = c /\ f = g
    <3>1. fetched.got[f] = head[f] /\ f \notin fetched.get
      BY <1>0, <1>a, <2>4 DEF RunOf, Tree
    <3>2. run[c].tree[f] # 0
      BY <2>1, <2>4 DEF FetchFile, Downloads
    <3>3. QED BY <1>2, <1>a, <2>1, <2>4, <3>1, <3>2 DEF Downloads, Fetched
  <2>5. QED BY <2>2, <2>3, <2>4
<1>6. QED BY <1>3, <1>4, <1>5 DEF RepoInv, FetchFile

\* A row that keeps what the index has keeps the truth; the other rows follow from what
\* was downloaded.
LEMMA IncrementalTruthful ==
  ASSUME RepoInv, NEW c \in Indexers, run[c].pc = "fetch", run[c].get = {},
         stored \in Index, stored # NoIndex,
         NEW P \in SUBSET Paths, NEW D \in SUBSET Paths, Incremental(c, P, D),
         head' = head, newest' = newest,
         \A f \in Paths :
           /\ f \in P => Fetched(c, f)
           /\ f \in D => f \notin P /\ (run[c].tree[f] # 0 => Fetched(c, f) /\ run[c].got[f] = 0)
           /\ f \notin P \cup D =>
                \/ run[c].tree[f] = stored.blob[f]
                \/ stored.blob[f] = 0 /\ Fetched(c, f) /\ run[c].got[f] = stored.hash[f]
  PROVE  /\ stored' \in Index
         /\ \A f \in Paths : /\ Truthful(f)'
                             /\ stored'.git_head[f] <= newest[f] /\ stored'.blob[f] <= newest[f]
                             /\ stored'.hash[f] <= newest[f]
<1>1. run[c].tree \in Tree /\ run[c].got \in Tree
  BY DEF RepoInv, RepoTypeOK, RunOf
<1>2. stored' \in Index
  BY <1>1, RepoAssumption DEF Incremental, Index, Tree, Blobs
<1>3. ASSUME NEW f \in Paths
      PROVE  /\ Truthful(f)'
             /\ stored'.git_head[f] <= newest[f] /\ stored'.blob[f] <= newest[f]
             /\ stored'.hash[f] <= newest[f]
  <2>1. /\ Truthful(f) /\ Past(f) /\ Downloads(c, f)
    BY DEF RepoInv
  <2>2. /\ head[f] \in Nat /\ newest[f] \in Nat
        /\ run[c].tree[f] \in Nat /\ run[c].got[f] \in Nat
        /\ stored.git_head[f] \in Nat /\ stored.blob[f] \in Nat
        /\ stored.hash[f] \in Nat /\ stored.syms[f] \in Nat
    BY RepoVersions DEF RepoInv
  <2>3. /\ stored'.git_head[f] = run[c].tree[f]
        /\ stored'.blob[f] = IF f \in P THEN (IF run[c].got[f] = 0 THEN 0 ELSE run[c].tree[f])
                             ELSE IF f \in D THEN 0 ELSE stored.blob[f]
        /\ stored'.hash[f] = IF f \in D THEN 0 ELSE stored.hash[f]
        /\ stored'.syms[f] = IF f \in P THEN run[c].got[f]
                             ELSE IF f \in D THEN 0 ELSE stored.syms[f]
    BY DEF Incremental
  <2>4. /\ stored'.git_head[f] <= newest[f] /\ stored'.blob[f] <= newest[f]
        /\ stored'.hash[f] <= newest[f]
    BY <2>1, <2>2, <2>3 DEF Past
  <2>5. Truthful(f)'
    <3>1. CASE f \in P
      <4>1. Fetched(c, f) /\ f \notin D /\ run[c].tree[f] # 0
        BY <3>1 DEF Fetched
      <4>2. QED BY <2>1, <2>2, <2>3, <3>1, <4>1 DEF Truthful, Downloads
    <3>2. CASE f \in D
      BY <2>1, <2>2, <2>3, <3>2 DEF Truthful, Downloads
    <3>3. CASE f \notin P \cup D
      BY <2>1, <2>2, <2>3, <3>3 DEF Truthful, Downloads, Fetched
    <3>4. QED BY <3>1, <3>2, <3>3
  <2>6. QED BY <2>4, <2>5
<1>4. QED BY <1>2, <1>3

\* A run saves what it fetched.
LEMMA RepoSaveInv ==
  ASSUME Orderly, RepoInv, NEW c \in Indexers, SaveRepo(c)
  PROVE  RepoInv'
<1> DEFINE tree == run[c].tree
           got  == run[c].got
<1>0. /\ run[c].pc = "fetch" /\ run[c].get = {} /\ run[c].old = stored
      /\ head' = head /\ newest' = newest
      /\ tree \in Tree /\ got \in Tree /\ run[c].incremental \in BOOLEAN
      /\ stored \in Index \cup {NoIndex}
  BY DEF RepoInv, RepoTypeOK, Alone, SaveRepo, RunOf
<1>1. /\ run' \in [Indexers -> RunOf] /\ run'[c] = NoRun
      /\ \A d \in Indexers : d # c => run'[d] = run[d] /\ run[d].pc = "idle"
  BY <1>0, NoRunType DEF SaveRepo, RepoInv, RepoTypeOK, Alone
<1>2. /\ stored' \in Index \cup {NoIndex}
      /\ stored' # NoIndex => \A f \in Paths :
           /\ Truthful(f)'
           /\ stored'.git_head[f] <= newest[f] /\ stored'.blob[f] <= newest[f]
           /\ stored'.hash[f] <= newest[f]
  <2>1. CASE DiffsBlobs(stored, run[c].incremental)
    <3> DEFINE P == Different(stored, tree) \cap InTree(tree)
               D == Different(stored, tree) \ InTree(tree)
    <3>1. Incremental(c, P, D) /\ stored # NoIndex
      BY <1>0, <2>1 DEF SaveRepo, DiffsBlobs
    <3>2. ASSUME NEW f \in Paths
          PROVE  /\ f \in P => Fetched(c, f)
                 /\ f \in D => f \notin P /\ (tree[f] # 0 => Fetched(c, f) /\ got[f] = 0)
                 /\ f \notin P \cup D =>
                      \/ tree[f] = stored.blob[f]
                      \/ stored.blob[f] = 0 /\ Fetched(c, f) /\ got[f] = stored.hash[f]
      BY <1>0 DEF Fetched, Different, InTree
    <3>3. P \in SUBSET Paths /\ D \in SUBSET Paths
      BY DEF Different
    <3> HIDE DEF P, D
    <3>4. QED BY <1>0, <3>1, <3>2, <3>3, IncrementalTruthful
  <2>2. CASE ~DiffsBlobs(stored, run[c].incremental) /\ run[c].incremental /\ stored # NoIndex
             /\ Rehashed(got) \cup (Hashed \ InTree(got)) = {}
    <3>1. stored' = stored
      BY <1>0, <2>2 DEF SaveRepo
    <3>2. QED BY <1>0, <3>1 DEF RepoInv, Truthful, Past
  <2>3. CASE ~DiffsBlobs(stored, run[c].incremental) /\ run[c].incremental /\ stored # NoIndex
             /\ Rehashed(got) \cup (Hashed \ InTree(got)) # {}
    <3> DEFINE P == Rehashed(got)
               D == Hashed \ InTree(got)
    <3>1. Incremental(c, P, D) /\ stored # NoIndex /\ stored \in Index
      BY <1>0, <2>3 DEF SaveRepo
    <3>2. ASSUME NEW f \in Paths
          PROVE  /\ f \in P => Fetched(c, f)
                 /\ f \in D => f \notin P /\ (tree[f] # 0 => Fetched(c, f) /\ got[f] = 0)
                 /\ f \notin P \cup D =>
                      \/ tree[f] = stored.blob[f]
                      \/ stored.blob[f] = 0 /\ Fetched(c, f) /\ got[f] = stored.hash[f]
      <4>1. stored.blob[f] = 0
        BY <2>3 DEF DiffsBlobs, Blobbed
      <4>2. tree[f] # 0 => Fetched(c, f)
        BY <1>0, <2>3 DEF Fetched
      <4>3. got[f] # 0 => tree[f] # 0
        BY <1>0 DEF RepoInv, Downloads
      <4>4. QED BY <4>1, <4>2, <4>3 DEF Rehashed, Hashed, InTree
    <3>3. P \in SUBSET Paths /\ D \in SUBSET Paths
      BY DEF Rehashed, Hashed, InTree
    <3> HIDE DEF P, D
    <3>4. QED BY <1>0, <3>1, <3>2, <3>3, IncrementalTruthful
  <2>4. CASE ~(run[c].incremental /\ stored # NoIndex)
    <3>1. Full(c) /\ ~DiffsBlobs(stored, run[c].incremental)
      BY <1>0, <2>4 DEF SaveRepo, DiffsBlobs
    <3>2. stored' \in Index
      BY <1>0, <3>1, RepoAssumption DEF Full, Index, Tree, Blobs
    <3>3. ASSUME NEW f \in Paths
          PROVE  /\ Truthful(f)'
                 /\ stored'.git_head[f] <= newest[f] /\ stored'.blob[f] <= newest[f]
                 /\ stored'.hash[f] <= newest[f]
      <4>1. /\ stored'.git_head[f] = tree[f] /\ stored'.hash[f] = got[f]
            /\ stored'.blob[f] = IF got[f] # 0 THEN tree[f] ELSE 0
            /\ stored'.syms[f] = got[f]
        BY <3>1 DEF Full
      <4>2. Downloads(c, f) /\ Past(f) /\ (tree[f] # 0 => Fetched(c, f))
        BY <1>0, <3>1 DEF RepoInv, Fetched
      <4>3. /\ head[f] \in Nat /\ newest[f] \in Nat /\ tree[f] \in Nat /\ got[f] \in Nat
        BY RepoVersions DEF RepoInv
      <4>4. QED BY <1>0, <4>1, <4>2, <4>3 DEF Truthful, Downloads, Past
    <3>4. QED BY <3>2, <3>3
  <2>5. QED BY <2>1, <2>2, <2>3, <2>4
<1>3. RepoTypeOK' /\ Alone'
  BY <1>0, <1>1, <1>2 DEF RepoInv, RepoTypeOK, Alone, NoRun
<1>4. ASSUME NEW f \in Paths PROVE Past(f)'
  <2>1. Past(f) /\ NoRun.tree[f] = 0 /\ NoRun.got[f] = 0 /\ 0 <= newest[f]
    BY RepoVersions DEF RepoInv, NoRun, NoBlobs
  <2>2. QED BY <1>0, <1>1, <1>2, <2>1 DEF Past
<1>5. \A d \in Indexers : run'[d].pc # "fetch"
  BY <1>1 DEF NoRun
<1>6. QED BY <1>2, <1>3, <1>4, <1>5 DEF RepoInv

\* Every step keeps the invariant.
LEMMA RepoStepInv == Orderly /\ RepoInv /\ [RepoNext]_repoVars => RepoInv'
<1> SUFFICES ASSUME Orderly, RepoInv, [RepoNext]_repoVars PROVE RepoInv'
  OBVIOUS
<1>1. CASE UNCHANGED repoVars
  BY <1>1 DEF repoVars, RepoInv, RepoTypeOK, Alone, Past, Downloads, Fetched, DiffsBlobs,
              Different, Blobbed, Truthful
<1>2. CASE RepoNext
  BY <1>2, RepoPushInv, RepoFetchTreeInv, RepoLoadInv, RepoFetchFileInv, RepoSaveInv DEF RepoNext
<1>3. QED BY <1>1, <1>2

\* The invariant gives the property.
LEMMA RepoUnchangedInv == RepoInv => UnchangedIsCurrent
<1> SUFFICES ASSUME RepoInv, stored # NoIndex, stored.git_head = head PROVE stored.syms = head
  BY DEF UnchangedIsCurrent
<1>1. stored.syms \in Tree /\ head \in Tree
  BY DEF RepoInv, RepoTypeOK, Index
<1>2. ASSUME NEW f \in Paths PROVE stored.syms[f] = head[f]
  BY DEF RepoInv, Truthful
<1>3. QED BY <1>1, <1>2 DEF Tree

\* An index that a call would take for unchanged has the contents of HEAD, of any number
\* of files and versions, although HEAD moves between the requests of a call.
THEOREM UnchangedIsHead == Orderly /\ RepoSpec => []UnchangedIsCurrent
<1> SUFFICES ASSUME Orderly PROVE RepoSpec => []UnchangedIsCurrent
  OBVIOUS
<1>1. RepoInit => RepoInv
  BY RepoInitInv
<1>2. RepoInv /\ [RepoNext]_repoVars => RepoInv'
  BY RepoStepInv
<1>3. RepoInv => UnchangedIsCurrent
  BY RepoUnchangedInv
<1>4. QED BY <1>1, <1>2, <1>3, PTL DEF RepoSpec

\* A call has loaded an index only if there is one.
OldIsStored ==
    \A c \in Indexers : run[c].old # NoIndex => stored # NoIndex

\* What an incremental save stores is an index.
LEMMA IncrementalType ==
  ASSUME RepoTypeOK, stored # NoIndex, NEW c \in Indexers,
         NEW P \in SUBSET Paths, NEW D \in SUBSET Paths, Incremental(c, P, D)
  PROVE  stored' \in Index
<1>1. run[c].tree \in Tree /\ run[c].got \in Tree /\ stored \in Index
  BY DEF RepoTypeOK, RunOf
<1>2. QED
  BY <1>1, RepoAssumption DEF Incremental, Index, Tree, Blobs

\* Every step keeps the types: a run's old index was stored once.
LEMMA RepoTypeStep ==
  ASSUME RepoTypeOK, OldIsStored, [RepoNext]_repoVars
  PROVE  RepoTypeOK' /\ OldIsStored'
<1>t. /\ head \in Tree /\ newest \in Tree /\ stored \in Index \cup {NoIndex}
      /\ run \in [Indexers -> RunOf]
  BY DEF RepoTypeOK
<1>n. NoRun \in RunOf /\ NoRun.old = NoIndex
  BY NoRunType DEF NoRun
<1>0. CASE UNCHANGED repoVars
  BY <1>0 DEF RepoTypeOK, OldIsStored, repoVars
<1>1. ASSUME NEW f \in Paths, NEW v \in Blobs, Push(f, v)
      PROVE  RepoTypeOK' /\ OldIsStored'
  BY <1>1, RepoAssumption DEF RepoTypeOK, OldIsStored, Push, Tree, Blobs
<1>2. ASSUME NEW c \in Indexers, NEW incremental \in BOOLEAN, FetchTree(c, incremental)
      PROVE  RepoTypeOK' /\ OldIsStored'
  <2> DEFINE r == [pc |-> "load", incremental |-> incremental, tree |-> head,
                   old |-> NoIndex, get |-> {}, got |-> NoBlobs]
  <2>1. r \in RunOf /\ r.old = NoIndex
    BY <1>t, NoRunType DEF RunOf, Steps
  <2>2. run' = [run EXCEPT ![c] = r] /\ UNCHANGED <<head, newest, stored>>
    BY <1>2 DEF FetchTree
  <2> HIDE DEF r
  <2>3. QED
    BY <1>t, <2>1, <2>2 DEF RepoTypeOK, OldIsStored
<1>3. ASSUME NEW c \in Indexers, LoadExisting(c) PROVE RepoTypeOK' /\ OldIsStored'
  <2> DEFINE diffs  == DiffsBlobs(stored, run[c].incremental)
             get    == IF diffs THEN Different(stored, run[c].tree) \cap InTree(run[c].tree)
                                ELSE InTree(run[c].tree)
             loaded == [run[c] EXCEPT !.pc = "fetch", !.old = stored, !.get = get]
  <2>1. get \subseteq Paths
    BY DEF InTree
  <2>2. run' = [run EXCEPT ![c] = NoRun] \/ run' = [run EXCEPT ![c] = loaded]
    BY <1>3 DEF LoadExisting
  <2> HIDE DEF get
  <2>3. loaded \in RunOf /\ loaded.old = stored
    BY <1>t, <2>1 DEF RunOf, Steps
  <2> HIDE DEF loaded
  <2>4. UNCHANGED <<head, newest, stored>>
    BY <1>3 DEF LoadExisting
  <2>5. QED
    BY <1>t, <1>n, <2>2, <2>3, <2>4 DEF RepoTypeOK, OldIsStored
<1>4. ASSUME NEW c \in Indexers, SaveRepo(c) PROVE RepoTypeOK' /\ OldIsStored'
  <2> DEFINE tree == run[c].tree
             got  == run[c].got
             old  == run[c].old
  <2>1. /\ head' = head /\ newest' = newest /\ run' = [run EXCEPT ![c] = NoRun]
        /\ tree \in Tree /\ got \in Tree
    BY <1>4, <1>t DEF SaveRepo, RunOf
  <2>2. stored' \in Index \/ stored' = stored
    <3>1. CASE DiffsBlobs(old, run[c].incremental)
      <4>1. /\ stored # NoIndex
            /\ Incremental(c, Different(old, tree) \cap InTree(tree),
                              Different(old, tree) \ InTree(tree))
        BY <1>4, <3>1 DEF SaveRepo, DiffsBlobs, OldIsStored
      <4>2. /\ Different(old, tree) \cap InTree(tree) \in SUBSET Paths
            /\ Different(old, tree) \ InTree(tree) \in SUBSET Paths
        BY DEF Different
      <4>3. QED
        BY <4>1, <4>2, IncrementalType
    <3>2. CASE ~DiffsBlobs(old, run[c].incremental) /\ run[c].incremental /\ old # NoIndex
      <4>1. stored # NoIndex
        BY <3>2 DEF OldIsStored
      <4>2. stored' = stored \/ Incremental(c, Rehashed(got), Hashed \ InTree(got))
        BY <1>4, <3>2 DEF SaveRepo
      <4>3. Rehashed(got) \in SUBSET Paths /\ Hashed \ InTree(got) \in SUBSET Paths
        BY DEF Rehashed, InTree, Hashed
      <4>4. QED
        BY <4>1, <4>2, <4>3, IncrementalType
    <3>3. CASE ~DiffsBlobs(old, run[c].incremental) /\ ~(run[c].incremental /\ old # NoIndex)
      <4>1. Full(c)
        BY <1>4, <3>3 DEF SaveRepo
      <4>2. QED
        BY <2>1, <4>1, RepoAssumption DEF Full, Index, Tree, Blobs
    <3>4. QED
      BY <3>1, <3>2, <3>3
  <2>3. stored' \in Index \cup {NoIndex} /\ (stored # NoIndex => stored' # NoIndex)
    <3>1. NoIndex \notin Index
      <4>1. DOMAIN NoIndex = {"git_head"}
        BY DEF NoIndex
      <4>2. \A i \in Index : DOMAIN i = {"git_head", "row", "blob", "hash", "syms"}
        BY DEF Index
      <4>3. {"git_head", "row", "blob", "hash", "syms"} # {"git_head"}
        OBVIOUS
      <4>4. QED
        BY <4>1, <4>2, <4>3
    <3>2. QED
      BY <1>t, <2>2, <3>1
  <2>4. QED
    BY <1>t, <1>n, <2>1, <2>3 DEF RepoTypeOK, OldIsStored
<1>5. ASSUME NEW c \in Indexers, NEW f \in Paths, NEW fails \in BOOLEAN, FetchFile(c, f, fails)
      PROVE  RepoTypeOK' /\ OldIsStored'
  <2> DEFINE blob    == IF fails THEN 0 ELSE head[f]
             fetched == [run[c] EXCEPT !.get = @ \ {f}, !.got = [@ EXCEPT ![f] = blob]]
  <2>1. blob \in Blobs
    BY <1>t, RepoAssumption DEF Tree, Blobs
  <2>2. run' = [run EXCEPT ![c] = fetched] /\ UNCHANGED <<head, newest, stored>>
    BY <1>5, <1>t DEF FetchFile, RunOf
  <2> HIDE DEF blob
  <2>3. fetched \in RunOf /\ fetched.old = run[c].old
    <3>1. run[c] \in RunOf /\ run[c].got \in Tree
      BY <1>t DEF RunOf
    <3>2. [run[c].got EXCEPT ![f] = blob] \in Tree
      BY <2>1, <3>1 DEF Tree
    <3>3. QED
      BY <3>1, <3>2 DEF RunOf
  <2> HIDE DEF fetched
  <2>4. QED
    BY <1>t, <2>2, <2>3 DEF RepoTypeOK, OldIsStored
<1>6. QED
  BY <1>0, <1>1, <1>2, <1>3, <1>4, <1>5 DEF RepoNext

\* The types hold at the start.
LEMMA RepoTypeInit == RepoInit => RepoTypeOK /\ OldIsStored
BY NoRunType DEF RepoInit, RepoTypeOK, OldIsStored, NoRun

\* The types of the repository's indexing: a stored index names files and blobs,
\* and a run holds a tree that the repository has had (index_repo.py).
THEOREM RepoTypes == RepoSpec => []RepoTypeOK
BY RepoTypeInit, RepoTypeStep, PTL DEF RepoSpec

----------------------------------------------------------------------------
(* Project configuration *)

ConfigInv == ConfigTypeOK /\ NoOthersConfig

\* No configuration is loaded.
LEMMA ConfigInitInv == ConfigInit => ConfigInv
  BY DEF ConfigInit, ConfigInv, ConfigTypeOK, NoOthersConfig, Pcs

\* A thread that goes on has something that the file may be.
LEMMA GoType ==
  ASSUME ConfigTypeOK, NEW t \in Threads, NEW from, NEW to \in Pcs,
         NEW has \in Content \cup {Broken, Absent}, Go(t, from, to, has)
  PROVE  thread' \in [Threads -> [pc : Pcs, has : Content \cup {Broken, Absent}]]
  BY DEF ConfigTypeOK, Go

\* What a thread has read of its file.
LEMMA HasType ==
  ASSUME ConfigTypeOK, NEW t \in Threads
  PROVE  thread[t].has \in Content \cup {Broken, Absent}
  BY DEF ConfigTypeOK

\* Adapting keeps a content a content, and leaves the rest alone.
LEMMA AdaptedType ==
  ASSUME ConfigTypeOK, NEW found \in Languages
  PROVE  Adapted(found) \in Content \cup {Broken, Absent}
<1>1. [adaptive |-> TRUE, languages |-> found] \in Content
  BY DEF Content
<1>2. configFile \in Content => [configFile EXCEPT !.languages = found] \in Content
  BY DEF Content
<1>3. configFile \in Content \cup {Broken, Absent}
  BY DEF ConfigTypeOK
<1>4. QED BY <1>1, <1>2, <1>3 DEF Adapted

\* Every step of the threads keeps the invariant.
LEMMA ConfigStepInv == ConfigInv /\ [ConfigNext]_configVars => ConfigInv'
<1> SUFFICES ASSUME ConfigInv, [ConfigNext]_configVars PROVE ConfigInv'
  OBVIOUS
<1>0. ConfigTypeOK
  BY DEF ConfigInv
<1>1. CASE UNCHANGED configVars
  BY <1>1 DEF configVars, ConfigInv, ConfigTypeOK, NoOthersConfig
<1>2. ASSUME NEW c \in Content \cup {Broken, Absent}, EditConfig(c)
      PROVE  ConfigInv'
  BY <1>2 DEF EditConfig, ConfigInv, ConfigTypeOK, NoOthersConfig
<1>3. ASSUME NEW t \in Threads, FindConfig(t)
      PROVE  ConfigInv'
  <2>1. thread' \in [Threads -> [pc : Pcs, has : Content \cup {Broken, Absent}]]
    BY <1>0, <1>3, GoType DEF FindConfig, Pcs
  <2>2. QED BY <1>3, <2>1 DEF FindConfig, ConfigInv, ConfigTypeOK, NoOthersConfig
<1>4. ASSUME NEW t \in Threads, ReadConfig(t)
      PROVE  ConfigInv'
  <2>1. configFile \in Content \cup {Broken, Absent}
    BY <1>0 DEF ConfigTypeOK
  <2>2. thread' \in [Threads -> [pc : Pcs, has : Content \cup {Broken, Absent}]]
    BY <1>0, <1>4, <2>1, GoType DEF ReadConfig, Pcs
  <2>3. QED BY <1>4, <2>2 DEF ReadConfig, ConfigInv, ConfigTypeOK, NoOthersConfig
<1>5. ASSUME NEW t \in Threads, StoreConfig(t)
      PROVE  ConfigInv'
  <2>1. thread' \in [Threads -> [pc : Pcs, has : Content \cup {Broken, Absent}]]
    BY <1>0, <1>5, GoType DEF StoreConfig, Pcs
  <2>2. QED BY <1>5, <2>1 DEF StoreConfig, ConfigInv, ConfigTypeOK, NoOthersConfig
<1>6. ASSUME NEW t \in Threads, StoreNone(t) \/ EvictConfig(t)
      PROVE  ConfigInv'
  <2>1. thread' \in [Threads -> [pc : Pcs, has : Content \cup {Broken, Absent}]]
    BY <1>0, <1>6, GoType DEF StoreNone, EvictConfig, Pcs
  <2>2. QED BY <1>6, <2>1 DEF StoreNone, EvictConfig, ConfigInv, ConfigTypeOK, NoOthersConfig
<1>7. ASSUME NEW t \in Threads, FolderIndexed(t)
      PROVE  ConfigInv'
  <2>1. thread' \in [Threads -> [pc : Pcs, has : Content \cup {Broken, Absent}]]
    BY <1>0, <1>7, GoType DEF FolderIndexed, Pcs
  <2>2. QED BY <1>7, <2>1 DEF FolderIndexed, ConfigInv, ConfigTypeOK, NoOthersConfig
<1>8. ASSUME NEW t \in Threads, NEW found \in Languages, ReadForAdapting(t, found)
      PROVE  ConfigInv'
  <2>1. thread' \in [Threads -> [pc : Pcs, has : Content \cup {Broken, Absent}]]
    BY <1>0, <1>8, AdaptedType, GoType DEF ReadForAdapting, Pcs
  <2>2. QED BY <1>8, <2>1 DEF ReadForAdapting, ConfigInv, ConfigTypeOK, NoOthersConfig
<1>9. ASSUME NEW t \in Threads, WriteAdapted(t)
      PROVE  ConfigInv'
  <2>1. thread' \in [Threads -> [pc : Pcs, has : Content \cup {Broken, Absent}]]
    BY <1>0, <1>9, GoType DEF WriteAdapted, Pcs
  <2>2. configFile' \in Content \cup {Broken, Absent}
    BY <1>0, <1>9, HasType DEF WriteAdapted
  <2>3. QED BY <1>9, <2>1, <2>2 DEF WriteAdapted, ConfigInv, ConfigTypeOK, NoOthersConfig
<1>10. ASSUME NEW t \in Threads, CompareContent(t)
       PROVE  ConfigInv'
  <2>1. thread' \in [Threads -> [pc : Pcs, has : Content \cup {Broken, Absent}]]
    BY <1>0, <1>10, HasType, GoType DEF CompareContent, Pcs
  <2>2. QED BY <1>10, <2>1 DEF CompareContent, ConfigInv, ConfigTypeOK, NoOthersConfig
<1>11. QED
  BY <1>1, <1>2, <1>3, <1>4, <1>5, <1>6, <1>7, <1>8, <1>9, <1>10 DEF ConfigNext

\* The file, what is cached of it and what the threads hold have their types.
THEOREM ConfigTypes == ConfigSpec => []ConfigTypeOK
<1>1. ConfigInv => ConfigTypeOK
  BY DEF ConfigInv
<1>2. QED BY <1>1, ConfigInitInv, ConfigStepInv, PTL DEF ConfigSpec

\* A load that finds the hash of the file never keeps the settings of another content, of
\* any number of threads, contents and languages.
THEOREM NoOthersSettings == ConfigSpec => []NoOthersConfig
<1>1. ConfigInv => NoOthersConfig
  BY DEF ConfigInv
<1>2. QED BY <1>1, ConfigInitInv, ConfigStepInv, PTL DEF ConfigSpec

----------------------------------------------------------------------------
(* All of them *)

\* Whichever component a behaviour runs, the state of each has its type.
THEOREM ServerTypes == Spec => []ServerTypeOK
<1> DEFINE Inv == /\ ToolInv /\ SessionInv /\ TrackerTypeOK
                  /\ RepoTypeOK /\ OldIsStored /\ ConfigInv
<1>1. Init => Inv
  BY ToolInitInv, SessionInitInv, TrackerInitType, RepoTypeInit, ConfigInitInv DEF Init
<1>2. Inv /\ [Next]_ServerVars => Inv'
  <2> SUFFICES ASSUME Inv, [Next]_ServerVars PROVE Inv'
    OBVIOUS
  <2>1. /\ [ToolNext]_toolVars /\ [SessionNext]_sessionVars /\ [TrackerNext]_trackerVars
        /\ [RepoNext]_repoVars /\ [ConfigNext]_configVars
    BY DEF Next, Only, ServerVars
  <2>2. QED
    BY <2>1, ToolStepInv, SessionStepInv, TrackerStepType, RepoTypeStep, ConfigStepInv
<1>3. Inv => ServerTypeOK
  BY DEF ToolInv, SessionInv, ConfigInv, ServerTypeOK
<1>4. QED
  BY <1>1, <1>2, <1>3, PTL DEF Spec
=============================================================================
