-------------------------- MODULE KCTreePruneProofs --------------------------
(***************************************************************************)
(* Theorems about the pruning of the knowledge-concept graph, for any      *)
(* concepts, graph and question counts, cyclic graphs included.            *)
(*                                                                         *)
(* The library's induction theorems take a predicate as a parameter; here  *)
(* induction is over a set of numbers, and rests on the well-foundedness   *)
(* of < alone.                                                             *)
(***************************************************************************)
EXTENDS KCTreePrune, WellFoundedInduction, FiniteSetTheorems, TLAPS

---------------------------------------------------------------------------
(* Induction over a set of numbers.                                        *)

\* A non-empty set of numbers has a least member.
LEMMA Least == ASSUME NEW T \in SUBSET Nat, T # {} PROVE \E x \in T : \A y \in T : x <= y
  <1> DEFINE R == OpToRel(<, Nat)
  <1>1. \A x, y \in Nat : x < y => <<x, y>> \in R
    BY DEF OpToRel
  <1>2. IsWellFoundedOn(R, Nat)
    BY NatLessThanWellFounded
  <1> HIDE DEF R
  <1>3. PICK x \in T : \A y \in T : ~ (<<y, x>> \in R)
    BY <1>2, WFMin
  <1>4. ASSUME NEW y \in T PROVE x <= y
    <2>1. x \in Nat /\ y \in Nat OBVIOUS
    <2>2. ~(<<y, x>> \in R) BY <1>3
    <2>3. ~(y < x) BY <1>1, <2>1, <2>2
    <2>4. QED BY <2>1, <2>3
  <1>5. QED BY <1>4

LEMMA UpTo ==
  ASSUME NEW n \in Nat, NEW T, 0 \in T, \A i \in 1..n : i - 1 \in T => i \in T
  PROVE  0..n \subseteq T
  <1> DEFINE Bad == {i \in 0..n : i \notin T}
  <1> SUFFICES ASSUME Bad # {} PROVE FALSE
    OBVIOUS
  <1>1. PICK m \in Bad : \A y \in Bad : m <= y
    <2>1. Bad \in SUBSET Nat OBVIOUS
    <2> HIDE DEF Bad
    <2>2. QED BY <2>1, Least
  <1>2. m \in 1..n /\ m - 1 \in 0..n /\ ~(m <= m - 1) OBVIOUS
  <1>3. m - 1 \in T BY <1>1, <1>2
  <1>4. QED BY <1>2, <1>3

---------------------------------------------------------------------------
(* Lists.                                                                  *)

KeptStep(q, S, g, i) ==
  IF i = 0 THEN << >> ELSE IF q[i] \in S THEN Append(g[i - 1], q[i]) ELSE g[i - 1]

LEMMA KeptExists ==
  ASSUME NEW A, NEW q \in Seq(A), NEW S
  PROVE  \E g : /\ DOMAIN g = 0..Len(q) /\ \A i \in 0..Len(q) : g[i] = KeptStep(q, S, g, i)
                /\ Kept(q, S) = g[Len(q)]
  <1> DEFINE F == CHOOSE f : f = [i \in 0..Len(q) |-> KeptStep(q, S, f, i)]
  <1>1. Kept(q, S) = F[Len(q)]
    BY DEF Kept, KeptStep
  <1> DEFINE Good(m, g) == g = [i \in 0..m |-> KeptStep(q, S, g, i)]
             Bad == {m \in Nat : ~ \E g : Good(m, g)}
  <1>2. \A m \in Nat : \E g : Good(m, g)
    <2> SUFFICES ASSUME Bad # {} PROVE FALSE
      OBVIOUS
    <2>1. PICK m \in Bad : \A y \in Bad : m <= y
      BY Least
    <2>2. m # 0
      <3>1. Good(0, [i \in 0..0 |-> <<>>])
        BY DEF KeptStep
      <3>2. QED BY <3>1
    <2>3. m - 1 \in Nat /\ m - 1 \notin Bad BY <2>1, <2>2
    <2>4. PICK g : Good(m - 1, g) BY <2>3
    <2> DEFINE h == [i \in 0..m |-> IF i = m THEN KeptStep(q, S, g, m) ELSE g[i]]
    <2>5. \A i \in 0..m : h[i] = KeptStep(q, S, h, i)
      <3>0. \A i \in 0..(m - 1) : g[i] = KeptStep(q, S, g, i) BY <2>4, Zenon
      <3>1. \A i \in 0..(m - 1) : i \in 0..m /\ i # m /\ h[i] = g[i] BY <2>3
      <3>2. \A i \in 1..m : h[i - 1] = g[i - 1] BY <2>3, <3>1
      <3>3. \A i \in 0..m : h[i] = KeptStep(q, S, g, i) BY <2>3, <3>0, <3>1
      <3> HIDE DEF h
      <3>4. QED BY <2>3, <3>2, <3>3 DEF KeptStep
    <2>6. Good(m, h)
      BY <2>5, Zenon
    <2>7. QED BY <2>6
  <1>3. F = [i \in 0..Len(q) |-> KeptStep(q, S, F, i)]
    <2>1. \E g : Good(Len(q), g) BY <1>2
    <2>2. QED BY <2>1
  <1> HIDE DEF F
  <1>4. DOMAIN F = 0..Len(q) /\ \A i \in 0..Len(q) : F[i] = KeptStep(q, S, F, i) BY <1>3
  <1>5. QED BY <1>1, <1>4

LEMMA KeptIs ==
  ASSUME NEW A, NEW q \in Seq(A), NEW S
  PROVE  /\ Kept(q, S) \in Seq(A)
         /\ Range(Kept(q, S)) = Range(q) \cap S
         /\ IsInjective(q) => IsInjective(Kept(q, S))
         /\ Len(Kept(q, S)) = Len(q) <=> Range(q) \subseteq S
  <1>1. PICK g : /\ DOMAIN g = 0..Len(q) /\ \A i \in 0..Len(q) : g[i] = KeptStep(q, S, g, i)
                 /\ Kept(q, S) = g[Len(q)]
    BY KeptExists
  <1> DEFINE First(i) == {q[j] : j \in 1..i}
             Fine(i) == /\ g[i] \in Seq(A) /\ Range(g[i]) = First(i) \cap S
                        /\ IsInjective(q) => IsInjective(g[i])
                        /\ Len(g[i]) <= i /\ (Len(g[i]) = i <=> First(i) \subseteq S)
             Bad == {i \in 0..Len(q) : ~Fine(i)}
  <1>2. Len(q) \in Nat /\ First(Len(q)) = Range(q) /\ DOMAIN q = 1..Len(q)
    BY DEF Range
  <1>3. \A i \in 0..Len(q) : Fine(i)
    <2> SUFFICES ASSUME Bad # {} PROVE FALSE
      OBVIOUS
    <2>1. PICK m \in Bad : \A y \in Bad : m <= y
      <3>1. Bad \in SUBSET Nat BY <1>2
      <3> HIDE DEF Bad
      <3>2. QED BY <3>1, Least
    <2>2. m # 0
      <3>1. g[0] = <<>> /\ First(0) = {} BY <1>1, <1>2 DEF KeptStep
      <3>2. Fine(0) BY <3>1 DEF Range, IsInjective
      <3>3. QED BY <3>2
    <2>3. m \in 1..Len(q) /\ m - 1 \in 0..Len(q) /\ m - 1 \notin Bad
      <3>1. m \in 0..Len(q) OBVIOUS
      <3> HIDE DEF Bad
      <3>2. m \in 1..Len(q) /\ m - 1 \in 0..Len(q) /\ ~(m <= m - 1) BY <1>2, <2>2, <3>1
      <3>3. QED BY <2>1, <3>2
    <2>4. Fine(m - 1) BY <2>3
    <2>5. First(m) = First(m - 1) \cup {q[m]} /\ q[m] \in A
      <3>1. 1..m = (1..(m - 1)) \cup {m} BY <2>3
      <3>2. QED BY <2>3, <3>1
    <2>6. g[m] = IF q[m] \in S THEN Append(g[m - 1], q[m]) ELSE g[m - 1]
      BY <1>1, <2>2, <2>3 DEF KeptStep
    <2> DEFINE r == g[m - 1]
    <2>7. IsInjective(q) => q[m] \notin First(m - 1)
      BY <1>2, <2>3 DEF IsInjective
    <2> HIDE DEF First
    <2>8. /\ r \in Seq(A) /\ Range(r) = First(m - 1) \cap S
          /\ IsInjective(q) => IsInjective(r)
          /\ Len(r) <= m - 1 /\ (Len(r) = m - 1 <=> First(m - 1) \subseteq S)
      BY <2>4
    <2>9. CASE q[m] \in S
      <3>1. g[m] = Append(r, q[m]) BY <2>6, <2>9
      <3> HIDE DEF r
      <3>2. /\ g[m] \in Seq(A) /\ Len(g[m]) = Len(r) + 1 /\ DOMAIN g[m] = 1..Len(r) + 1
            /\ DOMAIN r = 1..Len(r) /\ Len(r) \in Nat
            /\ \A i \in 1..Len(r) : g[m][i] = r[i]
            /\ g[m][Len(r) + 1] = q[m]
        BY <2>5, <2>8, <3>1
      <3>3. Range(g[m]) = Range(r) \cup {q[m]} BY <3>2 DEF Range
      <3>4. ASSUME IsInjective(q) PROVE IsInjective(g[m])
        <4>1. \A i \in 1..Len(r) : r[i] # q[m]
          BY <2>7, <2>8, <3>2, <3>4 DEF Range
        <4>2. \A i, j \in 1..Len(r) : r[i] = r[j] => i = j
          BY <2>8, <3>2, <3>4 DEF IsInjective
        <4>3. ASSUME NEW i \in 1..Len(r) + 1, NEW j \in 1..Len(r) + 1, g[m][i] = g[m][j]
              PROVE  i = j
          <5>1. i \in 1..Len(r) \/ i = Len(r) + 1 BY <3>2
          <5>2. j \in 1..Len(r) \/ j = Len(r) + 1 BY <3>2
          <5>3. QED BY <3>2, <4>1, <4>2, <4>3, <5>1, <5>2
        <4>4. QED BY <3>2, <4>3 DEF IsInjective
      <3>5. Len(g[m]) <= m /\ (Len(g[m]) = m <=> First(m) \subseteq S)
        BY <2>3, <2>5, <2>8, <2>9, <3>2
      <3>6. Range(g[m]) = First(m) \cap S BY <2>5, <2>8, <2>9, <3>3
      <3>7. Fine(m) BY <3>2, <3>4, <3>5, <3>6
      <3>8. QED BY <3>7
    <2>10. CASE q[m] \notin S
      <3>1. g[m] = r BY <2>6, <2>10
      <3> HIDE DEF r
      <3>2. Len(r) \in Nat BY <2>8
      <3>3. Fine(m) BY <2>3, <2>5, <2>8, <2>10, <3>1, <3>2
      <3>4. QED BY <3>3
    <2>11. QED BY <2>9, <2>10
  <1>4. Fine(Len(q))
    <2>1. Len(q) \in 0..Len(q) BY <1>2
    <2> HIDE DEF Fine
    <2>2. QED BY <1>3, <2>1
  <1>5. QED BY <1>1, <1>2, <1>4

---------------------------------------------------------------------------
(* Ancestors.                                                              *)

HasFirst(n) == input.parents[n] # << >>
FirstOf(n) == input.parents[n][1]

LEMMA ListsAre == \A q \in Lists : q \in Seq(Nodes) /\ IsInjective(q)
  <1> SUFFICES ASSUME NEW q \in Lists PROVE q \in Seq(Nodes) /\ IsInjective(q)
    OBVIOUS
  <1>1. PICK m \in 0..Cardinality(Nodes) : q \in [1..m -> Nodes]
    BY DEF Lists
  <1>2. Cardinality(Nodes) \in Nat
    BY InputsAssumption, FS_CardinalityType
  <1>3. m \in Nat /\ IsInjective(q)
    BY <1>2 DEF Lists
  <1>4. QED
    BY <1>1, <1>3

LEMMA FirstType ==
  ASSUME input \in Inputs
  PROVE  /\ \A n \in Nodes : input.parents[n] \in Seq(Nodes) /\ input.children[n] \in Seq(Nodes)
                             /\ IsInjective(input.children[n])
         /\ \A n \in Nodes : HasFirst(n) => FirstOf(n) \in Nodes
  <1>1. \A q \in Lists : q \in Seq(Nodes) /\ IsInjective(q)
    BY ListsAre
  <1>2. \A n \in Nodes : input.parents[n] \in Lists /\ input.children[n] \in Lists
    BY InputsAssumption
  <1>3. ASSUME NEW n \in Nodes, HasFirst(n) PROVE FirstOf(n) \in Nodes
    <2>1. input.parents[n] \in Seq(Nodes) /\ input.parents[n] # << >>
      BY <1>1, <1>2, <1>3 DEF HasFirst
    <2>2. QED
      BY <2>1 DEF FirstOf
  <1>4. QED
    BY <1>1, <1>2, <1>3

UpStep(n, g, i) == IF i = 0 THEN {n} ELSE Up(g[i - 1])

LEMMA UpExists ==
  ASSUME NEW n, NEW k \in Nat, k = Cardinality(Nodes)
  PROVE  \E g : /\ \A i \in 0..k : g[i] = UpStep(n, g, i)
                /\ Ancestors(n) = g[k]
  <1> DEFINE F == CHOOSE f : f = [i \in 0..k |-> UpStep(n, f, i)]
  <1>1. Ancestors(n) = F[k]
    BY DEF Ancestors, UpStep
  <1> DEFINE Good(m, g) == g = [i \in 0..m |-> UpStep(n, g, i)]
             T == {m \in Nat : \E g : Good(m, g)}
  <1>2. 0 \in T
    <2>1. Good(0, [i \in 0..0 |-> {n}])
      BY DEF UpStep
    <2>2. QED
      BY <2>1
  <1>3. ASSUME NEW m \in 1..k, m - 1 \in T
        PROVE  m \in T
    <2>1. PICK g : Good(m - 1, g) BY <1>3
    <2> DEFINE h == [i \in 0..m |-> IF i = m THEN UpStep(n, g, m) ELSE g[i]]
    <2>2. \A i \in 0..m : h[i] = UpStep(n, h, i)
      <3>1. \A i \in 0..(m - 1) : g[i] = UpStep(n, g, i) BY <2>1, Zenon
      <3>2. \A i \in 0..(m - 1) : i \in 0..m /\ i # m /\ h[i] = g[i] OBVIOUS
      <3>3. \A i \in 1..m : h[i - 1] = g[i - 1] BY <3>2
      <3>4. \A i \in 0..m : h[i] = UpStep(n, g, i) BY <3>1, <3>2
      <3> HIDE DEF h
      <3>5. QED BY <3>3, <3>4 DEF UpStep
    <2>3. Good(m, h)
      BY <2>2, Zenon
    <2> HIDE DEF Good, h
    <2>4. m \in Nat
      OBVIOUS
    <2>5. QED
      BY <2>3, <2>4
  <1>4. 0..k \subseteq T
    <2> HIDE DEF T
    <2>1. QED BY <1>2, <1>3, UpTo
  <1>5. F = [i \in 0..k |-> UpStep(n, F, i)]
    <2>1. \E g : Good(k, g) BY <1>4
    <2>2. QED BY <2>1
  <1> HIDE DEF F
  <1>6. \A i \in 0..k : F[i] = UpStep(n, F, i)
    BY <1>5, Zenon
  <1>7. QED
    BY <1>1, <1>6

\* Closed(S): the first parents of S are in S.
Closed(S) == \A m \in S : HasFirst(m) => FirstOf(m) \in S

LEMMA UpIs ==
  ASSUME input \in Inputs, NEW S \in SUBSET Nodes
  PROVE  /\ S \subseteq Up(S) /\ Up(S) \subseteq Nodes
         /\ Up(S) = S => Closed(S)
         /\ \A C : S \subseteq C /\ Closed(C) => Up(S) \subseteq C
         /\ \A m \in S : HasFirst(m) => FirstOf(m) \in Up(S)
  <1>1. Up(S) = S \cup {FirstOf(m) : m \in {m \in S : HasFirst(m)}}
    BY DEF Up, HasFirst, FirstOf
  <1>2. QED
    BY <1>1, FirstType DEF Closed

\* As many steps up as there are concepts reach every ancestor: the least
\* closed set that holds the concept.
LEMMA AncestorsAre ==
  ASSUME input \in Inputs, NEW n \in Nodes
  PROVE  /\ n \in Ancestors(n) /\ Ancestors(n) \subseteq Nodes
         /\ Closed(Ancestors(n))
         /\ \A C : n \in C /\ Closed(C) => Ancestors(n) \subseteq C
  <1> DEFINE k == Cardinality(Nodes)
  <1>1. k \in Nat /\ IsFiniteSet(Nodes)
    BY InputsAssumption, FS_CardinalityType
  <1> HIDE DEF k
  <1>2. PICK g : (\A i \in 0..k : g[i] = UpStep(n, g, i)) /\ Ancestors(n) = g[k]
    BY <1>1, UpExists DEF k
  <1>3. g[0] = {n} /\ \A i \in 1..k : g[i] = Up(g[i - 1])
    BY <1>1, <1>2 DEF UpStep
  <1> DEFINE Fine(i) ==
               /\ g[i] \subseteq Nodes /\ n \in g[i]
               /\ Closed(g[i]) \/ Cardinality(g[i]) >= i + 1
               /\ \A C : n \in C /\ Closed(C) => g[i] \subseteq C
             T == {i \in Nat : Fine(i)}
  <1>4. 0 \in T
    <2>1. Cardinality(g[0]) = 1
      BY <1>3, FS_Singleton
    <2>2. QED
      BY <1>3, <2>1
  <1>5. ASSUME NEW i \in 1..k, i - 1 \in T PROVE i \in T
    <2> DEFINE a == g[i - 1]
    <2>1. /\ a \subseteq Nodes /\ n \in a
          /\ Closed(a) \/ Cardinality(a) >= i
          /\ \A C : n \in C /\ Closed(C) => a \subseteq C
          /\ g[i] = Up(a)
      BY <1>3, <1>5
    <2> HIDE DEF a
    <2>2. /\ a \subseteq Up(a) /\ Up(a) \subseteq Nodes
          /\ \A C : a \subseteq C /\ Closed(C) => Up(a) \subseteq C
          /\ Up(a) = a => Closed(a)
      BY <2>1, UpIs
    <2>3. Closed(Up(a)) \/ Cardinality(Up(a)) >= i + 1
      <3>1. CASE Closed(a)
        BY <2>2, <3>1
      <3>2. CASE ~Closed(a)
        <4>1. IsFiniteSet(Up(a)) /\ a \in SUBSET Up(a) /\ a # Up(a)
          <5>1. Up(a) \in SUBSET Nodes
            BY <2>2
          <5>2. IsFiniteSet(Up(a))
            BY <1>1, <5>1, FS_Subset
          <5>3. QED
            BY <2>2, <3>2, <5>2
        <4>2. Cardinality(a) <= Cardinality(Up(a)) /\ Cardinality(Up(a)) # Cardinality(a)
          BY <4>1, FS_Subset
        <4>3. Cardinality(Up(a)) \in Nat /\ Cardinality(a) \in Nat
          BY <4>1, FS_Subset, FS_CardinalityType
        <4>4. QED
          BY <2>1, <3>2, <4>2, <4>3
      <3>3. QED
        BY <3>1, <3>2
    <2>4. Fine(i)
      BY <2>1, <2>2, <2>3
    <2>5. QED
      BY <2>4
  <1>6. Fine(k)
    <2>1. 0..k \subseteq T
      <3> HIDE DEF T
      <3>1. QED BY <1>1, <1>4, <1>5, UpTo
    <2>2. QED
      BY <1>1, <2>1
  <1>7. Closed(g[k])
    <2>1. g[k] \in SUBSET Nodes BY <1>6
    <2>2. Cardinality(g[k]) <= k
      BY <1>1, <2>1, FS_Subset DEF k
    <2>3. Cardinality(g[k]) \in Nat
      BY <1>1, <2>1, FS_Subset, FS_CardinalityType
    <2>4. QED
      BY <1>1, <1>6, <2>2, <2>3
  <1>8. QED
    BY <1>2, <1>6, <1>7

LEMMA AncestorsWithin ==
  ASSUME input \in Inputs, NEW n \in Nodes, NEW m \in Ancestors(n)
  PROVE  Ancestors(m) \subseteq Ancestors(n)
  BY AncestorsAre

\* Below a concept on a cycle of first parents there is another one, or itself.
OnCycle(n) == HasFirst(n) /\ n \in Ancestors(FirstOf(n))

LEMMA CycleBelow ==
  ASSUME input \in Inputs, NEW n \in Nodes, OnCycle(n)
  PROVE  \E c \in Nodes : HasFirst(c) /\ FirstOf(c) = n /\ OnCycle(c)
  <1> DEFINE p == FirstOf(n)
  <1>1. p \in Nodes /\ HasFirst(n) /\ n \in Ancestors(p)
    BY FirstType DEF OnCycle
  <1>2. CASE p = n
    BY <1>1, <1>2 DEF OnCycle
  <1>3. CASE p # n
    <2>1. PICK c \in Ancestors(p) \ {n} : HasFirst(c) /\ FirstOf(c) = n
      <3> SUFFICES ASSUME \A c \in Ancestors(p) \ {n} : HasFirst(c) => FirstOf(c) # n
                   PROVE  FALSE
        OBVIOUS
      <3>1. Closed(Ancestors(p) \ {n})
        BY <1>1, AncestorsAre DEF Closed
      <3>2. p \in Ancestors(p) \ {n}
        BY <1>1, <1>3, AncestorsAre
      <3> HIDE DEF p
      <3>3. Ancestors(p) \subseteq Ancestors(p) \ {n}
        BY <1>1, <3>1, <3>2, AncestorsAre
      <3>4. QED
        BY <1>1, <3>3
    <2>2. c \in Nodes /\ p \in Ancestors(n)
      BY <1>1, AncestorsAre DEF Closed
    <2>3. c \in Ancestors(n)
      BY <2>1, <2>2, AncestorsWithin
    <2>4. QED
      BY <2>1, <2>2, <2>3 DEF OnCycle
  <1>4. QED
    BY <1>2, <1>3

\* The ancestors of n but n itself.
Above(n) == Ancestors(n) \ {n}

\* Merging n into its first parent, or into another child of it, leads to
\* nothing but what was above n, unless n is on a cycle.
LEMMA AboveMerged ==
  ASSUME input \in Inputs, NEW n \in Nodes, HasFirst(n), ~OnCycle(n)
  PROVE  /\ Above(FirstOf(n)) \subseteq Above(n)
         /\ \A m \in Nodes : HasFirst(m) /\ FirstOf(m) = FirstOf(n) => Above(m) \subseteq Above(n)
  <1> DEFINE p == FirstOf(n)
  <1>1. p \in Nodes /\ n \notin Ancestors(p)
    BY FirstType DEF OnCycle
  <1>2. p \in Ancestors(n)
    BY AncestorsAre DEF Closed
  <1>3. Ancestors(p) \subseteq Ancestors(n)
    BY <1>2, AncestorsWithin
  <1>4. ASSUME NEW m \in Nodes, HasFirst(m), FirstOf(m) = p PROVE Above(m) \subseteq Above(n)
    <2>1. Closed(Ancestors(p) \cup {m}) /\ m \in Ancestors(p) \cup {m}
      BY <1>1, <1>4, AncestorsAre DEF Closed
    <2>2. Ancestors(m) \subseteq Ancestors(p) \cup {m}
      BY <2>1, AncestorsAre
    <2>3. QED
      BY <1>1, <1>3, <2>2 DEF Above
  <1>5. QED
    BY <1>1, <1>3, <1>4 DEF Above

---------------------------------------------------------------------------
(* The inductive invariants.                                               *)

Working == phase \in {"empty", "merge", "flatten"}

\* The concepts whose first parent is n, and those that are left and not merged.
Below(n) == {c \in Nodes : HasFirst(c) /\ FirstOf(c) = n}
Left == graph \ DOMAIN mapping

TypeInv ==
  /\ input \in Inputs
  /\ phase \in {"cut", "empty", "merge", "flatten", "done"}
  /\ graph \subseteq Nodes /\ DOMAIN mapping \subseteq Nodes
  /\ children \in [Nodes -> {q \in Seq(Nodes) : IsInjective(q)}]
  /\ DOMAIN count = Nodes
  /\ current \in Seq(Nodes) /\ next \in Seq(Nodes)

\* Until the first cut everything is as given; until the first merge nothing is
\* mapped and the counts are those of the files.
StartInv ==
  /\ phase = "cut" => /\ graph = Nodes /\ children = input.children
                      /\ parents = input.parents
  /\ phase \in {"cut", "empty"} => DOMAIN mapping = {} /\ count = input.count
  /\ phase # "cut" => parents = [n \in Nodes |-> FirstOnly(input.parents[n])]

\* In between, the child lists name exactly the concepts that are left, each
\* under its first parent, and what is gone has no children.
TreeInv ==
  Working => /\ DOMAIN mapping \subseteq graph
             /\ \A p \in Nodes : Range(children[p]) = Below(p) \cap Left
             /\ \A p \in Nodes \ Left : children[p] = << >>

DoneInv ==
  phase = "done" => /\ graph \cap DOMAIN mapping = {}
                    /\ \A p \in Nodes : Range(children[p]) = Below(p) \cap graph
                    /\ \A p \in Nodes \ graph : children[p] = << >>

ShapeInv == TypeInv /\ StartInv /\ TreeInv /\ DoneInv

\* Concepts on a cycle never go, those that go leave their questions to one
\* that has nothing above it but what they had.
KeepInv ==
  phase # "cut" =>
    /\ \A n \in Nodes : OnCycle(n) => n \in Left
    /\ \A n \in Nodes \ (graph \cup DOMAIN mapping) : input.count[n] = 0
    /\ \A n \in DOMAIN mapping :
         /\ mapping[n] \in graph
         /\ phase = "done" => mapping[n] \notin DOMAIN mapping
         /\ Above(mapping[n]) \subseteq Above(n)

\* Everything below n that was left has been merged, and something was.
Emptied(n) == /\ Below(n) \cap DOMAIN mapping # {}
              /\ Below(n) \cap graph \subseteq DOMAIN mapping

\* A large concept has the count it was given, or took over what was below it.
LargeInv ==
  \A n \in Nodes : input.count[n] > prune_size =>
    /\ count[n] = input.count[n] \/ Emptied(n)
    /\ n \in DOMAIN mapping => Emptied(n)

LEMMA InitHolds == PruneInit => ShapeInv /\ KeepInv /\ LargeInv
  <1> SUFFICES ASSUME PruneInit PROVE ShapeInv /\ KeepInv /\ LargeInv
    OBVIOUS
  <1> USE DEF PruneInit
  <1>1. DOMAIN mapping = {} /\ << >> \in Seq(Nodes)
    OBVIOUS
  <1>2. input.children \in [Nodes -> {q \in Seq(Nodes) : IsInjective(q)}]
    <2>1. input.children \in [Nodes -> Lists]
      BY InputsAssumption
    <2>2. QED
      BY <2>1, FirstType
  <1>3. DOMAIN input.count = Nodes
    BY InputsAssumption
  <1>4. ShapeInv
    BY <1>1, <1>2, <1>3 DEF ShapeInv, TypeInv, StartInv, TreeInv, DoneInv, Working
  <1>5. KeepInv /\ LargeInv
    BY <1>1 DEF KeepInv, LargeInv
  <1>6. QED
    BY <1>4, <1>5

\* What the child lists of a state in between are, and the two cases of a merge.
LEMMA ListIs ==
  ASSUME ShapeInv, NEW p \in Nodes, NEW S
  PROVE  /\ children[p] \in Seq(Nodes) /\ IsInjective(children[p])
         /\ Kept(children[p], S) \in Seq(Nodes)
         /\ IsInjective(Kept(children[p], S))
         /\ Range(Kept(children[p], S)) = Range(children[p]) \cap S
         /\ Len(Kept(children[p], S)) = Len(children[p]) <=> Range(children[p]) \subseteq S
  <1>1. children[p] \in Seq(Nodes) /\ IsInjective(children[p])
    BY DEF ShapeInv, TypeInv
  <1>2. QED
    BY <1>1, KeptIs

LEMMA MergeableIs ==
  ASSUME ShapeInv, NEW p \in Nodes, Mergeable(p) # << >>
  PROVE  /\ Mergeable(p) \in Seq(Nodes)
         /\ Mergeable(p)[1] \in Range(Mergeable(p))
         /\ Range(Mergeable(p)) \subseteq Range(children[p])
         /\ \A c \in Range(Mergeable(p)) :
              c \in Nodes /\ children[c] = << >> /\ count[c] <= prune_size
         /\ Len(Mergeable(p)) = Len(children[p]) <=> Range(children[p]) \subseteq Range(Mergeable(p))
  <1> DEFINE S == {c \in Nodes : children[c] = << >> /\ count[c] <= prune_size}
  <1>1. /\ Mergeable(p) \in Seq(Nodes)
        /\ Range(Mergeable(p)) = Range(children[p]) \cap S
        /\ Len(Mergeable(p)) = Len(children[p]) <=> Range(children[p]) \subseteq S
    BY ListIs DEF Mergeable
  <1>2. Mergeable(p)[1] \in Range(Mergeable(p))
    <2>1. 1 \in DOMAIN Mergeable(p)
      BY <1>1
    <2>2. QED
      BY <2>1 DEF Range
  <1>3. QED
    BY <1>1, <1>2

\* A visited leaf that is not skipped has a first parent, which lists it.
LEMMA VisitedIs ==
  ASSUME ShapeInv, phase = "merge", current # << >>, ~Skipped(Head(current))
  PROVE  LET n == Head(current)
             p == parents[n][1]
         IN  /\ n \in Nodes /\ p \in Nodes /\ HasFirst(n) /\ FirstOf(n) = p
             /\ Mergeable(p) # << >>
  <1> DEFINE n == Head(current)
  <1>1. n \in Nodes
    BY DEF ShapeInv, TypeInv
  <1>2. input \in Inputs /\ parents[n] = FirstOnly(input.parents[n])
    BY <1>1 DEF ShapeInv, TypeInv, StartInv
  <1>3. PICK q \in Range(parents[n]) : Mergeable(q) # << >>
    BY DEF Skipped
  <1>4. CASE ~HasFirst(n)
    <2>1. parents[n] = << >>
      BY <1>2, <1>4 DEF HasFirst, FirstOnly
    <2>2. QED
      BY <1>3, <2>1 DEF Range
  <1>5. CASE HasFirst(n)
    <2>1. parents[n] = <<FirstOf(n)>>
      BY <1>2, <1>5 DEF HasFirst, FirstOf, FirstOnly
    <2>2. q = FirstOf(n) /\ FirstOf(n) \in Nodes /\ parents[n][1] = FirstOf(n)
      BY <1>1, <1>2, <1>3, <1>5, <2>1, FirstType DEF Range
    <2>3. QED
      BY <1>1, <1>3, <1>5, <2>2
  <1>6. QED
    BY <1>4, <1>5

\* The assertions the code makes of the children hold.
LEMMA Fresh ==
  ASSUME ShapeInv, Working, NEW p \in Nodes
  PROVE  ChildrenFresh(p)
  BY DEF ShapeInv, TreeInv, ChildrenFresh, Left

\* What both cases of a merge do: small leaves S of the list of p go to t, which
\* is p when that was all of the list, and another small leaf of it otherwise.
Merged(p, S, t) ==
  /\ S \subseteq Range(children[p]) /\ t \notin S
  /\ \A c \in S : children[c] = << >> /\ count[c] <= prune_size
  /\ \/ t = p /\ S = Range(children[p]) /\ S # {}
     \/ t \in Range(children[p]) /\ children[t] = << >> /\ count[t] <= prune_size
  /\ mapping' = Mapped(S, t)
  /\ \E q \in Seq(Nodes) : /\ IsInjective(q) /\ Range(q) = Range(children[p]) \ S
                           /\ S = Range(children[p]) => q = << >>
                           /\ children' = [children EXCEPT ![p] = q]
  /\ \E x : count' = [count EXCEPT ![t] = x]

LEMMA IntoParent ==
  ASSUME ShapeInv, Working, NEW p \in Nodes, Mergeable(p) # << >>, MergeIntoParent(p)
  PROVE  Merged(p, Range(children[p]), p) /\ (next \in Seq(Nodes) => next' \in Seq(Nodes))
  <1> DEFINE cs == Range(children[p])
  <1>1. cs \subseteq Range(Mergeable(p)) /\ Range(Mergeable(p)) \subseteq cs /\ Range(Mergeable(p)) # {}
    BY MergeableIs DEF MergeIntoParent
  <1>2. cs # {} /\ \A c \in cs : children[c] = << >> /\ count[c] <= prune_size
    BY <1>1, MergeableIs
  <1>3. p \notin cs
    <2>1. children[p] # << >>
      BY <1>2 DEF Range
    <2>2. QED
      BY <1>2, <2>1
  <1>4. << >> \in Seq(Nodes) /\ IsInjective(<< >>) /\ Range(<< >>) = cs \ cs
    BY DEF IsInjective, Range
  <1>5. /\ mapping' = Mapped(cs, p) /\ next' = Append(next, p)
        /\ children' = [children EXCEPT ![p] = << >>]
        /\ \E x : count' = [count EXCEPT ![p] = x]
    BY DEF MergeIntoParent
  <1>6. Merged(p, cs, p)
    BY <1>2, <1>3, <1>4, <1>5 DEF Merged
  <1>7. QED
    BY <1>5, <1>6

LEMMA IntoSibling ==
  ASSUME ShapeInv, Working, NEW p \in Nodes, Mergeable(p) # << >>, MergeIntoSibling(p)
  PROVE  \E S \in SUBSET Nodes, t \in Nodes : Merged(p, S, t)
  <1> DEFINE ms == Mergeable(p)
             t == ms[1]
             S == Range(ms) \ {t}
             ch == children[p]
             rest == Without(ch, Range(ms))
             q == <<t>> \o rest
  <1>1. /\ t \in Range(ms) /\ Range(ms) \subseteq Range(ch)
        /\ \A c \in Range(ms) : c \in Nodes /\ children[c] = << >> /\ count[c] <= prune_size
        /\ ch \in Seq(Nodes)
    BY MergeableIs, ListIs
  <1>2. /\ rest \in Seq(Nodes) /\ IsInjective(rest)
        /\ Range(rest) = Range(ch) \cap (Nodes \ Range(ms))
    BY ListIs DEF Without
  <1>3. /\ mapping' = Mapped(S, t) /\ children' = [children EXCEPT ![p] = q]
        /\ \E x : count' = [count EXCEPT ![t] = x]
    BY DEF MergeIntoSibling
  <1>4. Range(ch) \subseteq Nodes
    BY <1>1 DEF Range
  <1> HIDE DEF ms, t, ch, rest
  <1>5. q \in Seq(Nodes) /\ IsInjective(q) /\ Range(q) = Range(ch) \ S
    <2>1. /\ q \in Seq(Nodes) /\ DOMAIN q = 1..Len(rest) + 1 /\ DOMAIN rest = 1..Len(rest)
          /\ Len(rest) \in Nat /\ q[1] = t /\ \A i \in 2..Len(rest) + 1 : q[i] = rest[i - 1]
      BY <1>1, <1>2
    <2> HIDE DEF q
    <2>2. t \notin Range(rest)
      BY <1>1, <1>2
    <2>3. ASSUME NEW i \in DOMAIN q, NEW j \in DOMAIN q, q[i] = q[j] PROVE i = j
      <3>1. \A k \in 2..Len(rest) + 1 : k - 1 \in DOMAIN rest /\ q[k] \in Range(rest)
        BY <2>1 DEF Range
      <3>2. (i = 1 \/ i \in 2..Len(rest) + 1) /\ (j = 1 \/ j \in 2..Len(rest) + 1)
        BY <2>1
      <3>3. CASE i \in 2..Len(rest) + 1 /\ j \in 2..Len(rest) + 1
        <4>1. rest[i - 1] = rest[j - 1] /\ i - 1 \in DOMAIN rest /\ j - 1 \in DOMAIN rest
          BY <2>1, <2>3, <3>1, <3>3
        <4>2. i - 1 = j - 1
          BY <1>2, <4>1 DEF IsInjective
        <4>3. QED
          BY <3>3, <4>2
      <3>4. QED
        BY <2>1, <2>2, <2>3, <3>1, <3>2, <3>3
    <2>4. Range(q) = {t} \cup Range(rest)
      <3>1. \A i \in DOMAIN q : i = 1 \/ (i - 1 \in DOMAIN rest /\ q[i] = rest[i - 1])
        BY <2>1
      <3>2. \A i \in DOMAIN rest : i + 1 \in DOMAIN q /\ q[i + 1] = rest[i]
        BY <2>1
      <3>3. 1 \in DOMAIN q
        BY <2>1
      <3>4. QED
        BY <2>1, <3>1, <3>2, <3>3 DEF Range
    <2>5. QED
      BY <1>1, <1>2, <1>4, <2>1, <2>3, <2>4 DEF IsInjective
  <1>6. t \in Range(ch) /\ S # Range(ch) /\ t \in Nodes /\ S \in SUBSET Nodes
    BY <1>1
  <1> HIDE DEF S, q
  <1>7. t \notin S /\ S \subseteq Range(ms)
    BY DEF S
  <1>8. Merged(p, S, t)
    BY <1>1, <1>3, <1>5, <1>6, <1>7 DEF Merged, ch
  <1>9. QED
    BY <1>6, <1>8

LEMMA VisitIs ==
  ASSUME ShapeInv, Visit
  PROVE  /\ phase = "merge" /\ UNCHANGED <<input, phase, graph, parents>>
         /\ current' \in Seq(Nodes) /\ next' \in Seq(Nodes)
         /\ \/ UNCHANGED <<children, count, mapping>>
            \/ \E p, t \in Nodes, S \in SUBSET Nodes : Merged(p, S, t)
  <1> DEFINE n == Head(current)
             p == parents[n][1]
  <1>1. Working /\ phase = "merge" /\ current \in Seq(Nodes) /\ current # << >>
        /\ next \in Seq(Nodes) /\ current' = Tail(current)
    BY DEF ShapeInv, TypeInv, Visit, Working
  <1>2. current' \in Seq(Nodes)
    BY <1>1
  <1>3. CASE Skipped(n)
    BY <1>1, <1>2, <1>3 DEF Visit
  <1>4. CASE ~Skipped(n)
    <2>1. p \in Nodes /\ Mergeable(p) # << >>
      BY <1>1, <1>4, VisitedIs
    <2>2. ChildrenFresh(p)
      BY <1>1, <2>1, Fresh
    <2>3. /\ MergeIntoParent(p) \/ MergeIntoSibling(p)
          /\ UNCHANGED <<input, phase, graph, parents>>
      BY <1>4, <2>2 DEF Visit
    <2> HIDE DEF p
    <2>4. CASE MergeIntoParent(p)
      <3>1. Range(children[p]) \in SUBSET Nodes
        BY <2>1, ListIs DEF Range
      <3>2. QED
        BY <1>1, <1>2, <2>1, <2>3, <2>4, <3>1, IntoParent
    <2>5. CASE MergeIntoSibling(p)
      <3>1. UNCHANGED next
        BY <2>5 DEF MergeIntoSibling
      <3>2. QED
        BY <1>1, <1>2, <2>1, <2>3, <2>5, <3>1, IntoSibling
    <2>6. QED
      BY <2>3, <2>4, <2>5
  <1>5. QED
    BY <1>3, <1>4

\* The other steps, each by what it leaves of the lists.
LEMMA KeepFirstIs ==
  ASSUME ShapeInv, KeepFirstParent
  PROVE  ShapeInv'
  <1>1. /\ phase = "cut" /\ phase' = "empty" /\ input \in Inputs
        /\ graph = Nodes /\ children = input.children /\ parents = input.parents
        /\ count = input.count /\ DOMAIN mapping = {}
        /\ UNCHANGED <<input, graph, count, mapping, current, next>>
    BY DEF ShapeInv, TypeInv, StartInv, KeepFirstParent
  <1> DEFINE Others(p) == {c \in Nodes : parents[c] # << >> /\ parents[c][1] # p}
  <1>2. /\ children' = [p \in Nodes |-> Without(children[p], Others(p))]
        /\ parents' = [p \in Nodes |-> FirstOnly(input.parents[p])]
    BY <1>1 DEF KeepFirstParent
  <1>3. ASSUME NEW p \in Nodes
        PROVE  /\ children'[p] \in Seq(Nodes) /\ IsInjective(children'[p])
               /\ Range(children'[p]) = Below(p)
    <2>1. /\ children'[p] \in Seq(Nodes) /\ IsInjective(children'[p])
          /\ Range(children'[p]) = Range(input.children[p]) \cap (Nodes \ Others(p))
      <3>1. children'[p] = Kept(children[p], Nodes \ Others(p))
        BY <1>2 DEF Without
      <3> DEFINE K == Kept(children[p], Nodes \ Others(p))
      <3>2. /\ K \in Seq(Nodes) /\ IsInjective(K)
            /\ Range(K) = Range(children[p]) \cap (Nodes \ Others(p))
        BY ListIs
      <3> HIDE DEF Others, K
      <3>3. children'[p] = K
        BY <3>1 DEF K
      <3>4. QED
        BY <1>1, <3>2, <3>3
    <2>2. Range(input.children[p]) = {c \in Nodes : p \in Range(input.parents[c])}
      <3>1. Range(input.children[p]) \subseteq Nodes
        BY <1>1, FirstType DEF Range
      <3>2. QED
        BY <1>1, <3>1, InputsAssumption
    <2>3. ASSUME NEW c \in Nodes
          PROVE  (p \in Range(input.parents[c]) /\ c \notin Others(p)) <=> c \in Below(p)
      <3>1. input.parents[c] \in Seq(Nodes)
        BY <1>1, FirstType
      <3>2. CASE input.parents[c] = << >>
        BY <3>2 DEF Range, Below, HasFirst
      <3>3. CASE input.parents[c] # << >>
        <4>1. input.parents[c][1] \in Range(input.parents[c])
          BY <3>1, <3>3 DEF Range
        <4>2. QED
          BY <1>1, <3>3, <4>1 DEF Below, HasFirst, FirstOf
      <3>4. QED
        BY <3>2, <3>3
    <2> HIDE DEF Others
    <2>4. Below(p) \subseteq Nodes
      BY DEF Below
    <2>5. QED
      BY <2>1, <2>2, <2>3, <2>4
  <1>4. TypeInv'
    <2>1. children' \in [Nodes -> {q \in Seq(Nodes) : IsInjective(q)}]
      <3>1. DOMAIN children' = Nodes /\ children' = [p \in Nodes |-> children'[p]]
        BY <1>2
      <3>2. QED
        BY <1>3, <3>1
    <2>2. QED
      BY <1>1, <2>1 DEF ShapeInv, TypeInv
  <1>5. StartInv'
    BY <1>1, <1>2 DEF StartInv
  <1>6. TreeInv'
    <2>1. Left' = Nodes /\ DOMAIN mapping' = {}
      BY <1>1 DEF Left
    <2>2. \A p \in Nodes : Range(children'[p]) = Below(p)' \cap Left'
      BY <1>1, <1>3, <2>1 DEF Below, HasFirst, FirstOf
    <2>3. QED
      BY <1>1, <2>1, <2>2 DEF TreeInv
  <1>7. QED
    BY <1>1, <1>4, <1>5, <1>6 DEF ShapeInv, DoneInv

LEMMA RemoveEmptyIs ==
  ASSUME ShapeInv, NEW n \in Nodes, RemoveEmpty(n)
  PROVE  ShapeInv'
  <1>1. /\ phase = "empty" /\ n \in graph /\ children[n] = << >> /\ count[n] = 0
        /\ graph' = graph \ {n}
        /\ children' = [p \in Nodes |-> IF p \in Range(parents[n])
                                          THEN Without(children[p], {n}) ELSE children[p]]
        /\ UNCHANGED <<input, phase, parents, count, mapping, current, next>>
    BY DEF RemoveEmpty, Empty
  <1>2. /\ DOMAIN mapping = {} /\ Left = graph /\ Left' = graph \ {n} /\ input \in Inputs
        /\ graph \subseteq Nodes
    BY <1>1 DEF ShapeInv, TypeInv, StartInv, Left
  <1>3. /\ \A p \in Nodes : Range(children[p]) = Below(p) \cap graph
        /\ \A p \in Nodes \ graph : children[p] = << >>
    BY <1>1, <1>2 DEF ShapeInv, TreeInv, Working
  <1>4. ASSUME NEW p \in Nodes
        PROVE  /\ children'[p] \in Seq(Nodes) /\ IsInjective(children'[p])
               /\ Range(children'[p]) = Range(children[p]) \ {n}
               /\ children[p] = << >> => children'[p] = << >>
    <2>1. children[p] \in Seq(Nodes) /\ IsInjective(children[p]) /\ Range(children[p]) \subseteq Nodes
      BY ListIs DEF Range
    <2>2. CASE p \in Range(parents[n])
      <3>1. children'[p] = Kept(children[p], Nodes \ {n})
        BY <1>1, <2>2 DEF Without
      <3>2. /\ children'[p] \in Seq(Nodes) /\ IsInjective(children'[p])
            /\ Range(children'[p]) = Range(children[p]) \cap (Nodes \ {n})
            /\ Len(children'[p]) = Len(children[p]) <=> Range(children[p]) \subseteq Nodes \ {n}
        <4> DEFINE K == Kept(children[p], Nodes \ {n})
        <4>1. /\ K \in Seq(Nodes) /\ IsInjective(K)
              /\ Range(K) = Range(children[p]) \cap (Nodes \ {n})
              /\ Len(K) = Len(children[p]) <=> Range(children[p]) \subseteq Nodes \ {n}
          BY ListIs
        <4> HIDE DEF K
        <4>2. children'[p] = K
          BY <3>1 DEF K
        <4>3. QED
          BY <4>1, <4>2
      <3>3. children[p] = << >> => children'[p] = << >>
        <4> SUFFICES ASSUME children[p] = << >> PROVE children'[p] = << >>
          OBVIOUS
        <4>1. Range(children[p]) = {}
          BY DEF Range
        <4>2. Len(children'[p]) = 0
          BY <3>2, <4>1
        <4>3. QED
          BY <3>2, <4>2
      <3>4. QED
        BY <2>1, <3>2, <3>3
    <2>3. CASE p \notin Range(parents[n])
      <3>1. children'[p] = children[p]
        BY <1>1, <2>3
      <3>2. n \notin Below(p)
        <4> SUFFICES ASSUME HasFirst(n), FirstOf(n) = p PROVE FALSE
          BY DEF Below
        <4>1. parents[n] = <<p>>
          BY <1>1 DEF ShapeInv, StartInv, FirstOnly, HasFirst, FirstOf
        <4>2. QED
          BY <2>3, <4>1 DEF Range
      <3>3. QED
        BY <1>3, <2>1, <3>1, <3>2
    <2>4. QED
      BY <2>2, <2>3
  <1>5. TypeInv'
    <2>1. children' \in [Nodes -> {q \in Seq(Nodes) : IsInjective(q)}]
      <3>1. children' = [p \in Nodes |-> children'[p]]
        BY <1>1
      <3>2. QED
        BY <1>4, <3>1
    <2>2. QED
      BY <1>1, <2>1 DEF ShapeInv, TypeInv
  <1>6. StartInv'
    BY <1>1 DEF ShapeInv, StartInv
  <1>7. TreeInv'
    <2>1. \A p \in Nodes : Range(children'[p]) = Below(p)' \cap Left'
      BY <1>1, <1>2, <1>3, <1>4 DEF Below, HasFirst, FirstOf
    <2>2. \A p \in Nodes \ Left' : children'[p] = << >>
      BY <1>1, <1>2, <1>3, <1>4
    <2>3. QED
      BY <1>1, <1>2, <2>1, <2>2 DEF TreeInv
  <1>8. QED
    BY <1>1, <1>5, <1>6, <1>7 DEF ShapeInv, DoneInv

LEMMA MergedIs ==
  ASSUME ShapeInv, Working, NEW p \in Nodes, NEW t \in Nodes, NEW S \in SUBSET Nodes,
         Merged(p, S, t)
  PROVE  /\ DOMAIN mapping' = DOMAIN mapping \cup S
         /\ \A c \in DOMAIN mapping' : mapping'[c] = IF c \in S THEN t ELSE mapping[c]
         /\ S \subseteq Left /\ S \subseteq Below(p)
         /\ t \in Left \ S
  <1>1. Range(children[p]) = Below(p) \cap Left
    BY DEF ShapeInv, TreeInv
  <1>2. p \in Left \/ children[p] = << >>
    BY DEF ShapeInv, TreeInv
  <1>3. t \in Left
    <2>1. CASE t = p /\ S = Range(children[p]) /\ S # {}
      <3>1. children[p] # << >>
        BY <2>1 DEF Range
      <3>2. QED
        BY <1>2, <2>1, <3>1
    <2>2. QED
      BY <1>1, <2>1 DEF Merged
  <1>4. QED
    BY <1>1, <1>3 DEF Merged, Mapped

LEMMA VisitShape ==
  ASSUME ShapeInv, Visit
  PROVE  ShapeInv'
  <1>1. /\ phase = "merge" /\ UNCHANGED <<input, phase, graph, parents>>
        /\ current' \in Seq(Nodes) /\ next' \in Seq(Nodes)
    BY VisitIs
  <1>2. CASE UNCHANGED <<children, count, mapping>>
    BY <1>1, <1>2 DEF ShapeInv, TypeInv, StartInv, TreeInv, DoneInv, Working, Left, Below,
                      HasFirst, FirstOf
  <1>3. CASE \E p, t \in Nodes, S \in SUBSET Nodes : Merged(p, S, t)
    <2>1. PICK p \in Nodes, t \in Nodes, S \in SUBSET Nodes : Merged(p, S, t)
      BY <1>3
    <2>2. Working /\ Working'
      BY <1>1 DEF Working
    <2>3. /\ DOMAIN mapping' = DOMAIN mapping \cup S
          /\ S \subseteq Left /\ S \subseteq Below(p)
      BY <2>1, <2>2, MergedIs
    <2>4. PICK q \in Seq(Nodes) : /\ IsInjective(q) /\ Range(q) = Range(children[p]) \ S
                                  /\ S = Range(children[p]) => q = << >>
                                  /\ children' = [children EXCEPT ![p] = q]
      BY <2>1 DEF Merged
    <2>5. \A c \in S : children[c] = << >>
      BY <2>1 DEF Merged
    <2>6. /\ DOMAIN mapping \subseteq graph /\ graph \subseteq Nodes
          /\ \A m \in Nodes : Range(children[m]) = Below(m) \cap Left
          /\ \A m \in Nodes \ Left : children[m] = << >>
          /\ children \in [Nodes -> {r \in Seq(Nodes) : IsInjective(r)}]
      BY <2>2 DEF ShapeInv, TypeInv, TreeInv
    <2>7. TypeInv'
      <3>1. children' \in [Nodes -> {r \in Seq(Nodes) : IsInjective(r)}]
        BY <2>4, <2>6
      <3>2. DOMAIN count' = Nodes
        BY <2>1 DEF Merged, ShapeInv, TypeInv
      <3>3. QED
        BY <1>1, <2>3, <2>6, <3>1, <3>2 DEF ShapeInv, TypeInv
    <2>8. StartInv'
      BY <1>1 DEF ShapeInv, StartInv
    <2>9. TreeInv'
      <3>1. Left' = Left \ S
        BY <1>1, <2>3 DEF Left
      <3>2. \A m \in Nodes : Below(m)' = Below(m)
        BY <1>1 DEF Below, HasFirst, FirstOf
      <3>3. \A m \in Nodes : m # p => children'[m] = children[m]
        BY <2>4, <2>6
      <3>4. children'[p] = q
        BY <2>4, <2>6
      <3>5. \A m \in Nodes : m # p => Below(m) \cap S = {}
        BY <2>3 DEF Below
      <3>6. ASSUME NEW m \in Nodes PROVE Range(children'[m]) = Below(m)' \cap Left'
        <4>1. CASE m = p
          BY <2>4, <2>6, <3>1, <3>2, <3>4, <4>1
        <4>2. CASE m # p
          BY <2>6, <3>1, <3>2, <3>3, <3>5, <4>2
        <4>3. QED
          BY <4>1, <4>2
      <3>7. ASSUME NEW m \in Nodes \ Left' PROVE children'[m] = << >>
        <4>1. children[m] = << >>
          BY <2>5, <2>6, <3>1
        <4>2. CASE m = p
          <5>1. Range(children[p]) = {}
            BY <4>1, <4>2 DEF Range
          <5>2. S = Range(children[p])
            BY <2>1, <5>1 DEF Merged
          <5>3. QED
            BY <2>4, <3>4, <4>2, <5>2
        <4>3. QED
          BY <3>3, <4>1, <4>2
      <3>8. DOMAIN mapping' \subseteq graph'
        BY <1>1, <2>3, <2>6 DEF Left
      <3>9. QED
        BY <3>6, <3>7, <3>8 DEF TreeInv
    <2>10. QED
      BY <1>1, <2>7, <2>8, <2>9 DEF ShapeInv, DoneInv
  <1>4. QED
    BY <1>2, <1>3, VisitIs

LEMMA ShapeStep == ShapeInv /\ [PruneNext]_vars => ShapeInv'
  <1> SUFFICES ASSUME ShapeInv, [PruneNext]_vars PROVE ShapeInv'
    OBVIOUS
  <1> USE DEF Below, HasFirst, FirstOf, Left
  <1>1. CASE KeepFirstParent
    BY <1>1, KeepFirstIs
  <1>2. ASSUME NEW n \in Nodes, RemoveEmpty(n) PROVE ShapeInv'
    BY <1>2, RemoveEmptyIs
  <1>3. CASE Visit
    BY <1>3, VisitShape
  <1>4. CASE StartMerge
    <2>1. current' \in Seq(Nodes)
      BY <1>4, ListsAre DEF StartMerge
    <2>2. QED
      BY <1>4, <2>1 DEF StartMerge, ShapeInv, TypeInv, StartInv, TreeInv, DoneInv, Working
  <1>5. CASE NextRound
    <2>1. << >> \in Seq(Nodes)
      OBVIOUS
    <2>2. QED
      BY <1>5, <2>1 DEF NextRound, ShapeInv, TypeInv, StartInv, TreeInv, DoneInv, Working
  <1>6. ASSUME NEW n \in Nodes, Shorten(n) PROVE ShapeInv'
    <2>1. DOMAIN mapping' = DOMAIN mapping
      BY <1>6 DEF Shorten
    <2>2. QED
      BY <1>6, <2>1 DEF Shorten, ShapeInv, TypeInv, StartInv, TreeInv, DoneInv, Working
  <1>7. CASE DropMerged
    <2>1. /\ phase = "flatten" /\ phase' = "done" /\ graph' = Left
          /\ UNCHANGED <<input, children, parents, count, mapping, current, next>>
      BY <1>7 DEF DropMerged
    <2>2. DoneInv'
      BY <2>1 DEF ShapeInv, TreeInv, DoneInv, Working
    <2>3. TypeInv' /\ StartInv' /\ TreeInv'
      BY <2>1 DEF ShapeInv, TypeInv, StartInv, TreeInv, Working
    <2>4. QED
      BY <2>2, <2>3 DEF ShapeInv
  <1>8. CASE UNCHANGED vars
    BY <1>8 DEF vars, ShapeInv, TypeInv, StartInv, TreeInv, DoneInv, Working
  <1>9. QED
    BY <1>1, <1>2, <1>3, <1>4, <1>5, <1>6, <1>7, <1>8 DEF PruneNext, PruneStep, Finished

LEMMA ShapeHolds == PruneSpec => []ShapeInv
  <1>1. PruneInit => ShapeInv
    BY InitHolds
  <1>2. ShapeInv /\ [PruneNext]_vars => ShapeInv'
    BY ShapeStep
  <1>3. QED
    BY <1>1, <1>2, PTL DEF PruneSpec

\* Whatever the graph given, cyclic ones included, pruning leaves a forest: one
\* parent at most, and lists that agree and name only concepts that are left.
THEOREM LeavesForest == PruneSpec => []PrunedIsForest
  <1>1. ShapeInv => PrunedIsForest
    <2> SUFFICES ASSUME ShapeInv, phase = "done", NEW n \in graph
                 PROVE  /\ Len(parents[n]) <= 1
                        /\ Range(children[n]) = {c \in graph : parents[c] = <<n>>}
                        /\ Range(parents[n]) \subseteq graph
      BY DEF PrunedIsForest
    <2>1. /\ input \in Inputs /\ graph \subseteq Nodes
          /\ parents = [m \in Nodes |-> FirstOnly(input.parents[m])]
          /\ \A p \in Nodes : Range(children[p]) = Below(p) \cap graph
          /\ \A p \in Nodes \ graph : children[p] = << >>
      BY DEF ShapeInv, TypeInv, StartInv, DoneInv
    <2>2. \A m \in graph : /\ HasFirst(m) => parents[m] = <<FirstOf(m)>>
                           /\ ~HasFirst(m) => parents[m] = << >>
      BY <2>1 DEF FirstOnly, HasFirst, FirstOf
    <2> HIDE DEF HasFirst, FirstOf
    <2>3. Len(parents[n]) <= 1
      <3>1. parents[n] = << >> \/ parents[n] = <<FirstOf(n)>>
        BY <2>2
      <3>2. Len(<<FirstOf(n)>>) = 1 /\ Len(<< >>) = 0
        OBVIOUS
      <3>3. CASE parents[n] = << >>
        BY <3>2, <3>3
      <3>4. CASE parents[n] = <<FirstOf(n)>>
        BY <3>2, <3>4
      <3>5. QED
        BY <3>1, <3>3, <3>4
    <2>4. Range(children[n]) = {c \in graph : parents[c] = <<n>>}
      <3>1. ASSUME NEW c \in graph PROVE c \in Below(n) <=> parents[c] = <<n>>
        <4>1. CASE HasFirst(c)
          <5>1. parents[c] = <<FirstOf(c)>> /\ c \in Nodes
            BY <2>1, <2>2, <4>1
          <5>2. <<FirstOf(c)>> = <<n>> <=> FirstOf(c) = n
            OBVIOUS
          <5>3. QED
            BY <4>1, <5>1, <5>2 DEF Below
        <4>2. CASE ~HasFirst(c)
          <5>1. parents[c] = << >> /\ << >> # <<n>>
            BY <2>2, <4>2
          <5>2. QED
            BY <4>2, <5>1 DEF Below
        <4>3. QED
          BY <4>1, <4>2
      <3>2. n \in Nodes
        BY <2>1
      <3>3. QED
        BY <2>1, <3>1, <3>2
    <2>5. Range(parents[n]) \subseteq graph
      <3>1. CASE ~HasFirst(n)
        <4>1. parents[n] = << >>
          BY <2>2, <3>1
        <4>2. QED
          BY <4>1 DEF Range
      <3>2. CASE HasFirst(n)
        <4>1. FirstOf(n) \in Nodes
          BY <2>1, <3>2, FirstType
        <4>2. n \in Range(children[FirstOf(n)])
          BY <2>1, <3>2, <4>1 DEF Below
        <4>3. FirstOf(n) \in graph
          BY <2>1, <4>1, <4>2 DEF Range
        <4>4. parents[n] = <<FirstOf(n)>>
          BY <2>2, <3>2
        <4>5. QED
          BY <4>3, <4>4 DEF Range
      <3>3. QED
        BY <3>1, <3>2
    <2>6. QED
      BY <2>3, <2>4, <2>5
  <1>2. QED
    BY <1>1, ShapeHolds, PTL

\* No assertion of merge_nodes ever fails: every child that is merged or kept is
\* in the graph and not merged yet.
THEOREM AssertionsHold == PruneSpec => [](phase # "raised")
  <1>1. ShapeInv => phase # "raised"
    BY DEF ShapeInv, TypeInv
  <1>2. QED
    BY <1>1, ShapeHolds, PTL

---------------------------------------------------------------------------
(* No question is lost.                                                    *)

\* A concept with nothing below it in the tree is on no cycle.
LEMMA LeafNotOnCycle ==
  ASSUME ShapeInv, KeepInv, Working, NEW n \in Nodes, children[n] = << >>
  PROVE  ~OnCycle(n)
  <1> SUFFICES ASSUME OnCycle(n) PROVE FALSE
    OBVIOUS
  <1>1. input \in Inputs /\ phase # "cut"
    BY DEF ShapeInv, TypeInv, Working
  <1>2. PICK c \in Nodes : HasFirst(c) /\ FirstOf(c) = n /\ OnCycle(c)
    BY <1>1, CycleBelow
  <1>3. c \in Left
    BY <1>1, <1>2 DEF KeepInv
  <1>4. c \in Range(children[n])
    BY <1>2, <1>3 DEF ShapeInv, TreeInv, Below
  <1>5. QED
    BY <1>4 DEF Range

LEMMA VisitKeep ==
  ASSUME ShapeInv, KeepInv, Visit
  PROVE  KeepInv'
  <1> USE DEF OnCycle, HasFirst, FirstOf, Above
  <1>1. phase = "merge" /\ UNCHANGED <<input, phase, graph, parents>>
    BY VisitIs
  <1>2. Working /\ input \in Inputs /\ graph \subseteq Nodes
    BY <1>1 DEF Working, ShapeInv, TypeInv
  <1>3. \A m : Ancestors(m)' = Ancestors(m)
    BY <1>1 DEF Ancestors, Up
  <1>4. CASE UNCHANGED <<children, count, mapping>>
    BY <1>1, <1>3, <1>4 DEF KeepInv, Left
  <1>5. CASE \E p, t \in Nodes, S \in SUBSET Nodes : Merged(p, S, t)
    <2>1. PICK p \in Nodes, t \in Nodes, S \in SUBSET Nodes : Merged(p, S, t)
      BY <1>5
    <2>2. /\ DOMAIN mapping' = DOMAIN mapping \cup S
          /\ \A c \in DOMAIN mapping' : mapping'[c] = IF c \in S THEN t ELSE mapping[c]
          /\ S \subseteq Left /\ S \subseteq Below(p) /\ t \in Left \ S
      BY <1>2, <2>1, MergedIs
    <2>3. \A c \in S : ~OnCycle(c)
      BY <1>2, <2>1, LeafNotOnCycle DEF Merged
    <2>4. ASSUME NEW c \in S PROVE Above(t) \subseteq Above(c)
      <3>1. t = p \/ (HasFirst(t) /\ FirstOf(t) = p)
        BY <1>2, <2>1 DEF Merged, ShapeInv, TreeInv, Below
      <3>2. HasFirst(c) /\ FirstOf(c) = p /\ c \in Nodes /\ ~OnCycle(c)
        BY <2>2, <2>3 DEF Below
      <3> HIDE DEF OnCycle, HasFirst, FirstOf, Above
      <3>3. QED
        BY <1>2, <3>1, <3>2, AboveMerged
    <2>5. \A m \in Nodes : OnCycle(m)' => m \in Left'
      <3>1. \A m \in Nodes : OnCycle(m)' <=> OnCycle(m)
        BY <1>1, <1>3
      <3>2. Left' = Left \ S
        BY <1>1, <2>2 DEF Left
      <3> HIDE DEF OnCycle
      <3>3. QED
        BY <1>1, <2>3, <3>1, <3>2 DEF KeepInv
    <2>6. \A m \in Nodes \ (graph' \cup DOMAIN mapping') : input'.count[m] = 0
      BY <1>1, <2>2 DEF KeepInv
    <2>7. ASSUME NEW m \in DOMAIN mapping'
          PROVE  mapping'[m] \in graph /\ Above(mapping'[m]) \subseteq Above(m)
      <3>1. CASE m \in S
        BY <2>2, <2>4, <3>1 DEF Left
      <3>2. CASE m \notin S
        BY <1>1, <2>2, <3>2 DEF KeepInv
      <3>3. QED
        BY <3>1, <3>2
    <2> HIDE DEF OnCycle
    <2>8. phase' # "done"
      BY <1>1
    <2>9. QED
      BY <1>1, <1>3, <2>5, <2>6, <2>7, <2>8 DEF KeepInv
  <1>6. QED
    BY <1>4, <1>5, VisitIs

LEMMA KeepStep == ShapeInv /\ KeepInv /\ [PruneNext]_vars => KeepInv'
  <1> SUFFICES ASSUME ShapeInv, KeepInv, [PruneNext]_vars PROVE KeepInv'
    OBVIOUS
  <1> USE DEF OnCycle, HasFirst, FirstOf, Above
  <1>1. CASE KeepFirstParent
    <2>1. Left' = Nodes /\ graph' = Nodes /\ DOMAIN mapping' = {}
      BY <1>1 DEF KeepFirstParent, ShapeInv, StartInv, Left
    <2>2. QED
      BY <2>1 DEF KeepInv
  <1>2. ASSUME NEW n \in Nodes, RemoveEmpty(n) PROVE KeepInv'
    <2>1. /\ phase = "empty" /\ children[n] = << >> /\ count[n] = 0
          /\ graph' = graph \ {n} /\ UNCHANGED <<input, phase, mapping>>
          /\ DOMAIN mapping = {} /\ count = input.count
      BY <1>2 DEF RemoveEmpty, Empty, ShapeInv, StartInv
    <2>2. Ancestors(n) = Ancestors(n)' /\ \A m : Ancestors(m)' = Ancestors(m)
      BY <2>1 DEF Ancestors, Up
    <2>3. ~OnCycle(n)
      <3> HIDE DEF OnCycle
      <3>1. QED
        BY <2>1, LeafNotOnCycle DEF Working
    <2>4. \A m \in Nodes : OnCycle(m)' => m \in Left'
      <3>1. \A m \in Nodes : OnCycle(m)' <=> OnCycle(m)
        BY <2>1, <2>2
      <3>2. Left' = Left \ {n}
        BY <2>1 DEF Left
      <3> HIDE DEF OnCycle
      <3>3. QED
        BY <2>1, <2>3, <3>1, <3>2 DEF KeepInv
    <2> HIDE DEF OnCycle, Above
    <2>5. QED
      BY <2>1, <2>4 DEF KeepInv
  <1>3. CASE Visit
    BY <1>3, VisitKeep
  <1>4. CASE StartMerge \/ NextRound \/ UNCHANGED vars
    <2>1. UNCHANGED <<input, graph, mapping>> /\ (phase = "cut" <=> phase' = "cut")
          /\ (phase = "done" <=> phase' = "done")
      BY <1>4 DEF StartMerge, NextRound, vars
    <2>2. \A m : Ancestors(m)' = Ancestors(m)
      BY <2>1 DEF Ancestors, Up
    <2>3. QED
      BY <2>1, <2>2 DEF KeepInv, Left
  <1>5. ASSUME NEW n \in Nodes, Shorten(n) PROVE KeepInv'
    <2>1. /\ phase = "flatten" /\ UNCHANGED <<input, phase, graph>>
          /\ n \in DOMAIN mapping /\ mapping[n] \in DOMAIN mapping
          /\ mapping' = [mapping EXCEPT ![n] = mapping[mapping[n]]]
      BY <1>5 DEF Shorten, Indirect
    <2>2. \A m : Ancestors(m)' = Ancestors(m)
      BY <2>1 DEF Ancestors, Up
    <2>3. DOMAIN mapping' = DOMAIN mapping
      BY <2>1
    <2>4. ASSUME NEW m \in DOMAIN mapping
          PROVE  mapping'[m] \in graph /\ Above(mapping'[m]) \subseteq Above(m)
      <3>1. \A x \in DOMAIN mapping : mapping[x] \in graph /\ Above(mapping[x]) \subseteq Above(x)
        BY <2>1 DEF KeepInv
      <3> HIDE DEF Above
      <3>2. CASE m = n
        BY <2>1, <3>1, <3>2
      <3>3. CASE m # n
        BY <2>1, <3>1, <3>3
      <3>4. QED
        BY <3>2, <3>3
    <2>5. QED
      BY <2>1, <2>2, <2>3, <2>4 DEF KeepInv, Left
  <1>6. CASE DropMerged
    <2>1. /\ phase = "flatten" /\ graph' = graph \ DOMAIN mapping
          /\ UNCHANGED <<input, mapping>>
          /\ \A m \in Nodes : ~Indirect(m)
      BY <1>6 DEF DropMerged
    <2>2. \A m : Ancestors(m)' = Ancestors(m)
      BY <2>1 DEF Ancestors, Up
    <2>3. DOMAIN mapping \subseteq Nodes
      BY DEF ShapeInv, TypeInv
    <2>4. \A m \in DOMAIN mapping : mapping[m] \notin DOMAIN mapping
      BY <2>1, <2>3 DEF Indirect
    <2>5. QED
      BY <2>1, <2>2, <2>3, <2>4 DEF KeepInv, Left
  <1>7. QED
    BY <1>1, <1>2, <1>3, <1>4, <1>5, <1>6 DEF PruneNext, PruneStep, Finished

\* No question is lost: when pruning ends, every concept with questions is left,
\* or is mapped in one step to a concept that is left and has nothing above it
\* but ancestors of the concept.
THEOREM NoQuestionLost == PruneSpec => []QuestionsResolve
  <1>1. PruneInit => ShapeInv /\ KeepInv
    BY InitHolds
  <1>2. ShapeInv /\ KeepInv /\ [PruneNext]_vars => ShapeInv' /\ KeepInv'
    BY ShapeStep, KeepStep
  <1>3. ShapeInv /\ KeepInv => QuestionsResolve
    <2> SUFFICES ASSUME ShapeInv, KeepInv, phase = "done", NEW n \in Nodes, input.count[n] > 0
                 PROVE  \/ n \in graph /\ n \notin DOMAIN mapping
                        \/ /\ n \in DOMAIN mapping /\ mapping[n] \in graph
                           /\ Ancestors(mapping[n]) \ {mapping[n]} \subseteq Ancestors(n)
      BY DEF QuestionsResolve
    <2>1. graph \cap DOMAIN mapping = {} /\ input \in Inputs
      BY DEF ShapeInv, TypeInv, DoneInv
    <2>2. input.count[n] # 0
      OBVIOUS
    <2>3. QED
      BY <2>1, <2>2 DEF KeepInv, Above
  <1>4. QED
    BY <1>1, <1>2, <1>3, PTL DEF PruneSpec

---------------------------------------------------------------------------
(* Large concepts.                                                         *)

LEMMA VisitLarge ==
  ASSUME ShapeInv, LargeInv, Visit
  PROVE  LargeInv'
  <1>1. phase = "merge" /\ UNCHANGED <<input, graph>>
    BY VisitIs
  <1>2. Working /\ input \in Inputs /\ graph \subseteq Nodes /\ DOMAIN count = Nodes
    BY <1>1 DEF Working, ShapeInv, TypeInv
  <1>3. \A n : Below(n)' = Below(n)
    BY <1>1 DEF Below, HasFirst, FirstOf
  <1>4. CASE UNCHANGED <<children, count, mapping>>
    BY <1>1, <1>3, <1>4 DEF LargeInv, Emptied
  <1>5. CASE \E p, t \in Nodes, S \in SUBSET Nodes : Merged(p, S, t)
    <2>1. PICK p \in Nodes, t \in Nodes, S \in SUBSET Nodes : Merged(p, S, t)
      BY <1>5
    <2>2. DOMAIN mapping' = DOMAIN mapping \cup S
      BY <1>2, <2>1, MergedIs
    <2>3. \A n \in Nodes : Emptied(n) => Emptied(n)'
      BY <1>1, <1>3, <2>2 DEF Emptied
    <2>4. \A n \in Nodes : input.count[n] > prune_size /\ count[n] <= prune_size => Emptied(n)
      <3>1. \A n \in Nodes : input.count[n] \in Nat
        BY <1>2, InputsAssumption
      <3>2. \A n \in Nodes : input.count[n] > prune_size /\ count[n] <= prune_size
                               => count[n] # input.count[n]
        BY <3>1, InputsAssumption
      <3> HIDE DEF Emptied
      <3>3. QED
        BY <3>2 DEF LargeInv
    <2>5. \A n \in S : input.count[n] > prune_size => Emptied(n)'
      BY <2>1, <2>3, <2>4 DEF Merged
    <2>6. input.count[t] > prune_size => Emptied(t)'
      <3>1. CASE t = p /\ S = Range(children[p]) /\ S # {}
        <4>1. S = Below(p) \cap Left
          BY <1>2, <3>1 DEF ShapeInv, TreeInv
        <4>2. QED
          BY <1>1, <1>3, <2>2, <3>1, <4>1 DEF Emptied, Left
      <3>2. CASE count[t] <= prune_size
        BY <2>3, <2>4, <3>2
      <3>3. QED
        BY <2>1, <3>1, <3>2 DEF Merged
    <2>7. \A n \in Nodes : n # t => count'[n] = count[n]
      BY <1>2, <2>1 DEF Merged
    <2> HIDE DEF Emptied
    <2>8. ASSUME NEW n \in Nodes, input.count[n] > prune_size
          PROVE  (count'[n] = input.count[n] \/ Emptied(n)')
                 /\ (n \in DOMAIN mapping' => Emptied(n)')
      BY <2>2, <2>3, <2>5, <2>6, <2>7, <2>8 DEF LargeInv
    <2>9. QED
      BY <1>1, <2>8 DEF LargeInv
  <1>6. QED
    BY <1>4, <1>5, VisitIs

LEMMA LargeStep == ShapeInv /\ LargeInv /\ [PruneNext]_vars => LargeInv'
  <1> SUFFICES ASSUME ShapeInv, LargeInv, [PruneNext]_vars PROVE LargeInv'
    OBVIOUS
  <1>1. CASE Visit
    BY <1>1, VisitLarge
  <1>2. ASSUME UNCHANGED <<input, count>>, graph' \subseteq graph, DOMAIN mapping' = DOMAIN mapping
        PROVE  LargeInv'
    <2>1. \A n : Below(n)' = Below(n)
      BY <1>2 DEF Below, HasFirst, FirstOf
    <2>2. \A n \in Nodes : Emptied(n) => Emptied(n)'
      BY <1>2, <2>1 DEF Emptied
    <2>3. QED
      BY <1>2, <2>2 DEF LargeInv
  <1>3. CASE KeepFirstParent \/ StartMerge \/ NextRound \/ UNCHANGED vars
    <2>1. UNCHANGED <<input, count, graph, mapping>>
      BY <1>3 DEF KeepFirstParent, StartMerge, NextRound, vars
    <2>2. QED
      BY <1>2, <2>1
  <1>4. ASSUME NEW n \in Nodes, RemoveEmpty(n) \/ Shorten(n) PROVE LargeInv'
    <2>1. UNCHANGED <<input, count>> /\ graph' \subseteq graph /\ DOMAIN mapping' = DOMAIN mapping
      BY <1>4 DEF RemoveEmpty, Shorten
    <2>2. QED
      BY <1>2, <2>1
  <1>5. CASE DropMerged
    <2>1. UNCHANGED <<input, count>> /\ graph' \subseteq graph /\ DOMAIN mapping' = DOMAIN mapping
      BY <1>5 DEF DropMerged
    <2>2. QED
      BY <1>2, <2>1
  <1>6. QED
    BY <1>1, <1>3, <1>4, <1>5 DEF PruneNext, PruneStep, Finished

\* No question of a large concept that had nothing to take over is moved: a
\* concept with more questions than prune_size goes only after everything below
\* it, part of which was merged into it.
THEOREM LargeGoLast == PruneSpec => []LargeGoWithChildren
  <1>1. PruneInit => ShapeInv /\ LargeInv
    BY InitHolds
  <1>2. ShapeInv /\ LargeInv /\ [PruneNext]_vars => ShapeInv' /\ LargeInv'
    BY ShapeStep, LargeStep
  <1>3. ShapeInv /\ LargeInv => LargeGoWithChildren
    BY DEF ShapeInv, TypeInv, LargeInv, LargeGoWithChildren, Emptied, Below, HasFirst, FirstOf
  <1>4. QED
    BY <1>1, <1>2, <1>3, PTL DEF PruneSpec
===========================================================================
