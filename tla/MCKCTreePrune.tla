--------------------------- MODULE MCKCTreePrune ---------------------------
(* Every graph of five concepts in which a concept has one or two parents   *)
(* among those before it, with 0, 1 or 2 questions each: none, few, many.   *)
EXTENDS KCTreePrune

MCNodes == 1..5

Ascending(S) ==
  [i \in 1..Cardinality(S) |-> CHOOSE n \in S : Cardinality({m \in S : m < n}) = i - 1]

Above(n) == {P \in SUBSET (1..n - 1) : Cardinality(P) \in {1, 2}}
Shapes == {<<{}, {1}, c, d, e>> : c \in Above(3), d \in Above(4), e \in Above(5)}
Counts == {<<1, b, c, d, e>> : b, c, d, e \in 0..2}

MCInputs ==
  {[children |-> [p \in MCNodes |-> Ascending({n \in MCNodes : p \in f[n]})],
    parents |-> [n \in MCNodes |-> Ascending(f[n])],
    count |-> c] : f \in Shapes, c \in Counts}
============================================================================
