---------------------------- MODULE KCTreePrune ----------------------------
(***************************************************************************)
(* Pruning of the knowledge-concept graph (EQG_Codes/kt/KC_tree/prune.py): *)
(* every concept keeps one parent, concepts without questions below them   *)
(* go, and small leaves are merged into a sibling or into their parent,    *)
(* upwards, round by round.  The order in which the leaves are visited is  *)
(* the order of a Python set of strings (build.py), so any order.          *)
(***************************************************************************)
EXTENDS Naturals, Sequences, FiniteSets, FiniteSetsExt, Functions

CONSTANTS
  Nodes,     \* the concepts
  Inputs,    \* graphs with question counts, as built from the files
  prune_size \* leaves with more questions are left alone

Lists == {q \in UNION {[1..n -> Nodes] : n \in 0..Cardinality(Nodes)} : IsInjective(q)}

\* convert_to_graph enters a child and its parent in both lists, each once.
ASSUME InputsAssumption ==
  /\ IsFiniteSet(Nodes) /\ prune_size \in Nat
  /\ Inputs \subseteq [children : [Nodes -> Lists], parents : [Nodes -> Lists],
                       count : [Nodes -> Nat]]
  /\ \A g \in Inputs : \A c, p \in Nodes :
       c \in Range(g.children[p]) <=> p \in Range(g.parents[c])

VARIABLES
  input,    \* the graph as given
  phase,    \* "cut", "empty", "merge", "flatten", "done" or "raised"
  graph,    \* the concepts still in the graph
  children, \* the child list of each concept
  parents,  \* the parent list of each concept
  count,    \* question_count
  mapping,  \* the merged concepts, each with what it was merged into
  current,  \* current_nodes still to visit in this round
  next      \* the parents to visit in the next round

vars == <<input, phase, graph, children, parents, count, mapping, current, next>>

PruneInit ==
  /\ input \in Inputs
  /\ phase = "cut"
  /\ graph = Nodes
  /\ children = input.children
  /\ parents = input.parents
  /\ count = input.count
  /\ mapping = << >>
  /\ current = << >> /\ next = << >>

FirstOnly(q) == IF q = << >> THEN << >> ELSE <<q[1]>>

\* The members of q that are in S, in the order of q.
Kept(q, S) ==
  LET f[i \in 0..Len(q)] ==
        IF i = 0 THEN << >>
        ELSE IF q[i] \in S THEN Append(f[i - 1], q[i]) ELSE f[i - 1]
  IN  f[Len(q)]

Without(q, S) == Kept(q, Nodes \ S)
Questions(S) == MapThenSumSet(LAMBDA n : count[n], S)

---------------------------------------------------------------------------
\* As KeepFirstParent, forgetting the child lists of the other parents.
KeepFirstInParents ==
  /\ phase = "cut"
  /\ phase' = "empty"
  /\ parents' = [n \in Nodes |-> FirstOnly(parents[n])]
  /\ UNCHANGED <<input, graph, children, count, mapping, current, next>>

KeepFirstParent ==
  /\ phase = "cut"
  /\ phase' = "empty"
  /\ children' = [n \in Nodes |-> Without(children[n], {c \in Nodes :
                                     parents[c] # << >> /\ parents[c][1] # n})]
  /\ parents' = [n \in Nodes |-> FirstOnly(parents[n])]
  /\ UNCHANGED <<input, graph, count, mapping, current, next>>

Empty(n) == n \in graph /\ children[n] = << >> /\ count[n] = 0

RemoveEmpty(n) ==
  /\ phase = "empty"
  /\ Empty(n)
  /\ graph' = graph \ {n}
  /\ children' = [p \in Nodes |-> IF p \in Range(parents[n])
                                    THEN Without(children[p], {n}) ELSE children[p]]
  /\ UNCHANGED <<input, phase, parents, count, mapping, current, next>>

Leaves == {n \in graph : children[n] = << >>}

StartMerge ==
  /\ phase = "empty"
  /\ \A n \in Nodes : ~Empty(n)
  /\ phase' = "merge"
  /\ current' \in {q \in Lists : Range(q) = Leaves}
  /\ UNCHANGED <<input, graph, children, parents, count, mapping, next>>

\* As Mergeable, whatever the number of their questions.
MergeableLarge(p) == Kept(children[p], {c \in Nodes : children[c] = << >>})

\* The children of p that may be merged, in the order of its list.
Mergeable(p) ==
  Kept(children[p], {c \in Nodes : children[c] = << >> /\ count[c] <= prune_size})

Skipped(n) == \/ n \in DOMAIN mapping
              \/ children[n] # << >>
              \/ \A p \in Range(parents[n]) : Mergeable(p) = << >>

\* The two assertions both cases make of every child of p.
ChildrenFresh(p) == Range(children[p]) \subseteq graph \ DOMAIN mapping

Mapped(S, t) ==
  [n \in DOMAIN mapping \cup S |-> IF n \in S THEN t ELSE mapping[n]]

\* Case 1: every child goes, and p, now a leaf, is up for the next round.
MergeIntoParent(p) ==
  LET cs == Range(children[p])
  IN  /\ Len(Mergeable(p)) = Len(children[p])
      /\ mapping' = Mapped(cs, p)
      /\ count' = [count EXCEPT ![p] = Questions(cs)]
      /\ children' = [children EXCEPT ![p] = << >>]
      /\ next' = Append(next, p)

\* Case 2: the mergeable children go into the first of them, which is moved to
\* the front of the list.
MergeIntoSibling(p) ==
  LET ms == Mergeable(p)
      others == Range(ms) \ {ms[1]}
  IN  /\ Len(ms) # Len(children[p])
      /\ mapping' = Mapped(others, ms[1])
      /\ count' = [count EXCEPT ![ms[1]] = @ + Questions(others)]
      /\ children' = [children EXCEPT ![p] = <<ms[1]>> \o Without(@, Range(ms))]
      /\ UNCHANGED next

Visit ==
  /\ phase = "merge"
  /\ current # << >>
  /\ current' = Tail(current)
  /\ LET n == Head(current)
         p == parents[n][1]
     IN  \/ /\ Skipped(n)
            /\ UNCHANGED <<phase, children, count, mapping, next>>
         \/ /\ ~Skipped(n) /\ ChildrenFresh(p)
            /\ MergeIntoParent(p) \/ MergeIntoSibling(p)
            /\ UNCHANGED phase
         \/ /\ ~Skipped(n) /\ ~ChildrenFresh(p)
            /\ phase' = "raised"
            /\ UNCHANGED <<children, count, mapping, next>>
  /\ UNCHANGED <<input, graph, parents>>

\* As NextRound, never starting a new list of parents.
NextRoundAgain ==
  /\ phase = "merge"
  /\ current = << >>
  /\ current' = next /\ UNCHANGED next
  /\ phase' = IF next = << >> THEN "flatten" ELSE "merge"
  /\ UNCHANGED <<input, graph, children, parents, count, mapping>>

NextRound ==
  /\ phase = "merge"
  /\ current = << >>
  /\ current' = next /\ next' = << >>
  /\ phase' = IF next = << >> THEN "flatten" ELSE "merge"
  /\ UNCHANGED <<input, graph, children, parents, count, mapping>>

Indirect(n) == n \in DOMAIN mapping /\ mapping[n] \in DOMAIN mapping

Shorten(n) ==
  /\ phase = "flatten"
  /\ Indirect(n)
  /\ mapping' = [mapping EXCEPT ![n] = mapping[mapping[n]]]
  /\ UNCHANGED <<input, phase, graph, children, parents, count, current, next>>

\* As DropMerged, without waiting for the chains to be flat.
DropAtOnce ==
  /\ phase = "flatten"
  /\ graph' = graph \ DOMAIN mapping
  /\ phase' = "done"
  /\ UNCHANGED <<input, children, parents, count, mapping, current, next>>

DropMerged ==
  /\ phase = "flatten"
  /\ \A n \in Nodes : ~Indirect(n)
  /\ graph' = graph \ DOMAIN mapping
  /\ phase' = "done"
  /\ UNCHANGED <<input, children, parents, count, mapping, current, next>>

Finished == phase = "done" /\ UNCHANGED vars

PruneStep == \/ KeepFirstParent \/ StartMerge \/ Visit \/ NextRound \/ DropMerged
             \/ \E n \in Nodes : RemoveEmpty(n) \/ Shorten(n)

PruneNext == PruneStep \/ Finished

PruneSpec == PruneInit /\ [][PruneNext]_vars /\ WF_vars(PruneStep)

---------------------------------------------------------------------------
\* What pruning leaves is a forest again, whatever the graph it was given: a
\* concept has at most one parent, the lists of parents and children agree and
\* name only concepts that are left.  The E-step walks both (E_Step.py:48).
PrunedIsForest ==
  phase = "done" =>
    \A n \in graph :
      /\ Len(parents[n]) <= 1
      /\ Range(children[n]) = {c \in graph : parents[c] = <<n>>}
      /\ Range(parents[n]) \subseteq graph

\* The ancestors of n along first parents, n included: as many steps as there
\* are concepts.
Up(S) == S \cup {input.parents[n][1] : n \in {m \in S : input.parents[m] # << >>}}
Ancestors(n) ==
  LET f[i \in 0..Cardinality(Nodes)] == IF i = 0 THEN {n} ELSE Up(f[i - 1])
  IN  f[Cardinality(Nodes)]

\* Every concept with questions is left or is mapped, directly, to a concept
\* that is left: an ancestor of it, or another child of an ancestor.  A record
\* of the dataset is looked up in the mapping once (update.py:421, M_Step.py:90).
QuestionsResolve ==
  phase = "done" =>
    \A n \in Nodes : input.count[n] > 0 =>
      \/ n \in graph /\ n \notin DOMAIN mapping
      \/ /\ n \in DOMAIN mapping
         /\ mapping[n] \in graph
         /\ Ancestors(mapping[n]) \ {mapping[n]} \subseteq Ancestors(n)

\* prune.py:53 says that leaves with "less than prune_size questions" are merged.
\* A concept with more questions than that may go nevertheless, since its count
\* is overwritten at prune.py:91; but only after the concepts below it, at least
\* one of which has been merged into it: no question of a large concept that had
\* nothing to take over is moved to another one.
LargeGoWithChildren ==
  \A n \in DOMAIN mapping : input.count[n] > prune_size =>
    LET below == {c \in Nodes : input.parents[c] # << >> /\ input.parents[c][1] = n}
    IN  below \cap DOMAIN mapping # {} /\ below \cap graph \subseteq DOMAIN mapping

\* Pruning always ends, with no assertion failed on the way.
PruneEnds == <>(phase = "done")
===========================================================================
