------------------------------- MODULE EStep -------------------------------
(***************************************************************************)
(* The E-step on one student's concept graph.  The full upward-downward    *)
(* pass (EQG_Codes/kt/KT2/EM/E_Step.py:e_step) computes every message      *)
(* from a work list in set order; the incremental one                      *)
(* (kt/KT2/KT/graph_update.py:update_e_step) recomputes the messages from  *)
(* one concept up to its root and then everything downwards.               *)
(*                                                                         *)
(* Probabilities are abstracted to the evidence they depend on: a message  *)
(* is the set of factors it multiplies, a factor being a concept with the  *)
(* number of its records; a division takes the factors out again.  The     *)
(* parameters are fixed.                                                   *)
(***************************************************************************)
EXTENDS Naturals, FiniteSets

CONSTANTS
  Nodes,      \* the concepts
  NoParent,   \* what a root has for a parent
  Trees,      \* the shapes: each gives a concept its parent
  MaxRecords, \* bound: records of one concept
  MaxUpdated  \* bound: concepts with new records in one update

ASSUME TreesAssumption ==
  /\ NoParent \notin Nodes
  /\ Trees \subseteq [Nodes -> Nodes \cup {NoParent}]
  /\ MaxRecords \in Nat /\ MaxUpdated \in Nat

\* No concept is below itself: the walks from a concept to its root would not
\* end otherwise (KT.py:228, predict.py:24), nor would the full E-step.
ASSUME ForestAssumption ==
  /\ IsFiniteSet(Nodes)
  /\ \A t \in Trees : \A S \in SUBSET Nodes \ {{}} : \E n \in S : t[n] \notin S

VARIABLES
  parent,     \* the shape of this graph
  records,    \* the lengths of the lists of single_kc_question_map
  up,         \* upward_beta of each node; {} is the [0, 0] of a new node
  down,       \* downward_alpha of each node
  posterior,  \* what the posteriors were computed from
  pass,       \* "idle", "up" or "down"
  full,       \* is this pass e_step, not update_e_step?
  current,    \* current_nodes not visited yet
  next,       \* next_nodes
  hasUpdated, \* has_updated
  todo        \* updated_kcs the incremental E-step is still to be called for

vars == <<parent, records, up, down, posterior, pass, full, current, next,
          hasUpdated, todo>>

Factors == Nodes \X (0..MaxRecords)

Children(n) == {c \in Nodes : parent[c] = n}
Roots == {n \in Nodes : parent[n] = NoParent}
Leaves == {n \in Nodes : Children(n) = {}}
ParentIn(n) == {parent[n]} \ {NoParent}

EInit ==
  /\ parent \in Trees
  /\ records = [n \in Nodes |-> 0]
  /\ up = [n \in Nodes |-> {}] /\ down = up
  /\ posterior = [n \in Nodes |-> [outside |-> {}, below |-> {}]]
  /\ pass = "idle" /\ full = FALSE
  /\ current = {} /\ next = {} /\ hasUpdated = {} /\ todo = {}

MoreRecords(kcs) ==
  /\ \A n \in kcs : records[n] < MaxRecords
  /\ records' = [n \in Nodes |-> IF n \in kcs THEN records[n] + 1 ELSE records[n]]

---------------------------------------------------------------------------
\* e_step on all lists of records, in which those of kcs have grown
BeginFull(kcs) ==
  /\ pass = "idle"
  /\ MoreRecords(kcs)
  /\ pass' = "up" /\ full' = TRUE
  /\ current' = Leaves
  /\ hasUpdated' = {}
  /\ UNCHANGED <<parent, up, down, posterior, next, todo>>

\* New records of kcs on a graph that has had an E-step (graph_update.py:56
\* makes a full one otherwise): one incremental E-step for each of them, in the
\* order in which they came.
BeginIncremental(kcs) ==
  /\ pass = "idle"
  /\ kcs # {} /\ \A kc \in kcs : up[kc] # {}
  /\ MoreRecords(kcs)
  /\ \E kc \in kcs : current' = {kc} /\ todo' = kcs \ {kc}
  /\ pass' = "up" /\ full' = FALSE
  /\ UNCHANGED <<parent, up, down, posterior, next, hasUpdated>>

\* upward_pass: the node's own records and its children's messages.
Message(n) == {<<n, records[n]>>} \cup UNION {up[c] : c \in Children(n)}

\* As Ready, satisfied with one child.
SomeReady(n) == full => Children(n) = {} \/ Children(n) \cap hasUpdated # {}

Ready(n) == full => Children(n) \subseteq hasUpdated

\* As Compute, forgetting to note that the node was updated.
ComputeUnnoted(n) ==
  /\ up' = [up EXCEPT ![n] = Message(n)]
  /\ next' = next \cup ParentIn(n)
  /\ UNCHANGED hasUpdated

\* As Compute, taking every node for a child.
ComputeRootToo(n) ==
  /\ up' = [up EXCEPT ![n] = Message(n)]
  /\ next' = next \cup {parent[n]}
  /\ hasUpdated' = IF full THEN hasUpdated \cup {n} ELSE hasUpdated

Compute(n) ==
  /\ up' = [up EXCEPT ![n] = Message(n)]
  /\ next' = next \cup ParentIn(n)
  /\ hasUpdated' = IF full THEN hasUpdated \cup {n} ELSE hasUpdated

Wait(n) == next' = next \cup {n} /\ UNCHANGED <<up, hasUpdated>>

VisitUp(n) ==
  /\ pass = "up" /\ n \in current
  /\ current' = current \ {n}
  /\ \/ Ready(n) /\ Compute(n)
     \/ ~Ready(n) /\ Wait(n)
  /\ UNCHANGED <<parent, records, down, posterior, pass, full, todo>>

NextUpRound ==
  /\ pass = "up" /\ current = {}
  /\ next' = {}
  /\ IF next = {} THEN pass' = "down" /\ current' = Roots
                  ELSE current' = next /\ UNCHANGED pass
  /\ UNCHANGED <<parent, records, up, down, posterior, full, hasUpdated, todo>>

\* As DownMessage, without the division by the node's own message.
DownUndivided(n) ==
  UNION {down[p] \cup up[p] : p \in ParentIn(n)}

\* downward_pass: what the parent knows, its own message divided by n's.
DownMessage(n) ==
  UNION {down[p] \cup (up[p] \ up[n]) : p \in ParentIn(n)}

VisitDown(n) ==
  /\ pass = "down" /\ n \in current
  /\ current' = current \ {n}
  /\ down' = [down EXCEPT ![n] = DownMessage(n)]
  /\ next' = next \cup Children(n)
  /\ UNCHANGED <<parent, records, up, posterior, pass, full, hasUpdated, todo>>

NextDownRound ==
  /\ pass = "down" /\ current = {} /\ next # {}
  /\ current' = next /\ next' = {}
  /\ UNCHANGED <<parent, records, up, down, posterior, pass, full, hasUpdated, todo>>

Posteriors == [n \in Nodes |-> [outside |-> down[n], below |-> up[n]]]

EndPass ==
  /\ pass = "down" /\ current = {} /\ next = {}
  /\ posterior' = Posteriors
  /\ \/ todo = {} /\ pass' = "idle" /\ UNCHANGED <<current, todo>>
     \/ /\ pass' = "up"
        /\ \E kc \in todo : current' = {kc} /\ todo' = todo \ {kc}
  /\ UNCHANGED <<parent, records, up, down, full, next, hasUpdated>>

EStepping == \/ NextUpRound \/ NextDownRound \/ EndPass
             \/ \E n \in Nodes : VisitUp(n) \/ VisitDown(n)

Updates == {kcs \in SUBSET Nodes : Cardinality(kcs) <= MaxUpdated}

ENext == EStepping \/ \E kcs \in Updates : BeginFull(kcs) \/ BeginIncremental(kcs)

ESpec == EInit /\ [][ENext]_vars /\ WF_vars(EStepping)

---------------------------------------------------------------------------
\* Messages are sets of factors; the lists name nodes of the graph.
ETypeOK ==
  /\ parent \in Trees
  /\ records \in [Nodes -> 0..MaxRecords]
  /\ up \in [Nodes -> SUBSET Factors] /\ down \in [Nodes -> SUBSET Factors]
  /\ posterior \in [Nodes -> [outside : SUBSET Factors, below : SUBSET Factors]]
  /\ pass \in {"idle", "up", "down"} /\ full \in BOOLEAN
  /\ current \subseteq Nodes /\ next \subseteq Nodes
  /\ hasUpdated \subseteq Nodes /\ todo \subseteq Nodes

\* A node that e_step has noted in has_updated has its final message: it is
\* computed from its records and from final messages of all of its children,
\* in whatever order the set of nodes was visited (E_Step.py:28-57).
NotedIsFinal ==
  full => \A n \in hasUpdated : /\ Children(n) \subseteq hasUpdated
                                /\ up[n] = Message(n)

\* n and what is above it: what every set that holds n and the parents of its
\* members holds.  Two concepts of one tree have the root of it above them both.
Above(n) ==
  {a \in Nodes : \A S \in SUBSET Nodes :
                    n \in S /\ (\A m \in S : ParentIn(m) \subseteq S) => a \in S}
TreeOf(n) == {m \in Nodes : Above(m) \cap Above(n) # {}}

\* After an E-step of either kind the posteriors of a concept come from all the
\* records of its tree, the new ones included, and count none of them twice.
EvidenceOnce ==
  pass = "idle" /\ up # [n \in Nodes |-> {}] =>
    \A n \in Nodes :
      /\ posterior[n].outside \cap posterior[n].below = {}
      /\ posterior[n].outside \cup posterior[n].below =
           {<<m, records[m]>> : m \in TreeOf(n)}

\* e_step may compute a node again, when a child of it was visited in the same
\* round; that changes nothing.
SecondComputeIdle ==
  [][full /\ pass = "up" => \A n \in hasUpdated : up'[n] = up[n]]_vars

\* Both E-steps come to an end: no node waits for ever in the work list.
EStepEnds == pass # "idle" ~> pass = "idle"
===========================================================================
