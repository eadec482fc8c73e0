---------------------------- MODULE EStepProofs ----------------------------
(***************************************************************************)
(* Theorems about the E-step, for every set of concepts, every shape of a  *)
(* graph and every bound: what e_step notes as updated is final.           *)
(***************************************************************************)
EXTENDS EStep, WellFoundedInduction, FiniteSetTheorems, TLAPS

LEMMA ShapeType ==
  ASSUME ETypeOK
  PROVE  parent \in [Nodes -> Nodes \cup {NoParent}]
BY TreesAssumption DEF ETypeOK

LEMMA MoreRecordsType ==
  ASSUME ETypeOK, NEW kcs, MoreRecords(kcs)
  PROVE  records' \in [Nodes -> 0..MaxRecords]
BY TreesAssumption DEF ETypeOK, MoreRecords

LEMMA MessageType ==
  ASSUME ETypeOK, NEW n \in Nodes
  PROVE  Message(n) \in SUBSET Factors
BY DEF ETypeOK, Message, Children, Factors

LEMMA DownMessageType ==
  ASSUME ETypeOK, NEW n \in Nodes
  PROVE  DownMessage(n) \in SUBSET Factors
BY ShapeType DEF ETypeOK, DownMessage, ParentIn

LEMMA TypeInit == EInit => ETypeOK
<1> SUFFICES ASSUME EInit PROVE ETypeOK OBVIOUS
<1>1. up \in [Nodes -> SUBSET Factors] BY DEF EInit
<1>2. down \in [Nodes -> SUBSET Factors] BY <1>1 DEF EInit
<1>3. posterior \in [Nodes -> [outside : SUBSET Factors, below : SUBSET Factors]]
  BY DEF EInit
<1>4. records \in [Nodes -> 0..MaxRecords] BY TreesAssumption DEF EInit
<1> QED BY <1>1, <1>2, <1>3, <1>4 DEF EInit, ETypeOK

LEMMA TypeNext == ETypeOK /\ [ENext]_vars => ETypeOK'
<1> SUFFICES ASSUME ETypeOK, [ENext]_vars PROVE ETypeOK' OBVIOUS
<1>0. CASE UNCHANGED vars BY <1>0 DEF vars, ETypeOK
<1>1. ASSUME NEW kcs \in Updates, BeginFull(kcs) PROVE ETypeOK'
  BY <1>1, MoreRecordsType DEF BeginFull, ETypeOK, Leaves
<1>2. ASSUME NEW kcs \in Updates, BeginIncremental(kcs) PROVE ETypeOK'
  <2>1. PICK kc \in kcs : current' = {kc} /\ todo' = kcs \ {kc}
    BY <1>2 DEF BeginIncremental
  <2>2. kcs \subseteq Nodes BY DEF Updates
  <2> QED BY <1>2, <2>1, <2>2, MoreRecordsType DEF BeginIncremental, ETypeOK
<1>3. ASSUME NEW n \in Nodes, VisitUp(n) PROVE ETypeOK'
  <2>1. ParentIn(n) \subseteq Nodes BY ShapeType DEF ParentIn
  <2>2. CASE Compute(n)
    BY <1>3, <2>1, <2>2, MessageType DEF VisitUp, Compute, ETypeOK
  <2>3. CASE Wait(n)
    BY <1>3, <2>3 DEF VisitUp, Wait, ETypeOK
  <2> QED BY <1>3, <2>2, <2>3 DEF VisitUp
<1>4. ASSUME NEW n \in Nodes, VisitDown(n) PROVE ETypeOK'
  BY <1>4, DownMessageType DEF VisitDown, ETypeOK, Children
<1>5. CASE NextUpRound BY <1>5 DEF NextUpRound, ETypeOK, Roots
<1>6. CASE NextDownRound BY <1>6 DEF NextDownRound, ETypeOK
<1>7. CASE EndPass
  <2>1. posterior' \in [Nodes -> [outside : SUBSET Factors, below : SUBSET Factors]]
    BY <1>7 DEF EndPass, Posteriors, ETypeOK
  <2>2. current' \subseteq Nodes /\ todo' \subseteq Nodes /\ pass' \in {"idle", "up", "down"}
    BY <1>7 DEF EndPass, ETypeOK
  <2> QED BY <1>7, <2>1, <2>2 DEF EndPass, ETypeOK
<1> QED BY <1>0, <1>1, <1>2, <1>3, <1>4, <1>5, <1>6, <1>7 DEF ENext, EStepping

\* Whatever the shape and the order, messages are sets of the graph's factors
\* and the work lists name its nodes.
THEOREM EStepTypeCorrect == ESpec => []ETypeOK
BY TypeInit, TypeNext, PTL DEF ESpec

---------------------------------------------------------------------------
\* The invariant is inductive with the types.  To compute a noted node again
\* leaves its message as it is, so the messages above it stay right; to compute
\* a node for the first time changes no message that a noted node has read,
\* since all children of a noted node are noted.
LEMMA NotedNext ==
  ETypeOK /\ NotedIsFinal /\ [ENext]_vars => NotedIsFinal'
<1> SUFFICES ASSUME ETypeOK, NotedIsFinal, [ENext]_vars PROVE NotedIsFinal'
  OBVIOUS
<1>0. CASE UNCHANGED vars BY <1>0 DEF vars, NotedIsFinal, Children, Message
<1>1. ASSUME NEW kcs \in Updates, BeginFull(kcs) PROVE NotedIsFinal'
  BY <1>1 DEF BeginFull, NotedIsFinal
<1>2. ASSUME NEW kcs \in Updates, BeginIncremental(kcs) PROVE NotedIsFinal'
  BY <1>2 DEF BeginIncremental, NotedIsFinal
<1>3. ASSUME NEW n \in Nodes, VisitUp(n) PROVE NotedIsFinal'
  <2>1. CASE Wait(n)
    BY <1>3, <2>1 DEF VisitUp, Wait, NotedIsFinal, Children, Message
  <2>2. CASE Ready(n) /\ Compute(n)
    <3> SUFFICES ASSUME full, NEW m \in hasUpdated'
                 PROVE  Children(m) \subseteq hasUpdated' /\ up'[m] = Message(m)'
      BY <1>3 DEF VisitUp, NotedIsFinal, Children
    <3>1. m \in Nodes BY <1>3, <2>2 DEF VisitUp, Compute, ETypeOK
    <3>2. Children(m) \subseteq hasUpdated
      BY <2>2 DEF Compute, Ready, NotedIsFinal
    <3>3. n \in hasUpdated => up' = up
      BY <2>2 DEF Compute, NotedIsFinal, ETypeOK
    <3>4. \A c \in hasUpdated : up'[c] = up[c]
      BY <2>2, <3>3 DEF Compute, ETypeOK
    <3>5. Message(m)' = {<<m, records[m]>>} \cup UNION {up'[c] : c \in Children(m)}
      BY <1>3 DEF VisitUp, Message, Children
    <3>6. UNION {up'[c] : c \in Children(m)} = UNION {up[c] : c \in Children(m)}
      BY <3>2, <3>4
    <3>7. up'[m] = Message(m)
      <4>1. CASE m = n BY <4>1, <2>2 DEF Compute, ETypeOK
      <4>2. CASE m # n BY <4>2, <2>2, <3>4 DEF Compute, NotedIsFinal
      <4> QED BY <4>1, <4>2
    <3> QED BY <2>2, <3>2, <3>5, <3>6, <3>7 DEF Compute, Message
  <2> QED BY <1>3, <2>1, <2>2 DEF VisitUp
<1>4. ASSUME NEW n \in Nodes, VisitDown(n) PROVE NotedIsFinal'
  BY <1>4 DEF VisitDown, NotedIsFinal, Children, Message
<1>5. CASE NextUpRound BY <1>5 DEF NextUpRound, NotedIsFinal, Children, Message
<1>6. CASE NextDownRound BY <1>6 DEF NextDownRound, NotedIsFinal, Children, Message
<1>7. CASE EndPass BY <1>7 DEF EndPass, NotedIsFinal, Children, Message
<1> QED BY <1>0, <1>1, <1>2, <1>3, <1>4, <1>5, <1>6, <1>7 DEF ENext, EStepping

LEMMA NotedInit == EInit => NotedIsFinal
BY DEF EInit, NotedIsFinal

\* Every node in has_updated has its final message, computed from final ones.
THEOREM NotedFinal == ESpec => []NotedIsFinal
<1>1. EInit => ETypeOK /\ NotedIsFinal BY TypeInit, NotedInit
<1>2. ETypeOK /\ NotedIsFinal /\ [ENext]_vars => (ETypeOK /\ NotedIsFinal)'
  BY TypeNext, NotedNext
<1> QED BY <1>1, <1>2, PTL DEF ESpec

LEMMA SecondStep ==
  ETypeOK /\ NotedIsFinal /\ [ENext]_vars =>
    [full /\ pass = "up" => \A n \in hasUpdated : up'[n] = up[n]]_vars
<1> SUFFICES ASSUME ETypeOK, NotedIsFinal, [ENext]_vars, full, NEW m \in hasUpdated
             PROVE  up'[m] = up[m]
  OBVIOUS
<1>1. ASSUME NEW n \in Nodes, VisitUp(n) PROVE up'[m] = up[m]
  BY <1>1 DEF VisitUp, Compute, Wait, NotedIsFinal, ETypeOK
<1>2. ASSUME NEW n \in Nodes, VisitDown(n) PROVE up'[m] = up[m]
  BY <1>2 DEF VisitDown
<1> QED BY <1>1, <1>2 DEF ENext, EStepping, BeginFull, BeginIncremental,
             NextUpRound, NextDownRound, EndPass, vars

\* Computing a noted node a second time changes nothing.
THEOREM SecondComputeChangesNothing == ESpec => SecondComputeIdle
BY TypeInit, TypeNext, NotedInit, NotedNext, SecondStep, PTL
  DEF ESpec, SecondComputeIdle

---------------------------------------------------------------------------
(* The shape: what is above a concept and what is below it.                *)

Closed(S) == \A m \in S : ParentIn(m) \subseteq S
Below(n) == {m \in Nodes : n \in Above(m)}

LEMMA Highest ==
  ASSUME parent \in Trees, NEW S \in SUBSET Nodes, S # {}
  PROVE  \E n \in S : parent[n] \notin S
BY ForestAssumption

LEMMA AboveIs ==
  ASSUME parent \in Trees, NEW n \in Nodes
  PROVE  /\ n \in Above(n) /\ Above(n) \subseteq Nodes /\ Closed(Above(n))
         /\ \A S \in SUBSET Nodes : n \in S /\ Closed(S) => Above(n) \subseteq S
<1>1. Above(n) = {a \in Nodes : \A S \in SUBSET Nodes : n \in S /\ Closed(S) => a \in S}
  BY DEF Above, Closed
<1>2. \A m \in Nodes : ParentIn(m) \subseteq Nodes BY TreesAssumption DEF ParentIn
<1> QED BY <1>1, <1>2 DEF Closed

LEMMA ParentIs ==
  ASSUME parent \in Trees, NEW n \in Nodes
  PROVE  /\ n \in Roots => ParentIn(n) = {}
         /\ n \notin Roots => parent[n] \in Nodes /\ ParentIn(n) = {parent[n]}
BY TreesAssumption DEF ParentIn, Roots

LEMMA AboveRoot ==
  ASSUME parent \in Trees, NEW n \in Roots
  PROVE  n \in Nodes /\ Above(n) = {n}
<1>1. n \in Nodes /\ Closed({n}) BY ParentIs DEF Closed, Roots
<1> QED BY <1>1, AboveIs

LEMMA AboveChild ==
  ASSUME parent \in Trees, NEW n \in Nodes \ Roots
  PROVE  /\ parent[n] \in Nodes
         /\ Above(n) = {n} \cup Above(parent[n])
         /\ n \notin Above(parent[n])
<1> DEFINE p == parent[n]
<1>1. p \in Nodes /\ ParentIn(n) = {p} BY ParentIs
<1>2. Above(n) = {n} \cup Above(p)
  <2>1. p \in Above(n) BY <1>1, AboveIs DEF Closed
  <2>2. Above(p) \subseteq Above(n) BY <1>1, <2>1, AboveIs
  <2>3. Closed({n} \cup Above(p)) BY <1>1, AboveIs DEF Closed
  <2>4. {n} \cup Above(p) \in SUBSET Nodes BY <1>1, AboveIs
  <2> QED BY <1>1, <2>2, <2>3, <2>4, AboveIs
<1>3. n \notin Above(p)
  <2> SUFFICES ASSUME n \in Above(p) PROVE FALSE OBVIOUS
  <2> DEFINE S == {m \in Above(n) : n \in Above(m)}
  <2>1. n \in S /\ S \in SUBSET Nodes BY AboveIs
  <2>2. PICK m \in S : parent[m] \notin S
    <3>1. S # {} BY <2>1
    <3> HIDE DEF S
    <3> QED BY <2>1, <3>1, Highest
  <2>3. m \in Nodes /\ m \in Above(n) /\ n \in Above(m) BY <2>1
  <2>4. CASE m = n
    BY <1>1, <1>2, <2>2, <2>4, AboveIs
  <2>5. CASE m # n
    <3>1. m \notin Roots BY <2>3, <2>5, AboveRoot
    <3>2. parent[m] \in Nodes /\ ParentIn(m) = {parent[m]} BY <2>3, <3>1, ParentIs
    <3>3. parent[m] \in Above(n) BY <2>3, <3>2, AboveIs DEF Closed
    <3>4. n \in Above(parent[m])
      <4>1. Closed({m} \cup Above(parent[m])) BY <3>2, AboveIs DEF Closed
      <4>2. {m} \cup Above(parent[m]) \in SUBSET Nodes BY <2>3, <3>2, AboveIs
      <4>3. Above(m) \subseteq {m} \cup Above(parent[m]) BY <2>3, <4>1, <4>2, AboveIs
      <4> QED BY <2>3, <2>5, <4>3
    <3> QED BY <2>2, <3>3, <3>4
  <2> QED BY <2>4, <2>5
<1> QED BY <1>1, <1>2, <1>3

\* A non-empty set of numbers has a least member.
LEMMA Least == ASSUME NEW T \in SUBSET Nat, T # {} PROVE \E x \in T : \A y \in T : x <= y
<1> DEFINE R == OpToRel(<, Nat)
<1>1. \A x, y \in Nat : x < y => <<x, y>> \in R BY DEF OpToRel
<1>2. IsWellFoundedOn(R, Nat) BY NatLessThanWellFounded
<1> HIDE DEF R
<1>3. PICK x \in T : \A y \in T : ~ (<<y, x>> \in R) BY <1>2, WFMin
<1>4. ASSUME NEW y \in T PROVE x <= y
  <2>1. x \in Nat /\ y \in Nat /\ ~(y < x) BY <1>1, <1>3
  <2> QED BY <2>1
<1> QED BY <1>4

\* Every set of concepts has a lowest one, which no child of is in the set: the
\* assumption on shapes says the same of the parents.
LEMMA Lowest ==
  ASSUME parent \in Trees, NEW S \in SUBSET Nodes, S # {}
  PROVE  \E n \in S : Children(n) \cap S = {}
<1> DEFINE depth(n) == Cardinality(Above(n))
           k == Cardinality(Nodes)
           T == {k - depth(n) : n \in S}
<1>1. k \in Nat /\ IsFiniteSet(Nodes) BY ForestAssumption, FS_CardinalityType
<1>2. \A n \in Nodes : IsFiniteSet(Above(n)) /\ depth(n) \in Nat /\ depth(n) <= k
  BY <1>1, AboveIs, FS_Subset, FS_CardinalityType
<1>3. T \in SUBSET Nat /\ T # {} BY <1>1, <1>2
<1>4. PICK t \in T : \A y \in T : t <= y
  <2> HIDE DEF T
  <2> QED BY <1>3, Least
<1>5. PICK n \in S : t = k - depth(n) OBVIOUS
<1>6. ASSUME NEW c \in Children(n) \cap S PROVE FALSE
  <2>1. c \in Nodes \ Roots /\ parent[c] = n /\ n \in Nodes
    BY TreesAssumption DEF Children, Roots
  <2>2. Above(c) = {c} \cup Above(n) /\ c \notin Above(n) BY <2>1, AboveChild
  <2>3. depth(c) = depth(n) + 1
    <3>1. Above(c) = Above(n) \cup {c} /\ IsFiniteSet(Above(n)) BY <1>2, <2>1, <2>2
    <3> QED BY <2>2, <3>1, FS_AddElement
  <2>4. k - depth(n) <= k - depth(c) BY <1>4, <1>5, <1>6
  <2> HIDE DEF depth, k
  <2> QED BY <1>1, <1>2, <2>1, <2>3, <2>4
<1> QED BY <1>6

\* What is above m leads from m through a child of n to n.
LEMMA Between ==
  ASSUME parent \in Trees, NEW m \in Nodes, NEW n \in Above(m), n # m
  PROVE  \E c \in Children(n) : c \in Above(m)
<1> SUFFICES ASSUME \A c \in Children(n) : c \notin Above(m) PROVE FALSE OBVIOUS
<1>1. Above(m) \ {n} \in SUBSET Nodes /\ m \in Above(m) \ {n} BY AboveIs
<1>2. ASSUME NEW x \in Above(m) \ {n} PROVE ParentIn(x) \subseteq Above(m) \ {n}
  <2>1. x \in Nodes /\ ParentIn(x) \subseteq Above(m) BY AboveIs DEF Closed
  <2>2. n \notin ParentIn(x) BY <2>1 DEF ParentIn, Children
  <2> QED BY <2>1, <2>2
<1>3. Closed(Above(m) \ {n}) BY <1>2 DEF Closed
<1> QED BY <1>1, <1>3, AboveIs

LEMMA ChildIs ==
  ASSUME parent \in Trees, NEW n \in Nodes, NEW c \in Children(n)
  PROVE  c \in Nodes \ Roots /\ parent[c] = n /\ c # n
<1>1. c \in Nodes \ Roots /\ parent[c] = n BY TreesAssumption DEF Children, Roots
<1> QED BY <1>1, AboveChild, AboveIs

LEMMA BelowIs ==
  ASSUME parent \in Trees, NEW n \in Nodes
  PROVE  /\ n \in Below(n) /\ Below(n) \subseteq Nodes
         /\ \A m \in Nodes : m \in Below(n) <=> m = n \/ \E c \in Children(n) : m \in Below(c)
<1>1. ASSUME NEW m \in Nodes, NEW c \in Children(n), m \in Below(c) PROVE m \in Below(n)
  <2>1. c \in Above(m) /\ ParentIn(c) = {n} BY <1>1, ChildIs, ParentIs DEF Below
  <2> QED BY <2>1, AboveIs DEF Below, Closed
<1>2. ASSUME NEW m \in Below(n), m # n PROVE \E c \in Children(n) : m \in Below(c)
  BY <1>2, Between DEF Below
<1>3. n \in Below(n) /\ Below(n) \subseteq Nodes BY AboveIs DEF Below
<1> QED BY <1>1, <1>2, <1>3

LEMMA TreeIs ==
  ASSUME parent \in Trees, NEW n \in Nodes
  PROVE  /\ Below(n) \subseteq TreeOf(n) /\ TreeOf(n) \subseteq Nodes
         /\ n \in Roots => TreeOf(n) = Below(n)
         /\ n \notin Roots => TreeOf(n) = TreeOf(parent[n]) /\ Below(n) \subseteq Below(parent[n])
<1>1. Below(n) \subseteq TreeOf(n) /\ TreeOf(n) \subseteq Nodes BY AboveIs DEF Below, TreeOf
<1>2. n \in Roots => TreeOf(n) = Below(n) BY AboveRoot DEF TreeOf, Below
<1>3. ASSUME n \notin Roots
      PROVE  TreeOf(n) = TreeOf(parent[n]) /\ Below(n) \subseteq Below(parent[n])
  <2>1. parent[n] \in Nodes /\ Above(n) = {n} \cup Above(parent[n]) BY <1>3, AboveChild
  <2>2. parent[n] \in Above(parent[n]) BY <2>1, AboveIs
  <2>3. \A m \in Nodes : n \in Above(m) => parent[n] \in Above(m)
    BY <1>3, AboveIs, ParentIs DEF Closed
  <2> QED BY <2>1, <2>2, <2>3 DEF TreeOf, Below
<1> QED BY <1>1, <1>2, <1>3

---------------------------------------------------------------------------
(* What the messages are once none of them waits to be computed.           *)

Own(S) == {<<m, records[m]>> : m \in S}

LEMMA UpIsBelow ==
  ASSUME parent \in Trees, \A n \in Nodes : up[n] = Message(n), NEW n \in Nodes
  PROVE  up[n] = Own(Below(n))
<1> DEFINE S == {m \in Nodes : up[m] # Own(Below(m))}
<1> SUFFICES ASSUME S # {} PROVE FALSE OBVIOUS
<1>1. PICK m \in S : Children(m) \cap S = {}
  <2>1. S \in SUBSET Nodes OBVIOUS
  <2> HIDE DEF S
  <2> QED BY <2>1, Lowest
<1>2. \A c \in Children(m) : up[c] = Own(Below(c)) BY <1>1 DEF Children
<1>3. up[m] = {<<m, records[m]>>} \cup UNION {Own(Below(c)) : c \in Children(m)}
  BY <1>2 DEF Message
<1>4. {<<m, records[m]>>} \cup UNION {Own(Below(c)) : c \in Children(m)} = Own(Below(m))
  <2>1. Below(m) = {m} \cup UNION {Below(c) : c \in Children(m)}
    <3>1. \A c \in Children(m) : Below(c) \subseteq Nodes BY DEF Below
    <3> QED BY <3>1, BelowIs
  <2> QED BY <2>1 DEF Own
<1> QED BY <1>3, <1>4

LEMMA DownIsOutside ==
  ASSUME parent \in Trees, \A n \in Nodes : up[n] = Message(n),
         \A n \in Nodes : down[n] = DownMessage(n), NEW n \in Nodes
  PROVE  down[n] = Own(TreeOf(n) \ Below(n))
<1> DEFINE S == {m \in Nodes : down[m] # Own(TreeOf(m) \ Below(m))}
<1> SUFFICES ASSUME S # {} PROVE FALSE OBVIOUS
<1>1. PICK m \in S : parent[m] \notin S
  <2>1. S \in SUBSET Nodes OBVIOUS
  <2> HIDE DEF S
  <2> QED BY <2>1, Highest
<1>2. CASE m \in Roots
  <2>1. ParentIn(m) = {} /\ TreeOf(m) = Below(m) BY <1>2, ParentIs, TreeIs
  <2> QED BY <2>1 DEF DownMessage, Own
<1>3. CASE m \notin Roots
  <2> DEFINE p == parent[m]
  <2>1. p \in Nodes /\ ParentIn(m) = {p} BY <1>3, ParentIs
  <2>2. down[p] = Own(TreeOf(p) \ Below(p)) BY <1>1, <2>1
  <2>3. up[p] = Own(Below(p)) /\ up[m] = Own(Below(m)) BY <2>1, UpIsBelow
  <2>4. down[m] = down[p] \cup (up[p] \ up[m]) BY <2>1 DEF DownMessage
  <2>5. TreeOf(m) = TreeOf(p) /\ Below(m) \subseteq Below(p) /\ Below(p) \subseteq TreeOf(p)
    BY <1>3, <2>1, TreeIs
  <2>6. Own(Below(p)) \ Own(Below(m)) = Own(Below(p) \ Below(m)) BY DEF Own
  <2> HIDE DEF p
  <2>7. Own(TreeOf(p) \ Below(p)) \cup Own(Below(p) \ Below(m)) = Own(TreeOf(m) \ Below(m))
    BY <2>5 DEF Own
  <2> QED BY <2>2, <2>3, <2>4, <2>6, <2>7
<1> QED BY <1>2, <1>3

---------------------------------------------------------------------------
(* The work lists: whatever is not as it should be yet waits in them.      *)

Pending == current \cup next
UpDone == \A n \in Nodes : up[n] = Message(n)

\* The full upward pass ends with every node noted: one that is neither noted
\* nor in a list waits for a child that is not noted.
WorkInv ==
  /\ pass = "idle" => todo = {} /\ Pending = {}
  /\ full => todo = {}
  /\ full /\ pass = "up" =>
       \A n \in Nodes : n \in hasUpdated \cup Pending \/ ~(Children(n) \subseteq hasUpdated)
  /\ full /\ pass = "down" => hasUpdated = Nodes

\* The incremental one leaves a message behind only where a new record or a
\* changed message below is still in a list.
UpInv ==
  /\ ~full /\ pass = "up" => \A n \in Nodes \ (todo \cup Pending) : up[n] = Message(n)
  /\ pass = "down" => \A n \in Nodes \ todo : up[n] = Message(n)
  /\ pass = "idle" => up = [n \in Nodes |-> {}] \/ UpDone

\* The downward pass: a message is right, or one above it is still to be visited.
DownInv ==
  pass = "down" =>
    \A n \in Nodes : down[n] = DownMessage(n) \/ Above(n) \cap Pending # {}

EvidenceInv == ETypeOK /\ NotedIsFinal /\ WorkInv /\ UpInv /\ DownInv /\ EvidenceOnce

LEMMA EvidenceInit == EInit => EvidenceInv
<1> SUFFICES ASSUME EInit PROVE EvidenceInv OBVIOUS
<1>1. ETypeOK /\ NotedIsFinal BY TypeInit, NotedInit
<1>2. WorkInv /\ UpInv /\ DownInv /\ EvidenceOnce
  BY DEF EInit, WorkInv, UpInv, DownInv, EvidenceOnce, Pending
<1> QED BY <1>1, <1>2 DEF EvidenceInv

LEMMA AllNoted ==
  ASSUME EvidenceInv, full, pass = "up", Pending = {}
  PROVE  hasUpdated = Nodes
<1>1. parent \in Trees /\ hasUpdated \subseteq Nodes BY DEF EvidenceInv, ETypeOK
<1> DEFINE S == Nodes \ hasUpdated
<1> SUFFICES ASSUME S # {} PROVE FALSE BY <1>1
<1>2. PICK n \in S : Children(n) \cap S = {}
  <2>1. S \in SUBSET Nodes OBVIOUS
  <2> HIDE DEF S
  <2> QED BY <1>1, <2>1, Lowest
<1>3. Children(n) \subseteq hasUpdated BY <1>2 DEF Children
<1> QED BY <1>2, <1>3 DEF EvidenceInv, WorkInv

LEMMA BeginsKeep ==
  ASSUME EvidenceInv, NEW kcs \in Updates, BeginFull(kcs) \/ BeginIncremental(kcs)
  PROVE  WorkInv' /\ UpInv' /\ DownInv' /\ EvidenceOnce'
<1>1. pass = "idle" /\ pass' = "up" /\ todo = {} /\ Pending = {} /\ UNCHANGED <<parent, up, next>>
  BY DEF BeginFull, BeginIncremental, EvidenceInv, WorkInv
<1>2. DownInv' /\ EvidenceOnce' BY <1>1 DEF DownInv, EvidenceOnce
<1>3. CASE BeginFull(kcs)
  <2>1. /\ full' /\ current' = Leaves /\ hasUpdated' = {} /\ todo' = {}
    BY <1>1, <1>3 DEF BeginFull
  <2>2. \A n \in Nodes : Children(n)' = Children(n) BY <1>1 DEF Children
  <2>3. WorkInv' BY <1>1, <2>1, <2>2 DEF WorkInv, Pending, Leaves
  <2>4. UpInv' BY <1>1, <2>1 DEF UpInv
  <2> QED BY <1>2, <2>3, <2>4
<1>4. CASE BeginIncremental(kcs)
  <2>1. /\ ~full' /\ kcs # {} /\ \A kc \in kcs : up[kc] # {}
        /\ todo' \cup current' = kcs
        /\ \A n \in Nodes \ kcs : records'[n] = records[n]
        /\ kcs \subseteq Nodes
    BY <1>1, <1>4 DEF BeginIncremental, MoreRecords, Updates
  <2>2. UpDone
    <3>1. up # [n \in Nodes |-> {}] BY <2>1
    <3> QED BY <1>1, <3>1 DEF EvidenceInv, UpInv
  <2>3. ASSUME NEW n \in Nodes \ (todo' \cup Pending') PROVE up'[n] = Message(n)'
    <3>1. n \in Nodes \ kcs BY <2>1 DEF Pending
    <3>2. Message(n)' = Message(n) BY <1>1, <2>1, <3>1 DEF Message, Children
    <3> QED BY <1>1, <2>2, <3>1, <3>2 DEF UpDone
  <2>4. UpInv' BY <1>1, <2>1, <2>3 DEF UpInv
  <2>5. WorkInv' BY <1>1, <2>1 DEF WorkInv
  <2> QED BY <1>2, <2>4, <2>5
<1> QED BY <1>3, <1>4

LEMMA VisitUpKeeps ==
  ASSUME EvidenceInv, NEW n \in Nodes, VisitUp(n)
  PROVE  WorkInv' /\ UpInv' /\ DownInv' /\ EvidenceOnce'
<1>1. /\ pass = "up" /\ n \in current /\ current' = current \ {n}
      /\ UNCHANGED <<parent, records, down, posterior, pass, full, todo>>
      /\ parent \in Trees /\ hasUpdated \subseteq Nodes
  BY DEF VisitUp, EvidenceInv, ETypeOK
<1>2. DownInv' /\ EvidenceOnce' BY <1>1 DEF DownInv, EvidenceOnce
<1>3. \A m \in Nodes : Children(m)' = Children(m) BY <1>1 DEF Children
<1>4. CASE ~Ready(n) /\ Wait(n)
  <2>1. /\ full /\ next' = next \cup {n} /\ UNCHANGED <<up, hasUpdated>>
        /\ Pending' = Pending
    BY <1>1, <1>4 DEF Ready, Wait, Pending
  <2>2. WorkInv' BY <1>1, <1>3, <2>1 DEF EvidenceInv, WorkInv
  <2>3. UpInv' BY <1>1, <2>1 DEF UpInv
  <2> QED BY <1>2, <2>2, <2>3
<1>5. CASE Ready(n) /\ Compute(n)
  <2>1. /\ up' = [up EXCEPT ![n] = Message(n)] /\ next' = next \cup ParentIn(n)
        /\ hasUpdated' = IF full THEN hasUpdated \cup {n} ELSE hasUpdated
        /\ DOMAIN up = Nodes
    BY <1>5 DEF Compute, EvidenceInv, ETypeOK
  <2>2. Pending \ {n} \subseteq Pending' /\ ParentIn(n) \subseteq Pending'
    BY <1>1, <2>1 DEF Pending
  <2>3. \A m \in Nodes : n \in Children(m) => m \in ParentIn(n)
    BY <1>1, TreesAssumption DEF Children, ParentIn
  <2>4. WorkInv'
    <3>1. ASSUME full, NEW m \in Nodes
          PROVE  m \in hasUpdated' \cup Pending' \/ ~(Children(m)' \subseteq hasUpdated')
      <4>1. CASE m = n BY <2>1, <3>1, <4>1
      <4>2. CASE n \in Children(m) BY <2>2, <2>3, <4>2
      <4>3. CASE m # n /\ n \notin Children(m)
        <5>1. m \in hasUpdated \cup Pending \/ ~(Children(m) \subseteq hasUpdated)
          BY <1>1, <3>1 DEF EvidenceInv, WorkInv
        <5> QED BY <1>3, <2>1, <2>2, <3>1, <4>3, <5>1
      <4> QED BY <4>1, <4>2, <4>3
    <3> QED BY <1>1, <3>1 DEF EvidenceInv, WorkInv
  <2>5. UpInv'
    <3>1. ASSUME ~full, NEW m \in Nodes \ (todo' \cup Pending') PROVE up'[m] = Message(m)'
      <4>1. n \notin Children(m) BY <2>2, <2>3, <3>1
      <4>2. Message(m)' = Message(m)
        <5>1. \A c \in Children(m) : up'[c] = up[c] BY <2>1, <4>1 DEF Children
        <5>2. {up'[c] : c \in Children(m)'} = {up[c] : c \in Children(m)} BY <1>3, <5>1
        <5> QED BY <1>1, <5>2 DEF Message
      <4>3. CASE m = n BY <2>1, <4>2, <4>3
      <4>4. CASE m # n
        <5>1. m \in Nodes \ (todo \cup Pending) BY <1>1, <2>2, <3>1, <4>4
        <5> QED BY <1>1, <2>1, <3>1, <4>2, <4>4, <5>1 DEF EvidenceInv, UpInv
      <4> QED BY <4>3, <4>4
    <3> QED BY <1>1, <3>1 DEF UpInv
  <2> QED BY <1>2, <2>4, <2>5
<1> QED BY <1>4, <1>5 DEF VisitUp

LEMMA NextUpKeeps ==
  ASSUME EvidenceInv, NextUpRound
  PROVE  WorkInv' /\ UpInv' /\ DownInv' /\ EvidenceOnce'
<1>1. /\ pass = "up" /\ current = {} /\ next' = {}
      /\ UNCHANGED <<parent, records, up, down, posterior, full, hasUpdated, todo>>
      /\ parent \in Trees
  BY DEF NextUpRound, EvidenceInv, ETypeOK
<1>2. \A m \in Nodes : Children(m)' = Children(m) /\ Message(m)' = Message(m)
  BY <1>1 DEF Children, Message
<1>3. CASE next # {}
  <2>1. current' = next /\ pass' = pass /\ Pending' = Pending
    BY <1>1, <1>3 DEF NextUpRound, Pending
  <2> QED BY <1>1, <1>2, <2>1 DEF EvidenceInv, WorkInv, UpInv, DownInv, EvidenceOnce
<1>4. CASE next = {}
  <2>1. pass' = "down" /\ current' = Roots /\ Pending = {} /\ Pending' = Roots
    BY <1>1, <1>4 DEF NextUpRound, Pending
  <2>2. full => hasUpdated = Nodes BY <1>1, <2>1, AllNoted
  <2>3. WorkInv' BY <1>1, <2>1, <2>2 DEF EvidenceInv, WorkInv
  <2>4. \A m \in Nodes \ todo : up[m] = Message(m)
    BY <1>1, <2>1, <2>2 DEF EvidenceInv, UpInv, NotedIsFinal
  <2>5. UpInv' BY <1>1, <1>2, <2>1, <2>4 DEF UpInv
  <2>6. ASSUME NEW m \in Nodes PROVE Above(m) \cap Roots # {}
    <3>1. Above(m) \in SUBSET Nodes /\ Above(m) # {} BY <1>1, AboveIs
    <3>2. PICK r \in Above(m) : parent[r] \notin Above(m) BY <1>1, <3>1, Highest
    <3>3. r \in Nodes /\ ParentIn(r) \subseteq Above(m) BY <1>1, <3>1, AboveIs DEF Closed
    <3>4. r \in Roots BY <1>1, <3>2, <3>3, ParentIs
    <3> QED BY <3>4
  <2>7. \A m \in Nodes : Above(m)' = Above(m) BY <1>1 DEF Above, ParentIn
  <2>8. DownInv' BY <2>1, <2>6, <2>7 DEF DownInv
  <2> QED BY <2>1, <2>3, <2>5, <2>8 DEF EvidenceOnce
<1> QED BY <1>3, <1>4

LEMMA VisitDownKeeps ==
  ASSUME EvidenceInv, NEW n \in Nodes, VisitDown(n)
  PROVE  WorkInv' /\ UpInv' /\ DownInv' /\ EvidenceOnce'
<1>1. /\ pass = "down" /\ n \in current /\ current' = current \ {n}
      /\ down' = [down EXCEPT ![n] = DownMessage(n)] /\ next' = next \cup Children(n)
      /\ UNCHANGED <<parent, records, up, posterior, pass, full, hasUpdated, todo>>
      /\ parent \in Trees /\ DOMAIN down = Nodes
  BY DEF VisitDown, EvidenceInv, ETypeOK
<1>2. \A m \in Nodes : Message(m)' = Message(m) /\ Above(m)' = Above(m)
  BY <1>1 DEF Message, Children, Above, ParentIn
<1>3. WorkInv' /\ EvidenceOnce' BY <1>1 DEF EvidenceInv, WorkInv, EvidenceOnce
<1>4. UpInv' BY <1>1, <1>2 DEF EvidenceInv, UpInv
<1>5. Pending \ {n} \subseteq Pending' /\ Children(n) \subseteq Pending' BY <1>1 DEF Pending
<1>6. ASSUME NEW m \in Nodes PROVE down'[m] = DownMessage(m)' \/ Above(m) \cap Pending' # {}
  <2>1. CASE m \in Children(n) BY <1>1, <1>5, <2>1, AboveIs
  <2>2. CASE m \notin Children(n)
    <3>1. n \notin ParentIn(m) BY <2>2 DEF ParentIn, Children
    <3>2. ParentIn(m)' = ParentIn(m) BY <1>1 DEF ParentIn
    <3>3. \A p \in ParentIn(m) : p \in Nodes /\ down'[p] = down[p]
      BY <1>1, <3>1, ParentIs
    <3>4. {down'[p] \cup (up'[p] \ up'[m]) : p \in ParentIn(m)'}
            = {down[p] \cup (up[p] \ up[m]) : p \in ParentIn(m)}
      BY <1>1, <3>2, <3>3
    <3>5. DownMessage(m)' = DownMessage(m) BY <3>4 DEF DownMessage
    <3>6. CASE m = n BY <1>1, <3>5, <3>6
    <3>7. CASE m # n /\ down[m] = DownMessage(m) BY <1>1, <3>5, <3>7
    <3>8. CASE m # n /\ down[m] # DownMessage(m)
      <4>1. PICK a \in Above(m) : a \in Pending BY <1>1, <3>8 DEF EvidenceInv, DownInv
      <4>2. CASE a # n BY <1>5, <4>1, <4>2
      <4>3. CASE a = n BY <1>1, <1>5, <3>8, <4>1, <4>3, Between
      <4> QED BY <4>2, <4>3
    <3> QED BY <3>6, <3>7, <3>8
  <2> QED BY <2>1, <2>2
<1>7. DownInv' BY <1>2, <1>6 DEF DownInv
<1> QED BY <1>3, <1>4, <1>7

LEMMA EndPassKeeps ==
  ASSUME EvidenceInv, EndPass
  PROVE  WorkInv' /\ UpInv' /\ DownInv' /\ EvidenceOnce'
<1>1. /\ pass = "down" /\ current = {} /\ next = {} /\ posterior' = Posteriors
      /\ UNCHANGED <<parent, records, up, down, full, next, hasUpdated>>
      /\ parent \in Trees /\ Pending = {}
  BY DEF EndPass, EvidenceInv, ETypeOK, Pending
<1>2. \A m \in Nodes : Message(m)' = Message(m) BY <1>1 DEF Message, Children
<1>3. \A m \in Nodes : down[m] = DownMessage(m) BY <1>1 DEF EvidenceInv, DownInv
<1>4. \A m \in Nodes \ todo : up[m] = Message(m) BY <1>1 DEF EvidenceInv, UpInv
<1>5. CASE todo = {}
  <2>1. pass' = "idle" /\ UNCHANGED <<current, todo>> BY <1>5 DEF EndPass
  <2>2. WorkInv' BY <1>1, <1>5, <2>1 DEF WorkInv, Pending
  <2>3. UpInv' BY <1>1, <1>2, <1>4, <1>5, <2>1 DEF UpInv, UpDone
  <2>4. DownInv' BY <2>1 DEF DownInv
  <2>5. EvidenceOnce'
    <3>1. ASSUME NEW m \in Nodes
          PROVE  /\ up[m] = Own(Below(m)) /\ down[m] = Own(TreeOf(m) \ Below(m))
                 /\ Below(m) \subseteq TreeOf(m)
      BY <1>1, <1>3, <1>4, <1>5, UpIsBelow, DownIsOutside, TreeIs
    <3>2. \A m \in Nodes : TreeOf(m)' = TreeOf(m) BY <1>1 DEF TreeOf, Above, ParentIn
    <3>3. \A m \in Nodes : posterior'[m].outside = down[m] /\ posterior'[m].below = up[m]
      BY <1>1 DEF Posteriors
    <3>4. ASSUME NEW m \in Nodes
          PROVE  /\ posterior'[m].outside \cap posterior'[m].below = {}
                 /\ posterior'[m].outside \cup posterior'[m].below
                      = {<<a, records'[a]>> : a \in TreeOf(m)'}
      <4>1. /\ Own(TreeOf(m) \ Below(m)) \cap Own(Below(m)) = {}
            /\ Own(TreeOf(m) \ Below(m)) \cup Own(Below(m)) = Own(TreeOf(m))
        BY <3>1 DEF Own
      <4>2. Own(TreeOf(m)) = {<<a, records'[a]>> : a \in TreeOf(m)'} BY <1>1, <3>2 DEF Own
      <4> QED BY <3>1, <3>3, <4>1, <4>2
    <3> QED BY <3>4 DEF EvidenceOnce
  <2> QED BY <2>2, <2>3, <2>4, <2>5
<1>6. CASE todo # {}
  <2>1. pass' = "up" /\ todo = todo' \cup current' /\ ~full
    BY <1>1, <1>6 DEF EndPass, EvidenceInv, WorkInv
  <2>2. WorkInv' BY <1>1, <2>1 DEF WorkInv
  <2>3. UpInv' BY <1>1, <1>2, <1>4, <2>1 DEF UpInv, Pending
  <2> QED BY <2>1, <2>2, <2>3 DEF DownInv, EvidenceOnce
<1> QED BY <1>5, <1>6

LEMMA EvidenceNext == EvidenceInv /\ [ENext]_vars => EvidenceInv'
<1> SUFFICES ASSUME EvidenceInv, [ENext]_vars PROVE EvidenceInv' OBVIOUS
<1>1. ETypeOK' /\ NotedIsFinal' BY TypeNext, NotedNext DEF EvidenceInv
<1>2. CASE UNCHANGED vars
  <2>1. \A m \in Nodes : /\ Message(m)' = Message(m) /\ DownMessage(m)' = DownMessage(m)
                         /\ Above(m)' = Above(m) /\ TreeOf(m)' = TreeOf(m)
                         /\ Children(m)' = Children(m)
    BY <1>2 DEF vars, Message, DownMessage, Above, TreeOf, ParentIn, Children
  <2> QED BY <1>1, <1>2, <2>1 DEF vars, EvidenceInv, WorkInv, UpInv, UpDone, DownInv,
            EvidenceOnce, Pending
<1>3. CASE NextDownRound
  <2>1. /\ pass = "down" /\ Pending' = Pending
        /\ UNCHANGED <<parent, records, up, down, posterior, pass, full, hasUpdated, todo>>
    BY <1>3 DEF NextDownRound, Pending
  <2>2. \A m \in Nodes : /\ Message(m)' = Message(m) /\ DownMessage(m)' = DownMessage(m)
                         /\ Above(m)' = Above(m)
    BY <2>1 DEF Message, DownMessage, Above, ParentIn, Children
  <2> QED BY <1>1, <2>1, <2>2 DEF EvidenceInv, WorkInv, UpInv, DownInv, EvidenceOnce
<1>4. CASE WorkInv' /\ UpInv' /\ DownInv' /\ EvidenceOnce'
  BY <1>1, <1>4 DEF EvidenceInv
<1> QED BY <1>2, <1>3, <1>4, BeginsKeep, VisitUpKeeps, NextUpKeeps, VisitDownKeeps,
          EndPassKeeps DEF ENext, EStepping

\* After an E-step, full or incremental, on a forest of any size and after any
\* records, the posteriors of every concept come from each record of its tree
\* exactly once.
THEOREM EvidenceCountedOnce == ESpec => []EvidenceOnce
<1>1. EvidenceInv => EvidenceOnce BY DEF EvidenceInv
<1> QED BY <1>1, EvidenceInit, EvidenceNext, PTL DEF ESpec

---------------------------------------------------------------------------
(* The full pass does not stall: the safety part of EStepEnds.             *)

\* While a concept is not noted yet, one of those that are not waits in the
\* work list with all of its children noted (E_Step.py:28-57).
FullPassProceeds ==
  full /\ pass = "up" /\ hasUpdated # Nodes => \E n \in Pending \ hasUpdated : Ready(n)

LEMMA SomeNodeReady == EvidenceInv => FullPassProceeds
<1> SUFFICES ASSUME EvidenceInv, full, pass = "up", hasUpdated # Nodes
             PROVE  \E n \in Pending \ hasUpdated : Ready(n)
  BY DEF FullPassProceeds
<1> DEFINE S == Nodes \ hasUpdated
<1>1. parent \in Trees /\ S \in SUBSET Nodes /\ S # {} BY DEF EvidenceInv, ETypeOK
<1>2. PICK n \in S : Children(n) \cap S = {}
  <2> HIDE DEF S
  <2> QED BY <1>1, Lowest
<1>3. Children(n) \subseteq hasUpdated BY <1>2 DEF Children
<1>4. n \in Pending BY <1>2, <1>3 DEF EvidenceInv, WorkInv
<1> QED BY <1>2, <1>3, <1>4 DEF Ready

\* On a forest of any size and whatever the order in which the lists are
\* visited, e_step has a concept to compute in its lists until all are noted:
\* its loop is never left with concepts that wait for each other.
THEOREM FullPassNeverStalls == ESpec => []FullPassProceeds
<1> QED BY EvidenceInit, EvidenceNext, SomeNodeReady, PTL DEF ESpec
============================================================================
