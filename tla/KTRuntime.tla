----------------------------- MODULE KTRuntime -----------------------------
(***************************************************************************)
(* The runtime holder of the knowledge-tracing graphs                      *)
(* (EQG_Codes/kt/runtime.py, class KTRuntime): the student graphs and      *)
(* parameter graphs of one EM results directory, the transient "actual"    *)
(* copies written while a student practises, and the in-memory state that  *)
(* is supposed to follow them.                                             *)
(*                                                                         *)
(* A student graph is abstracted to the evidence its posteriors were       *)
(* computed from and to the students whose answers reached it; a parameter *)
(* graph to the (student, size) it was estimated for and to those          *)
(* students.  A file is named by a key <<owner, practice size>>.           *)
(***************************************************************************)
EXTENDS Integers, Sequences, FiniteSets

CONSTANTS
  Students,      \* ids for which the scan found a student graph
  FirstStudent,  \* the first of them in sorted order
  NoStudent,     \* owner of the shared burn-in parameter graph
  None,          \* a cache slot or a result that is empty
  KCs,           \* the knowledge concepts of the subtree
  Base,          \* Base[s]: the KCs of the dataset records of s, in order
  burn_in_size,  \* the runtime's burn-in size
  DatasetSizes,  \* DatasetSizes[s]: sizes with a student graph in the dataset
  DatasetParams  \* keys of the parameter graphs in the dataset

SharedKey == <<NoStudent, burn_in_size>>

ASSUME StudentsAssumption ==
  /\ FirstStudent \in Students
  /\ IsFiniteSet(Students)
  /\ NoStudent \notin Students

ASSUME RecordsAssumption == Base \in [Students -> Seq(KCs)]

ASSUME SizesAssumption ==
  /\ burn_in_size \in Nat \ {0}
  /\ DatasetSizes \in [Students -> SUBSET Nat]
  /\ \A s \in Students :
       /\ burn_in_size \in DatasetSizes[s]
       /\ \A n \in DatasetSizes[s] : n >= burn_in_size
       /\ \E n \in DatasetSizes[s] : \A m \in DatasetSizes[s] : m <= n

ASSUME ParamsAssumption ==
  /\ SharedKey \in DatasetParams
  /\ DatasetParams \subseteq {SharedKey} \cup (Students \X Nat)

VARIABLES
  practiceSize, \* _practice_size_map
  cache,        \* _student_cache: one graph per student, whatever its size
  param,        \* param_graph
  paramPath,    \* param_path
  canonPath,    \* _param_canonical_path
  actualGraph,  \* the files of students_graphs_actual
  actualParam   \* the files of parameter_graphs_actual

rtVars == <<practiceSize, cache, param, paramPath, canonPath,
            actualGraph, actualParam>>

---------------------------------------------------------------------------
(* Data.                                                                   *)

\* An observed answer: its concept, and whether the dataset holds it or the
\* student gave it while practising.
Rec == [kc : KCs, src : {"dataset", "practice"}]

\* The list of one concept's records: where in the student's history each
\* stands, and where it came from.
Evidence == SUBSET [at : Nat, src : {"dataset", "practice"}]
ForKC(h, k) == {[at |-> i, src |-> h[i].src] : i \in {j \in DOMAIN h : h[j].kc = k}}

BaseHistory(s, n) ==
  [i \in 1..(IF n <= Len(Base[s]) THEN n ELSE Len(Base[s]))
     |-> [kc |-> Base[s][i], src |-> "dataset"]]

\* What EM estimated from the first n records of s.
DatasetGraph(s, n) ==
  [ev |-> [k \in KCs |-> ForKC(BaseHistory(s, n), k)], lin |-> {}]

DatasetParam(key) == [own |-> key[1], size |-> key[2], lin |-> {}]

\* A directory with one more file (or one file rewritten).
Put(files, key, v) ==
  [k \in DOMAIN files \cup {key} |-> IF k = key THEN v ELSE files[k]]

NoFiles == [k \in {} |-> None]

MaxSize(s) == CHOOSE n \in DatasetSizes[s] : \A m \in DatasetSizes[s] : m <= n
Historical == [s \in Students |-> MaxSize(s)]

---------------------------------------------------------------------------
(* Which file a (student, size) stands for.                                *)

HasGraph(s, n) == <<s, n>> \in DOMAIN actualGraph \/ n \in DatasetSizes[s]

\* The actual file of this size wins over the dataset's.
StoredGraph(s, n) ==
  IF <<s, n>> \in DOMAIN actualGraph THEN actualGraph[<<s, n>>]
                                     ELSE DatasetGraph(s, n)

ParamKey(s, n) == IF n <= burn_in_size \/ s = NoStudent THEN SharedKey ELSE <<s, n>>

\* As ParamPathOf, the dataset first.
DatasetFirst(files, s, n) ==
  LET key == ParamKey(s, n)
  IN  IF key \in DatasetParams THEN [dir |-> "dataset", key |-> key]
      ELSE IF key \in DOMAIN files THEN [dir |-> "actual", key |-> key]
      ELSE [dir |-> "dataset", key |-> SharedKey]

ParamPathOf(files, s, n) ==
  LET key == ParamKey(s, n)
  IN  IF key \in DOMAIN files THEN [dir |-> "actual", key |-> key]
      ELSE [dir |-> "dataset",
            key |-> IF key \in DatasetParams THEN key ELSE SharedKey]

ParamAt(files, path) ==
  IF path.dir = "actual" THEN files[path.key] ELSE DatasetParam(path.key)

FileExists(path) == path.dir = "dataset" \/ path.key \in DOMAIN actualParam

---------------------------------------------------------------------------
(* The operations.                                                         *)

\* The parameter graph follows the student and size just loaded.
AlignParam(s, n) ==
  /\ paramPath' = ParamPathOf(actualParam, s, n)
  /\ param' = ParamAt(actualParam, ParamPathOf(actualParam, s, n))

\* Loading by explicit path is never cached: it only moves the parameters.
LoadByPath(s) ==
  /\ AlignParam(s, practiceSize[s])
  /\ UNCHANGED <<practiceSize, cache, canonPath, actualGraph, actualParam>>

\* As LoadStudentGraph, leaving the parameters where they were.
LoadWithoutAlign(s, n, refresh) ==
  /\ HasGraph(s, n)
  /\ IF cache[s] # None /\ ~refresh
       THEN UNCHANGED <<practiceSize, cache>>
       ELSE /\ cache' = [cache EXCEPT ![s] = StoredGraph(s, n)]
            /\ practiceSize' = [practiceSize EXCEPT ![s] = n]
  /\ UNCHANGED <<param, paramPath, canonPath, actualGraph, actualParam>>

LoadStudentGraph(s, n, refresh) ==
  /\ HasGraph(s, n)
  /\ IF cache[s] # None /\ ~refresh
       THEN UNCHANGED <<practiceSize, cache, param, paramPath>>
       ELSE /\ cache' = [cache EXCEPT ![s] = StoredGraph(s, n)]
            /\ practiceSize' = [practiceSize EXCEPT ![s] = n]
            /\ AlignParam(s, n)
  /\ UNCHANGED <<canonPath, actualGraph, actualParam>>

SetPracticeSize(s, n) ==
  /\ practiceSize' = [practiceSize EXCEPT ![s] = IF n > burn_in_size THEN n
                                                                    ELSE burn_in_size]
  /\ UNCHANGED <<cache, param, paramPath, canonPath, actualGraph, actualParam>>

\* Everything of clear_actual_temp_graphs but the practice sizes: the
\* canonical path is read back only if its file survived the two rmtree.
DropActualFiles ==
  /\ actualGraph' = NoFiles
  /\ actualParam' = NoFiles
  /\ cache' = [s \in Students |-> None]
  /\ param' = IF canonPath.dir = "dataset" THEN DatasetParam(canonPath.key) ELSE param
  /\ paramPath' = canonPath
  /\ UNCHANGED canonPath

ClearActualTempGraphs ==
  /\ DropActualFiles
  /\ practiceSize' = Historical

\* As SaveStudentGraph, into the file of the size before the answers.
SaveUnderOldSize(s, n, graph) ==
  /\ actualGraph' = Put(actualGraph, <<s, practiceSize[s]>>, graph)
  /\ cache' = [cache EXCEPT ![s] = graph]
  /\ practiceSize' = [practiceSize EXCEPT ![s] = n]
  /\ UNCHANGED <<param, paramPath, canonPath, actualParam>>

\* save_student_graph into the actual directory, with the cache and the
\* practice map following.
SaveStudentGraph(s, n, graph) ==
  /\ actualGraph' = Put(actualGraph, <<s, n>>, graph)
  /\ cache' = [cache EXCEPT ![s] = graph]
  /\ practiceSize' = [practiceSize EXCEPT ![s] = n]
  /\ UNCHANGED <<param, paramPath, canonPath, actualParam>>

\* save_param_graph into the actual directory with update_runtime=True, then
\* set_practice_size.
SaveParamGraph(s, n, graph) ==
  LET path == [dir |-> "actual", key |-> ParamKey(s, n)]
  IN  /\ actualParam' = Put(actualParam, path.key, graph)
      /\ param' = graph
      /\ paramPath' = path
      /\ canonPath' = path
      /\ practiceSize' = [practiceSize EXCEPT ![s] = IF n > burn_in_size THEN n
                                                                        ELSE burn_in_size]
      /\ UNCHANGED <<cache, actualGraph>>

\* __init__: the shared parameters, then the first student's graph at its
\* largest size, which moves the parameters to that student and size.
RTInit ==
  /\ practiceSize = Historical
  /\ actualGraph = NoFiles
  /\ actualParam = NoFiles
  /\ canonPath = ParamPathOf(NoFiles, NoStudent, burn_in_size)
  /\ cache = [s \in Students |-> IF s = FirstStudent
                                   THEN DatasetGraph(s, MaxSize(s)) ELSE None]
  /\ paramPath = ParamPathOf(NoFiles, FirstStudent, MaxSize(FirstStudent))
  /\ param = DatasetParam(paramPath.key)

---------------------------------------------------------------------------
Graph == [ev : [KCs -> Evidence], lin : SUBSET Students]
ASSUME NoneAssumption == None \notin Graph

Param == [own : Students \cup {NoStudent}, size : Nat, lin : SUBSET Students]
ParamKeys == {SharedKey} \cup (Students \X Nat)
Path == [dir : {"actual", "dataset"}, key : ParamKeys]

RTTypeOK ==
  /\ practiceSize \in [Students -> Nat]
  /\ cache \in [Students -> Graph \cup {None}]
  /\ param \in Param
  /\ paramPath \in Path
  /\ canonPath \in Path
  /\ DOMAIN actualGraph \subseteq Students \X Nat
  /\ \A k \in DOMAIN actualGraph : actualGraph[k] \in Graph
  /\ DOMAIN actualParam \subseteq ParamKeys
  /\ \A k \in DOMAIN actualParam : actualParam[k] \in Param
===========================================================================
