--------------------------- MODULE KTCallerProofs ---------------------------
(***************************************************************************)
(* What holds of the runtime and the updater for every number of students, *)
(* concepts and records, and every length of behaviour: the proofs of the  *)
(* invariants that the runs of KTCaller check on two students.             *)
(***************************************************************************)
EXTENDS KTCaller, FiniteSetTheorems, TLAPS

---------------------------------------------------------------------------
(* Data.                                                                   *)

\* The records read from the dataset are records (_load_base_records).
LEMMA BaseHistoryType ==
  ASSUME NEW s \in Students, NEW n \in Nat
  PROVE  BaseHistory(s, n) \in Seq(Rec)
  BY RecordsAssumption DEF BaseHistory, Rec

\* The records of one concept keep their position and their origin.
LEMMA ForKCType ==
  ASSUME NEW h \in Seq(Rec), NEW k
  PROVE  ForKC(h, k) \in Evidence
  <1> DEFINE R == Rec
  <1>0. \A r \in R : r.src \in {"dataset", "practice"}
    BY DEF Rec
  <1>1. \A i \in DOMAIN h : i \in Nat /\ h[i] \in R
    <2> HIDE DEF R
    <2>1. h \in Seq(R)
      BY DEF R
    <2>2. QED
      BY <2>1
  <1>2. \A i \in DOMAIN h :
          [at |-> i, src |-> h[i].src] \in [at : Nat, src : {"dataset", "practice"}]
    BY <1>0, <1>1
  <1>3. QED
    BY <1>2 DEF ForKC, Evidence

\* A graph of the dataset is a graph.
LEMMA DatasetGraphType ==
  ASSUME NEW s \in Students, NEW n \in Nat
  PROVE  DatasetGraph(s, n) \in Graph
  <1>1. \A k \in KCs : ForKC(BaseHistory(s, n), k) \in Evidence
    BY BaseHistoryType, ForKCType
  <1>2. QED
    BY <1>1 DEF DatasetGraph, Graph

\* The largest size with a dataset graph exists and is no smaller than the
\* burn-in size (the max of runtime.py:46).
LEMMA MaxSizeType ==
  ASSUME NEW s \in Students
  PROVE  /\ MaxSize(s) \in DatasetSizes[s]
         /\ MaxSize(s) \in Nat
         /\ MaxSize(s) >= burn_in_size
  BY SizesAssumption DEF MaxSize

\* The shared key and the key of any student and size name parameter files.
LEMMA ParamKeyType ==
  ASSUME NEW s \in Students \cup {NoStudent}, NEW n \in Nat
  PROVE  ParamKey(s, n) \in ParamKeys
  BY DEF ParamKey, ParamKeys

\* The dataset's parameters are parameters.
LEMMA DatasetParamType ==
  ASSUME NEW key \in ParamKeys
  PROVE  DatasetParam(key) \in Param
  BY SizesAssumption DEF DatasetParam, Param, ParamKeys, SharedKey

\* Resolving a parameter file ends at one of the dataset or at an actual file
\* that exists (_resolve_param_path_for_student).
LEMMA ParamPathOfType ==
  ASSUME NEW files, DOMAIN files \subseteq ParamKeys,
         NEW s \in Students \cup {NoStudent}, NEW n \in Nat
  PROVE  /\ ParamPathOf(files, s, n) \in Path
         /\ ParamPathOf(files, s, n).dir = "actual" =>
              ParamPathOf(files, s, n).key \in DOMAIN files
  <1>1. ParamKey(s, n) \in ParamKeys /\ SharedKey \in ParamKeys
    BY ParamKeyType DEF ParamKeys
  <1>2. QED
    BY <1>1 DEF ParamPathOf, Path

\* So does what is read there.
LEMMA ParamAtType ==
  ASSUME NEW files, DOMAIN files \subseteq ParamKeys,
         \A k \in DOMAIN files : files[k] \in Param,
         NEW s \in Students \cup {NoStudent}, NEW n \in Nat
  PROVE  ParamAt(files, ParamPathOf(files, s, n)) \in Param
  <1> DEFINE path == ParamPathOf(files, s, n)
  <1>1. path \in Path /\ (path.dir = "actual" => path.key \in DOMAIN files)
    BY ParamPathOfType
  <1>2. path.key \in ParamKeys
    BY <1>1 DEF Path
  <1>3. DatasetParam(path.key) \in Param
    BY <1>2, DatasetParamType
  <1>4. QED
    BY <1>1, <1>3 DEF ParamAt

---------------------------------------------------------------------------
(* The runtime.                                                            *)

\* A load hands out a graph, cached or read, and keeps the runtime's types.
LEMMA LoadType ==
  ASSUME RTTypeOK, NEW s \in Students, NEW n \in Nat, NEW refresh \in BOOLEAN,
         LoadStudentGraph(s, n, refresh)
  PROVE  RTTypeOK' /\ StoredGraph(s, n) \in Graph
  <1>1. StoredGraph(s, n) \in Graph
    BY DatasetGraphType DEF StoredGraph, RTTypeOK
  <1>2. ParamPathOf(actualParam, s, n) \in Path
    BY ParamPathOfType DEF RTTypeOK
  <1>3. ParamAt(actualParam, ParamPathOf(actualParam, s, n)) \in Param
    BY ParamAtType DEF RTTypeOK
  <1>4. QED
    BY <1>1, <1>2, <1>3 DEF LoadStudentGraph, AlignParam, RTTypeOK

LEMMA SetPracticeSizeType ==
  ASSUME RTTypeOK, NEW s \in Students, NEW n \in Nat, SetPracticeSize(s, n)
  PROVE  RTTypeOK'
  BY SizesAssumption DEF SetPracticeSize, RTTypeOK

LEMMA DropActualFilesType ==
  ASSUME RTTypeOK, DropActualFiles, practiceSize' \in [Students -> Nat]
  PROVE  RTTypeOK'
  <1>1. canonPath.key \in ParamKeys
    BY DEF RTTypeOK, Path
  <1>2. DatasetParam(canonPath.key) \in Param
    BY <1>1, DatasetParamType
  <1>3. QED
    BY <1>2 DEF DropActualFiles, RTTypeOK, NoFiles

LEMMA SaveStudentGraphType ==
  ASSUME RTTypeOK, NEW s \in Students, NEW n \in Nat, NEW g \in Graph,
         SaveStudentGraph(s, n, g)
  PROVE  RTTypeOK'
  BY DEF SaveStudentGraph, RTTypeOK, Put

LEMMA SaveParamGraphType ==
  ASSUME RTTypeOK, NEW s \in Students, NEW n \in Nat, NEW p \in Param,
         SaveParamGraph(s, n, p)
  PROVE  RTTypeOK'
  <1>1. ParamKey(s, n) \in ParamKeys
    BY ParamKeyType
  <1>2. QED
    BY <1>1, SizesAssumption DEF SaveParamGraph, RTTypeOK, Put, Path

---------------------------------------------------------------------------
(* The updater's arithmetic.                                               *)

\* Extending the histories keeps them lists of records (_ensure_history).
LEMMA EnsuredHistoryType ==
  ASSUME KUTypeOK, RTTypeOK, NEW act \in SUBSET Students
  PROVE  EnsuredHistory(act) \in [Students -> Seq(Rec)]
  <1> SUFFICES ASSUME NEW s \in Students
               PROVE  EnsuredHistory(act)[s] \in Seq(Rec)
    BY DEF EnsuredHistory
  <1> DEFINE h == history[s]
             upTo == Lesser(InitialTrainSize(s, act), Len(Base[s]))
             n == Greater(Len(h), upTo)
  <1>1. h \in Seq(Rec) /\ Base[s] \in Seq(KCs)
    BY RecordsAssumption DEF KUTypeOK
  <1>2. InitialTrainSize(s, act) \in Nat
    BY UpdateAssumption DEF InitialTrainSize, RTTypeOK
  <1>3. upTo \in Nat /\ upTo <= Len(Base[s])
    BY <1>1, <1>2 DEF Lesser
  <1>4. n \in Nat /\ (n <= Len(h) \/ n <= Len(Base[s]))
    BY <1>1, <1>3 DEF Greater
  <1>5. \A i \in 1..n : (IF i <= Len(h) THEN h[i]
                         ELSE [kc |-> Base[s][i], src |-> "dataset"]) \in Rec
    <2> SUFFICES ASSUME NEW i \in 1..n
                 PROVE  (IF i <= Len(h) THEN h[i]
                         ELSE [kc |-> Base[s][i], src |-> "dataset"]) \in Rec
      OBVIOUS
    <2>1. CASE i <= Len(h)
      <3> HIDE DEF h, n
      <3>1. h[i] \in Rec
        BY <1>1, <1>4, <2>1
      <3>2. QED
        BY <2>1, <3>1
    <2>2. CASE ~(i <= Len(h))
      <3>1. i <= Len(Base[s])
        BY <1>1, <1>3, <1>4, <2>2
      <3>2. Base[s][i] \in KCs
        BY <1>1, <1>4, <3>1
      <3>3. QED
        BY <2>2, <3>2 DEF Rec
    <2>3. QED
      BY <2>1, <2>2
  <1>6. EnsuredHistory(act)[s] =
          [i \in 1..n |-> IF i <= Len(h) THEN h[i]
                          ELSE [kc |-> Base[s][i], src |-> "dataset"]]
    BY DEF EnsuredHistory
  <1> HIDE DEF n, h
  <1>7. QED
    BY <1>4, <1>5, <1>6

\* The E-step returns a graph, given one (update_e_step).
LEMMA PropagatedType ==
  ASSUME NEW g \in Graph, NEW h \in Seq(Rec), NEW fresh \in Seq(Rec),
         NEW lin \in SUBSET Students
  PROVE  Propagated(g, h, fresh, lin) \in Graph
  <1>1. \A k \in KCs : InWindow(ForKC(h, k)) \in Evidence
    BY ForKCType DEF InWindow, Evidence
  <1>2. QED
    BY <1>1 DEF Propagated, Graph

\* The pool is finite, so the sizes computed from it are numbers.
LEMMA PooledFinite ==
  ASSUME NEW s \in Students, NEW pool \in Pools(s), NEW limit \in Nat
  PROVE  /\ IsFiniteSet(Pooled(pool, limit))
         /\ Pooled(pool, limit) \subseteq Students \X Nat
  <1>1. pool \subseteq Students /\ IsFiniteSet(pool)
    BY StudentsAssumption, FS_Subset DEF Pools
  <1> DEFINE box == Students \X (0..limit)
  <1>2. \A o \in pool : Lesser(limit, Len(Base[o])) \in 0..limit
    BY <1>1, RecordsAssumption DEF Lesser
  <1>3. Pooled(pool, limit) \subseteq box
    BY <1>1, <1>2 DEF Pooled
  <1>4. IsFiniteSet(box)
    <2>1. IsFiniteSet(0..limit)
      BY FS_Interval
    <2>2. QED
      BY <2>1, StudentsAssumption, FS_Product
  <1>5. QED
    BY <1>3, <1>4, FS_Subset

\* What append_temp_records writes is a dataset.
LEMMA TempWithType ==
  ASSUME KUTypeOK, NEW s \in Students, NEW recs \in Seq(Rec)
  PROVE  TempWith(s, recs) \in [Students -> Seq(Rec)]
  <1>1. \A o \in Students : BaseHistory(o, BURN_IN_SIZE) \in Seq(Rec)
    BY BaseHistoryType, UpdateAssumption
  <1>2. QED
    BY <1>1 DEF TempWith, KUTypeOK

---------------------------------------------------------------------------
(* Type correctness, one lemma per action.                                 *)

Item == [sid : Students, obs : Seq(RawKCs)]

\* The calls the caller makes are lists of students with observations.
LEMMA TodosType == Todos \subseteq Seq(Item)
  <1>1. ObsLists \subseteq Seq(RawKCs)
    BY DEF ObsLists
  <1>2. Items \subseteq Item
    BY <1>1 DEF Items, Item
  <1>3. Todos \subseteq Seq(Items)
    BY DEF Todos
  <1>4. QED
    BY <1>2, <1>3

LEMMA NoCallType == NoCall \in CallRec
  BY DEF NoCall, CallRec

\* Between calls the loop variables of the last one are gone.
LEMMA NoCallTypeOK ==
  ASSUME call' = NoCall
  PROVE  CallTypeOK'
  BY NoCallType DEF CallTypeOK, NoCall, InCall

LEMMA BeginType ==
  ASSUME TypeOK, NEW mode \in {"actual", "assumption"}, NEW reset \in BOOLEAN,
         NEW todo \in Seq(Item), Begin(mode, reset, todo)
  PROVE  TypeOK'
  <1>1. CallTypeOK'
    <2>1. call' = [NoCall EXCEPT !.phase = "resolve", !.mode = mode, !.todo = todo]
      BY DEF Begin
    <2>2. call' \in CallRec
      BY <2>1, NoCallType DEF CallRec, Item
    <2>3. call'.phase = "resolve"
      BY <2>1 DEF NoCall
    <2>4. QED
      BY <2>2, <2>3 DEF CallTypeOK, InCall
  <1>2. CASE reset
    <2>1. practiceSize' \in [Students -> Nat]
      BY <1>2, SizesAssumption DEF Begin, TypeOK, RTTypeOK, Greater
    <2>2. RTTypeOK'
      BY <1>2, <2>1, DropActualFilesType DEF Begin, TypeOK
    <2>3. NoRecords \in [Students -> Seq(Rec)] /\ NoTrainSizes \in [Students -> Nat]
      BY UpdateAssumption DEF NoRecords, NoTrainSizes
    <2>4. QED
      BY <1>1, <1>2, <2>2, <2>3 DEF Begin, TypeOK, KUTypeOK
  <1>3. CASE ~reset
    BY <1>1, <1>3 DEF Begin, TypeOK, KUTypeOK, RTTypeOK, rtVars, kuVars
  <1>4. QED
    BY <1>2, <1>3

LEMMA ResolveType ==
  ASSUME TypeOK, ResolveStudents
  PROVE  TypeOK'
  <1>1. CallStudents \subseteq Students
    <2>1. call.todo \in Seq(Item)
      BY DEF TypeOK, KUTypeOK, CallTypeOK, CallRec, Item
    <2>2. \A i \in DOMAIN call.todo : call.todo[i] \in Item
      BY <2>1
    <2>3. \A i \in DOMAIN call.todo : call.todo[i].sid \in Students
      BY <2>2 DEF Item
    <2>4. QED
      BY <2>3 DEF CallStudents
  <1>2. EnsuredHistory(CallStudents) \in [Students -> Seq(Rec)]
    BY <1>1, EnsuredHistoryType DEF TypeOK
  <1>3. EnsuredTrainSizes(CallStudents) \in [Students -> Nat]
    BY <1>1 DEF EnsuredTrainSizes, TypeOK, RTTypeOK, KUTypeOK
  <1>4. CallTypeOK'
    BY DEF ResolveStudents, TypeOK, KUTypeOK, CallTypeOK, CallRec, InCall
  <1>5. QED
    BY <1>1, <1>2, <1>3, <1>4
    DEF ResolveStudents, TypeOK, RTTypeOK, KUTypeOK, rtVars

LEMMA OpenType ==
  ASSUME TypeOK, OpenStudent
  PROVE  TypeOK'
  <1> DEFINE s == Head(call.todo).sid
             n == practiceSize[s]
  <1>1. call.todo \in Seq(Item) /\ call.todo # <<>>
    BY DEF OpenStudent, TypeOK, KUTypeOK, CallTypeOK, CallRec, Item
  <1>2. Head(call.todo) \in Item /\ Tail(call.todo) \in Seq(Item)
    BY <1>1
  <1>3. s \in Students /\ n \in Nat /\ Head(call.todo).obs \in Seq(RawKCs)
    BY <1>2 DEF Item, TypeOK, RTTypeOK
  <1>4. LoadStudentGraph(s, n, FALSE)
    BY DEF OpenStudent
  <1>5. RTTypeOK' /\ StoredGraph(s, n) \in Graph
    BY <1>3, <1>4, LoadType DEF TypeOK
  <1> DEFINE g == IF cache[s] # None THEN cache[s] ELSE StoredGraph(s, n)
  <1>6. g \in Graph
    BY <1>3, <1>5 DEF TypeOK, RTTypeOK
  <1>7. call' = [call EXCEPT !.phase = "observe", !.sid = s, !.size = n,
                   !.todo = Tail(@), !.obs = Head(call.todo).obs,
                   !.param = param, !.shared = (cache[s] # None), !.graph = g,
                   !.hist = history[s], !.fresh = <<>>]
    BY DEF OpenStudent
  <1>8. CallTypeOK'
    <2> HIDE DEF s, n, g
    <2>1. history[s] \in Seq(Rec) /\ <<>> \in Seq(Rec)
      BY <1>3 DEF TypeOK, KUTypeOK
    <2>2. param \in Param
      BY DEF TypeOK, RTTypeOK
    <2>3. call \in CallRec
      BY DEF TypeOK, KUTypeOK, CallTypeOK
    <2>4. call' \in CallRec /\ call'.sid = s /\ call'.graph = g /\ call'.param = param
      BY <1>2, <1>3, <1>6, <1>7, <2>1, <2>2, <2>3 DEF CallRec, InCall, Item
    <2>5. QED
      BY <1>3, <1>6, <2>2, <2>4 DEF CallTypeOK
  <1>9. trainSize' \in [Students -> Nat]
    BY <1>3 DEF OpenStudent, TypeOK, KUTypeOK, Greater
  <1>10. QED
    BY <1>5, <1>8, <1>9 DEF OpenStudent, TypeOK, KUTypeOK

LEMMA ObserveType ==
  ASSUME TypeOK, Observe
  PROVE  TypeOK'
  <1> DEFINE k == kcMapping[Head(call.obs)]
             r == [kc |-> k, src |-> "practice"]
             h == IF k \in KCs THEN Append(call.hist, r) ELSE call.hist
             f == IF k \in KCs THEN Append(call.fresh, r) ELSE call.fresh
  <1>1. call \in CallRec /\ call.phase = "observe" /\ call.obs # <<>>
    BY DEF Observe, TypeOK, KUTypeOK, CallTypeOK
  <1>2. Tail(call.obs) \in Seq(RawKCs)
    BY <1>1 DEF CallRec
  <1>3. h \in Seq(Rec) /\ f \in Seq(Rec)
    <2>1. call.hist \in Seq(Rec) /\ call.fresh \in Seq(Rec)
      BY <1>1 DEF CallRec
    <2>2. k \in KCs => r \in Rec
      BY DEF Rec
    <2>3. QED
      BY <2>1, <2>2
  <1>4. call' = [call EXCEPT !.obs = Tail(@), !.hist = h, !.fresh = f]
    BY DEF Observe
  <1>5. CallTypeOK'
    <2> HIDE DEF h, f
    <2>1. call' \in CallRec
      BY <1>1, <1>2, <1>3, <1>4 DEF CallRec
    <2>2. /\ call'.sid = call.sid /\ call'.graph = call.graph
          /\ call'.param = call.param /\ call'.phase = call.phase
      BY <1>1, <1>4 DEF CallRec
    <2>3. QED
      BY <2>1, <2>2 DEF CallTypeOK, TypeOK, KUTypeOK
  <1>6. history' \in [Students -> Seq(Rec)]
    <2>1. history' = IF IsActual THEN [history EXCEPT ![call.sid] = h] ELSE history
      BY DEF Observe
    <2> HIDE DEF h
    <2>2. QED
      BY <1>3, <2>1 DEF TypeOK, KUTypeOK
  <1>7. QED
    BY <1>5, <1>6 DEF Observe, TypeOK, RTTypeOK, KUTypeOK, rtVars

LEMMA PropagateType ==
  ASSUME TypeOK, Propagate
  PROVE  TypeOK'
  <1> DEFINE lin == call.graph.lin \cup call.param.lin \cup {call.sid}
             g == Propagated(call.graph, call.hist, call.fresh, lin)
  <1>1. call \in CallRec /\ call.phase = "observe"
    BY DEF Propagate, TypeOK, KUTypeOK, CallTypeOK
  <1>2. call.sid \in Students /\ call.graph \in Graph /\ call.param \in Param
    BY <1>1 DEF TypeOK, KUTypeOK, CallTypeOK, InCall
  <1>3. lin \in SUBSET Students
    BY <1>2 DEF Graph, Param
  <1>4. g \in Graph
    <2>1. call.hist \in Seq(Rec) /\ call.fresh \in Seq(Rec)
      BY <1>1 DEF CallRec
    <2>2. QED
      BY <1>2, <1>3, <2>1, PropagatedType
  <1>5. call' = [call EXCEPT !.phase = "estimate", !.graph = g]
    BY DEF Propagate
  <1>6. CallTypeOK'
    <2> HIDE DEF g
    <2>1. call' \in CallRec
      BY <1>1, <1>4, <1>5 DEF CallRec, InCall
    <2>2. call'.sid = call.sid /\ call'.graph = g /\ call'.param = call.param
      BY <1>1, <1>5 DEF CallRec
    <2>3. QED
      BY <1>2, <1>4, <2>1, <2>2 DEF CallTypeOK
  <1>7. cache' \in [Students -> Graph \cup {None}]
    <2>1. cache' = IF IsActual THEN [cache EXCEPT ![call.sid] = g] ELSE cache
      BY DEF Propagate
    <2> HIDE DEF g
    <2>2. QED
      BY <1>4, <2>1 DEF TypeOK, RTTypeOK
  <1>8. QED
    BY <1>6, <1>7 DEF Propagate, TypeOK, RTTypeOK, KUTypeOK, kuVars

LEMMA RunParameterUpdateType ==
  ASSUME TypeOK, RunParameterUpdate
  PROVE  TypeOK'
  <1> DEFINE s == call.sid
             p == [own |-> s, size |-> call.size + Len(call.fresh),
                   lin |-> call.graph.lin]
             initial == InitialTrainSize(s, active)
             answers == Len(extras[s]) + Len(call.fresh)
             total(pooled) == Lesser(initial + answers, Cardinality(pooled) + answers)
  <1>1. call \in CallRec /\ call.phase = "estimate"
    BY DEF RunParameterUpdate, TypeOK, KUTypeOK, CallTypeOK
  <1>2. s \in Students /\ call.graph \in Graph
    BY <1>1 DEF TypeOK, KUTypeOK, CallTypeOK, InCall
  <1>3. Len(call.fresh) \in Nat /\ call.size \in Nat
    BY <1>1 DEF CallRec
  <1>4. p \in Param
    BY <1>2, <1>3 DEF Param, Graph
  <1>5. initial \in Nat /\ answers \in Nat
    <2>1. BURN_IN_SIZE \in Nat /\ practiceSize[s] \in Nat
      BY <1>2, UpdateAssumption DEF TypeOK, RTTypeOK
    <2>2. extras[s] \in Seq(Rec)
      BY <1>2 DEF TypeOK, KUTypeOK
    <2>3. Len(extras[s]) \in Nat
      BY <2>2
    <2>4. initial \in Nat
      BY <2>1 DEF InitialTrainSize
    <2>5. \A m, n \in Nat : m + n \in Nat
      OBVIOUS
    <2>6. answers \in Nat
      <3> HIDE DEF s
      <3>1. QED
        BY <1>3, <2>3, <2>5
    <2>7. QED
      BY <2>4, <2>6
  <1>6. PICK pool \in Pools(s) :
          /\ lastPool' = Pooled(pool, initial)
          /\ trainSize' = IF IsActual
               THEN [trainSize EXCEPT ![s] = total(Pooled(pool, initial))]
               ELSE trainSize
    BY DEF RunParameterUpdate
  <1>7. /\ Cardinality(Pooled(pool, initial)) \in Nat
        /\ Pooled(pool, initial) \subseteq Students \X Nat
    <2>1. /\ IsFiniteSet(Pooled(pool, initial))
          /\ Pooled(pool, initial) \subseteq Students \X Nat
      BY <1>2, <1>5, PooledFinite
    <2>2. QED
      BY <2>1, FS_CardinalityType
  <1>8. trainSize' \in [Students -> Nat] /\ lastPool' \subseteq Students \X Nat
    <2>1. total(Pooled(pool, initial)) \in Nat
      <3> HIDE DEF initial, answers
      <3>1. QED
        BY <1>5, <1>7 DEF Lesser
    <2> HIDE DEF total
    <2>2. QED
      BY <1>6, <1>7, <2>1 DEF TypeOK, KUTypeOK
  <1>9. call' = [call EXCEPT !.phase = "save", !.param = p]
    BY DEF RunParameterUpdate
  <1>10. CallTypeOK'
    <2> HIDE DEF p
    <2>1. call' \in CallRec
      BY <1>1, <1>4, <1>9 DEF CallRec, InCall
    <2>2. call'.sid = call.sid /\ call'.graph = call.graph /\ call'.param = p
      BY <1>1, <1>9 DEF CallRec
    <2>3. QED
      BY <1>2, <1>4, <2>1, <2>2 DEF CallTypeOK
  <1>11. param' \in Param
    <2>1. param' = IF IsActual /\ call.shared THEN p ELSE param
      BY DEF RunParameterUpdate
    <2> HIDE DEF p
    <2>2. QED
      BY <1>4, <2>1 DEF TypeOK, RTTypeOK
  <1>12. QED
    BY <1>8, <1>10, <1>11 DEF RunParameterUpdate, TypeOK, RTTypeOK, KUTypeOK

\* A step of the loop that only moves the call to another phase.
LEMMA PhaseType ==
  ASSUME CallTypeOK, NEW to \in {"next"} \cup InCall,
         to \in InCall => call.phase \in InCall,
         call' = [call EXCEPT !.phase = to]
  PROVE  CallTypeOK'
  BY DEF CallTypeOK, CallRec, InCall

LEMMA SaveGraphType ==
  ASSUME TypeOK, SaveGraph
  PROVE  TypeOK'
  <1>1. call \in CallRec /\ call.phase = "save"
    BY DEF SaveGraph, TypeOK, KUTypeOK, CallTypeOK
  <1>2. call.sid \in Students /\ call.graph \in Graph
    BY <1>1 DEF TypeOK, KUTypeOK, CallTypeOK, InCall
  <1>3. call.size + Len(call.fresh) \in Nat
    BY <1>1 DEF CallRec
  <1>4. RTTypeOK'
    BY <1>2, <1>3, SaveStudentGraphType DEF SaveGraph, TypeOK
  <1>5. CallTypeOK'
    BY <1>1, PhaseType DEF SaveGraph, TypeOK, KUTypeOK, InCall
  <1>6. QED
    BY <1>4, <1>5 DEF SaveGraph, TypeOK, KUTypeOK, kuVars

LEMMA SaveParamType ==
  ASSUME TypeOK, SaveParam
  PROVE  TypeOK'
  <1>1. call \in CallRec /\ call.phase = "saved"
    BY DEF SaveParam, TypeOK, KUTypeOK, CallTypeOK
  <1>2. call.sid \in Students /\ call.param \in Param
    BY <1>1 DEF TypeOK, KUTypeOK, CallTypeOK, InCall
  <1>3. call.size + Len(call.fresh) \in Nat /\ call.fresh \in Seq(Rec)
    BY <1>1 DEF CallRec
  <1>4. RTTypeOK'
    BY <1>2, <1>3, SaveParamGraphType DEF SaveParam, TypeOK
  <1>5. CallTypeOK'
    BY <1>1, PhaseType DEF SaveParam, TypeOK, KUTypeOK, InCall
  <1>6. extras' \in [Students -> Seq(Rec)]
    BY <1>2, <1>3 DEF SaveParam, TypeOK, KUTypeOK
  <1>7. QED
    BY <1>4, <1>5, <1>6 DEF SaveParam, TypeOK, KUTypeOK

LEMMA AppendTempRecordsType ==
  ASSUME TypeOK, AppendTempRecords
  PROVE  TypeOK'
  <1>1. call \in CallRec /\ call.phase = "log"
    BY DEF AppendTempRecords, TypeOK, KUTypeOK, CallTypeOK
  <1>2. call.sid \in Students /\ call.fresh \in Seq(Rec)
    BY <1>1 DEF TypeOK, KUTypeOK, CallTypeOK, CallRec, InCall
  <1>3. tempRecords' \in [Students -> Seq(Rec)]
    BY <1>2, TempWithType DEF AppendTempRecords, TypeOK
  <1>4. CallTypeOK'
    BY <1>1, PhaseType DEF AppendTempRecords, TypeOK, KUTypeOK, InCall
  <1>5. QED
    BY <1>3, <1>4 DEF AppendTempRecords, TypeOK, RTTypeOK, KUTypeOK, rtVars

\* The steps that leave the runtime and the lists alone.
LEMMA PassingType ==
  ASSUME TypeOK, NothingObserved \/ SaveAssumption \/ Return \/ Raise
  PROVE  TypeOK'
  <1>1. CASE NothingObserved
    <2>1. CallTypeOK'
      <3>1. call' = [call EXCEPT !.phase = "next"] /\ "next" \notin InCall
        BY <1>1 DEF NothingObserved, InCall
      <3>2. QED
        BY <3>1, PhaseType DEF TypeOK, KUTypeOK
    <2>2. QED
      BY <1>1, <2>1 DEF NothingObserved, TypeOK, RTTypeOK, KUTypeOK, rtVars, kuVars
  <1>2. CASE SaveAssumption
    <2>1. CallTypeOK'
      <3>1. call' = [call EXCEPT !.phase = "next"] /\ "next" \notin InCall
        BY <1>2 DEF SaveAssumption, InCall
      <3>2. QED
        BY <3>1, PhaseType DEF TypeOK, KUTypeOK
    <2>2. QED
      BY <1>2, <2>1 DEF SaveAssumption, TypeOK, RTTypeOK, KUTypeOK, rtVars, kuVars
  <1>3. CASE Return
    <2>1. CallTypeOK'
      BY <1>3, NoCallTypeOK DEF Return
    <2>2. QED
      BY <1>3, <2>1 DEF Return, TypeOK, RTTypeOK, KUTypeOK, rtVars
  <1>4. CASE Raise
    <2>1. CallTypeOK'
      BY <1>4, NoCallTypeOK DEF Raise
    <2>2. QED
      BY <1>4, <2>1 DEF Raise, TypeOK, RTTypeOK, KUTypeOK, rtVars, kuVars
  <1>5. QED
    BY <1>1, <1>2, <1>3, <1>4

LEMMA BetweenType ==
  ASSUME TypeOK, BetweenUpdates
  PROVE  TypeOK'
  <1>1. ASSUME RTTypeOK', UNCHANGED <<kuVars, call>>
        PROVE  TypeOK'
    BY <1>1 DEF TypeOK, KUTypeOK, kuVars, CallTypeOK
  <1>2. ASSUME NEW s \in Students, PredictOnNewQuestion(s)
        PROVE  TypeOK'
    <2>1. practiceSize[s] \in Nat
      BY DEF TypeOK, RTTypeOK
    <2>2. QED
      BY <1>1, <1>2, <2>1, LoadType DEF PredictOnNewQuestion, TypeOK
  <1>3. ASSUME NEW s \in Students, Refresh(s)
        PROVE  TypeOK'
    <2>1. practiceSize[s] \in Nat
      BY DEF TypeOK, RTTypeOK
    <2>2. QED
      BY <1>1, <1>3, <2>1, LoadType DEF Refresh, TypeOK
  <1>4. ASSUME NEW s \in Students, NEW n \in 0..MaxSizeAsked, ChooseSize(s, n)
        PROVE  TypeOK'
    BY <1>1, <1>4, SetPracticeSizeType DEF ChooseSize, TypeOK
  <1>5. CASE Clear
    <2>1. practiceSize' \in [Students -> Nat]
      BY <1>5, MaxSizeType DEF Clear, ClearActualTempGraphs, Historical
    <2>2. QED
      BY <1>1, <1>5, <2>1, DropActualFilesType DEF Clear, ClearActualTempGraphs, TypeOK
  <1>6. QED
    BY <1>2, <1>3, <1>4, <1>5 DEF BetweenUpdates

\* So it is when the program starts, after KTRuntime.__init__.
LEMMA UpdateInitType == UpdateInit => TypeOK
  <1> SUFFICES ASSUME UpdateInit PROVE TypeOK
    OBVIOUS
  <1>1. UpdateInit /\ RTInit
    BY DEF UpdateInit
  <1>2. FirstStudent \in Students /\ MaxSize(FirstStudent) \in Nat
    BY StudentsAssumption, MaxSizeType
  <1>3. DOMAIN NoFiles \subseteq ParamKeys /\ DOMAIN NoFiles = {}
    BY DEF NoFiles
  <1>4. canonPath \in Path
    BY <1>1, <1>3, ParamPathOfType, SizesAssumption DEF RTInit
  <1>5. paramPath \in Path
    BY <1>1, <1>2, <1>3, ParamPathOfType DEF RTInit
  <1>6. param \in Param
    BY <1>1, <1>5, DatasetParamType DEF RTInit, Path
  <1>7. cache \in [Students -> Graph \cup {None}]
    BY <1>1, <1>2, DatasetGraphType DEF RTInit
  <1>8. practiceSize \in [Students -> Nat]
    BY <1>1, MaxSizeType DEF RTInit, Historical
  <1>9. RTTypeOK
    BY <1>1, <1>3, <1>4, <1>5, <1>6, <1>7, <1>8 DEF RTInit, RTTypeOK
  <1>10. CallTypeOK
    BY <1>1, NoCallType DEF UpdateInit, CallTypeOK, NoCall, InCall
  <1>11. NoRecords \in [Students -> Seq(Rec)] /\ NoTrainSizes \in [Students -> Nat]
    BY UpdateAssumption DEF NoRecords, NoTrainSizes
  <1>12. QED
    BY <1>1, <1>9, <1>10, <1>11 DEF UpdateInit, TypeOK, KUTypeOK

LEMMA InitType == Init => TypeOK
  BY UpdateInitType DEF Init

\* A step of the loop of one_step_update_all, whichever it is.
LEMMA CallStepType ==
  ASSUME TypeOK, CallStep
  PROVE  TypeOK'
  BY ResolveType, OpenType, ObserveType, PropagateType, RunParameterUpdateType,
     SaveGraphType, SaveParamType, AppendTempRecordsType, PassingType DEF CallStep

LEMMA NextType == TypeOK /\ [Next]_callerVars => TypeOK'
  <1> SUFFICES ASSUME TypeOK, [Next]_callerVars
               PROVE  TypeOK'
    OBVIOUS
  <1>1. ASSUME NEW mode \in {"actual", "assumption"}, NEW reset \in BOOLEAN,
               NEW todo \in Todos, Update(mode, reset, todo)
        PROVE  TypeOK'
    BY <1>1, TodosType, BeginType DEF Update
  <1>2. CASE BetweenUpdates
    BY <1>2, BetweenType
  <1>3. CASE CallStep
    BY <1>3, CallStepType
  <1>4. CASE Raise
    BY <1>4, PassingType
  <1>5. CASE UNCHANGED callerVars
    BY <1>5 DEF callerVars, vars, rtVars, kuVars, TypeOK, RTTypeOK, KUTypeOK, CallTypeOK
  <1>6. QED
    BY <1>1, <1>2, <1>3, <1>4, <1>5 DEF Next

\* Through any order of calls, with exceptions anywhere, everything the runtime
\* and the updater keep has its shape (kt/runtime.py, kt/update.py).
THEOREM TypeCorrect == Spec => []TypeOK
  <1>1. Init => TypeOK
    BY InitType
  <1>2. TypeOK /\ [Next]_callerVars => TypeOK'
    BY NextType
  <1>3. QED
    BY <1>1, <1>2, PTL DEF Spec

---------------------------------------------------------------------------
(* The transient files.                                                    *)
(*                                                                         *)
(* That a file of burn-in size is never written depends on where the size  *)
(* of a call came from, and that parameters are saved under their own name *)
(* on what the call carried since it was estimated: the invariant follows  *)
(* both through the phases of the call.                                    *)

SizesClamped == \A s \in Students : practiceSize[s] >= burn_in_size

CallSize == call.size + Len(call.fresh)

CallCarries ==
  /\ call.phase \in InCall => call.size >= burn_in_size
  /\ call.phase \in InCall \ {"observe"} => call.fresh # <<>>
  /\ call.phase \in {"save", "saved"} =>
       call.param.own = call.sid /\ call.param.size = CallSize
  /\ call.phase = "saved" => <<call.sid, CallSize>> \in DOMAIN actualGraph

FilesInv == TypeOK /\ SizesClamped /\ CallCarries /\ ActualFilesConsistent

\* What a call of phase "observe" or later knows of itself.
LEMMA InCallFacts ==
  ASSUME TypeOK, call.phase \in InCall
  PROVE  /\ call \in CallRec /\ call.sid \in Students /\ call.size \in Nat
         /\ call.fresh \in Seq(Rec) /\ Len(call.fresh) \in Nat
         /\ CallSize \in Nat
  <1>1. call \in CallRec /\ call.sid \in Students
    BY DEF TypeOK, KUTypeOK, CallTypeOK
  <1>2. call.size \in Nat /\ call.fresh \in Seq(Rec)
    BY <1>1 DEF CallRec
  <1>3. Len(call.fresh) \in Nat
    BY <1>2
  <1>4. QED
    BY <1>1, <1>2, <1>3 DEF CallSize

\* A call that saves does so above the burn-in size.
LEMMA CallSizeAboveBurnIn ==
  ASSUME TypeOK, CallCarries, call.phase \in InCall \ {"observe"}
  PROVE  CallSize > burn_in_size
  <1>1. call.size \in Nat /\ call.fresh \in Seq(Rec) /\ burn_in_size \in Nat
    BY InCallFacts, SizesAssumption
  <1>2. call.size >= burn_in_size /\ call.fresh # <<>>
    BY DEF CallCarries
  <1>3. Len(call.fresh) \in Nat \ {0}
    <2> DEFINE f == call.fresh
    <2>1. f \in Seq(Rec) /\ f # <<>>
      BY <1>1, <1>2
    <2> HIDE DEF f
    <2>2. Len(f) \in Nat \ {0}
      BY <2>1
    <2>3. QED
      BY <2>2 DEF f
  <1>4. QED
    BY <1>1, <1>2, <1>3 DEF CallSize

\* Loading a student at its practice size moves no file and no size.
LEMMA LoadKeepsFiles ==
  ASSUME TypeOK, NEW s \in Students, NEW refresh \in BOOLEAN,
         LoadStudentGraph(s, practiceSize[s], refresh)
  PROVE  UNCHANGED <<practiceSize, actualGraph, actualParam>>
  BY DEF LoadStudentGraph, TypeOK, RTTypeOK

\* A step that leaves sizes and files alone keeps them consistent.
LEMMA FilesUnchanged ==
  ASSUME SizesClamped, ActualFilesConsistent,
         UNCHANGED <<practiceSize, actualGraph, actualParam>>
  PROVE  SizesClamped' /\ ActualFilesConsistent'
  BY DEF SizesClamped, ActualFilesConsistent

\* So does one that empties the directories and clamps the sizes.
LEMMA FilesDropped ==
  ASSUME DropActualFiles, SizesClamped'
  PROVE  SizesClamped' /\ ActualFilesConsistent'
  BY DEF DropActualFiles, NoFiles, ActualFilesConsistent

\* Outside the body of the loop the call carries nothing.
LEMMA CarriesNothing ==
  ASSUME call'.phase \notin InCall
  PROVE  CallCarries'
  BY DEF CallCarries, InCall

LEMMA BeginFiles ==
  ASSUME FilesInv, NEW mode \in {"actual", "assumption"}, NEW reset \in BOOLEAN,
         NEW todo \in Seq(Item), Begin(mode, reset, todo)
  PROVE  SizesClamped' /\ CallCarries' /\ ActualFilesConsistent'
  <1>1. CallCarries'
    <2>1. call'.phase = "resolve"
      BY DEF Begin, NoCall
    <2>2. QED
      BY <2>1, CarriesNothing DEF InCall
  <1>2. CASE reset
    <2>1. SizesClamped'
      BY <1>2, SizesAssumption DEF Begin, SizesClamped, Greater, FilesInv, TypeOK, RTTypeOK
    <2>2. QED
      BY <1>1, <1>2, <2>1, FilesDropped DEF Begin
  <1>3. CASE ~reset
    BY <1>1, <1>3, FilesUnchanged DEF Begin, FilesInv, rtVars
  <1>4. QED
    BY <1>2, <1>3

LEMMA OpenFiles ==
  ASSUME FilesInv, OpenStudent
  PROVE  SizesClamped' /\ CallCarries' /\ ActualFilesConsistent'
  <1> DEFINE s == Head(call.todo).sid
  <1>1. call \in CallRec /\ call.todo \in Seq(Item) /\ call.todo # <<>>
    BY DEF OpenStudent, FilesInv, TypeOK, KUTypeOK, CallTypeOK, CallRec, Item
  <1>2. s \in Students
    <2>1. Head(call.todo) \in Item
      BY <1>1
    <2>2. QED
      BY <2>1 DEF Item
  <1>3. LoadStudentGraph(s, practiceSize[s], FALSE)
    BY DEF OpenStudent
  <1>4. SizesClamped' /\ ActualFilesConsistent'
    BY <1>2, <1>3, LoadKeepsFiles, FilesUnchanged DEF FilesInv
  <1>5. call'.phase = "observe" /\ call'.size = practiceSize[s]
    BY <1>1 DEF OpenStudent, CallRec
  <1>6. CallCarries'
    BY <1>2, <1>5 DEF CallCarries, FilesInv, SizesClamped
  <1>7. QED
    BY <1>4, <1>6

LEMMA ObserveFiles ==
  ASSUME FilesInv, Observe
  PROVE  SizesClamped' /\ CallCarries' /\ ActualFilesConsistent'
  <1>1. call \in CallRec /\ call.phase = "observe"
    BY DEF Observe, FilesInv, TypeOK, KUTypeOK, CallTypeOK
  <1>2. call'.phase = "observe" /\ call'.size = call.size
    BY <1>1 DEF Observe, CallRec
  <1>3. CallCarries'
    BY <1>1, <1>2 DEF CallCarries, FilesInv, InCall
  <1>4. QED
    BY <1>3, FilesUnchanged DEF Observe, FilesInv, rtVars

LEMMA PropagateFiles ==
  ASSUME FilesInv, Propagate
  PROVE  SizesClamped' /\ CallCarries' /\ ActualFilesConsistent'
  <1>1. call \in CallRec /\ call.phase = "observe" /\ call.fresh # <<>>
    BY DEF Propagate, FilesInv, TypeOK, KUTypeOK, CallTypeOK
  <1>2. /\ call'.phase = "estimate" /\ call'.size = call.size
        /\ call'.fresh = call.fresh
    BY <1>1 DEF Propagate, CallRec
  <1>3. CallCarries'
    BY <1>1, <1>2 DEF CallCarries, FilesInv, InCall
  <1>4. QED
    BY <1>3, FilesUnchanged DEF Propagate, FilesInv

LEMMA RunParameterUpdateFiles ==
  ASSUME FilesInv, RunParameterUpdate
  PROVE  SizesClamped' /\ CallCarries' /\ ActualFilesConsistent'
  <1>1. call \in CallRec /\ call.phase = "estimate"
    BY DEF RunParameterUpdate, FilesInv, TypeOK, KUTypeOK, CallTypeOK
  <1>2. call' = [call EXCEPT !.phase = "save",
                   !.param = [own |-> call.sid, size |-> CallSize,
                              lin |-> call.graph.lin]]
    BY DEF RunParameterUpdate, CallSize
  <1>3. /\ call'.phase = "save" /\ call'.size = call.size
        /\ call'.fresh = call.fresh /\ call'.sid = call.sid
        /\ call'.param.own = call.sid /\ call'.param.size = CallSize
    BY <1>1, <1>2 DEF CallRec
  <1>4. CallSize' = CallSize
    BY <1>3 DEF CallSize
  <1>5. CallCarries'
    BY <1>1, <1>3, <1>4 DEF CallCarries, FilesInv, InCall
  <1>6. QED
    BY <1>5, FilesUnchanged DEF RunParameterUpdate, FilesInv

LEMMA SaveGraphFiles ==
  ASSUME FilesInv, SaveGraph
  PROVE  SizesClamped' /\ CallCarries' /\ ActualFilesConsistent'
  <1> DEFINE key == <<call.sid, CallSize>>
  <1>1. call \in CallRec /\ call.phase = "save"
    BY DEF SaveGraph, FilesInv, TypeOK, KUTypeOK, CallTypeOK
  <1>2. call.sid \in Students /\ CallSize \in Nat /\ CallSize > burn_in_size
    BY <1>1, InCallFacts, CallSizeAboveBurnIn DEF FilesInv, InCall
  <1>3. /\ call'.phase = "saved" /\ call'.size = call.size
        /\ call'.fresh = call.fresh /\ call'.sid = call.sid
        /\ call'.param = call.param
    BY <1>1 DEF SaveGraph, CallRec
  <1>4. CallSize' = CallSize
    BY <1>3 DEF CallSize
  <1>5. /\ DOMAIN actualGraph' = DOMAIN actualGraph \cup {key}
        /\ practiceSize' = [practiceSize EXCEPT ![call.sid] = CallSize]
        /\ actualParam' = actualParam
    BY DEF SaveGraph, SaveStudentGraph, Put, CallSize
  <1>6. CallCarries'
    BY <1>1, <1>3, <1>4, <1>5 DEF CallCarries, FilesInv, InCall
  <1>7. SizesClamped'
    BY <1>2, <1>5, SizesAssumption DEF SizesClamped, FilesInv, TypeOK, RTTypeOK
  <1>8. ActualFilesConsistent'
    BY <1>2, <1>5 DEF ActualFilesConsistent, FilesInv
  <1>9. QED
    BY <1>6, <1>7, <1>8

LEMMA SaveParamFiles ==
  ASSUME FilesInv, SaveParam
  PROVE  SizesClamped' /\ CallCarries' /\ ActualFilesConsistent'
  <1> DEFINE key == <<call.sid, CallSize>>
  <1>1. call \in CallRec /\ call.phase = "saved"
    BY DEF SaveParam, FilesInv, TypeOK, KUTypeOK, CallTypeOK
  <1>2. call.sid \in Students /\ CallSize \in Nat /\ CallSize > burn_in_size
    BY <1>1, InCallFacts, CallSizeAboveBurnIn DEF FilesInv, InCall
  <1>3. ParamKey(call.sid, CallSize) = key
    BY <1>2, StudentsAssumption, SizesAssumption DEF ParamKey
  <1>4. /\ actualParam' = Put(actualParam, key, call.param)
        /\ practiceSize' = [practiceSize EXCEPT ![call.sid] =
                              IF CallSize > burn_in_size THEN CallSize ELSE burn_in_size]
        /\ actualGraph' = actualGraph
    BY <1>3 DEF SaveParam, SaveParamGraph, CallSize
  <1>5. /\ key \in DOMAIN actualGraph
        /\ call.param.own = call.sid /\ call.param.size = CallSize
    BY <1>1 DEF FilesInv, CallCarries
  <1>6. ActualFilesConsistent'
    BY <1>4, <1>5 DEF Put, ActualFilesConsistent, FilesInv
  <1>7. SizesClamped'
    BY <1>2, <1>4, SizesAssumption DEF SizesClamped, FilesInv, TypeOK, RTTypeOK
  <1>8. CallCarries'
    <2>1. /\ call'.phase = "log" /\ call'.size = call.size
          /\ call'.fresh = call.fresh
      BY <1>1 DEF SaveParam, CallRec
    <2>2. QED
      BY <1>1, <2>1 DEF CallCarries, FilesInv, InCall
  <1>9. QED
    BY <1>6, <1>7, <1>8

\* The steps that neither save nor enter the body of the loop.
LEMMA PassingFiles ==
  ASSUME FilesInv,
         \/ ResolveStudents \/ NothingObserved \/ SaveAssumption
         \/ AppendTempRecords \/ Return \/ Raise
  PROVE  SizesClamped' /\ CallCarries' /\ ActualFilesConsistent'
  <1>1. call \in CallRec
    BY DEF FilesInv, TypeOK, KUTypeOK, CallTypeOK
  <1>2. UNCHANGED rtVars
    BY DEF ResolveStudents, NothingObserved, SaveAssumption, AppendTempRecords,
           Return, Raise
  <1>3. call'.phase \in {"next", "idle"}
    BY <1>1 DEF ResolveStudents, NothingObserved, SaveAssumption,
                AppendTempRecords, Return, Raise, NoCall, CallRec
  <1>4. QED
    BY <1>2, <1>3, FilesUnchanged, CarriesNothing DEF FilesInv, rtVars, InCall

LEMMA BetweenFiles ==
  ASSUME FilesInv, BetweenUpdates
  PROVE  SizesClamped' /\ CallCarries' /\ ActualFilesConsistent'
  <1>1. call.phase = "idle" /\ call' = call
    BY DEF BetweenUpdates, PredictOnNewQuestion, Refresh, ChooseSize, Clear
  <1>2. CallCarries'
    BY <1>1, CarriesNothing DEF InCall
  <1>3. ASSUME NEW s \in Students, PredictOnNewQuestion(s) \/ Refresh(s)
        PROVE  SizesClamped' /\ ActualFilesConsistent'
    BY <1>3, LoadKeepsFiles, FilesUnchanged DEF PredictOnNewQuestion, Refresh, FilesInv
  <1>4. ASSUME NEW s \in Students, NEW n \in 0..MaxSizeAsked, ChooseSize(s, n)
        PROVE  SizesClamped' /\ ActualFilesConsistent'
    <2>1. SizesClamped'
      BY <1>4, SizesAssumption
      DEF ChooseSize, SetPracticeSize, SizesClamped, FilesInv, TypeOK, RTTypeOK
    <2>2. QED
      BY <1>4, <2>1
      DEF ChooseSize, SetPracticeSize, FilesInv, ActualFilesConsistent
  <1>5. CASE Clear
    <2>1. SizesClamped'
      BY <1>5, MaxSizeType DEF Clear, ClearActualTempGraphs, Historical, SizesClamped
    <2>2. QED
      BY <1>2, <1>5, <2>1, FilesDropped DEF Clear, ClearActualTempGraphs
  <1>6. QED
    BY <1>2, <1>3, <1>4, <1>5 DEF BetweenUpdates

LEMMA InitFiles == Init => FilesInv
  <1> SUFFICES ASSUME Init PROVE FilesInv
    OBVIOUS
  <1>1. RTInit /\ call = NoCall
    BY DEF Init, UpdateInit
  <1>2. SizesClamped
    BY <1>1, MaxSizeType DEF RTInit, Historical, SizesClamped
  <1>3. CallCarries
    BY <1>1 DEF CallCarries, NoCall, InCall
  <1>4. ActualFilesConsistent
    BY <1>1 DEF RTInit, NoFiles, ActualFilesConsistent
  <1>5. QED
    BY <1>2, <1>3, <1>4, InitType DEF FilesInv

LEMMA NextFiles == FilesInv /\ [Next]_callerVars => FilesInv'
  <1> SUFFICES ASSUME FilesInv, [Next]_callerVars
               PROVE  FilesInv'
    OBVIOUS
  <1>1. TypeOK'
    BY NextType DEF FilesInv
  <1>2. ASSUME NEW mode \in {"actual", "assumption"}, NEW reset \in BOOLEAN,
               NEW todo \in Todos, Update(mode, reset, todo)
        PROVE  SizesClamped' /\ CallCarries' /\ ActualFilesConsistent'
    BY <1>2, TodosType, BeginFiles DEF Update
  <1>3. CASE BetweenUpdates
    BY <1>1, <1>3, BetweenFiles DEF FilesInv
  <1>4. CASE CallStep \/ Raise
    BY <1>1, <1>4, OpenFiles, ObserveFiles, PropagateFiles,
       RunParameterUpdateFiles, SaveGraphFiles, SaveParamFiles, PassingFiles
    DEF CallStep, FilesInv
  <1>5. CASE UNCHANGED callerVars
    BY <1>1, <1>5 DEF callerVars, vars, rtVars, FilesInv, SizesClamped,
                      CallCarries, CallSize, ActualFilesConsistent
  <1>6. QED
    BY <1>1, <1>2, <1>3, <1>4, <1>5 DEF Next, FilesInv

\* Whatever the order of calls and wherever exceptions fall, the transient
\* directories never shadow the shared burn-in files, and hold parameters only
\* beside the graph they belong to and under their own name (the saves of
\* kt/update.py:216-238, the clamp of kt/runtime.py:108).
THEOREM FilesConsistent == Spec => []ActualFilesConsistent
  <1>1. Init => FilesInv
    BY InitFiles
  <1>2. FilesInv /\ [Next]_callerVars => FilesInv'
    BY NextFiles
  <1>3. FilesInv => ActualFilesConsistent
    BY DEF FilesInv
  <1>4. QED
    BY <1>1, <1>2, <1>3, PTL DEF Spec

---------------------------------------------------------------------------
(* Assumption updates.                                                     *)
(*                                                                         *)
(* The writes of a call after its graph is saved do not ask for the mode   *)
(* again: that they are writes of an actual update is the invariant.       *)

OnlyActualSaves == call.phase \in {"saved", "log"} => IsActual

AssumptionInv == TypeOK /\ OnlyActualSaves

\* Every step but the two that save leaves the call elsewhere.
LEMMA OnlyActualSavesStep ==
  ASSUME AssumptionInv, CallStep \/ Raise
  PROVE  OnlyActualSaves'
  <1>1. call \in CallRec
    BY DEF AssumptionInv, TypeOK, KUTypeOK, CallTypeOK
  <1>2. CASE SaveGraph \/ SaveParam
    BY <1>1, <1>2
    DEF SaveGraph, SaveParam, CallRec, AssumptionInv, OnlyActualSaves, IsActual
  <1>3. CASE \/ ResolveStudents \/ OpenStudent \/ NothingObserved \/ Propagate
             \/ RunParameterUpdate \/ SaveAssumption \/ AppendTempRecords
             \/ Return \/ Raise
    <2>1. CASE ResolveStudents \/ NothingObserved \/ SaveAssumption \/ AppendTempRecords
      <3>1. call'.phase = "next"
        BY <1>1, <2>1
        DEF ResolveStudents, NothingObserved, SaveAssumption, AppendTempRecords, CallRec
      <3>2. QED
        BY <3>1 DEF OnlyActualSaves
    <2>2. CASE Return \/ Raise
      BY <2>2 DEF Return, Raise, NoCall, OnlyActualSaves
    <2>3. CASE OpenStudent
      <3>1. call'.phase = "observe"
        BY <1>1, <2>3 DEF OpenStudent, CallRec
      <3>2. QED
        BY <3>1 DEF OnlyActualSaves
    <2>4. CASE Propagate
      <3>1. call'.phase = "estimate"
        BY <1>1, <2>4 DEF Propagate, CallRec
      <3>2. QED
        BY <3>1 DEF OnlyActualSaves
    <2>5. CASE RunParameterUpdate
      <3>1. call'.phase = "save"
        BY <1>1, <2>5 DEF RunParameterUpdate, CallRec
      <3>2. QED
        BY <3>1 DEF OnlyActualSaves
    <2>6. QED
      BY <1>3, <2>1, <2>2, <2>3, <2>4, <2>5
  <1>4. CASE Observe
    <2>1. call'.phase = "observe"
      BY <1>1, <1>4 DEF Observe, CallRec
    <2>2. QED
      BY <2>1 DEF OnlyActualSaves
  <1>5. QED
    BY <1>2, <1>3, <1>4 DEF CallStep

LEMMA NextAssumption == AssumptionInv /\ [Next]_callerVars => AssumptionInv'
  <1> SUFFICES ASSUME AssumptionInv, [Next]_callerVars
               PROVE  AssumptionInv'
    OBVIOUS
  <1>1. TypeOK'
    BY NextType DEF AssumptionInv
  <1>2. ASSUME NEW mode \in {"actual", "assumption"}, NEW reset \in BOOLEAN,
               NEW todo \in Todos, Update(mode, reset, todo)
        PROVE  OnlyActualSaves'
    BY <1>2 DEF Update, Begin, NoCall, OnlyActualSaves
  <1>3. CASE BetweenUpdates
    BY <1>1, <1>3
    DEF BetweenUpdates, PredictOnNewQuestion, Refresh, ChooseSize, Clear,
        AssumptionInv, OnlyActualSaves, IsActual
  <1>4. CASE CallStep \/ Raise
    BY <1>1, <1>4, OnlyActualSavesStep DEF AssumptionInv
  <1>5. CASE UNCHANGED callerVars
    BY <1>1, <1>5 DEF callerVars, vars, AssumptionInv, OnlyActualSaves, IsActual
  <1>6. QED
    BY <1>1, <1>2, <1>3, <1>4, <1>5 DEF Next, AssumptionInv

\* What AssumptionIsolation says of one step.
Isolated ==
  call.mode = "assumption" /\ call.phase \notin {"idle", "resolve"} =>
    /\ UNCHANGED <<practiceSize, canonPath, actualGraph, actualParam,
                   history, extras, tempRecords>>
    /\ \A s \in Students : cache[s] # None => cache'[s] = cache[s]

\* Opening a student fills at most an empty slot of the cache.
LEMMA OpenIsolated ==
  ASSUME AssumptionInv, OpenStudent
  PROVE  Isolated
  <1> DEFINE s == Head(call.todo).sid
  <1>1. call.todo \in Seq(Item) /\ call.todo # <<>>
    BY DEF OpenStudent, AssumptionInv, TypeOK, KUTypeOK, CallTypeOK, CallRec, Item
  <1>2. s \in Students
    <2>1. Head(call.todo) \in Item
      BY <1>1
    <2>2. QED
      BY <2>1 DEF Item
  <1>3. LoadStudentGraph(s, practiceSize[s], FALSE)
    BY DEF OpenStudent
  <1>4. UNCHANGED <<practiceSize, canonPath, actualGraph, actualParam>>
    BY <1>2, <1>3 DEF LoadStudentGraph, AssumptionInv, TypeOK, RTTypeOK
  <1>5. \A o \in Students : cache[o] # None => cache'[o] = cache[o]
    BY <1>2, <1>3 DEF LoadStudentGraph, AssumptionInv, TypeOK, RTTypeOK
  <1>6. QED
    BY <1>4, <1>5 DEF OpenStudent, Isolated

LEMMA NextIsolated == AssumptionInv /\ [Next]_callerVars => Isolated
  <1> SUFFICES ASSUME AssumptionInv, [Next]_callerVars
               PROVE  Isolated
    OBVIOUS
  <1>1. CASE \E mode \in {"actual", "assumption"}, reset \in BOOLEAN, todo \in Todos :
               Update(mode, reset, todo)
    BY <1>1 DEF Update, Begin, Isolated
  <1>2. CASE BetweenUpdates
    BY <1>2 DEF BetweenUpdates, PredictOnNewQuestion, Refresh, ChooseSize, Clear, Isolated
  <1>3. CASE CallStep \/ Raise
    <2>1. CASE ResolveStudents
      BY <2>1 DEF ResolveStudents, Isolated
    <2>2. CASE OpenStudent
      BY <2>2, OpenIsolated
    <2>3. CASE Observe
      BY <2>3 DEF Observe, Isolated, IsActual, rtVars
    <2>4. CASE Propagate
      BY <2>4 DEF Propagate, Isolated, IsActual, kuVars
    <2>5. CASE RunParameterUpdate
      BY <2>5 DEF RunParameterUpdate, Isolated
    <2>6. CASE SaveGraph
      BY <2>6 DEF SaveGraph, Isolated, IsActual
    <2>7. CASE SaveParam \/ AppendTempRecords
      BY <2>7 DEF SaveParam, AppendTempRecords, Isolated, IsActual,
                  AssumptionInv, OnlyActualSaves
    <2>8. CASE NothingObserved \/ SaveAssumption \/ Return \/ Raise
      BY <2>8 DEF NothingObserved, SaveAssumption, Return, Raise, Isolated,
                  rtVars, kuVars
    <2>9. QED
      BY <1>3, <2>1, <2>2, <2>3, <2>4, <2>5, <2>6, <2>7, <2>8 DEF CallStep
  <1>4. CASE UNCHANGED callerVars
    BY <1>4 DEF callerVars, vars, rtVars, kuVars, Isolated
  <1>5. QED
    BY <1>1, <1>2, <1>3, <1>4 DEF Next

\* Once its students are resolved, an assumption update leaves every file,
\* size and record list alone, and every graph the cache held: the copies of
\* kt/update.py:142-149 cover all that it goes on to write.
THEOREM AssumptionIsolated == Spec => AssumptionIsolation
  <1>1. Init => AssumptionInv
    BY InitType DEF AssumptionInv, OnlyActualSaves, Init, UpdateInit, NoCall
  <1>2. AssumptionInv /\ [Next]_callerVars => AssumptionInv'
    BY NextAssumption
  <1>3. AssumptionInv /\ [Next]_callerVars => [Isolated]_callerVars
    BY NextIsolated
  <1>4. QED
    BY <1>1, <1>2, <1>3, PTL DEF Spec, AssumptionIsolation, Isolated
---------------------------------------------------------------------------
(* Question histories.                                                     *)
(*                                                                         *)
(* Whatever an update, an exception or a choice of sizes does, a history   *)
(* only grows at its end until a reset empties all.                        *)

\* In actual mode the history an update works on is the runtime's own list.
OwnHistory ==
  call.phase = "observe" /\ call.mode = "actual" => call.hist = history[call.sid]

HistoryInv == TypeOK /\ OwnHistory

LEMMA PrefixOfItself == ASSUME NEW h \in Seq(Rec) PROVE IsPrefixOf(h, h)
  BY DEF IsPrefixOf

LEMMA PrefixOfAppended ==
  ASSUME NEW h \in Seq(Rec), NEW r \in Rec
  PROVE  IsPrefixOf(h, Append(h, r))
  <1>1. Len(h) \in Nat /\ Len(Append(h, r)) = Len(h) + 1
    OBVIOUS
  <1>2. \A i \in DOMAIN h : h[i] = Append(h, r)[i]
    OBVIOUS
  <1>3. QED
    BY <1>1, <1>2 DEF IsPrefixOf

\* _ensure_history keeps what is there.
LEMMA PrefixOfEnsured ==
  ASSUME TypeOK, NEW act \in SUBSET Students, NEW s \in Students
  PROVE  IsPrefixOf(history[s], EnsuredHistory(act)[s])
  <1> DEFINE h == history[s]
             upTo == Lesser(InitialTrainSize(s, act), Len(Base[s]))
             n == Greater(Len(h), upTo)
             g == [i \in 1..n |-> IF i <= Len(h) THEN h[i]
                                  ELSE [kc |-> Base[s][i], src |-> "dataset"]]
  <1>1. h \in Seq(Rec) /\ Base[s] \in Seq(KCs)
    BY RecordsAssumption DEF TypeOK, KUTypeOK
  <1>2. upTo \in Nat
    BY <1>1, UpdateAssumption DEF Lesser, InitialTrainSize, TypeOK, RTTypeOK
  <1>3. Len(h) \in Nat /\ n \in Nat /\ Len(h) <= n
    BY <1>1, <1>2 DEF Greater
  <1>4. EnsuredHistory(act)[s] = g
    BY DEF EnsuredHistory
  <1>5. g \in Seq(Rec)
    BY <1>4, EnsuredHistoryType DEF TypeOK
  <1> HIDE DEF n, h
  <1>6. Len(g) = n
    BY <1>3, <1>5
  <1>7. \A i \in DOMAIN h : h[i] = g[i]
    BY <1>1, <1>3
  <1> HIDE DEF g
  <1>8. IsPrefixOf(h, g)
    BY <1>3, <1>6, <1>7 DEF IsPrefixOf
  <1>9. QED
    BY <1>4, <1>8 DEF h

---------------------------------------------------------------------------
LEMMA HistoryInvInit == Init => HistoryInv
  BY InitType DEF HistoryInv, OwnHistory, Init, UpdateInit, NoCall

LEMMA OwnHistoryStep ==
  ASSUME HistoryInv, CallStep \/ Raise
  PROVE  OwnHistory'
  <1>1. call \in CallRec
    BY DEF HistoryInv, TypeOK, KUTypeOK, CallTypeOK
  <1>2. CASE OpenStudent
    BY <1>1, <1>2 DEF OpenStudent, CallRec, OwnHistory
  <1>3. CASE Observe
    <2> DEFINE k == kcMapping[Head(call.obs)]
               h == IF k \in KCs
                      THEN Append(call.hist, [kc |-> k, src |-> "practice"])
                      ELSE call.hist
    <2>1. /\ call'.hist = h /\ call'.sid = call.sid /\ call'.mode = call.mode
          /\ history' = IF IsActual THEN [history EXCEPT ![call.sid] = h] ELSE history
      BY <1>1, <1>3 DEF Observe, CallRec
    <2>2. call.sid \in Students /\ history \in [Students -> Seq(Rec)]
      BY <1>3 DEF Observe, HistoryInv, TypeOK, KUTypeOK, CallTypeOK, InCall
    <2> HIDE DEF h
    <2>3. QED
      BY <2>1, <2>2 DEF OwnHistory, IsActual
  <1>4. CASE \/ ResolveStudents \/ NothingObserved \/ Propagate \/ RunParameterUpdate
             \/ SaveAssumption \/ SaveGraph \/ SaveParam \/ AppendTempRecords
             \/ Return \/ Raise
    <2>1. call'.phase # "observe"
      <3>1. CASE ResolveStudents \/ NothingObserved \/ SaveAssumption \/ AppendTempRecords
        BY <1>1, <3>1
        DEF ResolveStudents, NothingObserved, SaveAssumption, AppendTempRecords, CallRec
      <3>2. CASE Propagate BY <1>1, <3>2 DEF Propagate, CallRec
      <3>3. CASE RunParameterUpdate BY <1>1, <3>3 DEF RunParameterUpdate, CallRec
      <3>4. CASE SaveGraph \/ SaveParam BY <1>1, <3>4 DEF SaveGraph, SaveParam, CallRec
      <3>5. CASE Return \/ Raise BY <3>5 DEF Return, Raise, NoCall
      <3>6. QED
        BY <1>4, <3>1, <3>2, <3>3, <3>4, <3>5
    <2>2. QED
      BY <2>1 DEF OwnHistory
  <1>5. QED
    BY <1>2, <1>3, <1>4 DEF CallStep

LEMMA HistoryInvNext == HistoryInv /\ [Next]_callerVars => HistoryInv'
  <1> SUFFICES ASSUME HistoryInv, [Next]_callerVars
               PROVE  HistoryInv'
    OBVIOUS
  <1>1. TypeOK'
    BY NextType DEF HistoryInv
  <1>2. ASSUME NEW mode \in {"actual", "assumption"}, NEW reset \in BOOLEAN,
               NEW todo \in Todos, Update(mode, reset, todo)
        PROVE  OwnHistory'
    <2>1. call'.phase = "resolve"
      BY <1>2 DEF Update, Begin, NoCall
    <2>2. QED
      BY <2>1 DEF OwnHistory
  <1>3. CASE BetweenUpdates
    <2>1. call.phase = "idle" /\ call' = call
      BY <1>3 DEF BetweenUpdates, PredictOnNewQuestion, Refresh, ChooseSize, Clear
    <2>2. QED
      BY <1>1, <2>1 DEF HistoryInv, OwnHistory
  <1>4. CASE CallStep \/ Raise
    BY <1>1, <1>4, OwnHistoryStep DEF HistoryInv
  <1>5. CASE UNCHANGED callerVars
    <2>1. call' = call /\ history' = history
      BY <1>5 DEF callerVars, vars, kuVars
    <2>2. QED
      BY <1>1, <2>1 DEF HistoryInv, OwnHistory
  <1>6. QED
    BY <1>1, <1>2, <1>3, <1>4, <1>5 DEF Next, HistoryInv

---------------------------------------------------------------------------
\* What HistoryNeverRewritten says of one step.
OnlyGrows ==
  \/ history' = NoRecords
  \/ \A s \in Students : IsPrefixOf(history[s], history'[s])

LEMMA UnchangedGrows == ASSUME TypeOK, UNCHANGED history PROVE OnlyGrows
  BY PrefixOfItself DEF OnlyGrows, TypeOK, KUTypeOK

LEMMA ObserveGrows ==
  ASSUME HistoryInv, Observe
  PROVE  OnlyGrows
  <1> DEFINE k == kcMapping[Head(call.obs)]
             r == [kc |-> k, src |-> "practice"]
  <1>1. /\ call.phase = "observe" /\ call.sid \in Students
        /\ history \in [Students -> Seq(Rec)]
    BY DEF Observe, HistoryInv, TypeOK, KUTypeOK, CallTypeOK, InCall
  <1>2. CASE IsActual /\ k \in KCs
    <2>1. call.hist = history[call.sid]
      BY <1>1, <1>2 DEF HistoryInv, OwnHistory, IsActual
    <2>2. history' = [history EXCEPT ![call.sid] = Append(history[call.sid], r)]
      BY <1>2, <2>1 DEF Observe
    <2>3. r \in Rec
      BY <1>2 DEF Rec
    <2> HIDE DEF r
    <2>4. IsPrefixOf(history[call.sid], Append(history[call.sid], r))
      BY <1>1, <2>3, PrefixOfAppended
    <2>5. \A s \in Students : IsPrefixOf(history[s], history'[s])
      BY <1>1, <2>2, <2>4, PrefixOfItself
    <2>6. QED
      BY <2>5 DEF OnlyGrows
  <1>3. CASE IsActual /\ k \notin KCs
    <2>1. call.hist = history[call.sid]
      BY <1>1, <1>3 DEF HistoryInv, OwnHistory, IsActual
    <2>2. history' = history
      BY <1>1, <1>3, <2>1 DEF Observe
    <2>3. QED
      BY <2>2, UnchangedGrows DEF HistoryInv
  <1>4. CASE ~IsActual
    BY <1>4, UnchangedGrows DEF Observe, HistoryInv
  <1>5. QED
    BY <1>2, <1>3, <1>4

LEMMA NextGrows == HistoryInv /\ [Next]_callerVars => OnlyGrows
  <1> SUFFICES ASSUME HistoryInv, [Next]_callerVars
               PROVE  OnlyGrows
    OBVIOUS
  <1>1. ASSUME NEW mode \in {"actual", "assumption"}, NEW reset \in BOOLEAN,
               NEW todo \in Todos, Update(mode, reset, todo)
        PROVE  OnlyGrows
    <2>1. CASE reset BY <1>1, <2>1 DEF Update, Begin, OnlyGrows
    <2>2. CASE ~reset
      <3>1. UNCHANGED history BY <1>1, <2>2 DEF Update, Begin, kuVars
      <3>2. QED BY <3>1, UnchangedGrows DEF HistoryInv
    <2>3. QED BY <2>1, <2>2
  <1>2. CASE ResolveStudents
    <2>1. CallStudents \in SUBSET Students
      <3>1. call.todo \in Seq(Item)
        BY DEF HistoryInv, TypeOK, KUTypeOK, CallTypeOK, CallRec, Item
      <3>2. \A i \in DOMAIN call.todo : call.todo[i] \in Item
        BY <3>1
      <3>3. QED
        BY <3>2 DEF CallStudents, Item
    <2>2. history' = EnsuredHistory(CallStudents)
      BY <1>2 DEF ResolveStudents
    <2>3. QED
      BY <2>1, <2>2, PrefixOfEnsured DEF HistoryInv, OnlyGrows
  <1>3. CASE Observe
    BY <1>3, ObserveGrows
  <1>4. CASE \/ OpenStudent \/ NothingObserved \/ Propagate \/ RunParameterUpdate
             \/ SaveAssumption \/ SaveGraph \/ SaveParam \/ AppendTempRecords
             \/ Return \/ Raise \/ BetweenUpdates \/ UNCHANGED callerVars
    <2>1. UNCHANGED history
      BY <1>4 DEF OpenStudent, NothingObserved, Propagate, RunParameterUpdate,
         SaveAssumption, SaveGraph, SaveParam, AppendTempRecords, Return, Raise,
         BetweenUpdates, PredictOnNewQuestion, Refresh, ChooseSize, Clear,
         callerVars, vars, kuVars
    <2>2. QED
      BY <2>1, UnchangedGrows DEF HistoryInv
  <1>5. QED
    BY <1>1, <1>2, <1>3, <1>4 DEF Next, CallStep

\* Between two resets no update, exception or change of sizes drops or reorders
\* what a question history holds (_ensure_history, one_step_update_all).
THEOREM HistoryOnlyGrows == Spec => HistoryNeverRewritten
  <1>1. HistoryInv /\ [Next]_callerVars => [OnlyGrows]_callerVars
    BY NextGrows
  <1>2. QED
    BY HistoryInvInit, HistoryInvNext, <1>1, PTL
    DEF Spec, HistoryNeverRewritten, OnlyGrows

---------------------------------------------------------------------------
(* The three places that remember answers.                                 *)
(*                                                                         *)
(* That no place lacks what the next one holds is not inductive: the       *)
(* answers of the call in progress are to be in the history before they    *)
(* are added to the extra records, and in those before they are written.   *)

Places(h, k) == {i \in DOMAIN h : h[i] = [kc |-> k, src |-> "practice"]}

LEMMA CountType ==
  ASSUME NEW h \in Seq(Rec), NEW k
  PROVE  /\ IsFiniteSet(Places(h, k)) /\ PracticeCount(h, k) = Cardinality(Places(h, k))
         /\ PracticeCount(h, k) \in Nat
  <1>1. Len(h) \in Nat /\ Places(h, k) \subseteq 1..Len(h)
    BY DEF Places
  <1>2. IsFiniteSet(Places(h, k))
    <2>1. IsFiniteSet(1..Len(h))
      BY <1>1, FS_Interval
    <2>2. Places(h, k) \in SUBSET (1..Len(h))
      BY <1>1
    <2>3. QED
      BY <2>1, <2>2, FS_Subset
  <1>3. QED
    BY <1>2, FS_CardinalityType DEF PracticeCount, Places

LEMMA CountNone == ASSUME NEW k PROVE PracticeCount(<<>>, k) = 0
  <1>1. Places(<<>>, k) = {}
    BY DEF Places
  <1>2. QED
    BY <1>1, FS_EmptySet DEF PracticeCount, Places

LEMMA CountPrefix ==
  ASSUME NEW g \in Seq(Rec), NEW h \in Seq(Rec), IsPrefixOf(g, h), NEW k
  PROVE  PracticeCount(g, k) <= PracticeCount(h, k)
  <1>1. Places(g, k) \subseteq Places(h, k)
    BY DEF Places, IsPrefixOf
  <1>2. QED
    BY <1>1, CountType, FS_Subset

\* Joining two lists adds their counts.
LEMMA CountJoined ==
  ASSUME NEW g \in Seq(Rec), NEW h \in Seq(Rec), NEW k
  PROVE  PracticeCount(g \o h, k) = PracticeCount(g, k) + PracticeCount(h, k)
  <1> DEFINE later == {Len(g) + i : i \in Places(h, k)}
             move == [i \in Places(h, k) |-> Len(g) + i]
  <1>1. /\ Len(g) \in Nat /\ Len(h) \in Nat /\ g \o h \in Seq(Rec)
        /\ Len(g \o h) = Len(g) + Len(h)
        /\ \A i \in 1..Len(g) : (g \o h)[i] = g[i]
        /\ \A i \in 1..Len(h) : (g \o h)[Len(g) + i] = h[i]
    OBVIOUS
  <1>2. Places(g, k) \subseteq 1..Len(g) /\ Places(h, k) \subseteq 1..Len(h)
    BY DEF Places
  <1>3. Places(g \o h, k) = Places(g, k) \cup later
    <2>1. ASSUME NEW i \in Places(g \o h, k) PROVE i \in Places(g, k) \cup later
      <3>1. i \in 1..Len(g) + Len(h)
            /\ (g \o h)[i] = [kc |-> k, src |-> "practice"]
        BY <1>1 DEF Places
      <3>2. CASE i <= Len(g)
        BY <1>1, <3>1, <3>2 DEF Places
      <3>3. CASE ~(i <= Len(g))
        <4>1. i - Len(g) \in 1..Len(h) /\ i = Len(g) + (i - Len(g))
          BY <1>1, <3>1, <3>3
        <4>2. i - Len(g) \in Places(h, k)
          BY <1>1, <3>1, <4>1 DEF Places
        <4>3. QED
          BY <4>1, <4>2
      <3>4. QED
        BY <3>2, <3>3
    <2>2. Places(g, k) \subseteq Places(g \o h, k)
      <3>1. \A i \in 1..Len(g) : i \in 1..Len(g) + Len(h)
        BY <1>1
      <3>2. QED
        BY <1>1, <3>1 DEF Places
    <2>3. later \subseteq Places(g \o h, k)
      <3>1. \A i \in 1..Len(h) : Len(g) + i \in 1..Len(g) + Len(h)
        BY <1>1
      <3>2. QED
        BY <1>1, <3>1 DEF Places
    <2>4. QED
      BY <2>1, <2>2, <2>3
  <1>4. Places(g, k) \cap later = {}
    BY <1>1, <1>2
  <1>5. IsFiniteSet(later) /\ Cardinality(later) = Cardinality(Places(h, k))
    <2>1. move \in Bijection(Places(h, k), later)
      BY <1>1, <1>2 DEF Bijection, Injection, Surjection, IsInjective
    <2>2. QED
      BY <2>1, CountType, FS_Bijection DEF ExistsBijection
  <1> HIDE DEF later
  <1>6. Cardinality(Places(g, k) \cup later) = Cardinality(Places(g, k)) + Cardinality(later)
    <2>1. Cardinality(Places(g, k) \cap later) = 0
      BY <1>4, FS_EmptySet
    <2>2. Cardinality(Places(g, k)) \in Nat /\ Cardinality(later) \in Nat
      BY <1>5, CountType, FS_CardinalityType
    <2>3. Cardinality(Places(g, k) \cup later) =
            Cardinality(Places(g, k)) + Cardinality(later) - Cardinality(Places(g, k) \cap later)
      <3>1. IsFiniteSet(Places(g, k))
        BY CountType
      <3>2. QED
        BY <1>5, <3>1, FS_Union
    <2>4. QED
      BY <2>1, <2>2, <2>3
  <1>7. QED
    BY <1>1, <1>3, <1>5, <1>6, CountType

LEMMA CountAppended ==
  ASSUME NEW h \in Seq(Rec), NEW r \in Rec, NEW k
  PROVE  PracticeCount(Append(h, r), k) = PracticeCount(h, k) + PracticeCount(<<r>>, k)
  <1> DEFINE one == <<r>>
             more == Append(h, r)
  <1>1. one \in Seq(Rec) /\ more = h \o one
    OBVIOUS
  <1> HIDE DEF one, more
  <1>2. PracticeCount(more, k) = PracticeCount(h, k) + PracticeCount(one, k)
    BY <1>1, CountJoined
  <1>3. QED
    BY <1>2 DEF one, more

\* The records of the dataset are no answers.
LEMMA CountBase ==
  ASSUME NEW s \in Students, NEW n \in Nat, NEW k
  PROVE  PracticeCount(BaseHistory(s, n), k) = 0
  <1>1. Places(BaseHistory(s, n), k) = {}
    BY DEF Places, BaseHistory
  <1>2. QED
    BY <1>1, BaseHistoryType, CountType, FS_EmptySet

\* The temp recordings, empty while there is no file.
Written(s) == IF tempRecords = None THEN <<>> ELSE tempRecords[s]

\* What the call in progress has yet to add for s to the extra records, and
\* to the temp recordings after those.
ToKeep(s) ==
  IF call.phase \in InCall \ {"log"} /\ IsActual /\ call.sid = s THEN call.fresh ELSE <<>>
ToWrite(s) == IF call.phase = "log" /\ IsActual /\ call.sid = s THEN call.fresh ELSE <<>>

KeptBelowHistory ==
  \A s \in Students, k \in KCs :
    PracticeCount(extras[s], k) + PracticeCount(ToKeep(s), k) <= PracticeCount(history[s], k)
WrittenBelowKept ==
  \A s \in Students, k \in KCs :
    PracticeCount(Written(s), k) + PracticeCount(ToWrite(s), k) <= PracticeCount(extras[s], k)

FlowInv ==
  HistoryInv /\ OnlyActualSaves /\ KeptBelowHistory /\ WrittenBelowKept

LEMMA FlowFacts ==
  ASSUME FlowInv
  PROVE  /\ call \in CallRec /\ call.fresh \in Seq(Rec) /\ call.hist \in Seq(Rec)
         /\ history \in [Students -> Seq(Rec)] /\ extras \in [Students -> Seq(Rec)]
         /\ \A s \in Students : Written(s) \in Seq(Rec) /\ ToKeep(s) \in Seq(Rec)
                                /\ ToWrite(s) \in Seq(Rec)
         /\ call.phase \in InCall => call.sid \in Students
  BY DEF FlowInv, HistoryInv, TypeOK, KUTypeOK, CallTypeOK, CallRec, Written, ToKeep, ToWrite

\* Counts of lists of records are numbers.
LEMMA FlowCounts ==
  ASSUME FlowInv, NEW s \in Students, NEW k \in KCs
  PROVE  /\ PracticeCount(extras[s], k) \in Nat /\ PracticeCount(history[s], k) \in Nat
         /\ PracticeCount(Written(s), k) \in Nat
         /\ PracticeCount(ToKeep(s), k) \in Nat /\ PracticeCount(ToWrite(s), k) \in Nat
         /\ PracticeCount(call.fresh, k) \in Nat
         /\ PracticeCount(<<>>, k) = 0
         /\ PracticeCount(extras[s], k) + PracticeCount(ToKeep(s), k)
              <= PracticeCount(history[s], k)
         /\ PracticeCount(Written(s), k) + PracticeCount(ToWrite(s), k)
              <= PracticeCount(extras[s], k)
  <1>1. /\ call.fresh \in Seq(Rec) /\ history[s] \in Seq(Rec) /\ extras[s] \in Seq(Rec)
        /\ Written(s) \in Seq(Rec) /\ ToKeep(s) \in Seq(Rec) /\ ToWrite(s) \in Seq(Rec)
    BY FlowFacts
  <1>2. QED
    BY <1>1, CountType, CountNone DEF FlowInv, KeptBelowHistory, WrittenBelowKept

\* A step that leaves the three places alone, and the call with no more to add
\* than it had.
LEMMA FlowKept ==
  ASSUME FlowInv, UNCHANGED <<history, extras, tempRecords>>,
         \A s \in Students : /\ ToKeep(s)' \in {ToKeep(s), <<>>}
                             /\ ToWrite(s)' \in {ToWrite(s), <<>>}
  PROVE  KeptBelowHistory' /\ WrittenBelowKept'
  <1>1. ASSUME NEW s \in Students, NEW k \in KCs
        PROVE  /\ PracticeCount(extras'[s], k) + PracticeCount(ToKeep(s)', k)
                    <= PracticeCount(history'[s], k)
               /\ PracticeCount(Written(s)', k) + PracticeCount(ToWrite(s)', k)
                    <= PracticeCount(extras'[s], k)
    <2>1. Written(s)' = Written(s)
      BY DEF Written
    <2>2. /\ PracticeCount(ToKeep(s)', k) \in {PracticeCount(ToKeep(s), k), 0}
          /\ PracticeCount(ToWrite(s)', k) \in {PracticeCount(ToWrite(s), k), 0}
      BY CountNone
    <2>3. QED
      BY <2>1, <2>2, FlowCounts
  <1>2. QED
    BY <1>1 DEF KeptBelowHistory, WrittenBelowKept

\* A call outside of the loop body has nothing to add.
LEMMA NothingToAdd ==
  ASSUME call'.phase \notin InCall
  PROVE  \A s : ToKeep(s)' = <<>> /\ ToWrite(s)' = <<>>
  BY DEF InCall, ToKeep, ToWrite

LEMMA FlowBegin ==
  ASSUME FlowInv, NEW mode \in {"actual", "assumption"}, NEW reset \in BOOLEAN,
         NEW todo \in Todos, Update(mode, reset, todo)
  PROVE  KeptBelowHistory' /\ WrittenBelowKept'
  <1>1. call'.phase = "resolve"
    BY DEF Update, Begin, NoCall
  <1>2. \A s : ToKeep(s)' = <<>> /\ ToWrite(s)' = <<>>
    BY <1>1, NothingToAdd DEF InCall
  <1>3. CASE reset
    <2>1. \A s \in Students : history'[s] = <<>> /\ extras'[s] = <<>> /\ Written(s)' = <<>>
      BY <1>3 DEF Update, Begin, NoRecords, Written
    <2>2. QED
      BY <1>2, <2>1, CountNone DEF KeptBelowHistory, WrittenBelowKept
  <1>4. CASE ~reset
    BY <1>2, <1>4, FlowKept DEF Update, Begin, kuVars
  <1>5. QED
    BY <1>3, <1>4

LEMMA FlowResolve ==
  ASSUME FlowInv, ResolveStudents
  PROVE  KeptBelowHistory' /\ WrittenBelowKept'
  <1>1. call'.phase = "next"
    BY FlowFacts DEF ResolveStudents, CallRec
  <1>2. \A s : ToKeep(s)' = <<>> /\ ToWrite(s)' = <<>>
    BY <1>1, NothingToAdd DEF InCall
  <1>3. CallStudents \in SUBSET Students
    <2>1. call.todo \in Seq(Item)
      BY FlowFacts DEF CallRec, Item
    <2>2. \A i \in DOMAIN call.todo : call.todo[i] \in Item
      BY <2>1
    <2>3. QED
      BY <2>2 DEF CallStudents, Item
  <1>4. ASSUME NEW s \in Students, NEW k \in KCs
        PROVE  /\ PracticeCount(extras'[s], k) + PracticeCount(ToKeep(s)', k)
                    <= PracticeCount(history'[s], k)
               /\ PracticeCount(Written(s)', k) + PracticeCount(ToWrite(s)', k)
                    <= PracticeCount(extras'[s], k)
    <2>1. IsPrefixOf(history[s], history'[s])
      BY <1>3, PrefixOfEnsured DEF ResolveStudents, FlowInv, HistoryInv
    <2>2. history[s] \in Seq(Rec) /\ history'[s] \in Seq(Rec)
      BY <1>3, FlowFacts, EnsuredHistoryType DEF ResolveStudents, FlowInv, HistoryInv, TypeOK
    <2>3. PracticeCount(history[s], k) <= PracticeCount(history'[s], k)
          /\ PracticeCount(history'[s], k) \in Nat
      BY <2>1, <2>2, CountPrefix, CountType
    <2>4. extras' = extras /\ Written(s)' = Written(s)
      BY DEF ResolveStudents, Written
    <2>5. PracticeCount(ToKeep(s)', k) = 0 /\ PracticeCount(ToWrite(s)', k) = 0
      BY <1>2, CountNone
    <2>6. QED
      BY <2>3, <2>4, <2>5, FlowCounts
  <1>5. QED
    BY <1>4 DEF KeptBelowHistory, WrittenBelowKept

\* An observation goes into the history and the new records alike.
LEMMA FlowObserve ==
  ASSUME FlowInv, Observe
  PROVE  KeptBelowHistory' /\ WrittenBelowKept'
  <1> DEFINE kc == kcMapping[Head(call.obs)]
             r == [kc |-> kc, src |-> "practice"]
  <1>1. /\ call.phase = "observe" /\ call'.phase = "observe" /\ call'.sid = call.sid
        /\ call'.mode = call.mode
        /\ call'.fresh = IF kc \in KCs THEN Append(call.fresh, r) ELSE call.fresh
        /\ history' = IF IsActual
             THEN [history EXCEPT ![call.sid] =
                     IF kc \in KCs THEN Append(call.hist, r) ELSE call.hist]
             ELSE history
        /\ UNCHANGED <<extras, tempRecords>>
    BY FlowFacts DEF Observe, CallRec
  <1>2. call.sid \in Students /\ (kc \in KCs => r \in Rec)
    BY <1>1, FlowFacts DEF Rec, InCall
  <1>3. IsActual => call.hist = history[call.sid]
    BY <1>1 DEF FlowInv, HistoryInv, OwnHistory, IsActual
  <1> HIDE DEF r, kc
  <1>4. CASE IsActual /\ kc \in KCs
    <2>1. history' = [history EXCEPT ![call.sid] = Append(history[call.sid], r)]
      BY <1>1, <1>3, <1>4
    <2>2. ASSUME NEW s \in Students, NEW k \in KCs
          PROVE  /\ PracticeCount(extras'[s], k) + PracticeCount(ToKeep(s)', k)
                      <= PracticeCount(history'[s], k)
                 /\ PracticeCount(Written(s)', k) + PracticeCount(ToWrite(s)', k)
                      <= PracticeCount(extras'[s], k)
      <3>1. Written(s)' = Written(s) /\ ToWrite(s)' = ToWrite(s) /\ extras' = extras
        BY <1>1 DEF Written, ToWrite
      <3>2. CASE s = call.sid
        <4>1. history'[s] = Append(history[s], r) /\ ToKeep(s) = call.fresh
              /\ ToKeep(s)' = Append(call.fresh, r)
          BY <1>1, <1>2, <1>4, <2>1, <3>2, FlowFacts DEF ToKeep, InCall, IsActual
        <4>2. <<r>> \in Seq(Rec)
          BY <1>2, <1>4
        <4>3. /\ PracticeCount(history'[s], k) = PracticeCount(history[s], k)
                                                  + PracticeCount(<<r>>, k)
              /\ PracticeCount(ToKeep(s)', k) = PracticeCount(ToKeep(s), k)
                                                  + PracticeCount(<<r>>, k)
              /\ PracticeCount(<<r>>, k) \in Nat
          <5>1. r \in Rec /\ history[s] \in Seq(Rec) /\ call.fresh \in Seq(Rec)
            BY <1>2, <1>4, FlowFacts
          <5>2. PracticeCount(<<r>>, k) \in Nat
            BY <4>2, CountType
          <5>3. QED
            BY <4>1, <5>1, <5>2, CountAppended
        <4>4. QED
          BY <3>1, <4>3, FlowCounts
      <3>3. CASE s # call.sid
        <4>1. history'[s] = history[s] /\ ToKeep(s)' = ToKeep(s)
          BY <1>1, <2>1, <3>3, FlowFacts DEF ToKeep
        <4>2. QED
          BY <3>1, <4>1, FlowCounts
      <3>4. QED
        BY <3>2, <3>3
    <2>3. QED
      BY <2>2 DEF KeptBelowHistory, WrittenBelowKept
  <1>5. CASE ~(IsActual /\ kc \in KCs)
    <2>1. history' = history
      BY <1>1, <1>3, <1>5, FlowFacts
    <2>2. \A s \in Students : ToKeep(s)' = ToKeep(s) /\ ToWrite(s)' = ToWrite(s)
      BY <1>1, <1>5 DEF ToKeep, ToWrite, IsActual
    <2>3. QED
      BY <1>1, <2>1, <2>2, FlowKept
  <1>6. QED
    BY <1>4, <1>5

\* The new records pass from those to keep to those to write.
LEMMA FlowSaveParam ==
  ASSUME FlowInv, SaveParam
  PROVE  KeptBelowHistory' /\ WrittenBelowKept'
  <1>1. /\ call.phase = "saved" /\ call'.phase = "log" /\ call'.sid = call.sid
        /\ call'.mode = call.mode /\ call'.fresh = call.fresh
        /\ extras' = [extras EXCEPT ![call.sid] = @ \o call.fresh]
        /\ UNCHANGED <<history, tempRecords>>
    BY FlowFacts DEF SaveParam, CallRec
  <1>2. IsActual /\ call.sid \in Students
    BY <1>1, FlowFacts DEF FlowInv, OnlyActualSaves, InCall
  <1>3. ASSUME NEW s \in Students, NEW k \in KCs
        PROVE  /\ PracticeCount(extras'[s], k) + PracticeCount(ToKeep(s)', k)
                    <= PracticeCount(history'[s], k)
               /\ PracticeCount(Written(s)', k) + PracticeCount(ToWrite(s)', k)
                    <= PracticeCount(extras'[s], k)
    <2>1. Written(s)' = Written(s) /\ ToKeep(s)' = <<>> /\ ToWrite(s) = <<>>
      BY <1>1 DEF Written, ToKeep, ToWrite
    <2>2. CASE s = call.sid
      <3>1. extras'[s] = extras[s] \o call.fresh /\ ToKeep(s) = call.fresh
            /\ ToWrite(s)' = call.fresh
        BY <1>1, <1>2, <2>2, FlowFacts DEF ToKeep, ToWrite, InCall, IsActual
      <3>2. PracticeCount(extras'[s], k) = PracticeCount(extras[s], k)
                                            + PracticeCount(call.fresh, k)
        BY <3>1, FlowFacts, CountJoined
      <3>3. QED
        BY <1>1, <2>1, <3>1, <3>2, FlowCounts
    <2>3. CASE s # call.sid
      <3>1. extras'[s] = extras[s] /\ ToKeep(s) = <<>> /\ ToWrite(s)' = <<>>
        BY <1>1, <2>3, FlowFacts DEF ToKeep, ToWrite
      <3>2. QED
        BY <1>1, <2>1, <3>1, FlowCounts
    <2>4. QED
      BY <2>2, <2>3
  <1>4. QED
    BY <1>3 DEF KeptBelowHistory, WrittenBelowKept

LEMMA FlowAppend ==
  ASSUME FlowInv, AppendTempRecords
  PROVE  KeptBelowHistory' /\ WrittenBelowKept'
  <1>1. /\ call.phase = "log" /\ call'.phase = "next"
        /\ tempRecords' = TempWith(call.sid, call.fresh)
        /\ UNCHANGED <<history, extras>>
    BY FlowFacts DEF AppendTempRecords, CallRec
  <1>2. IsActual /\ call.sid \in Students
    BY <1>1, FlowFacts DEF FlowInv, OnlyActualSaves, InCall
  <1>3. \A s : ToKeep(s)' = <<>> /\ ToWrite(s)' = <<>>
    BY <1>1, NothingToAdd DEF InCall
  <1> DEFINE old == IF tempRecords # None THEN tempRecords
                    ELSE [o \in Students |-> BaseHistory(o, BURN_IN_SIZE)]
  <1>4. old \in [Students -> Seq(Rec)]
    BY BaseHistoryType, UpdateAssumption DEF FlowInv, HistoryInv, TypeOK, KUTypeOK
  <1>5. ASSUME NEW s \in Students, NEW k \in KCs
        PROVE  PracticeCount(old[s], k) = PracticeCount(Written(s), k)
    BY CountBase, CountNone, UpdateAssumption DEF Written
  <1>6. tempRecords' = [old EXCEPT ![call.sid] = @ \o call.fresh]
    BY <1>1 DEF TempWith
  <1> HIDE DEF old
  <1>7. ASSUME NEW s \in Students, NEW k \in KCs
        PROVE  /\ PracticeCount(extras'[s], k) + PracticeCount(ToKeep(s)', k)
                    <= PracticeCount(history'[s], k)
               /\ PracticeCount(Written(s)', k) + PracticeCount(ToWrite(s)', k)
                    <= PracticeCount(extras'[s], k)
    <2>1. PracticeCount(ToKeep(s)', k) = 0 /\ PracticeCount(ToWrite(s)', k) = 0
      BY <1>3, CountNone
    <2>2. PracticeCount(Written(s)', k) <=
            PracticeCount(Written(s), k) + PracticeCount(ToWrite(s), k)
          /\ PracticeCount(Written(s)', k) \in Nat
      <3>1. CASE tempRecords' = None
        BY <3>1, FlowCounts, CountNone DEF Written
      <3>2. CASE tempRecords' # None /\ s = call.sid
        <4>1. Written(s)' = old[s] \o call.fresh /\ ToWrite(s) = call.fresh
          BY <1>1, <1>2, <1>4, <1>6, <3>2 DEF Written, ToWrite
        <4>2. PracticeCount(Written(s)', k) = PracticeCount(old[s], k)
                                              + PracticeCount(call.fresh, k)
          BY <1>4, <4>1, FlowFacts, CountJoined
        <4>3. QED
          BY <1>5, <4>1, <4>2, FlowCounts
      <3>3. CASE tempRecords' # None /\ s # call.sid
        <4>1. Written(s)' = old[s] /\ ToWrite(s) = <<>>
          BY <1>1, <1>4, <1>6, <3>3 DEF Written, ToWrite
        <4>2. QED
          BY <1>5, <4>1, FlowCounts
      <3>4. QED
        BY <3>1, <3>2, <3>3
    <2>3. QED
      BY <1>1, <2>1, <2>2, FlowCounts
  <1>8. QED
    BY <1>7 DEF KeptBelowHistory, WrittenBelowKept

\* The other steps move nothing between the places.
LEMMA FlowPassing ==
  ASSUME FlowInv,
         \/ OpenStudent \/ NothingObserved \/ Propagate \/ RunParameterUpdate
         \/ SaveAssumption \/ SaveGraph \/ Return \/ Raise
  PROVE  KeptBelowHistory' /\ WrittenBelowKept'
  <1>1. UNCHANGED <<history, extras, tempRecords>>
    BY DEF OpenStudent, NothingObserved, Propagate, RunParameterUpdate,
       SaveAssumption, SaveGraph, Return, Raise, kuVars
  <1>2. CASE NothingObserved \/ SaveAssumption \/ Return \/ Raise
    <2>1. call'.phase \notin InCall
      BY <1>2, FlowFacts DEF NothingObserved, SaveAssumption, Return, Raise, NoCall, CallRec, InCall
    <2>2. QED
      BY <1>1, <2>1, NothingToAdd, FlowKept
  <1>3. CASE OpenStudent
    <2>1. call'.fresh = <<>>
      BY <1>3, FlowFacts DEF OpenStudent, CallRec
    <2>2. \A s : ToKeep(s)' = <<>> /\ ToWrite(s)' = <<>>
      BY <2>1 DEF ToKeep, ToWrite
    <2>3. QED
      BY <1>1, <2>2, FlowKept
  <1>4. CASE Propagate \/ RunParameterUpdate \/ SaveGraph
    <2>1. /\ call'.sid = call.sid /\ call'.fresh = call.fresh /\ call'.mode = call.mode
          /\ call'.phase \in InCall \ {"log"} /\ call.phase \in InCall \ {"log"}
      <3>1. CASE Propagate BY <3>1, FlowFacts DEF Propagate, CallRec, InCall
      <3>2. CASE RunParameterUpdate BY <3>2, FlowFacts DEF RunParameterUpdate, CallRec, InCall
      <3>3. CASE SaveGraph BY <3>3, FlowFacts DEF SaveGraph, CallRec, InCall
      <3>4. QED
        BY <1>4, <3>1, <3>2, <3>3
    <2>2. \A s : ToKeep(s)' = ToKeep(s) /\ ToWrite(s)' = ToWrite(s)
      BY <2>1 DEF ToKeep, ToWrite, IsActual
    <2>3. QED
      BY <1>1, <2>2, FlowKept
  <1>5. QED
    BY <1>2, <1>3, <1>4

LEMMA FlowInit == Init => FlowInv
  <1> SUFFICES ASSUME Init PROVE FlowInv
    OBVIOUS
  <1>1. HistoryInv /\ OnlyActualSaves
    BY HistoryInvInit DEF OnlyActualSaves, Init, UpdateInit, NoCall
  <1>2. \A s \in Students : /\ history[s] = <<>> /\ extras[s] = <<>> /\ Written(s) = <<>>
                            /\ ToKeep(s) = <<>> /\ ToWrite(s) = <<>>
    BY DEF Init, UpdateInit, NoRecords, Written, ToKeep, ToWrite, NoCall, InCall
  <1>3. QED
    BY <1>1, <1>2, CountNone DEF FlowInv, KeptBelowHistory, WrittenBelowKept

LEMMA FlowNext == FlowInv /\ [Next]_callerVars => FlowInv'
  <1> SUFFICES ASSUME FlowInv, [Next]_callerVars
               PROVE  FlowInv'
    OBVIOUS
  <1>1. HistoryInv' /\ OnlyActualSaves'
    BY HistoryInvNext, NextAssumption DEF FlowInv, HistoryInv, AssumptionInv
  <1>2. ASSUME NEW mode \in {"actual", "assumption"}, NEW reset \in BOOLEAN,
               NEW todo \in Todos, Update(mode, reset, todo)
        PROVE  KeptBelowHistory' /\ WrittenBelowKept'
    BY <1>2, FlowBegin
  <1>3. CASE BetweenUpdates \/ UNCHANGED callerVars
    <2>1. UNCHANGED <<history, extras, tempRecords, call>>
      BY <1>3 DEF BetweenUpdates, PredictOnNewQuestion, Refresh, ChooseSize, Clear,
         callerVars, vars, kuVars
    <2>2. \A s : ToKeep(s)' = ToKeep(s) /\ ToWrite(s)' = ToWrite(s)
      BY <2>1 DEF ToKeep, ToWrite, IsActual
    <2>3. KeptBelowHistory' /\ WrittenBelowKept'
      BY <2>1, <2>2, FlowKept
    <2>4. QED
      BY <1>1, <2>3 DEF FlowInv
  <1>4. CASE CallStep \/ Raise
    BY <1>1, <1>4, FlowResolve, FlowObserve, FlowSaveParam, FlowAppend, FlowPassing
    DEF CallStep, FlowInv
  <1>5. QED
    BY <1>1, <1>2, <1>3, <1>4 DEF Next, FlowInv

\* For any number of students, answers and updates, and wherever an exception
\* falls, the temp recordings hold no answer the extra records lack, nor those
\* one the question history lacks (one_step_update_all).
THEOREM AnswersFlow == Spec => []AnswersFlowDown
  <1>1. FlowInv => AnswersFlowDown
    <2> SUFFICES ASSUME FlowInv, NEW s \in Students, NEW k \in KCs
                 PROVE  /\ PracticeCount(extras[s], k) <= PracticeCount(history[s], k)
                        /\ tempRecords # None =>
                             PracticeCount(tempRecords[s], k) <= PracticeCount(extras[s], k)
      BY DEF AnswersFlowDown
    <2>1. tempRecords # None => Written(s) = tempRecords[s]
      BY DEF Written
    <2>2. QED
      BY <2>1, FlowCounts
  <1>2. QED
    BY <1>1, FlowInit, FlowNext, PTL DEF Spec
===========================================================================
