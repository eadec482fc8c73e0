------------------------------ MODULE KTUpdate ------------------------------
(***************************************************************************)
(* one_step_update_all (EQG_Codes/kt/update.py) over the runtime of        *)
(* KTRuntime, and prediction (kt/predict.py).  A call is a loop over       *)
(* students; its steps are actions of their own, because an exception can  *)
(* leave it after any of them and because "actual" mode works on the       *)
(* runtime's own objects, not on copies.                                   *)
(***************************************************************************)
EXTENDS KTRuntime

CONSTANTS
  RawKCs,              \* concept names as callers write them
  kcMapping,           \* merged_mapping.json: raw name -> concept or other name
  PathToRoot,          \* PathToRoot[k]: k and its ancestors
  BURN_IN_SIZE,        \* the configured burn-in size
  WINDOW_SIZE,         \* sliding window, 0 when off
  NUM_SAMPLE_STUDENTS  \* students sampled for the burn-in pool, 0 for all

ASSUME UpdateAssumption ==
  /\ DOMAIN kcMapping = RawKCs
  /\ PathToRoot \in [KCs -> SUBSET KCs]
  /\ \A k \in KCs : k \in PathToRoot[k]
  /\ {BURN_IN_SIZE, WINDOW_SIZE, NUM_SAMPLE_STUDENTS} \subseteq Nat

VARIABLES
  history,     \* _kt_question_history
  extras,      \* _kt_extra_records
  trainSize,   \* _kt_train_size
  active,      \* _active_students
  tempRecords, \* recordings_temp.json, None while the file does not exist
  lastPool,    \* the other students' records in the last calibration
  call         \* the call in progress

kuVars == <<history, extras, trainSize, active, tempRecords, lastPool>>
vars == <<rtVars, kuVars, call>>

NoCall == [phase |-> "idle", mode |-> "actual", todo |-> <<>>, obs |-> <<>>,
           sid |-> NoStudent, size |-> 0, graph |-> None, param |-> None,
           shared |-> FALSE, hist |-> <<>>, fresh |-> <<>>]

IsActual == call.mode = "actual"
InCall == {"observe", "estimate", "save", "saved", "log"}

Lesser(m, n) == IF m <= n THEN m ELSE n
Greater(m, n) == IF m >= n THEN m ELSE n

---------------------------------------------------------------------------
(* Lazily built state.                                                     *)

InitialTrainSize(s, act) == IF s \in act THEN practiceSize[s] ELSE BURN_IN_SIZE

\* As EnsuredHistory, rebuilt from the dataset whenever it is too short.
RebuiltHistory(act) ==
  [s \in Students |->
     LET upTo == Lesser(InitialTrainSize(s, act), Len(Base[s]))
     IN  IF Len(history[s]) >= upTo THEN history[s] ELSE BaseHistory(s, upTo)]

\* Every student's history is extended with dataset records up to its limit,
\* counted from the records already there; it is never shortened.
EnsuredHistory(act) ==
  [s \in Students |->
     LET h == history[s]
         upTo == Lesser(InitialTrainSize(s, act), Len(Base[s]))
     IN  [i \in 1..Greater(Len(h), upTo) |->
            IF i <= Len(h) THEN h[i] ELSE [kc |-> Base[s][i], src |-> "dataset"]]]

EnsuredTrainSizes(act) ==
  [s \in Students |-> IF s \in act THEN practiceSize[s] ELSE trainSize[s]]

NoTrainSizes == [s \in Students |-> BURN_IN_SIZE]
NoRecords == [s \in Students |-> <<>>]

---------------------------------------------------------------------------
(* The arithmetic of one update.                                           *)

\* As InWindow, one record too many.
WiderWindow(list) ==
  {r \in list : \/ WINDOW_SIZE = 0
                \/ Cardinality({q \in list : q.at > r.at}) <= WINDOW_SIZE}

\* The records of a concept the E-step is given.
InWindow(list) ==
  {r \in list : \/ WINDOW_SIZE = 0
                \/ Cardinality({q \in list : q.at > r.at}) < WINDOW_SIZE}

\* As Propagated, from the new records alone.
PropagatedFresh(graph, h, fresh, lin) ==
  LET touched == UNION {PathToRoot[fresh[i].kc] : i \in DOMAIN fresh}
  IN  [ev |-> [k \in KCs |-> IF k \in touched THEN ForKC(fresh, k) ELSE graph.ev[k]],
       lin |-> lin]

\* update_e_step for every updated concept: upward evidence is recomputed on
\* the path to the root only, the downward pass then reaches every node.
Propagated(graph, h, fresh, lin) ==
  LET touched == UNION {PathToRoot[fresh[i].kc] : i \in DOMAIN fresh}
  IN  [ev |-> [k \in KCs |-> IF k \in touched THEN InWindow(ForKC(h, k))
                                              ELSE graph.ev[k]],
       lin |-> lin]

\* The students whose records are pooled with the current one's.
Pools(s) ==
  LET others == Students \ {s}
  IN  IF NUM_SAMPLE_STUDENTS = 0 \/ Cardinality(others) <= NUM_SAMPLE_STUDENTS
        THEN {others}
        ELSE {p \in SUBSET others : Cardinality(p) = NUM_SAMPLE_STUDENTS}

\* The records pooled: the first ones of each, by student and position.
Pooled(pool, limit) ==
  UNION {{o} \X (1..Lesser(limit, Len(Base[o]))) : o \in pool}

\* recordings_temp.json starts from the truncated dataset.
TempWith(s, recs) ==
  LET old == IF tempRecords # None THEN tempRecords
             ELSE [o \in Students |-> BaseHistory(o, BURN_IN_SIZE)]
  IN  [old EXCEPT ![s] = @ \o recs]

---------------------------------------------------------------------------
(* The steps of a call.                                                    *)

\* As Begin, a reset that forgets the extra records.
BeginKeepingExtras(mode, reset, todo) ==
  /\ call.phase = "idle"
  /\ call' = [NoCall EXCEPT !.phase = "resolve", !.mode = mode, !.todo = todo]
  /\ IF reset
       THEN /\ DropActualFiles
            /\ practiceSize' = [s \in Students |->
                                  Greater(practiceSize[s], burn_in_size)]
            /\ history' = NoRecords
            /\ trainSize' = NoTrainSizes
            /\ tempRecords' = None
            /\ UNCHANGED <<extras, active, lastPool>>
       ELSE UNCHANGED <<rtVars, kuVars>>

Begin(mode, reset, todo) ==
  /\ call.phase = "idle"
  /\ call' = [NoCall EXCEPT !.phase = "resolve", !.mode = mode, !.todo = todo]
  /\ IF reset
       THEN /\ DropActualFiles
            /\ practiceSize' = [s \in Students |->
                                  Greater(practiceSize[s], burn_in_size)]
            /\ history' = NoRecords
            /\ extras' = NoRecords
            /\ trainSize' = NoTrainSizes
            /\ tempRecords' = None
            /\ UNCHANGED <<active, lastPool>>
       ELSE UNCHANGED <<rtVars, kuVars>>

CallStudents == {call.todo[i].sid : i \in DOMAIN call.todo}
Resolvable == \A s \in CallStudents : HasGraph(s, practiceSize[s])

ResolveStudents ==
  /\ call.phase = "resolve"
  /\ Resolvable
  /\ active' = CallStudents
  /\ history' = EnsuredHistory(CallStudents)
  /\ trainSize' = EnsuredTrainSizes(CallStudents)
  /\ call' = [call EXCEPT !.phase = "next"]
  /\ UNCHANGED <<rtVars, extras, tempRecords, lastPool>>

\* The parameters are read before the load that may realign them.
OpenStudent ==
  /\ call.phase = "next"
  /\ call.todo # <<>>
  /\ LET s == Head(call.todo).sid
         n == practiceSize[s]
         hit == cache[s] # None
     IN  /\ trainSize' = [trainSize EXCEPT ![s] = Greater(n, @)]
         /\ LoadStudentGraph(s, n, FALSE)
         /\ call' = [call EXCEPT !.phase = "observe", !.sid = s, !.size = n,
                       !.todo = Tail(@), !.obs = Head(call.todo).obs,
                       !.param = param, !.shared = hit,
                       !.graph = IF hit THEN cache[s] ELSE StoredGraph(s, n),
                       !.hist = history[s], !.fresh = <<>>]
  /\ UNCHANGED <<history, extras, active, tempRecords, lastPool>>

\* As Observe, recording concepts that are not in the graph too.
ObserveAnything ==
  /\ call.phase = "observe"
  /\ call.obs # <<>>
  /\ LET r == [kc |-> kcMapping[Head(call.obs)], src |-> "practice"]
         h == Append(call.hist, r)
     IN  /\ call' = [call EXCEPT !.obs = Tail(@), !.hist = h,
                       !.fresh = Append(@, r)]
         /\ history' = IF IsActual THEN [history EXCEPT ![call.sid] = h]
                                   ELSE history
  /\ UNCHANGED <<rtVars, extras, trainSize, active, tempRecords, lastPool>>

\* As Observe, without the copy of the history in assumption mode.
ObserveInPlace ==
  /\ call.phase = "observe"
  /\ call.obs # <<>>
  /\ LET k == kcMapping[Head(call.obs)]
         r == [kc |-> k, src |-> "practice"]
         h == IF k \in KCs THEN Append(call.hist, r) ELSE call.hist
     IN  /\ call' = [call EXCEPT !.obs = Tail(@), !.hist = h,
                       !.fresh = IF k \in KCs THEN Append(@, r) ELSE @]
         /\ history' = [history EXCEPT ![call.sid] = h]
  /\ UNCHANGED <<rtVars, extras, trainSize, active, tempRecords, lastPool>>

\* One observation: dropped when its concept is not in the graph, otherwise
\* appended to the working history, which in actual mode is the history.
Observe ==
  /\ call.phase = "observe"
  /\ call.obs # <<>>
  /\ LET k == kcMapping[Head(call.obs)]
         r == [kc |-> k, src |-> "practice"]
         h == IF k \in KCs THEN Append(call.hist, r) ELSE call.hist
     IN  /\ call' = [call EXCEPT !.obs = Tail(@), !.hist = h,
                       !.fresh = IF k \in KCs THEN Append(@, r) ELSE @]
         /\ history' = IF IsActual THEN [history EXCEPT ![call.sid] = h]
                                   ELSE history
  /\ UNCHANGED <<rtVars, extras, trainSize, active, tempRecords, lastPool>>

NothingObserved ==
  /\ call.phase = "observe"
  /\ call.obs = <<>> /\ call.fresh = <<>>
  /\ call' = [call EXCEPT !.phase = "next"]
  /\ UNCHANGED <<rtVars, kuVars>>

\* As Propagate, on the cached graph in assumption mode too.
PropagateInPlace ==
  /\ call.phase = "observe"
  /\ call.obs = <<>> /\ call.fresh # <<>>
  /\ LET lin == call.graph.lin \cup call.param.lin \cup {call.sid}
         g == Propagated(call.graph, call.hist, call.fresh, lin)
     IN  /\ call' = [call EXCEPT !.phase = "estimate", !.graph = g]
         /\ cache' = [cache EXCEPT ![call.sid] = g]
  /\ UNCHANGED <<practiceSize, param, paramPath, canonPath, actualGraph,
                 actualParam, kuVars>>

\* The E-step: in actual mode on the cached graph itself.
Propagate ==
  /\ call.phase = "observe"
  /\ call.obs = <<>> /\ call.fresh # <<>>
  /\ LET lin == call.graph.lin \cup call.param.lin \cup {call.sid}
         g == Propagated(call.graph, call.hist, call.fresh, lin)
     IN  /\ call' = [call EXCEPT !.phase = "estimate", !.graph = g]
         /\ cache' = IF IsActual THEN [cache EXCEPT ![call.sid] = g] ELSE cache
  /\ UNCHANGED <<practiceSize, param, paramPath, canonPath, actualGraph,
                 actualParam, kuVars>>

\* Calibration and M-step over the other students' first records and this
\* student's answers: in actual mode on the parameter object read above.
RunParameterUpdate ==
  /\ call.phase = "estimate"
  /\ LET s == call.sid
         p == [own |-> s, size |-> call.size + Len(call.fresh), lin |-> call.graph.lin]
         initial == InitialTrainSize(s, active)
         answers == Len(extras[s]) + Len(call.fresh)
     IN  /\ \E pool \in Pools(s) :
              LET pooled == Pooled(pool, initial)
                  total == Lesser(initial + answers, Cardinality(pooled) + answers)
              IN  /\ lastPool' = pooled
                  /\ trainSize' = IF IsActual THEN [trainSize EXCEPT ![s] = total]
                                              ELSE trainSize
         /\ call' = [call EXCEPT !.phase = "save", !.param = p]
         /\ param' = IF IsActual /\ call.shared THEN p ELSE param
  /\ UNCHANGED <<practiceSize, cache, paramPath, canonPath, actualGraph,
                 actualParam, history, extras, active, tempRecords>>

\* Assumption results go to files of their own tag, which nothing else reads.
SaveAssumption ==
  /\ call.phase = "save" /\ ~IsActual
  /\ call' = [call EXCEPT !.phase = "next"]
  /\ UNCHANGED <<rtVars, kuVars>>

SaveGraph ==
  /\ call.phase = "save" /\ IsActual
  /\ SaveStudentGraph(call.sid, call.size + Len(call.fresh), call.graph)
  /\ call' = [call EXCEPT !.phase = "saved"]
  /\ UNCHANGED kuVars

SaveParam ==
  /\ call.phase = "saved"
  /\ SaveParamGraph(call.sid, call.size + Len(call.fresh), call.param)
  /\ extras' = [extras EXCEPT ![call.sid] = @ \o call.fresh]
  /\ call' = [call EXCEPT !.phase = "log"]
  /\ UNCHANGED <<history, trainSize, active, tempRecords, lastPool>>

AppendTempRecords ==
  /\ call.phase = "log"
  /\ tempRecords' = TempWith(call.sid, call.fresh)
  /\ call' = [call EXCEPT !.phase = "next"]
  /\ UNCHANGED <<rtVars, history, extras, trainSize, active, lastPool>>

Return ==
  /\ call.phase = "next" /\ call.todo = <<>>
  /\ active' = {}
  /\ call' = NoCall
  /\ UNCHANGED <<rtVars, history, extras, trainSize, tempRecords, lastPool>>

\* An exception leaves the call: a student without a graph file, or a failed
\* computation or write.  Nothing is rolled back.
Raise ==
  /\ \/ call.phase = "resolve" /\ ~Resolvable
     \/ call.phase \in InCall
  /\ call' = NoCall
  /\ UNCHANGED <<rtVars, kuVars>>

CallStep == \/ ResolveStudents \/ OpenStudent \/ Observe \/ NothingObserved
            \/ Propagate \/ RunParameterUpdate \/ SaveAssumption
            \/ SaveGraph \/ SaveParam \/ AppendTempRecords \/ Return

---------------------------------------------------------------------------
(* Calls between updates.                                                  *)

\* predict_on_new_question: the parameters are read, then the graph is loaded.
PredictOnNewQuestion(s) ==
  /\ call.phase = "idle"
  /\ LoadStudentGraph(s, practiceSize[s], FALSE)
  /\ UNCHANGED <<kuVars, call>>

Refresh(s) ==
  /\ call.phase = "idle"
  /\ LoadStudentGraph(s, practiceSize[s], TRUE)
  /\ UNCHANGED <<kuVars, call>>

ChooseSize(s, n) ==
  /\ call.phase = "idle"
  /\ SetPracticeSize(s, n)
  /\ UNCHANGED <<kuVars, call>>

Clear ==
  /\ call.phase = "idle"
  /\ ClearActualTempGraphs
  /\ UNCHANGED <<kuVars, call>>

UpdateInit ==
  /\ RTInit
  /\ history = NoRecords
  /\ extras = NoRecords
  /\ trainSize = NoTrainSizes
  /\ active = {}
  /\ tempRecords = None
  /\ lastPool = {}
  /\ call = NoCall

---------------------------------------------------------------------------
CallRec ==
  [phase : {"idle", "resolve", "next"} \cup InCall,
   mode : {"actual", "assumption"},
   todo : Seq([sid : Students, obs : Seq(RawKCs)]),
   obs : Seq(RawKCs),
   sid : Students \cup {NoStudent},
   size : Nat,
   graph : Graph \cup {None},
   param : Param \cup {None},
   shared : BOOLEAN,
   hist : Seq(Rec),
   fresh : Seq(Rec)]

CallTypeOK ==
  /\ call \in CallRec
  /\ call.phase \in InCall => /\ call.sid \in Students
                              /\ call.graph \in Graph
                              /\ call.param \in Param

KUTypeOK ==
  /\ history \in [Students -> Seq(Rec)]
  /\ extras \in [Students -> Seq(Rec)]
  /\ trainSize \in [Students -> Nat]
  /\ active \subseteq Students
  /\ lastPool \subseteq Students \X Nat
  /\ tempRecords = None \/ tempRecords \in [Students -> Seq(Rec)]
  /\ CallTypeOK
===========================================================================
