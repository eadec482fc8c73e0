------------------------- MODULE PracticeEvalProofs -------------------------
(***************************************************************************)
(* That the evaluation loop keeps its students apart, and its hypothetical *)
(* answers out of its real ones; that an exam has the evidence of every    *)
(* answer; and that the loop implements a practice session.  All for any   *)
(* number of students, concepts and rounds.  Types of the runtime and the  *)
(* updater come from KTCallerProofs, whose lemmas are about the operations *)
(* and not about who calls them.                                           *)
(***************************************************************************)
EXTENDS PracticeEval, KTCallerProofs, FunctionTheorems, SequenceTheorems

---------------------------------------------------------------------------
(* Types.                                                                  *)

LoopTypeOK ==
  /\ stage \in {"sample", "initial", "practice", "done"}
  /\ step \in {"size", "load", "pick", "exam", "round", "scan", "value",
               "valued", "ask", "answered", "done"}
  /\ stage = "done" => step = "done"
  /\ queue \in Seq(Students) /\ cur \in Students
  /\ scan \subseteq Candidates
  /\ step \in {"value", "valued", "ask", "answered"} => pick \in Candidates
  /\ DOMAIN initials = Students /\ DOMAIN exams = Students

EvalTypes == TypeOK /\ LoopTypeOK

\* The one answer an update of the loop is called with.
LEMMA AnswerType ==
  ASSUME LoopTypeOK, step \in {"value", "ask"}
  PROVE  Answer \in Seq(Item)
  <1>1. pick \in RawKCs /\ cur \in Students
    BY EvalAssumption DEF LoopTypeOK
  <1>2. <<pick>> \in Seq(RawKCs)
    BY <1>1
  <1>3. [sid |-> cur, obs |-> <<pick>>] \in Item
    BY <1>1, <1>2 DEF Item
  <1>4. QED
    BY <1>3 DEF Answer

LEMMA EvalInitTypes == EvalInit => EvalTypes
  <1> SUFFICES ASSUME EvalInit PROVE EvalTypes
    OBVIOUS
  <1>1. TypeOK
    BY UpdateInitType DEF EvalInit
  <1>2. FirstStudent \in Students /\ Order \in Seq(Students)
    BY StudentsAssumption, EvalAssumption
  <1>3. QED
    BY <1>1, <1>2 DEF EvalInit, EvalTypes, LoopTypeOK

\* What a step that leaves the updater idle does to its types.
LEMMA IdleType ==
  ASSUME TypeOK, RTTypeOK', UNCHANGED <<kuVars, call>>
  PROVE  TypeOK'
  BY DEF TypeOK, KUTypeOK, kuVars, CallTypeOK

LEMMA EvalStepTypes ==
  ASSUME EvalTypes, EvalStep
  PROVE  TypeOK'
  <1> USE DEF EvalTypes
  <1>0. cur \in Students /\ practiceSize[cur] \in Nat /\ burn_in_size \in Nat
    BY SizesAssumption DEF LoopTypeOK, TypeOK, RTTypeOK
  <1>1. CASE PickStudent
    <2>1. practiceSize' \in [Students -> Nat]
      BY <1>1, MaxSizeType DEF PickStudent, ClearActualTempGraphs, Historical
    <2>2. RTTypeOK'
      BY <1>1, <2>1, DropActualFilesType DEF PickStudent, ClearActualTempGraphs, TypeOK
    <2>3. QED
      BY <1>1, <2>2, IdleType DEF PickStudent
  <1>2. CASE ChooseBurnIn
    BY <1>0, <1>2, SetPracticeSizeType, IdleType DEF ChooseBurnIn, TypeOK
  <1>3. CASE LoadBurnIn
    BY <1>0, <1>3, LoadType, IdleType DEF LoadBurnIn, TypeOK
  <1>4. ASSUME PredictOnNewQuestion(cur)
        PROVE  TypeOK'
    BY <1>0, <1>4, LoadType, IdleType DEF PredictOnNewQuestion, TypeOK
  <1>5. CASE InitialExam \/ FinalExam \/ \E k \in Candidates : PredictValue(k) \/ Ask(k)
    BY <1>4, <1>5 DEF InitialExam, FinalExam, PredictValue, Ask
  <1>6. CASE StartRound
    BY <1>0, <1>6, LoadType, IdleType DEF StartRound, Refresh, TypeOK
  <1>7. CASE AssumeCorrect
    BY <1>7, AnswerType, BeginType DEF AssumeCorrect
  <1>8. CASE RecordAnswer
    BY <1>8, AnswerType, BeginType DEF RecordAnswer
  <1>9. CASE LoadAssumption
    <2>1. ParamPathOf(actualParam, cur, practiceSize[cur]) \in Path
      BY <1>0, ParamPathOfType DEF TypeOK, RTTypeOK
    <2>2. ParamAt(actualParam, ParamPathOf(actualParam, cur, practiceSize[cur])) \in Param
      BY <1>0, ParamAtType DEF TypeOK, RTTypeOK
    <2>3. RTTypeOK'
      BY <1>9, <2>1, <2>2 DEF LoadAssumption, LoadByPath, AlignParam, TypeOK, RTTypeOK
    <2>4. QED
      BY <1>9, <2>3, IdleType DEF LoadAssumption
  <1>10. CASE UpdateStep
    BY <1>10, CallStepType DEF UpdateStep
  <1>11. CASE InitialsDone \/ EndRound \/ Finish
    BY <1>11 DEF InitialsDone, EndRound, Finish, vars, rtVars, kuVars, TypeOK,
       RTTypeOK, KUTypeOK, CallTypeOK
  <1>12. QED
    BY <1>1, <1>2, <1>3, <1>5, <1>6, <1>7, <1>8, <1>9, <1>10, <1>11 DEF EvalStep

LEMMA EvalStepLoop ==
  ASSUME EvalTypes, EvalStep
  PROVE  LoopTypeOK'
  <1> USE DEF EvalTypes
  <1>1. CASE PickStudent
    <2>1. Head(queue) \in Students /\ Tail(queue) \in Seq(Students)
      BY <1>1 DEF PickStudent, LoopTypeOK
    <2>2. QED
      BY <1>1, <2>1 DEF PickStudent, LoopTypeOK
  <1>2. CASE InitialsDone
    BY <1>2, EvalAssumption DEF InitialsDone, LoopTypeOK
  <1>3. CASE ChooseBurnIn \/ LoadBurnIn
    BY <1>3 DEF ChooseBurnIn, LoadBurnIn, LoopTypeOK
  <1>4. CASE InitialExam \/ FinalExam
    BY <1>4 DEF InitialExam, FinalExam, LoopTypeOK
  <1>5. CASE StartRound \/ EndRound \/ Finish
    BY <1>5 DEF StartRound, EndRound, Finish, LoopTypeOK
  <1>6. CASE AssumeCorrect \/ LoadAssumption \/ RecordAnswer
    BY <1>6 DEF AssumeCorrect, LoadAssumption, RecordAnswer, LoopTypeOK
  <1>7. CASE \E k \in Candidates : PredictValue(k) \/ Ask(k)
    BY <1>7 DEF PredictValue, Ask, LoopTypeOK
  <1>8. CASE UpdateStep
    BY <1>8 DEF UpdateStep, loopVars, LoopTypeOK
  <1>9. QED
    BY <1>1, <1>2, <1>3, <1>4, <1>5, <1>6, <1>7, <1>8 DEF EvalStep

---------------------------------------------------------------------------
(* No leak.                                                                *)
(*                                                                         *)
(* NoLeak speaks of the exams and of the update that is being computed;    *)
(* that they are free of other students' answers depends on everything     *)
(* they can be read from.  From the refreshing load to the final exam all  *)
(* graphs and parameters that are in memory or in a file are the current   *)
(* student's; between two students they are not, and it is the clear and   *)
(* the refreshing load that make them so again.                            *)

AllOwn ==
  /\ param.lin \subseteq {cur}
  /\ \A s \in Students : cache[s] # None => cache[s].lin \subseteq {cur}
  /\ \A k \in DOMAIN actualGraph : actualGraph[k].lin \subseteq {cur}
  /\ \A k \in DOMAIN actualParam : actualParam[k].lin \subseteq {cur}

Serving == step \notin {"pick", "size", "load", "done"}

OwnData == Serving => AllOwn /\ cache[cur] # None

FreshStart ==
  step \in {"size", "load"} =>
    /\ actualGraph = NoFiles /\ actualParam = NoFiles
    /\ \A s \in Students : cache[s] # None => cache[s].lin = {}

ExamReady ==
  step = "exam" =>
    /\ cache[cur] = DatasetGraph(cur, burn_in_size)
    /\ param = DatasetParam(SharedKey)
    /\ practiceSize[cur] = burn_in_size

\* Updates are made for the current student, and only where the loop waits.
CallsOwn ==
  /\ step \notin {"valued", "answered"} => call.phase = "idle"
  /\ call.phase = "idle" => call = NoCall
  /\ \A i \in DOMAIN call.todo : call.todo[i].sid = cur
  /\ call.phase \in InCall => /\ call.sid = cur
                              /\ call.graph.lin \subseteq {cur}
                              /\ call.param.lin \subseteq {cur}

\* NoLeak but for the line about calls, which CallsOwn says of all phases.
CleanExams ==
  /\ \A s \in Students : initials[s] # None =>
       /\ initials[s].size = burn_in_size
       /\ initials[s].graph = DatasetGraph(s, burn_in_size)
       /\ initials[s].param = DatasetParam(SharedKey)
  /\ \A s \in Students : exams[s] # None =>
       exams[s].graph.lin \cup exams[s].param.lin \subseteq {s}

LeakInv ==
  EvalTypes /\ OwnData /\ FreshStart /\ ExamReady /\ CallsOwn /\ CleanExams

\* Whatever the size, a load finds data of the current student.
LEMMA StoredOwn ==
  ASSUME EvalTypes, AllOwn, NEW s \in Students, NEW n \in Nat
  PROVE  /\ StoredGraph(s, n).lin \subseteq {cur}
         /\ ParamAt(actualParam, ParamPathOf(actualParam, s, n)).lin \subseteq {cur}
  <1>1. StoredGraph(s, n).lin \subseteq {cur}
    BY DEF StoredGraph, DatasetGraph, AllOwn
  <1> DEFINE path == ParamPathOf(actualParam, s, n)
  <1>2. path.dir = "actual" => path.key \in DOMAIN actualParam
    BY ParamPathOfType DEF EvalTypes, TypeOK, RTTypeOK
  <1>3. ParamAt(actualParam, path).lin \subseteq {cur}
    <2> HIDE DEF path
    <2>1. QED
      BY <1>2 DEF ParamAt, DatasetParam, AllOwn
  <1>4. QED
    BY <1>1, <1>3

LEMMA LoadOwn ==
  ASSUME EvalTypes, AllOwn, cur' = cur,
         NEW s \in Students, NEW n \in Nat, NEW refresh \in BOOLEAN,
         LoadStudentGraph(s, n, refresh)
  PROVE  AllOwn' /\ cache'[s] # None
  <1>0. StoredGraph(s, n) # None
    BY NoneAssumption, LoadType DEF EvalTypes, TypeOK
  <1>1. /\ StoredGraph(s, n).lin \subseteq {cur}
        /\ ParamAt(actualParam, ParamPathOf(actualParam, s, n)).lin \subseteq {cur}
    BY StoredOwn
  <1>2. QED
    BY <1>0, <1>1 DEF LoadStudentGraph, AlignParam, AllOwn, EvalTypes, TypeOK, RTTypeOK

\* A step of an update handles what the loop handed to it, and keeps to it.
LEMMA CallStepOwn ==
  ASSUME EvalTypes, AllOwn, cache[cur] # None, CallsOwn, CallStep,
         UNCHANGED loopVars, step \in {"valued", "answered"}
  PROVE  AllOwn' /\ cache'[cur] # None /\ CallsOwn'
  <1> USE DEF EvalTypes
  <1>0. /\ call \in CallRec /\ CallTypeOK /\ cur \in Students
        /\ cur' = cur /\ step' = step
    BY DEF TypeOK, KUTypeOK, CallTypeOK, LoopTypeOK, loopVars
  <1>1. CASE ResolveStudents
    <2>1. call'.phase = "next" /\ call'.todo = call.todo
      BY <1>0, <1>1 DEF ResolveStudents, CallRec
    <2>2. QED
      BY <1>0, <1>1, <2>1 DEF ResolveStudents, rtVars, AllOwn, CallsOwn, InCall
  <1>2. CASE OpenStudent
    <2>1. /\ call.todo \in Seq(Item) /\ call.todo # <<>>
      BY <1>0, <1>2 DEF OpenStudent, CallRec, Item
    <2>2. /\ Head(call.todo) = call.todo[1] /\ 1 \in DOMAIN call.todo
          /\ \A i \in DOMAIN Tail(call.todo) :
               i + 1 \in DOMAIN call.todo /\ Tail(call.todo)[i] = call.todo[i + 1]
      BY <2>1
    <2>3. Head(call.todo).sid = cur
      BY <2>2 DEF CallsOwn
    <2>4. LoadStudentGraph(cur, practiceSize[cur], FALSE) /\ practiceSize[cur] \in Nat
      BY <1>0, <1>2, <2>3 DEF OpenStudent, TypeOK, RTTypeOK
    <2>5. AllOwn' /\ cache'[cur] # None
      BY <1>0, <2>4, LoadOwn
    <2>6. /\ call'.phase = "observe" /\ call'.sid = cur /\ call'.param = param
          /\ call'.graph = cache[cur] /\ call'.todo = Tail(call.todo)
      BY <1>0, <1>2, <2>3 DEF OpenStudent, CallRec
    <2>7. CallsOwn'
      BY <1>0, <2>2, <2>6 DEF CallsOwn, AllOwn, InCall
    <2>8. QED
      BY <2>5, <2>7
  <1>3. CASE Observe
    <2>1. /\ call'.phase = call.phase /\ call'.todo = call.todo /\ call'.sid = call.sid
          /\ call'.graph = call.graph /\ call'.param = call.param
          /\ call.phase = "observe"
      BY <1>0, <1>3 DEF Observe, CallRec
    <2>2. QED
      BY <1>0, <1>3, <2>1 DEF Observe, rtVars, AllOwn, CallsOwn, InCall
  <1>4. CASE NothingObserved \/ SaveAssumption
    <2>1. call'.phase = "next" /\ call'.todo = call.todo
      BY <1>0, <1>4 DEF NothingObserved, SaveAssumption, CallRec
    <2>2. QED
      BY <1>0, <1>4, <2>1
      DEF NothingObserved, SaveAssumption, rtVars, AllOwn, CallsOwn, InCall
  <1>5. CASE Propagate
    <2> DEFINE lin == call.graph.lin \cup call.param.lin \cup {call.sid}
               g == Propagated(call.graph, call.hist, call.fresh, lin)
    <2>1. call.phase = "observe" /\ call.sid = cur /\ lin \subseteq {cur}
      BY <1>5 DEF Propagate, CallsOwn, InCall
    <2>2. g.lin = lin
      BY DEF Propagated
    <2>3. /\ call'.phase = "estimate" /\ call'.todo = call.todo /\ call'.sid = call.sid
          /\ call'.graph = g /\ call'.param = call.param
      BY <1>0, <1>5 DEF Propagate, CallRec
    <2>4. cache' = IF IsActual THEN [cache EXCEPT ![cur] = g] ELSE cache
      BY <1>5, <2>1 DEF Propagate
    <2>5. g # None
      <3>1. call'.graph \in Graph
        BY <1>5, <2>3, PropagateType DEF TypeOK, KUTypeOK, CallTypeOK, InCall
      <3>2. QED
        BY <2>3, <3>1, NoneAssumption
    <2> HIDE DEF g, lin
    <2>6. AllOwn' /\ cache'[cur] # None
      BY <1>0, <1>5, <2>1, <2>2, <2>4, <2>5 DEF Propagate, AllOwn, TypeOK, RTTypeOK
    <2>7. CallsOwn'
      BY <1>0, <2>1, <2>2, <2>3 DEF CallsOwn, InCall
    <2>8. QED
      BY <2>6, <2>7
  <1>6. CASE RunParameterUpdate
    <2> DEFINE p == [own |-> call.sid, size |-> call.size + Len(call.fresh),
                     lin |-> call.graph.lin]
    <2>1. /\ call.phase = "estimate" /\ call.sid = cur /\ call.graph.lin \subseteq {cur}
      BY <1>6 DEF RunParameterUpdate, CallsOwn, InCall
    <2>2. /\ call' = [call EXCEPT !.phase = "save", !.param = p]
          /\ param' = IF IsActual /\ call.shared THEN p ELSE param
      BY <1>6 DEF RunParameterUpdate
    <2>3. p.lin = call.graph.lin
      OBVIOUS
    <2> HIDE DEF p
    <2>4. /\ call'.phase = "save" /\ call'.todo = call.todo /\ call'.sid = call.sid
          /\ call'.graph = call.graph /\ call'.param = p
      BY <1>0, <2>2 DEF CallRec
    <2>5. AllOwn' /\ cache'[cur] # None
      BY <1>0, <1>6, <2>1, <2>2, <2>3 DEF RunParameterUpdate, AllOwn
    <2>6. CallsOwn'
      BY <1>0, <2>1, <2>3, <2>4 DEF CallsOwn, InCall
    <2>7. QED
      BY <2>5, <2>6
  <1>7. CASE SaveGraph
    <2>1. /\ call.phase = "save" /\ call.sid = cur /\ call.graph.lin \subseteq {cur}
          /\ call.graph \in Graph
      BY <1>0, <1>7 DEF SaveGraph, CallsOwn, CallTypeOK, InCall
    <2>2. /\ call'.phase = "saved" /\ call'.todo = call.todo /\ call'.sid = call.sid
          /\ call'.graph = call.graph /\ call'.param = call.param
      BY <1>0, <1>7 DEF SaveGraph, CallRec
    <2>3. AllOwn' /\ cache'[cur] # None
      BY <1>0, <1>7, <2>1, NoneAssumption
      DEF SaveGraph, SaveStudentGraph, Put, AllOwn, TypeOK, RTTypeOK
    <2>4. CallsOwn'
      BY <1>0, <2>1, <2>2 DEF CallsOwn, InCall
    <2>5. QED
      BY <2>3, <2>4
  <1>8. CASE SaveParam
    <2>1. /\ call.phase = "saved" /\ call.sid = cur /\ call.param.lin \subseteq {cur}
      BY <1>8 DEF SaveParam, CallsOwn, InCall
    <2>2. /\ call'.phase = "log" /\ call'.todo = call.todo /\ call'.sid = call.sid
          /\ call'.graph = call.graph /\ call'.param = call.param
      BY <1>0, <1>8 DEF SaveParam, CallRec
    <2>3. AllOwn' /\ cache'[cur] # None
      BY <1>0, <1>8, <2>1 DEF SaveParam, SaveParamGraph, Put, AllOwn
    <2>4. CallsOwn'
      BY <1>0, <2>1, <2>2 DEF CallsOwn, InCall
    <2>5. QED
      BY <2>3, <2>4
  <1>9. CASE AppendTempRecords
    <2>1. call'.phase = "next" /\ call'.todo = call.todo
      BY <1>0, <1>9 DEF AppendTempRecords, CallRec
    <2>2. QED
      BY <1>0, <1>9, <2>1 DEF AppendTempRecords, rtVars, AllOwn, CallsOwn, InCall
  <1>10. CASE Return
    <2>1. call' = NoCall /\ call'.phase = "idle" /\ call'.todo = <<>>
      BY <1>10 DEF Return, NoCall
    <2>2. QED
      BY <1>0, <1>10, <2>1 DEF Return, rtVars, AllOwn, CallsOwn, InCall
  <1>11. QED
    BY <1>1, <1>2, <1>3, <1>4, <1>5, <1>6, <1>7, <1>8, <1>9, <1>10 DEF CallStep

LEMMA LeakInvImplies == LeakInv => NoLeak
  BY DEF LeakInv, CleanExams, CallsOwn, InCall, NoLeak

LEMMA LeakInit == EvalInit => LeakInv
  <1> SUFFICES ASSUME EvalInit PROVE LeakInv
    OBVIOUS
  <1>1. EvalTypes
    BY EvalInitTypes
  <1>2. step = "size" /\ call = NoCall /\ NoCall.phase = "idle" /\ NoCall.todo = <<>>
    BY DEF EvalInit, UpdateInit, NoCall
  <1>3. FreshStart
    BY <1>2 DEF EvalInit, UpdateInit, RTInit, FreshStart, DatasetGraph
  <1>4. CleanExams
    BY DEF EvalInit, CleanExams
  <1>5. QED
    BY <1>1, <1>2, <1>3, <1>4 DEF LeakInv, OwnData, Serving, ExamReady, CallsOwn, InCall

\* At the burn-in size, without files of the last student, a refreshing load
\* finds what EM estimated, and the shared parameters.
LEMMA FreshLoad ==
  ASSUME EvalTypes, FreshStart, step = "load",
         LoadStudentGraph(cur, burn_in_size, TRUE)
  PROVE  /\ cache' = [cache EXCEPT ![cur] = DatasetGraph(cur, burn_in_size)]
         /\ param' = DatasetParam(SharedKey)
         /\ practiceSize' = [practiceSize EXCEPT ![cur] = burn_in_size]
         /\ actualGraph' = NoFiles /\ actualParam' = NoFiles
  <1>1. StoredGraph(cur, burn_in_size) = DatasetGraph(cur, burn_in_size)
    BY DEF StoredGraph, FreshStart, NoFiles
  <1>2. ParamKey(cur, burn_in_size) = SharedKey
    BY SizesAssumption DEF ParamKey
  <1>3. ParamPathOf(actualParam, cur, burn_in_size) = [dir |-> "dataset", key |-> SharedKey]
    BY <1>2, ParamsAssumption DEF ParamPathOf, FreshStart, NoFiles
  <1>4. QED
    BY <1>1, <1>3 DEF LoadStudentGraph, AlignParam, ParamAt, FreshStart

LEMMA PickKeepsApart ==
  ASSUME LeakInv, PickStudent
  PROVE  FreshStart' /\ OwnData' /\ ExamReady' /\ CallsOwn' /\ CleanExams'
  <1>1. step' = "size" /\ call.phase = "idle" /\ call = NoCall /\ call' = call
    BY DEF PickStudent, LeakInv, CallsOwn
  <1>2. FreshStart'
    BY DEF PickStudent, ClearActualTempGraphs, DropActualFiles, FreshStart
  <1>3. NoCall.phase = "idle" /\ NoCall.todo = <<>>
    BY DEF NoCall
  <1>4. CleanExams'
    BY DEF PickStudent, LeakInv, CleanExams
  <1>5. QED
    BY <1>1, <1>2, <1>3, <1>4 DEF OwnData, Serving, ExamReady, CallsOwn, InCall

LEMMA BurnInKeepsApart ==
  ASSUME LeakInv, ChooseBurnIn \/ LoadBurnIn
  PROVE  FreshStart' /\ OwnData' /\ ExamReady' /\ CallsOwn' /\ CleanExams'
  <1>1. CallsOwn' /\ CleanExams'
    <2>1. /\ step \notin {"valued", "answered"} /\ UNCHANGED <<call, cur, initials, exams>>
      BY DEF ChooseBurnIn, LoadBurnIn
    <2>2. QED
      BY <2>1 DEF LeakInv, CallsOwn, CleanExams
  <1>2. CASE ChooseBurnIn
    <2>1. step = "size" /\ step' = "load" /\ UNCHANGED <<cache, actualGraph, actualParam>>
      BY <1>2 DEF ChooseBurnIn, SetPracticeSize
    <2>2. QED
      BY <1>1, <2>1 DEF LeakInv, FreshStart, OwnData, Serving, ExamReady
  <1>3. CASE LoadBurnIn
    <2>1. step = "load" /\ cur' = cur /\ cur \in Students /\ stage # "done"
      BY <1>3 DEF LoadBurnIn, LeakInv, EvalTypes, LoopTypeOK
    <2>2. step' \in {"pick", "exam", "round"}
      BY <1>3, <2>1 DEF LoadBurnIn, LeakInv, EvalTypes, LoopTypeOK
    <2>3. /\ cache' = [cache EXCEPT ![cur] = DatasetGraph(cur, burn_in_size)]
          /\ param' = DatasetParam(SharedKey)
          /\ practiceSize' = [practiceSize EXCEPT ![cur] = burn_in_size]
          /\ actualGraph' = NoFiles /\ actualParam' = NoFiles
      BY <1>3, <2>1, FreshLoad DEF LoadBurnIn, LeakInv
    <2>4. /\ DatasetGraph(cur, burn_in_size).lin = {} /\ DatasetParam(SharedKey).lin = {}
          /\ DatasetGraph(cur, burn_in_size) # None
      BY <2>1, DatasetGraphType, SizesAssumption, NoneAssumption
      DEF DatasetGraph, DatasetParam
    <2>5. AllOwn' /\ cache'[cur] # None
      BY <2>1, <2>3, <2>4 DEF AllOwn, LeakInv, FreshStart, EvalTypes, TypeOK, RTTypeOK, NoFiles
    <2>6. ExamReady'
      BY <2>1, <2>3 DEF ExamReady, LeakInv, EvalTypes, TypeOK, RTTypeOK
    <2>7. QED
      BY <1>1, <2>1, <2>2, <2>5, <2>6 DEF FreshStart, OwnData
  <1>4. QED
    BY <1>2, <1>3

\* An exam reads the cached graph and the parameters as they are.
LEMMA ExamKeepsApart ==
  ASSUME LeakInv, InitialExam \/ FinalExam
  PROVE  FreshStart' /\ OwnData' /\ ExamReady' /\ CallsOwn' /\ CleanExams'
  <1>1. step \in {"exam", "round"} /\ step' = "pick" /\ cur' = cur /\ call' = call
    BY DEF InitialExam, FinalExam, PredictOnNewQuestion
  <1>2. AllOwn /\ cache[cur] # None /\ cur \in Students
    BY <1>1 DEF LeakInv, OwnData, Serving, EvalTypes, LoopTypeOK
  <1>3. CASE InitialExam
    <2>1. Snapshot = [graph |-> DatasetGraph(cur, burn_in_size),
                      param |-> DatasetParam(SharedKey), size |-> burn_in_size]
      BY <1>3 DEF InitialExam, Snapshot, LeakInv, ExamReady
    <2>2. CleanExams'
      BY <1>2, <1>3, <2>1 DEF InitialExam, LeakInv, CleanExams, EvalTypes, LoopTypeOK
    <2>3. QED
      BY <1>1, <2>2 DEF LeakInv, FreshStart, OwnData, Serving, ExamReady, CallsOwn
  <1>4. CASE FinalExam
    <2>1. Snapshot.graph.lin \cup Snapshot.param.lin \subseteq {cur}
      BY <1>2 DEF Snapshot, AllOwn
    <2>2. CleanExams'
      <3> DEFINE e == Snapshot
      <3>1. exams' = [exams EXCEPT ![cur] = e] /\ initials' = initials
        BY <1>4 DEF FinalExam
      <3> HIDE DEF e
      <3>2. QED
        BY <1>2, <2>1, <3>1 DEF LeakInv, CleanExams, EvalTypes, LoopTypeOK, e
    <2>3. QED
      BY <1>1, <2>2 DEF LeakInv, FreshStart, OwnData, Serving, ExamReady, CallsOwn
  <1>5. QED
    BY <1>3, <1>4

\* Inside a round the data stays the student's own.
LEMMA RoundKeepsApart ==
  ASSUME LeakInv,
         \/ StartRound \/ LoadAssumption \/ AssumeCorrect \/ RecordAnswer
         \/ UpdateStep \/ EndRound
         \/ \E k \in Candidates : PredictValue(k) \/ Ask(k)
  PROVE  FreshStart' /\ OwnData' /\ ExamReady' /\ CallsOwn' /\ CleanExams'
  <1>0. /\ step \in {"round", "scan", "value", "valued", "ask", "answered"}
        /\ step' \in {"round", "scan", "value", "valued", "ask", "answered"}
        /\ UNCHANGED <<cur, initials, exams>>
    BY DEF StartRound, LoadAssumption, AssumeCorrect, RecordAnswer, UpdateStep,
       loopVars, EndRound, PredictValue, Ask
  <1>1. /\ AllOwn /\ cache[cur] # None /\ cur \in Students
        /\ practiceSize[cur] \in Nat /\ EvalTypes /\ CallsOwn
    BY <1>0 DEF LeakInv, OwnData, Serving, EvalTypes, LoopTypeOK, TypeOK, RTTypeOK
  <1>2. FreshStart' /\ ExamReady' /\ CleanExams'
    BY <1>0 DEF FreshStart, ExamReady, CleanExams, LeakInv
  <1>3. SUFFICES AllOwn' /\ cache'[cur] # None /\ CallsOwn'
    BY <1>0, <1>2 DEF OwnData
  <1>4. ASSUME NEW refresh \in BOOLEAN, call' = call, call.phase = "idle",
               LoadStudentGraph(cur, practiceSize[cur], refresh)
        PROVE  AllOwn' /\ cache'[cur] # None /\ CallsOwn'
    <2>1. AllOwn' /\ cache'[cur] # None
      BY <1>0, <1>1, <1>4, LoadOwn
    <2>2. CallsOwn'
      BY <1>0, <1>1, <1>4 DEF CallsOwn, InCall
    <2>3. QED
      BY <2>1, <2>2
  <1>5. CASE StartRound
    BY <1>4, <1>5 DEF StartRound, Refresh
  <1>6. CASE \E k \in Candidates : PredictValue(k) \/ Ask(k)
    BY <1>4, <1>6 DEF PredictValue, Ask, PredictOnNewQuestion
  <1>7. CASE LoadAssumption
    <2>1. ParamAt(actualParam, ParamPathOf(actualParam, cur, practiceSize[cur])).lin
            \subseteq {cur}
      BY <1>1, StoredOwn
    <2>2. AllOwn' /\ cache'[cur] # None
      BY <1>0, <1>1, <1>7, <2>1 DEF LoadAssumption, LoadByPath, AlignParam, AllOwn
    <2>3. CallsOwn'
      BY <1>0, <1>1, <1>7 DEF LoadAssumption, CallsOwn, InCall
    <2>4. QED
      BY <2>2, <2>3
  <1>8. ASSUME NEW mode, Begin(mode, FALSE, Answer), step' \in {"valued", "answered"}
        PROVE  AllOwn' /\ cache'[cur] # None /\ CallsOwn'
    <2>1. UNCHANGED rtVars /\ call'.phase = "resolve" /\ call'.todo = Answer
      BY <1>8 DEF Begin, NoCall
    <2>2. \A i \in DOMAIN Answer : Answer[i].sid = cur
      BY DEF Answer
    <2>3. QED
      BY <1>0, <1>1, <1>8, <2>1, <2>2 DEF rtVars, AllOwn, CallsOwn, InCall
  <1>9. CASE AssumeCorrect \/ RecordAnswer
    BY <1>8, <1>9 DEF AssumeCorrect, RecordAnswer
  <1>10. CASE UpdateStep
    BY <1>1, <1>10, CallStepOwn DEF UpdateStep
  <1>11. CASE EndRound
    BY <1>0, <1>1, <1>11 DEF EndRound, vars, rtVars, AllOwn, CallsOwn, InCall
  <1>12. QED
    BY <1>5, <1>6, <1>7, <1>9, <1>10, <1>11

LEMMA LeakStep == LeakInv /\ [EvalNext]_evalVars => LeakInv'
  <1> SUFFICES ASSUME LeakInv, [EvalNext]_evalVars PROVE LeakInv'
    OBVIOUS
  <1>1. CASE EvalStep
    <2>1. EvalTypes'
      BY <1>1, EvalStepTypes, EvalStepLoop DEF LeakInv, EvalTypes
    <2>2. CASE InitialsDone \/ Finish
      <3>1. /\ step = "pick" /\ step' \in {"pick", "done"}
            /\ UNCHANGED <<call, cur, initials, exams>>
        BY <2>2 DEF InitialsDone, Finish, vars
      <3>2. QED
        BY <2>1, <3>1 DEF LeakInv, OwnData, Serving, FreshStart, ExamReady,
           CallsOwn, CleanExams
    <2>3. QED
      BY <1>1, <2>1, <2>2, PickKeepsApart, BurnInKeepsApart, ExamKeepsApart,
         RoundKeepsApart DEF EvalStep, LeakInv
  <1>2. CASE UNCHANGED evalVars
    <2>1. UNCHANGED <<vars, loopVars>> /\ UNCHANGED <<rtVars, kuVars, call>>
      BY <1>2 DEF evalVars, vars
    <2>2. TypeOK' /\ LoopTypeOK'
      <3>1. RTTypeOK'
        BY <2>1 DEF LeakInv, EvalTypes, TypeOK, RTTypeOK, rtVars
      <3>2. KUTypeOK'
        BY <2>1 DEF LeakInv, EvalTypes, TypeOK, KUTypeOK, CallTypeOK, kuVars
      <3>3. LoopTypeOK'
        BY <2>1 DEF LeakInv, EvalTypes, LoopTypeOK, loopVars
      <3>4. QED
        BY <3>1, <3>2, <3>3 DEF TypeOK
    <2>3. OwnData' /\ FreshStart' /\ ExamReady'
      BY <2>1 DEF LeakInv, OwnData, Serving, AllOwn, FreshStart, ExamReady, rtVars,
         loopVars
    <2>4. CallsOwn' /\ CleanExams'
      BY <2>1 DEF LeakInv, CallsOwn, CleanExams, loopVars
    <2>5. QED
      BY <2>2, <2>3, <2>4 DEF LeakInv, EvalTypes
  <1>3. QED
    BY <1>1, <1>2 DEF EvalNext, Done

\* For any number of students, served in any order, over any number of rounds
\* and whatever is asked: no result of one student has been computed from an
\* answer of another one (clear_actual_temp_graphs and the refreshing load at
\* gen_practice_eval.py:365).
THEOREM StudentsKeptApart == EvalSpec => []NoLeak
  <1>1. EvalInit => LeakInv
    BY LeakInit
  <1>2. LeakInv /\ [EvalNext]_evalVars => LeakInv'
    BY LeakStep
  <1>3. LeakInv => NoLeak
    BY LeakInvImplies
  <1>4. QED
    BY <1>1, <1>2, <1>3, PTL DEF EvalSpec

---------------------------------------------------------------------------
(* Rounds.                                                                 *)
(*                                                                         *)
(* ScanFromSameState and RoundsBuildOnEachOther say of two moments what    *)
(* has to hold in between: until the answer is recorded the runtime is as  *)
(* the round found it, in memory and, because every load comes back to     *)
(* them, in the files; and the files are those of the last round.          *)

Opened ==
  /\ opened = Snapshot
  /\ opened.graph = StoredGraph(cur, practiceSize[cur])
  /\ opened.param = ParamAt(actualParam, ParamPathOf(actualParam, cur, practiceSize[cur]))

\* an update that has not opened its student yet
Unopened == call.phase = "resolve" \/ (call.phase = "next" /\ call.todo # <<>>)

Untouched ==
  step \in {"scan", "value", "valued", "ask"} \/ (step = "answered" /\ Unopened) =>
    Opened

UpdateReads ==
  call.phase = "observe" =>
    [graph |-> call.graph, param |-> call.param, size |-> call.size] = opened

\* One student per call; the calls of a scan are hypothetical, the others not.
CallsOne ==
  /\ call.phase \in InCall => call.todo = <<>>
  /\ Unopened => call.todo = Answer
  /\ call.phase # "idle" => (IsActual <=> step = "answered")
  /\ call.phase \in {"saved", "log"} => IsActual

GraphSaved(n) ==
  /\ practiceSize[cur] = n
  /\ <<cur, n>> \in DOMAIN actualGraph
  /\ actualGraph[<<cur, n>>].lin = {cur}

OwnParam(n) == [own |-> cur, size |-> n, lin |-> {cur}]

ParamSaved(n) ==
  <<cur, n>> \in DOMAIN actualParam /\ actualParam[<<cur, n>>] = OwnParam(n)

\* What the runtime finds when n records are behind the student.
ReadyFor(n) ==
  IF n = burn_in_size
  THEN practiceSize[cur] = n /\ actualGraph = NoFiles /\ actualParam = NoFiles
  ELSE GraphSaved(n) /\ ParamSaved(n)

Size == burn_in_size + round

\* How far the update of the round's answer has come.
Recording ==
  step = "answered" =>
    /\ Unopened \/ call.phase \in {"observe", "estimate", "save"} => ReadyFor(Size)
    /\ call.phase = "observe" =>
         /\ call.size = Size
         /\ \/ call.obs = <<pick>> /\ call.fresh = <<>>
            \/ call.obs = <<>> /\ Len(call.fresh) = 1
    /\ call.phase \in {"estimate", "save", "saved"} =>
         call.size = Size /\ Len(call.fresh) = 1 /\ call.graph.lin = {cur}
    /\ call.phase \in {"save", "saved"} => call.param = OwnParam(Size + 1)
    /\ call.phase = "saved" => GraphSaved(Size + 1)
    /\ call.phase \in {"idle", "log"} \/ (call.phase = "next" /\ call.todo = <<>>) =>
         ReadyFor(Size + 1)

Progress ==
  /\ round \in Nat
  /\ step \in {"size", "load"} => round = 0
  /\ step \in {"round", "scan", "value", "valued", "ask"} => ReadyFor(Size)
  /\ Recording

RoundInv == LeakInv /\ Untouched /\ UpdateReads /\ CallsOne /\ Progress

LEMMA RoundInvScan == RoundInv => ScanFromSameState
  BY DEF RoundInv, UpdateReads, ScanFromSameState

LEMMA RoundInvBuild == RoundInv => RoundsBuildOnEachOther
  <1> SUFFICES ASSUME RoundInv, step = "scan"
               PROVE  /\ opened.size = burn_in_size + round
                      /\ IF round = 0 THEN opened.param = DatasetParam(SharedKey)
                         ELSE /\ opened.param = [own |-> cur, size |-> opened.size, lin |-> {cur}]
                              /\ opened.graph.lin = {cur}
    BY DEF RoundsBuildOnEachOther
  <1>1. Opened /\ ReadyFor(Size) /\ round \in Nat /\ burn_in_size \in Nat
    BY SizesAssumption DEF RoundInv, Untouched, Progress
  <1>2. practiceSize[cur] = Size /\ opened.size = Size
    BY <1>1 DEF ReadyFor, GraphSaved, Opened, Snapshot
  <1>3. CASE round = 0
    <2>1. Size = burn_in_size /\ actualParam = NoFiles
      BY <1>1, <1>3 DEF Size, ReadyFor
    <2>2. ParamPathOf(actualParam, cur, Size) = [dir |-> "dataset", key |-> SharedKey]
      BY <1>1, <2>1, ParamsAssumption DEF ParamPathOf, ParamKey, NoFiles
    <2>3. opened.param = DatasetParam(SharedKey)
      BY <1>1, <1>2, <2>2 DEF Opened, ParamAt
    <2>4. QED
      BY <1>2, <1>3, <2>3 DEF Size
  <1>4. CASE round # 0
    <2>1. Size > burn_in_size /\ GraphSaved(Size) /\ ParamSaved(Size)
      BY <1>1, <1>4 DEF Size, ReadyFor
    <2>2. cur \in Students
      BY DEF RoundInv, LeakInv, EvalTypes, LoopTypeOK
    <2>3. ParamPathOf(actualParam, cur, Size) = [dir |-> "actual", key |-> <<cur, Size>>]
      BY <1>1, <2>1, <2>2, StudentsAssumption DEF ParamPathOf, ParamKey, ParamSaved, Size
    <2>4. opened.param = OwnParam(Size)
      BY <1>1, <1>2, <2>1, <2>3 DEF Opened, ParamAt, ParamSaved
    <2>5. opened.graph.lin = {cur}
      BY <1>1, <1>2, <2>1 DEF Opened, StoredGraph, GraphSaved
    <2>6. QED
      BY <1>2, <1>4, <2>4, <2>5 DEF Size, OwnParam
  <1>5. QED
    BY <1>3, <1>4

LEMMA RoundInit == EvalInit => RoundInv
  <1> SUFFICES ASSUME EvalInit PROVE RoundInv
    OBVIOUS
  <1>1. step = "size" /\ round = 0 /\ call = NoCall /\ NoCall.phase = "idle"
    BY DEF EvalInit, UpdateInit, NoCall
  <1>2. QED
    BY <1>1, LeakInit
    DEF RoundInv, Untouched, UpdateReads, CallsOne, Progress, Recording, Unopened, InCall

\* What the parts of the invariant read of the runtime.
RoundVars == <<practiceSize, cache, param, actualGraph, actualParam, cur, round, opened>>

LEMMA OpenedStays ==
  ASSUME UNCHANGED RoundVars
  PROVE  /\ Opened => Opened'
         /\ ReadyFor(Size) => ReadyFor(Size)'
         /\ ReadyFor(Size + 1) => ReadyFor(Size + 1)'
  <1>1. Opened => Opened'
    BY DEF RoundVars, Opened, Snapshot, StoredGraph, ParamAt, ParamPathOf
  <1>2. Size' = Size
    BY DEF RoundVars, Size
  <1>3. QED
    BY <1>1, <1>2 DEF RoundVars, ReadyFor, GraphSaved, ParamSaved, OwnParam

LEMMA RoundFacts ==
  ASSUME RoundInv
  PROVE  /\ cur \in Students /\ cur # NoStudent /\ round \in Nat
         /\ burn_in_size \in Nat /\ Size \in Nat
         /\ practiceSize[cur] \in Nat
         /\ call \in CallRec
         /\ LeakInv /\ EvalTypes /\ CallsOwn
  <1>1. LeakInv /\ EvalTypes /\ CallsOwn /\ round \in Nat
    BY DEF RoundInv, LeakInv, Progress
  <1>2. cur \in Students /\ cur # NoStudent
    BY <1>1, StudentsAssumption DEF EvalTypes, LoopTypeOK
  <1>3. practiceSize[cur] \in Nat
    BY <1>1, <1>2 DEF EvalTypes, TypeOK, RTTypeOK
  <1>4. call \in CallRec
    BY <1>1 DEF EvalTypes, TypeOK, KUTypeOK, CallTypeOK
  <1>5. burn_in_size \in Nat /\ Size \in Nat
    BY <1>1, SizesAssumption DEF Size
  <1>6. QED
    BY <1>1, <1>2, <1>3, <1>4, <1>5

\* Before the first round, and after the last one.
LEMMA OutsideRounds ==
  ASSUME RoundInv,
         \/ PickStudent \/ ChooseBurnIn \/ LoadBurnIn \/ InitialExam \/ FinalExam
         \/ InitialsDone \/ Finish
  PROVE  Untouched' /\ UpdateReads' /\ CallsOne' /\ Progress'
  <1>1. /\ step \notin {"valued", "answered"} /\ call' = call
        /\ step' \notin {"scan", "value", "valued", "ask", "answered"}
    BY RoundFacts DEF PickStudent, ChooseBurnIn, LoadBurnIn, InitialExam, FinalExam,
       PredictOnNewQuestion, InitialsDone, Finish, vars, EvalTypes, LoopTypeOK
  <1>2. call.phase = "idle"
    BY <1>1 DEF RoundInv, LeakInv, CallsOwn
  <1>3. Untouched' /\ UpdateReads' /\ CallsOne' /\ Recording'
    BY <1>1, <1>2 DEF Untouched, UpdateReads, CallsOne, Recording, Unopened, InCall
  <1>4. CASE LoadBurnIn
    <2>1. step = "load" /\ round = 0 /\ round' = 0 /\ cur' = cur
      BY <1>4 DEF LoadBurnIn, RoundInv, Progress
    <2>2. /\ practiceSize' = [practiceSize EXCEPT ![cur] = burn_in_size]
          /\ actualGraph' = NoFiles /\ actualParam' = NoFiles
      BY <1>4, <2>1, FreshLoad DEF LoadBurnIn, RoundInv, LeakInv
    <2>3. practiceSize'[cur] = burn_in_size
      BY <2>2, RoundFacts DEF EvalTypes, TypeOK, RTTypeOK
    <2>4. Size' = burn_in_size
      BY <2>1, RoundFacts DEF Size
    <2>5. ReadyFor(Size)'
      BY <2>1, <2>2, <2>3, <2>4 DEF ReadyFor, NoFiles
    <2>6. step' \notin {"size", "load"}
      BY <1>4 DEF LoadBurnIn, RoundInv, LeakInv, EvalTypes, LoopTypeOK
    <2>7. QED
      BY <1>1, <1>3, <2>1, <2>5, <2>6 DEF Progress
  <1>5. CASE ~LoadBurnIn
    <2>1. /\ step' \notin {"round", "scan", "value", "valued", "ask"}
          /\ round' = round \/ round' = 0
          /\ step' \in {"size", "load"} => round' = 0
      BY <1>5 DEF PickStudent, ChooseBurnIn, InitialExam, FinalExam, InitialsDone, Finish,
         RoundInv, Progress
    <2>2. QED
      BY <1>3, <2>1, RoundFacts DEF Progress
  <1>6. QED
    BY <1>4, <1>5

\* A round begins with a load of the files it then finds itself on.
LEMMA RoundStarts ==
  ASSUME RoundInv, StartRound
  PROVE  Untouched' /\ UpdateReads' /\ CallsOne' /\ Progress'
  <1>1. /\ step = "round" /\ step' = "scan" /\ call' = call /\ call.phase = "idle"
        /\ cur' = cur /\ round' = round
    BY DEF StartRound, Refresh
  <1>2. LoadStudentGraph(cur, practiceSize[cur], TRUE)
    BY DEF StartRound, Refresh
  <1>3. /\ practiceSize' = practiceSize /\ actualGraph' = actualGraph
        /\ actualParam' = actualParam
        /\ cache'[cur] = StoredGraph(cur, practiceSize[cur])
        /\ param' = ParamAt(actualParam, ParamPathOf(actualParam, cur, practiceSize[cur]))
    BY <1>2, RoundFacts DEF LoadStudentGraph, AlignParam, EvalTypes, TypeOK, RTTypeOK
  <1>4. Opened'
    <2>1. opened' = Snapshot'
      BY <1>1, <1>3 DEF StartRound, Snapshot
    <2>2. /\ StoredGraph(cur, practiceSize[cur])' = StoredGraph(cur, practiceSize[cur])
          /\ ParamAt(actualParam, ParamPathOf(actualParam, cur, practiceSize[cur]))'
               = ParamAt(actualParam, ParamPathOf(actualParam, cur, practiceSize[cur]))
      BY <1>1, <1>3 DEF StoredGraph, ParamAt, ParamPathOf
    <2>3. QED
      BY <1>1, <1>3, <2>1, <2>2 DEF Opened, Snapshot
  <1>5. ReadyFor(Size)'
    BY <1>1, <1>3 DEF RoundInv, Progress, ReadyFor, GraphSaved, ParamSaved, OwnParam, Size
  <1>6. QED
    BY <1>1, <1>4, <1>5, RoundFacts
    DEF Untouched, UpdateReads, CallsOne, Progress, Recording, Unopened, InCall

\* The cached graph of the current student answers every load of the round.
LEMMA CachedLoad ==
  ASSUME RoundInv, Serving, LoadStudentGraph(cur, practiceSize[cur], FALSE)
  PROVE  UNCHANGED <<practiceSize, cache, param, actualGraph, actualParam>>
  BY DEF RoundInv, LeakInv, OwnData, LoadStudentGraph

LEMMA RoundReads ==
  ASSUME RoundInv, LoadAssumption \/ \E k \in Candidates : PredictValue(k) \/ Ask(k)
  PROVE  Untouched' /\ UpdateReads' /\ CallsOne' /\ Progress'
  <1>1. /\ step \in {"scan", "valued"} /\ step' \in {"scan", "value", "ask"}
        /\ call' = call /\ call.phase = "idle" /\ UNCHANGED <<cur, round, opened>>
    BY DEF LoadAssumption, PredictValue, Ask, PredictOnNewQuestion
  <1>2. Opened /\ ReadyFor(Size)
    BY <1>1 DEF RoundInv, Untouched, Progress
  <1>3. UNCHANGED <<practiceSize, cache, param, actualGraph, actualParam>>
    <2>1. CASE LoadAssumption
      BY <1>2, <2>1 DEF LoadAssumption, LoadByPath, AlignParam, Opened, Snapshot
    <2>2. CASE \E k \in Candidates : PredictValue(k) \/ Ask(k)
      BY <1>1, <2>2, CachedLoad DEF PredictValue, Ask, PredictOnNewQuestion, Serving
    <2>3. QED
      BY <2>1, <2>2
  <1>4. Opened' /\ ReadyFor(Size)'
    BY <1>1, <1>2, <1>3, OpenedStays DEF RoundVars
  <1>5. QED
    BY <1>1, <1>4, RoundFacts
    DEF Untouched, UpdateReads, CallsOne, Progress, Recording, Unopened, InCall

LEMMA RoundBegins ==
  ASSUME RoundInv, AssumeCorrect \/ RecordAnswer
  PROVE  Untouched' /\ UpdateReads' /\ CallsOne' /\ Progress'
  <1>1. /\ step \in {"value", "ask"} /\ step' \in {"valued", "answered"}
        /\ UNCHANGED <<cur, round, opened, pick>> /\ UNCHANGED rtVars
        /\ call'.phase = "resolve" /\ call'.todo = Answer
        /\ call'.mode = "actual" <=> step' = "answered"
    BY DEF AssumeCorrect, RecordAnswer, Begin, NoCall
  <1>2. Opened' /\ ReadyFor(Size)' /\ Answer' = Answer
    BY <1>1, OpenedStays DEF RoundInv, Untouched, Progress, RoundVars, rtVars, Answer
  <1>3. QED
    BY <1>1, <1>2, RoundFacts
    DEF Untouched, UpdateReads, CallsOne, Progress, Recording, Unopened, InCall, IsActual

LEMMA RoundEnds ==
  ASSUME RoundInv, EndRound
  PROVE  Untouched' /\ UpdateReads' /\ CallsOne' /\ Progress'
  <1>1. /\ step = "answered" /\ step' = "round" /\ call' = call /\ call.phase = "idle"
        /\ round' = round + 1 /\ cur' = cur
        /\ UNCHANGED <<practiceSize, actualGraph, actualParam>>
    BY DEF EndRound, vars, rtVars
  <1>2. ReadyFor(Size + 1)
    BY <1>1 DEF RoundInv, Progress, Recording
  <1>3. Size' = Size + 1
    BY <1>1, RoundFacts DEF Size
  <1>4. ReadyFor(Size)'
    BY <1>1, <1>2, <1>3 DEF ReadyFor, GraphSaved, ParamSaved, OwnParam
  <1>5. QED
    BY <1>1, <1>4, RoundFacts
    DEF Untouched, UpdateReads, CallsOne, Progress, Recording, Unopened, InCall

\* The one student of the call is opened on what the round found.
LEMMA OpensCurrent ==
  ASSUME RoundInv, OpenStudent, step \in {"valued", "answered"}
  PROVE  /\ call' = [call EXCEPT !.phase = "observe", !.sid = cur,
                       !.size = practiceSize[cur], !.todo = <<>>, !.obs = <<pick>>,
                       !.param = param, !.shared = TRUE, !.graph = cache[cur],
                       !.hist = history[cur], !.fresh = <<>>]
         /\ UNCHANGED <<practiceSize, cache, param, actualGraph, actualParam>>
  <1>1. call.phase = "next" /\ call.todo = Answer
    BY DEF OpenStudent, RoundInv, CallsOne, Unopened
  <1>2. /\ Head(call.todo).sid = cur /\ Head(call.todo).obs = <<pick>>
        /\ Tail(call.todo) = <<>>
    BY <1>1 DEF Answer
  <1>3. cache[cur] # None
    BY DEF RoundInv, LeakInv, OwnData, Serving
  <1>4. LoadStudentGraph(cur, practiceSize[cur], FALSE)
    BY <1>2 DEF OpenStudent
  <1>5. UNCHANGED <<practiceSize, cache, param, actualGraph, actualParam>>
    BY <1>4, CachedLoad DEF Serving
  <1>6. QED
    BY <1>2, <1>3, <1>5 DEF OpenStudent

LEMMA StepCalls ==
  ASSUME RoundInv, CallStep, UNCHANGED loopVars, step \in {"valued", "answered"}
  PROVE  CallsOne'
  <1>0. CallsOne /\ call \in CallRec /\ UNCHANGED <<step, cur, pick>> /\ Answer' = Answer
    BY RoundFacts DEF RoundInv, loopVars, Answer
  <1>1. CASE ResolveStudents
    <2>1. /\ call.phase = "resolve" /\ call'.phase = "next" /\ call'.todo = call.todo
          /\ call'.mode = call.mode
      BY <1>0, <1>1 DEF ResolveStudents, CallRec
    <2>2. QED
      BY <1>0, <2>1 DEF CallsOne, Unopened, InCall, IsActual
  <1>2. CASE OpenStudent
    <2>1. /\ call.phase = "next" /\ call'.phase = "observe" /\ call'.todo = <<>>
          /\ call'.mode = call.mode
      BY <1>0, <1>2, OpensCurrent DEF OpenStudent, CallRec
    <2>2. QED
      BY <1>0, <2>1 DEF CallsOne, Unopened, InCall, IsActual
  <1>3. CASE Observe \/ Propagate \/ RunParameterUpdate \/ SaveGraph \/ SaveParam
    <2>1. /\ call'.phase \in InCall /\ call.phase \in InCall
          /\ call'.todo = call.todo /\ call'.mode = call.mode
          /\ call'.phase \in {"saved", "log"} => call.phase = "saved" \/ IsActual
      BY <1>0, <1>3 DEF Observe, Propagate, RunParameterUpdate, SaveGraph, SaveParam,
         CallRec, InCall
    <2>2. QED
      BY <1>0, <2>1 DEF CallsOne, Unopened, InCall, IsActual
  <1>4. CASE NothingObserved \/ SaveAssumption \/ AppendTempRecords
    <2>1. /\ call'.phase = "next" /\ call.phase \in InCall
          /\ call'.todo = call.todo /\ call'.mode = call.mode
      BY <1>0, <1>4 DEF NothingObserved, SaveAssumption, AppendTempRecords, CallRec, InCall
    <2>2. QED
      BY <1>0, <2>1 DEF CallsOne, Unopened, InCall, IsActual
  <1>5. CASE Return
    <2>1. call'.phase = "idle"
      BY <1>5 DEF Return, NoCall
    <2>2. QED
      BY <2>1 DEF CallsOne, Unopened, InCall
  <1>6. QED
    BY <1>1, <1>2, <1>3, <1>4, <1>5 DEF CallStep

LEMMA StepReads ==
  ASSUME RoundInv, CallStep, UNCHANGED loopVars, step \in {"valued", "answered"}
  PROVE  UpdateReads'
  <1>0. call \in CallRec /\ opened' = opened
    BY RoundFacts DEF loopVars
  <1>1. CASE OpenStudent
    <2>1. Opened
      BY <1>1 DEF OpenStudent, RoundInv, Untouched, Unopened
    <2>2. /\ call'.graph = cache[cur] /\ call'.param = param /\ call'.size = practiceSize[cur]
      BY <1>0, <1>1, OpensCurrent DEF CallRec
    <2>3. QED
      BY <1>0, <2>1, <2>2 DEF UpdateReads, Opened, Snapshot
  <1>2. CASE Observe
    <2>1. /\ call.phase = "observe" /\ call'.graph = call.graph
          /\ call'.param = call.param /\ call'.size = call.size
      BY <1>0, <1>2 DEF Observe, CallRec
    <2>2. QED
      BY <1>0, <2>1 DEF RoundInv, UpdateReads
  <1>3. CASE ResolveStudents \/ NothingObserved \/ Propagate \/ RunParameterUpdate
             \/ SaveAssumption \/ SaveGraph \/ SaveParam \/ AppendTempRecords \/ Return
    <2>1. CASE ResolveStudents \/ NothingObserved \/ Propagate \/ RunParameterUpdate
      BY <1>0, <2>1 DEF ResolveStudents, NothingObserved, Propagate, RunParameterUpdate,
         CallRec, UpdateReads
    <2>2. CASE SaveAssumption \/ SaveGraph \/ SaveParam \/ AppendTempRecords \/ Return
      BY <1>0, <2>2 DEF SaveAssumption, SaveGraph, SaveParam, AppendTempRecords,
         Return, NoCall, CallRec, UpdateReads
    <2>3. QED
      BY <1>3, <2>1, <2>2
  <1>4. QED
    BY <1>1, <1>2, <1>3 DEF CallStep

\* A hypothetical answer leaves everything the round reads as it was.
LEMMA HypothesisLeavesNoTrace ==
  ASSUME RoundInv, CallStep, UNCHANGED loopVars, step = "valued"
  PROVE  Untouched' /\ Progress'
  <1>0. /\ UNCHANGED <<step, cur, round, opened>> /\ Opened /\ ReadyFor(Size)
        /\ call.phase # "idle" => ~IsActual
        /\ call.phase # "saved"
    BY DEF loopVars, RoundInv, Untouched, Progress, CallsOne
  <1>1. UNCHANGED <<practiceSize, cache, param, actualGraph, actualParam>>
    <2>1. CASE OpenStudent
      BY <1>0, <2>1, OpensCurrent
    <2>2. CASE SaveGraph \/ SaveParam
      BY <1>0, <2>2 DEF SaveGraph, SaveParam
    <2>3. CASE Propagate \/ RunParameterUpdate
      BY <1>0, <2>3 DEF Propagate, RunParameterUpdate
    <2>4. CASE ResolveStudents \/ Observe \/ NothingObserved \/ SaveAssumption
               \/ AppendTempRecords \/ Return
      BY <2>4 DEF ResolveStudents, Observe, NothingObserved, SaveAssumption,
         AppendTempRecords, Return, rtVars
    <2>5. QED
      BY <2>1, <2>2, <2>3, <2>4 DEF CallStep
  <1>2. Opened' /\ ReadyFor(Size)'
    BY <1>0, <1>1, OpenedStays DEF RoundVars
  <1>3. QED
    BY <1>0, <1>2, RoundFacts DEF Untouched, Progress, Recording

\* The real answer goes through every phase, and is found in the files of the
\* next size when the update returns.
LEMMA AnswerIsRecorded ==
  ASSUME RoundInv, CallStep, UNCHANGED loopVars, step = "answered"
  PROVE  Untouched' /\ Progress'
  <1>0. /\ UNCHANGED <<step, cur, round, opened, pick>> /\ Recording /\ CallsOne
        /\ call.phase # "idle" => IsActual
        /\ call.phase \in InCall => call.sid = cur
        /\ call \in CallRec /\ round' \in Nat /\ cur \in Students /\ Size \in Nat
        /\ Size' = Size
    BY RoundFacts DEF loopVars, RoundInv, Progress, CallsOne, CallsOwn, Size
  <1>1. SUFFICES Untouched' /\ Recording'
    BY <1>0 DEF Progress
  <1>2. CASE ResolveStudents
    <2>1. Unopened /\ call'.phase = "next" /\ call'.todo = Answer
      BY <1>0, <1>2 DEF ResolveStudents, CallsOne, Unopened, CallRec
    <2>2. Opened /\ ReadyFor(Size) /\ call'.todo # <<>>
      BY <1>0, <2>1 DEF RoundInv, Untouched, Recording, Answer
    <2>3. Opened' /\ ReadyFor(Size)'
      BY <1>0, <1>2, <2>2, OpenedStays DEF ResolveStudents, rtVars, RoundVars
    <2>4. QED
      BY <1>0, <2>1, <2>2, <2>3 DEF Untouched, Recording, Unopened
  <1>3. CASE OpenStudent
    <2>1. Unopened /\ ReadyFor(Size)
      BY <1>0, <1>3 DEF OpenStudent, Unopened, Recording
    <2>2. practiceSize[cur] = Size
      BY <2>1 DEF ReadyFor, GraphSaved
    <2>3. ReadyFor(Size)'
      BY <1>0, <1>3, <2>1, OpensCurrent, OpenedStays DEF RoundVars
    <2>4. /\ call'.phase = "observe" /\ call'.size = Size
          /\ call'.obs = <<pick>> /\ call'.fresh = <<>>
      <3>1. call' = [call EXCEPT !.phase = "observe", !.sid = cur,
                       !.size = practiceSize[cur], !.todo = <<>>, !.obs = <<pick>>,
                       !.param = param, !.shared = TRUE, !.graph = cache[cur],
                       !.hist = history[cur], !.fresh = <<>>]
        BY <1>0, <1>3, OpensCurrent
      <3>2. QED
        BY <1>0, <2>2, <3>1 DEF CallRec
    <2>5. QED
      BY <1>0, <2>3, <2>4 DEF Untouched, Recording, Unopened
  <1>4. CASE Observe
    <2>1. /\ call.phase = "observe" /\ call.size = Size /\ ReadyFor(Size)
          /\ call.obs = <<pick>> /\ call.fresh = <<>>
      BY <1>0, <1>4 DEF Observe, Recording
    <2>2. pick \in Candidates /\ kcMapping[pick] = pick /\ pick \in KCs
      BY EvalAssumption DEF RoundInv, LeakInv, EvalTypes, LoopTypeOK
    <2>3. Head(call.obs) = pick /\ Tail(call.obs) = <<>>
      BY <2>1
    <2>4. /\ call'.phase = "observe" /\ call'.size = Size /\ call'.obs = <<>>
          /\ call'.fresh = Append(<<>>, [kc |-> pick, src |-> "practice"])
      BY <1>0, <1>4, <2>1, <2>2, <2>3 DEF Observe, CallRec
    <2>5. Len(call'.fresh) = 1
      BY <2>4
    <2>6. ReadyFor(Size)'
      BY <1>0, <1>4, <2>1, OpenedStays DEF Observe, rtVars, RoundVars
    <2>7. QED
      BY <1>0, <2>4, <2>5, <2>6 DEF Untouched, Recording, Unopened
  <1>5. CASE NothingObserved
    BY <1>0, <1>5 DEF NothingObserved, Recording
  <1>6. CASE Propagate
    <2> DEFINE lin == call.graph.lin \cup call.param.lin \cup {call.sid}
               g == Propagated(call.graph, call.hist, call.fresh, lin)
    <2>1. /\ call.phase = "observe" /\ call.size = Size /\ ReadyFor(Size)
          /\ Len(call.fresh) = 1
      BY <1>0, <1>6 DEF Propagate, Recording
    <2>2. lin = {cur}
      BY <1>0, <2>1, RoundFacts DEF CallsOwn, InCall
    <2>3. g.lin = lin
      BY DEF Propagated
    <2>4. call' = [call EXCEPT !.phase = "estimate", !.graph = g]
      BY <1>6 DEF Propagate
    <2> HIDE DEF g, lin
    <2>5. /\ call'.phase = "estimate" /\ call'.size = Size /\ Len(call'.fresh) = 1
          /\ call'.graph.lin = {cur}
      BY <1>0, <2>1, <2>2, <2>3, <2>4 DEF CallRec
    <2>6. ReadyFor(Size)'
      BY <1>0, <1>6, <2>1 DEF Propagate, ReadyFor, GraphSaved, ParamSaved, OwnParam
    <2>7. QED
      BY <1>0, <2>5, <2>6 DEF Untouched, Recording, Unopened
  <1>7. CASE RunParameterUpdate
    <2> DEFINE p == [own |-> call.sid, size |-> call.size + Len(call.fresh),
                     lin |-> call.graph.lin]
    <2>1. /\ call.phase = "estimate" /\ call.size = Size /\ ReadyFor(Size)
          /\ Len(call.fresh) = 1 /\ call.graph.lin = {cur} /\ call.sid = cur
      BY <1>0, <1>7 DEF RunParameterUpdate, Recording, InCall
    <2>2. p = OwnParam(Size + 1)
      BY <2>1 DEF OwnParam
    <2>3. /\ call' = [call EXCEPT !.phase = "save", !.param = p]
          /\ UNCHANGED <<practiceSize, actualGraph, actualParam>>
      BY <1>7 DEF RunParameterUpdate
    <2> HIDE DEF p
    <2>4. /\ call'.phase = "save" /\ call'.size = Size /\ Len(call'.fresh) = 1
          /\ call'.graph.lin = {cur} /\ call'.param = p
      BY <1>0, <2>1, <2>3 DEF CallRec
    <2>5. ReadyFor(Size)' /\ call'.param = OwnParam(Size + 1)'
      BY <1>0, <2>1, <2>2, <2>3, <2>4 DEF ReadyFor, GraphSaved, ParamSaved, OwnParam
    <2>6. QED
      BY <1>0, <2>4, <2>5 DEF Untouched, Recording, Unopened
  <1>8. CASE SaveGraph
    <2>1. /\ call.phase = "save" /\ call.size = Size /\ Len(call.fresh) = 1
          /\ call.graph.lin = {cur} /\ call.sid = cur /\ call.param = OwnParam(Size + 1)
      BY <1>0, <1>8 DEF SaveGraph, Recording, InCall
    <2>2. /\ actualGraph' = Put(actualGraph, <<cur, Size + 1>>, call.graph)
          /\ practiceSize' = [practiceSize EXCEPT ![cur] = Size + 1]
      BY <1>8, <2>1 DEF SaveGraph, SaveStudentGraph
    <2>3. GraphSaved(Size + 1)'
      BY <1>0, <2>1, <2>2, RoundFacts DEF GraphSaved, Put, EvalTypes, TypeOK, RTTypeOK
    <2>4. /\ call'.phase = "saved" /\ call'.size = Size /\ Len(call'.fresh) = 1
          /\ call'.graph.lin = {cur} /\ call'.param = OwnParam(Size + 1)'
      BY <1>0, <1>8, <2>1 DEF SaveGraph, CallRec, OwnParam
    <2>5. QED
      BY <1>0, <2>3, <2>4 DEF Untouched, Recording, Unopened
  <1>9. CASE SaveParam
    <2>1. /\ call.phase = "saved" /\ call.size = Size /\ Len(call.fresh) = 1
          /\ call.sid = cur /\ call.param = OwnParam(Size + 1) /\ GraphSaved(Size + 1)
      BY <1>0, <1>9 DEF SaveParam, Recording, InCall
    <2>2. Size + 1 > burn_in_size /\ cur # NoStudent
      BY RoundFacts DEF Size
    <2>3. ParamKey(cur, Size + 1) = <<cur, Size + 1>>
      BY <2>2, RoundFacts DEF ParamKey
    <2>4. /\ actualParam' = Put(actualParam, <<cur, Size + 1>>, call.param)
          /\ practiceSize' = [practiceSize EXCEPT ![cur] = Size + 1]
          /\ actualGraph' = actualGraph
      BY <1>9, <2>1, <2>2, <2>3 DEF SaveParam, SaveParamGraph
    <2>5. GraphSaved(Size + 1)'
      BY <1>0, <2>1, <2>4, RoundFacts DEF GraphSaved, EvalTypes, TypeOK, RTTypeOK
    <2>6. ParamSaved(Size + 1)'
      BY <1>0, <2>1, <2>4 DEF ParamSaved, Put, OwnParam
    <2>7. ReadyFor(Size + 1)'
      BY <1>0, <2>2, <2>5, <2>6 DEF ReadyFor
    <2>8. call'.phase = "log"
      BY <1>0, <1>9 DEF SaveParam, CallRec
    <2>9. QED
      BY <1>0, <2>7, <2>8 DEF Untouched, Recording, Unopened
  <1>10. CASE AppendTempRecords \/ Return
    <2>1. /\ ReadyFor(Size + 1)
          /\ call'.phase = "idle" \/ (call'.phase = "next" /\ call'.todo = <<>>)
      BY <1>0, <1>10 DEF AppendTempRecords, Return, NoCall, Recording, CallsOne, InCall, CallRec
    <2>2. ReadyFor(Size + 1)'
      BY <1>0, <1>10, <2>1
      DEF AppendTempRecords, Return, rtVars, ReadyFor, GraphSaved, ParamSaved, OwnParam
    <2>3. QED
      BY <1>0, <2>1, <2>2 DEF Untouched, Recording, Unopened
  <1>11. CASE SaveAssumption
    BY <1>0, <1>11 DEF SaveAssumption
  <1>12. QED
    BY <1>2, <1>3, <1>4, <1>5, <1>6, <1>7, <1>8, <1>9, <1>10, <1>11 DEF CallStep

LEMMA RoundStep == RoundInv /\ [EvalNext]_evalVars => RoundInv'
  <1> SUFFICES ASSUME RoundInv, [EvalNext]_evalVars PROVE RoundInv'
    OBVIOUS
  <1>1. LeakInv'
    BY LeakStep DEF RoundInv
  <1>2. CASE UpdateStep
    <2>1. /\ CallStep /\ UNCHANGED loopVars
          /\ step = "valued" \/ step = "answered"
      BY <1>2 DEF UpdateStep
    <2>2. QED
      BY <1>1, <2>1, StepCalls, StepReads, HypothesisLeavesNoTrace, AnswerIsRecorded
      DEF RoundInv
  <1>3. CASE EvalStep /\ ~UpdateStep
    BY <1>1, <1>3, OutsideRounds, RoundStarts, RoundReads, RoundBegins, RoundEnds
    DEF EvalStep, RoundInv
  <1>4. CASE UNCHANGED evalVars
    <2>1. UNCHANGED RoundVars /\ UNCHANGED <<step, call, pick, cur, round, opened>>
      BY <1>4 DEF evalVars, vars, rtVars, loopVars, RoundVars
    <2>2. /\ Opened => Opened'
          /\ ReadyFor(Size) => ReadyFor(Size)'
          /\ ReadyFor(Size + 1) => ReadyFor(Size + 1)'
      BY <2>1, OpenedStays
    <2>3. /\ Untouched
          /\ UpdateReads /\ CallsOne /\ Progress
      BY DEF RoundInv
    <2>4. Untouched'
      BY <2>1, <2>2, <2>3 DEF Untouched, Unopened
    <2>5. UpdateReads'
      BY <2>1, <2>3 DEF UpdateReads
    <2>6. CallsOne'
      BY <2>1, <2>3 DEF CallsOne, Unopened, Answer, IsActual
    <2>7. Recording'
      <3>1. Recording /\ Size' = Size /\ OwnParam(Size + 1)' = OwnParam(Size + 1)
        BY <2>1, <2>3 DEF Progress, Size, OwnParam
      <3>2. GraphSaved(Size + 1) => GraphSaved(Size + 1)'
        BY <2>1, <3>1 DEF RoundVars, GraphSaved
      <3>3. QED
        BY <2>1, <2>2, <3>1, <3>2 DEF Recording, Unopened
    <2>8. Progress'
      BY <2>1, <2>2, <2>3, <2>7 DEF Progress
    <2>9. QED
      BY <1>1, <2>4, <2>5, <2>6, <2>8 DEF RoundInv
  <1>5. QED
    BY <1>2, <1>3, <1>4 DEF EvalNext, Done

\* However many concepts a scan values, each is valued from the graph, the
\* parameters and the size the round began with, and so is the answer's update
\* (value_fn.py's assumption update and the load of its result by path).
THEOREM ScansStartAlike == EvalSpec => []ScanFromSameState
  <1>1. EvalInit => RoundInv
    BY RoundInit
  <1>2. RoundInv /\ [EvalNext]_evalVars => RoundInv'
    BY RoundStep
  <1>3. RoundInv => ScanFromSameState
    BY RoundInvScan
  <1>4. QED
    BY <1>1, <1>2, <1>3, PTL DEF EvalSpec

\* Over any number of rounds, and whatever files the dataset has: a round begins
\* from the graph and the parameters the round before it saved for this student.
THEOREM RoundsBuild == EvalSpec => []RoundsBuildOnEachOther
  <1>1. EvalInit => RoundInv
    BY RoundInit
  <1>2. RoundInv /\ [EvalNext]_evalVars => RoundInv'
    BY RoundStep
  <1>3. RoundInv => RoundsBuildOnEachOther
    BY RoundInvBuild
  <1>4. QED
    BY <1>1, <1>2, <1>3, PTL DEF EvalSpec

---------------------------------------------------------------------------
(* The evidence of an exam.                                                *)
(*                                                                         *)
(* EvidenceComplete compares a student's final exam with the history the   *)
(* updates made.  The invariant follows both through every round: which    *)
(* records the history holds, and that the graph in memory and the one in  *)
(* the file show them, windowed on the paths that were answered, as EM     *)
(* gave them elsewhere.                                                    *)

\* the concepts answered in h, and those an update for one of them recomputes
AnsweredIn(h) == {h[i].kc : i \in burn_in_size + 1 .. Len(h)}
Reached(h) == UNION {PathToRoot[j] : j \in AnsweredIn(h)}

Shows(g, s, h) ==
  \A k \in KCs :
    g.ev[k] = IF k \in Reached(h) THEN InWindow(ForKC(h, k))
              ELSE ForKC(BaseHistory(s, burn_in_size), k)

\* The latest records of a list are as many as are wanted: a record's place
\* from the end is one to one.
LEMMA WindowIsLatest ==
  ASSUME NEW L \in Evidence, IsFiniteSet(L), \A q, r \in L : q.at = r.at => q = r
  PROVE  LatestOf(InWindow(L), L)
  <1> DEFINE Newer(r) == {q \in L : q.at > r.at}
             Rank(r) == Cardinality(Newer(r))
             N == Cardinality(L)
             w == InWindow(L)
  <1>1. /\ \A r \in L : r.at \in Nat
        /\ N \in Nat /\ WINDOW_SIZE \in Nat
    BY FS_CardinalityType, UpdateAssumption DEF Evidence
  <1>2. \A r \in L : IsFiniteSet(Newer(r)) /\ Rank(r) \in Nat /\ Rank(r) < N
    <2> TAKE r \in L
    <2>1. Newer(r) \in SUBSET L /\ r \notin Newer(r)
      BY <1>1
    <2>2. IsFiniteSet(Newer(r)) /\ Rank(r) <= N /\ (N = Rank(r) => L = Newer(r))
      BY <2>1, FS_Subset
    <2>3. Rank(r) \in Nat
      BY <2>2, FS_CardinalityType
    <2> HIDE DEF Newer, Rank, N
    <2>4. QED
      BY <1>1, <2>1, <2>2, <2>3
  <1>3. \A q, r \in L : r.at < q.at => Rank(q) < Rank(r)
    <2> SUFFICES ASSUME NEW q \in L, NEW r \in L, r.at < q.at PROVE Rank(q) < Rank(r)
      OBVIOUS
    <2>1. Newer(q) \in SUBSET Newer(r) /\ q \in Newer(r) /\ q \notin Newer(q)
      BY <1>1
    <2>2. Rank(q) <= Rank(r) /\ (Rank(r) = Rank(q) => Newer(r) = Newer(q))
      BY <1>2, <2>1, FS_Subset
    <2> HIDE DEF Newer, Rank
    <2>3. QED
      BY <1>2, <2>1, <2>2
  <1>4. w = {r \in L : WINDOW_SIZE = 0 \/ Rank(r) < WINDOW_SIZE}
    BY DEF InWindow
  <1>5. \A r \in L \ w, q \in w : r.at < q.at
    <2> SUFFICES ASSUME NEW r \in L \ w, NEW q \in w, ~(r.at < q.at) PROVE FALSE
      OBVIOUS
    <2>1. q \in L /\ r \in L /\ WINDOW_SIZE # 0 /\ Rank(q) < WINDOW_SIZE /\ ~(Rank(r) < WINDOW_SIZE)
      BY <1>4
    <2> HIDE DEF Rank, w
    <2>2. q.at <= r.at
      BY <1>1, <2>1
    <2>3. q # r
      BY <2>1
    <2>4. q.at # r.at
      BY <2>1, <2>3
    <2>5. q.at < r.at
      BY <1>1, <2>1, <2>2, <2>4
    <2>6. Rank(r) < Rank(q) /\ Rank(r) \in Nat /\ Rank(q) \in Nat
      BY <1>2, <1>3, <2>1, <2>5
    <2>7. QED
      BY <1>1, <2>1, <2>6
  <1>6. ASSUME WINDOW_SIZE > 0 PROVE Cardinality(w) = Lesser(WINDOW_SIZE, N)
    <2> DEFINE f == [r \in L |-> Rank(r)]
               g == [r \in w |-> Rank(r)]
               m == Lesser(WINDOW_SIZE, N)
    <2> HIDE DEF Newer, Rank, N, w
    <2>1. f \in Injection(L, 0 .. N - 1)
      <3>1. f \in [L -> 0 .. N - 1]
        BY <1>1, <1>2
      <3>2. \A q, r \in L : f[q] = f[r] => q = r
        BY <1>1, <1>2, <1>3
      <3>3. QED
        BY <3>1, <3>2, Fun_IsInj
    <2>2. IsFiniteSet(0 .. N - 1) /\ Cardinality(0 .. N - 1) = N
      BY <1>1, FS_Interval
    <2>3. f \in Surjection(L, 0 .. N - 1)
      BY <2>1, <2>2, FS_Injection DEF N
    <2>4. m \in Nat /\ m <= N /\ m <= WINDOW_SIZE /\ (m = N \/ m = WINDOW_SIZE)
      BY <1>1 DEF Lesser
    <2>5. g \in Injection(w, 0 .. m - 1)
      <3>1. \A r \in w : r \in L /\ Rank(r) \in 0 .. m - 1
        BY <1>1, <1>2, <1>4, <1>6, <2>4
      <3>2. g \in [w -> 0 .. m - 1]
        BY <3>1
      <3>3. \A q, r \in w : g[q] = g[r] => q = r
        BY <1>1, <1>2, <1>3, <3>1
      <3>4. QED
        BY <3>2, <3>3, Fun_IsInj
    <2>6. \A n \in 0 .. m - 1 : \E r \in w : g[r] = n
      <3> SUFFICES ASSUME NEW n \in 0 .. m - 1 PROVE \E r \in w : g[r] = n
        OBVIOUS
      <3>1. n \in 0 .. N - 1 /\ n < WINDOW_SIZE
        BY <1>1, <2>4
      <3>2. PICK r \in L : f[r] = n
        BY <2>3, <3>1 DEF Surjection
      <3>3. r \in w
        BY <1>4, <3>1, <3>2
      <3>4. QED
        BY <3>2, <3>3
    <2>7. g \in Bijection(w, 0 .. m - 1)
      <3>1. g \in [w -> 0 .. m - 1]
        BY <2>5 DEF Injection
      <3>2. g \in Surjection(w, 0 .. m - 1)
        BY <2>6, <3>1, Fun_IsSurj
      <3>3. QED
        BY <2>5, <3>2 DEF Bijection
    <2>8. w \in SUBSET L
      BY <1>4
    <2>9. IsFiniteSet(w)
      BY <2>8, FS_Subset
    <2>10. ExistsBijection(w, 0 .. m - 1)
      BY <2>7 DEF ExistsBijection
    <2>11. Cardinality(0 .. m - 1) = Cardinality(w)
      BY <2>9, <2>10, FS_Bijection
    <2>12. Cardinality(0 .. m - 1) = m
      BY <2>4, FS_Interval
    <2>13. QED
      BY <2>11, <2>12
  <1>7. w \subseteq L /\ (WINDOW_SIZE = 0 => w = L)
    BY <1>4
  <1> HIDE DEF w
  <1>8. QED
    BY <1>5, <1>6, <1>7 DEF LatestOf, w

\* The records of one concept stand at different places of the history.
LEMMA ForKCIsList ==
  ASSUME NEW h \in Seq(Rec), NEW k \in KCs
  PROVE  /\ ForKC(h, k) \in Evidence /\ IsFiniteSet(ForKC(h, k))
         /\ \A q, r \in ForKC(h, k) : q.at = r.at => q = r
  <1>1. \A r \in ForKC(h, k) : /\ r.at \in 1 .. Len(h)
                               /\ r = [at |-> r.at, src |-> h[r.at].src]
    BY DEF ForKC
  <1>2. \A i \in 1 .. Len(h) : h[i].src \in {"dataset", "practice"}
    <2> TAKE i \in 1 .. Len(h)
    <2>1. h[i] \in Rec
      OBVIOUS
    <2>2. QED
      BY <2>1 DEF Rec
  <1>3. ForKC(h, k) \in Evidence
    BY <1>1, <1>2 DEF Evidence
  <1> DEFINE f == [r \in ForKC(h, k) |-> r.at]
  <1>4. f \in Injection(ForKC(h, k), 1 .. Len(h))
    <2>1. \A q, r \in ForKC(h, k) : f[q] = f[r] => q = r
      BY <1>1
    <2>2. QED
      BY <1>1, <2>1, Fun_IsInj
  <1>5. IsFiniteSet(1 .. Len(h))
    BY FS_Interval
  <1>6. IsFiniteSet(ForKC(h, k))
    BY <1>4, <1>5, FS_Injection
  <1>7. QED
    BY <1>1, <1>3, <1>6

\* The history of a student who has not answered yet, and after n answers.
Early(s) == \E n \in 0 .. burn_in_size : history[s] = BaseHistory(s, n)
After(h, s, n) ==
  /\ h \in Seq(Rec) /\ Len(h) = burn_in_size + n
  /\ \A i \in 1 .. burn_in_size : h[i] = BaseHistory(s, burn_in_size)[i]
  /\ \A i \in burn_in_size + 1 .. burn_in_size + n : h[i].src = "practice"
HistoryAt(s, n) == IF n = 0 THEN Early(s) ELSE After(history[s], s, n)

LEMMA SizeFacts ==
  /\ burn_in_size \in Nat \ {0} /\ BURN_IN_SIZE \in Nat /\ BURN_IN_SIZE <= burn_in_size
  /\ Rounds \in Nat
  /\ \A s \in Students : Base[s] \in Seq(KCs) /\ Len(Base[s]) \in Nat /\ burn_in_size <= Len(Base[s])
  BY SizesAssumption, UpdateAssumption, EvalAssumption, RecordsAssumption

LEMMA BaseIs ==
  ASSUME NEW s \in Students, NEW n \in 0 .. burn_in_size
  PROVE  /\ BaseHistory(s, n) = [i \in 1 .. n |-> [kc |-> Base[s][i], src |-> "dataset"]]
         /\ BaseHistory(s, n) \in Seq(Rec) /\ Len(BaseHistory(s, n)) = n
  <1>1. n \in Nat /\ n <= Len(Base[s])
    BY SizeFacts
  <1>2. BaseHistory(s, n) = [i \in 1 .. n |-> [kc |-> Base[s][i], src |-> "dataset"]]
    BY <1>1 DEF BaseHistory
  <1>3. BaseHistory(s, n) \in Seq(Rec)
    BY <1>1, BaseHistoryType
  <1>4. Len(BaseHistory(s, n)) = n
    BY <1>1, <1>2
  <1>5. QED
    BY <1>2, <1>3, <1>4

LEMMA EarlyReachesNone ==
  ASSUME NEW s \in Students, NEW h, NEW n \in 0 .. burn_in_size, h = BaseHistory(s, n)
  PROVE  Reached(h) = {}
  <1>1. Len(h) \in Nat /\ Len(h) <= burn_in_size /\ burn_in_size \in Nat
    BY BaseIs, SizeFacts
  <1>2. AnsweredIn(h) = {}
    BY <1>1 DEF AnsweredIn
  <1>3. QED
    BY <1>2 DEF Reached

\* As long as there is no answer, a graph shows what EM gave it.
LEMMA EarlyShows ==
  ASSUME NEW s \in Students, NEW h, NEW n \in 0 .. burn_in_size, h = BaseHistory(s, n)
  PROVE  /\ Shows(DatasetGraph(s, burn_in_size), s, h)
         /\ \A g, o : Shows(g, s, o) /\ Reached(o) = {} => Shows(g, s, h)
  BY EarlyReachesNone DEF Shows, DatasetGraph

LEMMA BaseIsAfter ==
  ASSUME NEW s \in Students
  PROVE  After(BaseHistory(s, burn_in_size), s, 0)
  <1>1. burn_in_size \in 0 .. burn_in_size
    BY SizeFacts
  <1>2. QED
    BY <1>1, BaseIs, SizeFacts DEF After

\* What an update makes of a history before it observes: burn-in records, where
\* there were fewer than the student's size asks for.
LEMMA EnsuredIs ==
  ASSUME NEW s \in Students, NEW act, history[s] \in Seq(Rec),
         practiceSize[s] \in Nat
  PROVE  LET upTo == InitialTrainSize(s, act)
             h == EnsuredHistory(act)[s]
         IN  /\ upTo <= Len(history[s]) => h = history[s]
             /\ upTo <= burn_in_size =>
                  \A n \in 0 .. burn_in_size :
                    history[s] = BaseHistory(s, n) => h = BaseHistory(s, Greater(n, upTo))
  <1> DEFINE upTo == InitialTrainSize(s, act)
             some == Lesser(upTo, Len(Base[s]))
             h == EnsuredHistory(act)[s]
  <1>1. upTo \in Nat /\ some \in Nat /\ some <= upTo /\ Len(history[s]) \in Nat
    BY SizeFacts DEF InitialTrainSize, Lesser
  <1>2. h = [i \in 1 .. Greater(Len(history[s]), some) |->
               IF i <= Len(history[s]) THEN history[s][i]
               ELSE [kc |-> Base[s][i], src |-> "dataset"]]
    BY DEF EnsuredHistory
  <1> HIDE DEF h
  <1>3. ASSUME upTo <= Len(history[s]) PROVE h = history[s]
    <2>1. Greater(Len(history[s]), some) = Len(history[s])
      BY <1>1, <1>3 DEF Greater
    <2>2. h = [i \in 1 .. Len(history[s]) |-> history[s][i]]
      BY <1>1, <1>2, <2>1
    <2>3. QED
      BY <2>2
  <1>4. ASSUME upTo <= burn_in_size, NEW n \in 0 .. burn_in_size, history[s] = BaseHistory(s, n)
        PROVE  h = BaseHistory(s, Greater(n, upTo))
    <2>1. some = upTo
      BY <1>1, <1>4, SizeFacts DEF Lesser
    <2>2. /\ history[s] = [i \in 1 .. n |-> [kc |-> Base[s][i], src |-> "dataset"]]
          /\ Len(history[s]) = n
      BY <1>4, BaseIs
    <2>3. Greater(n, upTo) \in 0 .. burn_in_size
      BY <1>1, <1>4 DEF Greater
    <2>4. h = [i \in 1 .. Greater(n, upTo) |-> [kc |-> Base[s][i], src |-> "dataset"]]
      BY <1>1, <1>2, <2>1, <2>2, <2>3
    <2>5. QED
      BY <2>3, <2>4, BaseIs
  <1> HIDE DEF upTo
  <1>5. QED
    BY <1>3, <1>4 DEF upTo, h

\* One more answer: its path is recomputed, and elsewhere no record is added.
LEMMA AnswerShows ==
  ASSUME NEW s \in Students, NEW n \in Nat, NEW k0 \in KCs, NEW h, After(h, s, n),
         NEW g, Shows(g, s, h), NEW lin
  PROVE  LET r == [kc |-> k0, src |-> "practice"]
         IN  /\ After(Append(h, r), s, n + 1)
             /\ Shows(Propagated(g, Append(h, r), <<r>>, lin), s, Append(h, r))
  <1> DEFINE r == [kc |-> k0, src |-> "practice"]
             h2 == Append(h, r)
             g2 == Propagated(g, h2, <<r>>, lin)
  <1>1. /\ h \in Seq(Rec) /\ Len(h) = burn_in_size + n /\ burn_in_size \in Nat
        /\ r \in Rec /\ r.kc = k0
    BY SizeFacts DEF After, Rec
  <1>2. /\ h2 \in Seq(Rec) /\ Len(h2) = burn_in_size + n + 1
        /\ h2[burn_in_size + n + 1] = r
        /\ \A i \in 1 .. burn_in_size + n : h2[i] = h[i]
    BY <1>1
  <1> HIDE DEF h2, r
  <1>3. After(h2, s, n + 1)
    <2>1. \A i \in 1 .. burn_in_size : h2[i] = BaseHistory(s, burn_in_size)[i]
      BY <1>1, <1>2 DEF After
    <2>2. \A i \in burn_in_size + 1 .. burn_in_size + (n + 1) : h2[i].src = "practice"
      <3> TAKE i \in burn_in_size + 1 .. burn_in_size + (n + 1)
      <3>1. CASE i = burn_in_size + n + 1
        BY <1>2, <3>1 DEF r
      <3>2. CASE i # burn_in_size + n + 1
        <4>1. i \in burn_in_size + 1 .. burn_in_size + n /\ i \in 1 .. burn_in_size + n
          BY <1>1, <3>2
        <4>2. QED
          BY <1>2, <4>1 DEF After
      <3>3. QED
        BY <3>1, <3>2
    <2>3. QED
      BY <1>1, <1>2, <2>1, <2>2 DEF After
  <1>4. AnsweredIn(h2) = AnsweredIn(h) \cup {k0}
    <2>1. burn_in_size + 1 .. Len(h2) = (burn_in_size + 1 .. Len(h)) \cup {burn_in_size + n + 1}
      BY <1>1, <1>2
    <2>2. \A i \in burn_in_size + 1 .. Len(h) : h2[i] = h[i]
      BY <1>1, <1>2
    <2>3. QED
      BY <1>1, <1>2, <2>1, <2>2 DEF AnsweredIn
  <1>5. Reached(h2) = Reached(h) \cup PathToRoot[k0] /\ k0 \in PathToRoot[k0]
    BY <1>4, UpdateAssumption DEF Reached
  <1>6. g2.ev = [k \in KCs |-> IF k \in PathToRoot[k0] THEN InWindow(ForKC(h2, k)) ELSE g.ev[k]]
    <2>1. UNION {PathToRoot[<<r>>[i].kc] : i \in DOMAIN <<r>>} = PathToRoot[k0]
      BY <1>1
    <2>2. QED
      BY <2>1 DEF Propagated
  <1> HIDE DEF g2
  <1>7. ASSUME NEW k \in KCs, k # k0 PROVE ForKC(h2, k) = ForKC(h, k)
    <2>1. DOMAIN h = 1 .. burn_in_size + n /\ DOMAIN h2 = (1 .. burn_in_size + n) \cup {burn_in_size + n + 1}
      BY <1>1, <1>2
    <2>2. h2[burn_in_size + n + 1].kc # k
      BY <1>1, <1>2, <1>7
    <2>3. {j \in DOMAIN h2 : h2[j].kc = k} = {j \in DOMAIN h : h[j].kc = k}
      BY <1>2, <2>1, <2>2
    <2>4. \A i \in {j \in DOMAIN h : h[j].kc = k} : h2[i] = h[i]
      BY <1>2, <2>1
    <2>5. QED
      BY <2>3, <2>4 DEF ForKC
  <1>8. Shows(g2, s, h2)
    <2> SUFFICES ASSUME NEW k \in KCs
                 PROVE  g2.ev[k] = IF k \in Reached(h2) THEN InWindow(ForKC(h2, k))
                                   ELSE ForKC(BaseHistory(s, burn_in_size), k)
      BY DEF Shows
    <2>1. CASE k \in PathToRoot[k0]
      BY <1>5, <1>6, <2>1
    <2>2. CASE k \notin PathToRoot[k0]
      <3>1. g2.ev[k] = g.ev[k] /\ (k \in Reached(h2) <=> k \in Reached(h))
        BY <1>5, <1>6, <2>2
      <3>2. ForKC(h2, k) = ForKC(h, k)
        BY <1>5, <1>7, <2>2
      <3>3. QED
        BY <3>1, <3>2 DEF Shows
    <2>3. QED
      BY <2>1, <2>2
  <1>9. QED
    BY <1>3, <1>8 DEF g2, h2, r

Waiting(s) == stage \in {"sample", "initial"} \/ \E i \in DOMAIN queue : queue[i] = s

\* Who waits to be served has not answered yet.
QueueInv ==
  /\ \A i, j \in DOMAIN queue : queue[i] = queue[j] => i = j
  /\ stage \in {"sample", "initial"} => step \in {"size", "load", "pick", "exam"}
  /\ stage = "practice" /\ step # "pick" => ~Waiting(cur)
  /\ \A s \in Students : Waiting(s) => Early(s)

InRound == step \in {"round", "scan", "value", "valued", "ask"}

SittingInv ==
  stage = "practice" /\ (step \in {"size", "load"} \/ InRound) => HistoryAt(cur, round)

\* The graph in memory and the one a load would find show the answers so far;
\* while an update computes they do not.
ShowsNow(g) == Shows(g, cur, history[cur])
Computing == step = "answered" /\ call.phase \in {"observe", "estimate", "save"}
ShownInv ==
  InRound \/ (step = "answered" /\ ~Computing) =>
    ShowsNow(cache[cur]) /\ ShowsNow(StoredGraph(cur, practiceSize[cur]))

\* How far the round's answer has come in the history and the graph.
Given == [kc |-> pick, src |-> "practice"]
Observing ==
  /\ call.hist = history[cur]
  /\ \/ /\ call.obs = <<pick>> /\ call.fresh = <<>>
        /\ After(history[cur], cur, round) /\ ShowsNow(call.graph)
     \/ /\ call.obs = <<>> /\ call.fresh = <<Given>>
        /\ \E h \in Seq(Rec) : /\ history[cur] = Append(h, Given)
                               /\ After(h, cur, round) /\ Shows(call.graph, cur, h)
AnsweringInv ==
  step = "answered" =>
    /\ call.phase = "resolve" => HistoryAt(cur, round)
    /\ call.phase = "next" /\ Unopened => After(history[cur], cur, round)
    /\ call.phase = "observe" => Observing
    /\ ~Unopened /\ call.phase # "observe" => After(history[cur], cur, round + 1)
    /\ call.phase \in {"estimate", "save"} => ShowsNow(call.graph) /\ ShowsNow(cache[cur])

\* The exams given stay complete whatever is done for the students after.
ExamsInv ==
  \A s \in Students : exams[s] # None =>
    /\ ~Waiting(s) /\ (s = cur => step \in {"pick", "done"})
    /\ exams[s].size = burn_in_size + Rounds
    /\ HistoryAt(s, Rounds) /\ Shows(exams[s].graph, s, history[s])

AnswersInv == QueueInv /\ SittingInv /\ ShownInv /\ AnsweringInv /\ ExamsInv
CompleteInv == RoundInv /\ AnswersInv

LEMMA CompleteInit == EvalInit => CompleteInv
  <1> SUFFICES ASSUME EvalInit PROVE CompleteInv
    OBVIOUS
  <1>1. /\ stage = "sample" /\ step = "size" /\ queue = Order /\ exams = [s \in Students |-> None]
        /\ history = NoRecords
    BY DEF EvalInit, UpdateInit
  <1>2. \A s \in Students : Early(s)
    <2> TAKE s \in Students
    <2>1. 0 \in 0 .. burn_in_size
      BY SizeFacts
    <2>2. BaseHistory(s, 0) = [i \in 1 .. 0 |-> [kc |-> Base[s][i], src |-> "dataset"]]
      BY <2>1, BaseIs
    <2>3. BaseHistory(s, 0) = << >>
      BY <2>2
    <2>4. QED
      BY <1>1, <2>1, <2>3 DEF Early, NoRecords
  <1>3. QueueInv
    BY <1>1, <1>2, EvalAssumption DEF QueueInv
  <1>4. SittingInv /\ ShownInv /\ AnsweringInv /\ ExamsInv
    BY <1>1 DEF SittingInv, ShownInv, AnsweringInv, ExamsInv, InRound
  <1>5. QED
    BY <1>3, <1>4, RoundInit DEF CompleteInv, AnswersInv

LEMMA CompleteFacts ==
  ASSUME CompleteInv
  PROVE  /\ RoundInv /\ QueueInv /\ SittingInv /\ ShownInv /\ AnsweringInv /\ ExamsInv
         /\ EvalTypes /\ LoopTypeOK
         /\ cur \in Students /\ round \in Nat /\ call \in CallRec
         /\ history \in [Students -> Seq(Rec)] /\ practiceSize \in [Students -> Nat]
         /\ cache \in [Students -> Graph \cup {None}]
         /\ (step \notin {"valued", "answered"} => call.phase = "idle")
         /\ (InRound \/ step = "answered" => stage = "practice" /\ ~Waiting(cur))
  <1>1. /\ RoundInv /\ QueueInv /\ SittingInv /\ ShownInv /\ AnsweringInv /\ ExamsInv
        /\ EvalTypes /\ cur \in Students /\ round \in Nat /\ call \in CallRec /\ CallsOwn
    BY RoundFacts DEF CompleteInv, AnswersInv
  <1>2. LoopTypeOK /\ TypeOK
    BY <1>1 DEF EvalTypes
  <1>3. /\ history \in [Students -> Seq(Rec)] /\ practiceSize \in [Students -> Nat]
        /\ cache \in [Students -> Graph \cup {None}]
    BY <1>2 DEF TypeOK, RTTypeOK, KUTypeOK
  <1>4. ASSUME InRound \/ step = "answered" PROVE stage = "practice" /\ ~Waiting(cur)
    <2>1. stage \in {"sample", "initial", "practice", "done"} /\ (stage = "done" => step = "done")
      BY <1>2 DEF LoopTypeOK
    <2>2. stage = "practice" /\ step # "pick"
      BY <1>1, <1>4, <2>1 DEF QueueInv, InRound
    <2>3. QED
      BY <1>1, <2>2 DEF QueueInv
  <1>5. QED
    BY <1>1, <1>2, <1>3, <1>4 DEF CallsOwn

LEMMA HistoryStays ==
  ASSUME UNCHANGED history
  PROVE  \A s : /\ Early(s) => Early(s)'
                /\ \A n : HistoryAt(s, n) => HistoryAt(s, n)'
  <1>1. \A s : Early(s) => Early(s)'
    BY DEF Early
  <1>2. QED
    BY <1>1 DEF HistoryAt

\* Steps between two students.
LEMMA OutsideAnswers ==
  ASSUME CompleteInv,
         \/ PickStudent \/ ChooseBurnIn \/ LoadBurnIn \/ InitialExam \/ InitialsDone \/ Finish
  PROVE  AnswersInv'
  <1>1. /\ history' = history /\ exams' = exams /\ step \notin {"valued", "answered"}
        /\ step' \notin {"scan", "value", "valued", "ask", "answered"}
    BY CompleteFacts DEF PickStudent, ChooseBurnIn, LoadBurnIn, InitialExam, InitialsDone, Finish,
       PredictOnNewQuestion, vars, kuVars, LoopTypeOK
  <1>2. AnsweringInv'
    BY <1>1 DEF AnsweringInv
  <1>3. \A s : Early(s) => Early(s)'
    BY <1>1, HistoryStays
  <1>4. \A s, n : HistoryAt(s, n) => HistoryAt(s, n)'
    BY <1>1, HistoryStays
  <1>5. ASSUME \A s \in Students : Waiting(s)' => Waiting(s),
               \A s \in Students : exams[s] # None /\ s = cur' => step' \in {"pick", "done"}
        PROVE  ExamsInv' /\ \A s \in Students : Waiting(s)' => Early(s)'
    BY <1>1, <1>3, <1>4, <1>5, CompleteFacts DEF ExamsInv, QueueInv
  <1>6. CASE PickStudent
    <2> DEFINE c == Head(queue)
    <2>1. /\ stage' = stage /\ step' = "size" /\ step = "pick" /\ cur' = c /\ queue' = Tail(queue)
          /\ round' = 0 /\ queue # << >> /\ queue \in Seq(Students)
      BY <1>6, CompleteFacts DEF PickStudent, LoopTypeOK
    <2>2. /\ DOMAIN queue = 1 .. Len(queue) /\ 1 \in DOMAIN queue /\ queue[1] = c
          /\ DOMAIN queue' = 1 .. Len(queue) - 1
          /\ \A i \in DOMAIN queue' : i + 1 \in DOMAIN queue /\ queue'[i] = queue[i + 1]
          /\ c \in Students
      BY <2>1
    <2> HIDE DEF c
    <2>3. \A s \in Students : Waiting(s)' => Waiting(s)
      BY <2>1, <2>2 DEF Waiting
    <2>4. Waiting(c) /\ \E n \in 0 .. burn_in_size : history[c] = BaseHistory(c, n)
      BY <2>2, CompleteFacts DEF Waiting, QueueInv, Early
    <2>5. exams[c] = None
      BY <2>2, <2>4, CompleteFacts DEF ExamsInv
    <2>6. \A i, j \in DOMAIN queue' : queue'[i] = queue'[j] => i = j
      <3> TAKE i, j \in DOMAIN queue'
      <3>1. queue[i + 1] = queue[j + 1] => i + 1 = j + 1
        BY <2>2, CompleteFacts DEF QueueInv
      <3>2. QED
        BY <2>2, <3>1
    <2>7. \A i \in DOMAIN queue' : queue'[i] # c
      <3> TAKE i \in DOMAIN queue'
      <3>1. i + 1 # 1 /\ queue[i + 1] = queue'[i]
        BY <2>2
      <3>2. QED
        BY <2>2, <3>1, CompleteFacts DEF QueueInv
    <2>8. stage' = "practice" => ~Waiting(cur)'
      BY <2>1, <2>7 DEF Waiting
    <2>9. QueueInv' /\ ExamsInv'
      BY <1>5, <2>1, <2>3, <2>5, <2>6, <2>8 DEF QueueInv
    <2>10. HistoryAt(cur, round)'
      BY <1>1, <2>1, <2>4 DEF HistoryAt, Early
    <2>11. QED
      BY <1>2, <2>1, <2>9, <2>10 DEF AnswersInv, SittingInv, ShownInv, InRound
  <1>7. CASE ChooseBurnIn
    <2>1. /\ UNCHANGED <<stage, queue, cur, round>> /\ step = "size" /\ step' = "load"
      BY <1>7 DEF ChooseBurnIn
    <2>2. \A s \in Students : Waiting(s)' <=> Waiting(s)
      BY <2>1 DEF Waiting
    <2>3. \A s \in Students : exams[s] # None => s # cur'
      BY <2>1, CompleteFacts DEF ExamsInv
    <2>4. QueueInv' /\ ExamsInv'
      BY <1>5, <2>1, <2>2, <2>3, CompleteFacts DEF QueueInv
    <2>5. SittingInv'
      BY <1>4, <2>1, CompleteFacts DEF SittingInv, InRound, HistoryAt, Early
    <2>6. QED
      BY <1>2, <2>1, <2>4, <2>5 DEF AnswersInv, ShownInv, InRound
  <1>8. CASE LoadBurnIn
    <2>1. /\ UNCHANGED <<queue, cur, round>> /\ step = "load" /\ round = 0
          /\ stage \in {"sample", "initial", "practice"}
      BY <1>8, CompleteFacts DEF LoadBurnIn, RoundInv, Progress, LoopTypeOK
    <2>2. /\ stage = "sample" => stage' \in {"practice", "initial"} /\ step' = "pick"
          /\ stage = "initial" => stage' = "initial" /\ step' = "exam"
          /\ stage = "practice" => stage' = "practice" /\ step' = "round"
      BY <1>8 DEF LoadBurnIn
    <2>3. \A s \in Students : Waiting(s)' => Waiting(s)
      BY <2>1, <2>2 DEF Waiting
    <2>4. \A s \in Students : exams[s] # None => s # cur'
      BY <2>1, CompleteFacts DEF ExamsInv
    <2>5. stage = "practice" => ~Waiting(cur)'
      BY <2>1, <2>2, CompleteFacts DEF QueueInv, Waiting
    <2>6. QueueInv' /\ ExamsInv'
      BY <1>5, <2>1, <2>2, <2>3, <2>4, <2>5, CompleteFacts DEF QueueInv
    <2>7. CASE stage # "practice"
      BY <1>2, <2>1, <2>2, <2>6, <2>7 DEF AnswersInv, SittingInv, ShownInv, InRound
    <2>8. CASE stage = "practice"
      <3>1. HistoryAt(cur, round)
        BY <2>1, <2>8, CompleteFacts DEF SittingInv
      <3>2. HistoryAt(cur, round)'
        BY <1>1, <2>1, <3>1 DEF HistoryAt, Early
      <3>3. PICK n \in 0 .. burn_in_size : history[cur] = BaseHistory(cur, n)
        BY <2>1, <3>1 DEF HistoryAt, Early
      <3>4. Shows(DatasetGraph(cur, burn_in_size), cur, history[cur])
        BY <3>3, EarlyShows, CompleteFacts
      <3>5. LoadStudentGraph(cur, burn_in_size, TRUE) /\ actualGraph = NoFiles
        BY <1>8, <2>1, CompleteFacts DEF LoadBurnIn, RoundInv, LeakInv, FreshStart
      <3>6. /\ cache' = [cache EXCEPT ![cur] = StoredGraph(cur, burn_in_size)]
            /\ practiceSize' = [practiceSize EXCEPT ![cur] = burn_in_size]
            /\ actualGraph' = NoFiles
        BY <3>5 DEF LoadStudentGraph
      <3>7. StoredGraph(cur, burn_in_size) = DatasetGraph(cur, burn_in_size)
        BY <3>5 DEF StoredGraph, NoFiles
      <3>8. /\ cache'[cur] = DatasetGraph(cur, burn_in_size) /\ practiceSize'[cur] = burn_in_size
        BY <3>6, <3>7, CompleteFacts
      <3>9. StoredGraph(cur, practiceSize[cur])' = DatasetGraph(cur, burn_in_size)
        BY <2>1, <3>6, <3>8 DEF StoredGraph, NoFiles
      <3>10. ShownInv'
        BY <1>1, <2>1, <3>4, <3>8, <3>9 DEF ShownInv, ShowsNow
      <3>11. QED
        BY <1>2, <2>6, <3>2, <3>10 DEF AnswersInv, SittingInv
    <2>9. QED
      BY <2>7, <2>8
  <1>9. CASE InitialExam \/ InitialsDone \/ Finish
    <2>1. /\ cur' = cur /\ step' \in {"pick", "done"}
          /\ step' = "done" => stage' = "done"
          /\ stage = "initial" \/ (stage' = "done" /\ queue = << >>)
          /\ \/ queue' = queue
             \/ queue' = Order /\ stage = "initial"
          /\ stage' \in {"initial", "practice", "done"}
      BY <1>9 DEF InitialExam, InitialsDone, Finish
    <2>2. \A s \in Students : Waiting(s)' => Waiting(s)
      BY <2>1 DEF Waiting
    <2>3. \A i, j \in DOMAIN queue' : queue'[i] = queue'[j] => i = j
      BY <2>1, EvalAssumption, CompleteFacts DEF QueueInv
    <2>4. QueueInv' /\ ExamsInv'
      BY <1>5, <2>1, <2>2, <2>3 DEF QueueInv
    <2>5. QED
      BY <1>2, <2>1, <2>4 DEF AnswersInv, SittingInv, ShownInv, InRound
  <1>10. QED
    BY <1>6, <1>7, <1>8, <1>9

\* Steps of a round that only read.
LEMMA RoundsKeepAnswers ==
  ASSUME CompleteInv,
         \/ StartRound \/ LoadAssumption \/ AssumeCorrect \/ RecordAnswer \/ EndRound
         \/ \E k \in Candidates : PredictValue(k) \/ Ask(k)
  PROVE  AnswersInv'
  <1>1. /\ UNCHANGED <<history, exams, stage, queue, cur>>
        /\ step \in {"round", "scan", "value", "valued", "ask", "answered"}
        /\ step' \in {"round", "scan", "value", "valued", "ask", "answered"}
        /\ step' = "answered" <=> step = "ask" /\ RecordAnswer
        /\ step = "answered" <=> EndRound
        /\ ~EndRound => round' = round
    BY DEF StartRound, Refresh, LoadAssumption, AssumeCorrect, RecordAnswer, EndRound,
       PredictValue, Ask, PredictOnNewQuestion, Begin, vars, kuVars
  <1>2. stage = "practice" /\ ~Waiting(cur) /\ (\A s : Waiting(s)' <=> Waiting(s))
    BY <1>1, CompleteFacts DEF InRound, Waiting
  <1>3. QueueInv' /\ ExamsInv'
    <2>1. \A s \in Students : exams[s] # None => s # cur
      BY <1>1, CompleteFacts DEF ExamsInv
    <2>2. \A s \in Students : Early(s) => Early(s)'
      BY <1>1, HistoryStays
    <2>3. \A s \in Students : HistoryAt(s, Rounds) => HistoryAt(s, Rounds)'
      BY <1>1, HistoryStays
    <2>4. QueueInv'
      BY <1>1, <1>2, <2>2, CompleteFacts DEF QueueInv, Waiting
    <2>5. ExamsInv'
      BY <1>1, <1>2, <2>1, <2>3, CompleteFacts DEF ExamsInv
    <2>6. QED
      BY <2>4, <2>5
  <1>4. /\ EndRound => After(history[cur], cur, round + 1)
        /\ ~EndRound => HistoryAt(cur, round)
    <2>1. ASSUME EndRound PROVE After(history[cur], cur, round + 1)
      BY <2>1, CompleteFacts DEF EndRound, AnsweringInv, Unopened
    <2>2. ASSUME ~EndRound PROVE HistoryAt(cur, round)
      BY <1>1, <1>2, <2>2, CompleteFacts DEF SittingInv, InRound
    <2>3. QED
      BY <2>1, <2>2
  <1>5. HistoryAt(cur, round)'
    <2>1. CASE EndRound
      <3>1. round' = round + 1 /\ round + 1 # 0
        BY <2>1, CompleteFacts DEF EndRound
      <3>2. QED
        BY <1>1, <1>4, <2>1, <3>1 DEF HistoryAt
    <2>2. CASE ~EndRound
      BY <1>1, <1>4, <2>2 DEF HistoryAt, Early
    <2>3. QED
      BY <2>1, <2>2
  <1>6. ShowsNow(cache[cur]) /\ ShowsNow(StoredGraph(cur, practiceSize[cur]))
    BY <1>1, CompleteFacts DEF ShownInv, InRound, Computing, EndRound
  <1>7. /\ cache'[cur] \in {cache[cur], StoredGraph(cur, practiceSize[cur])}
        /\ practiceSize'[cur] = practiceSize[cur] /\ actualGraph' = actualGraph
    <2>1. CASE StartRound \/ \E k \in Candidates : PredictValue(k) \/ Ask(k)
      <3>1. \E refresh \in BOOLEAN : LoadStudentGraph(cur, practiceSize[cur], refresh)
        BY <2>1 DEF StartRound, Refresh, PredictValue, Ask, PredictOnNewQuestion
      <3>2. QED
        BY <3>1, CompleteFacts DEF LoadStudentGraph
    <2>2. CASE LoadAssumption \/ AssumeCorrect \/ RecordAnswer \/ EndRound
      BY <2>2 DEF LoadAssumption, LoadByPath, AssumeCorrect, RecordAnswer, Begin, EndRound,
         vars, rtVars
    <2>3. QED
      BY <2>1, <2>2
  <1>8. StoredGraph(cur, practiceSize[cur])' = StoredGraph(cur, practiceSize[cur])
    BY <1>1, <1>7 DEF StoredGraph
  <1>9. ShownInv'
    BY <1>1, <1>6, <1>7, <1>8 DEF ShownInv, ShowsNow
  <1>10. AnsweringInv'
    <2>1. CASE step' # "answered"
      BY <2>1 DEF AnsweringInv
    <2>2. CASE RecordAnswer
      BY <1>5, <2>2 DEF RecordAnswer, Begin, AnsweringInv, NoCall, Unopened
    <2>3. QED
      BY <1>1, <2>1, <2>2
  <1>11. SittingInv'
    BY <1>5 DEF SittingInv
  <1>12. QED
    BY <1>3, <1>9, <1>10, <1>11 DEF AnswersInv

LEMMA ExamKeepsAnswers ==
  ASSUME CompleteInv, FinalExam PROVE AnswersInv'
  <1>1. /\ UNCHANGED <<history, stage, queue, cur, round>> /\ step = "round" /\ step' = "pick"
        /\ round = Rounds /\ exams' = [exams EXCEPT ![cur] = Snapshot]
    BY DEF FinalExam, PredictOnNewQuestion, kuVars
  <1>2. stage = "practice" /\ ~Waiting(cur) /\ (\A s : Waiting(s)' <=> Waiting(s))
    BY <1>1, CompleteFacts DEF InRound, Waiting
  <1>3. /\ \A s \in Students : Early(s) => Early(s)'
        /\ \A s \in Students : HistoryAt(s, Rounds) => HistoryAt(s, Rounds)'
    BY <1>1, HistoryStays
  <1>4. QueueInv'
    BY <1>1, <1>2, <1>3, CompleteFacts DEF QueueInv, Waiting
  <1>5. /\ HistoryAt(cur, Rounds) /\ Shows(cache[cur], cur, history[cur])
        /\ practiceSize[cur] = burn_in_size + Rounds
    <2>1. ReadyFor(Size)
      BY <1>1, CompleteFacts DEF RoundInv, Progress
    <2>2. practiceSize[cur] = burn_in_size + Rounds
      BY <1>1, <2>1 DEF ReadyFor, GraphSaved, Size
    <2>3. QED
      BY <1>1, <1>2, <2>2, CompleteFacts DEF SittingInv, ShownInv, ShowsNow, InRound
  <1>6. ExamsInv'
    <2> SUFFICES ASSUME NEW s \in Students, exams'[s] # None
                 PROVE  /\ ~Waiting(s)' /\ (s = cur' => step' \in {"pick", "done"})
                        /\ exams'[s].size = burn_in_size + Rounds
                        /\ HistoryAt(s, Rounds)' /\ Shows(exams'[s].graph, s, history'[s])
      BY DEF ExamsInv
    <2>1. CASE s = cur
      <3>1. exams'[s] = Snapshot
        BY <1>1, <2>1, CompleteFacts DEF LoopTypeOK
      <3>2. QED
        BY <1>1, <1>2, <1>3, <1>5, <2>1, <3>1 DEF Snapshot
    <2>2. CASE s # cur
      <3>1. exams'[s] = exams[s]
        BY <1>1, <2>2, CompleteFacts DEF LoopTypeOK
      <3>2. QED
        BY <1>1, <1>2, <1>3, <2>2, <3>1, CompleteFacts DEF ExamsInv
    <2>3. QED
      BY <2>1, <2>2
  <1>7. QED
    BY <1>1, <1>4, <1>6 DEF AnswersInv, SittingInv, ShownInv, AnsweringInv, InRound

\* What a step of an update owes the students it is not for.
LEMMA OthersKeep ==
  ASSUME CompleteInv, UNCHANGED loopVars, step \in {"valued", "answered"},
         \A s \in Students \ {cur} :
           /\ Early(s) => Early(s)'
           /\ HistoryAt(s, Rounds) => HistoryAt(s, Rounds)'
           /\ \A g : HistoryAt(s, Rounds) /\ Shows(g, s, history[s]) => Shows(g, s, history'[s])
  PROVE  QueueInv' /\ ExamsInv'
  <1>1. /\ UNCHANGED <<stage, step, queue, cur, exams>> /\ stage = "practice" /\ ~Waiting(cur)
        /\ \A s : Waiting(s)' <=> Waiting(s)
    BY CompleteFacts DEF loopVars, InRound, Waiting
  <1>2. QueueInv'
    BY <1>1, CompleteFacts DEF QueueInv
  <1>3. ExamsInv'
    BY <1>1, CompleteFacts DEF ExamsInv
  <1>4. QED
    BY <1>2, <1>3

LEMMA OthersStay ==
  ASSUME CompleteInv, UNCHANGED loopVars, step \in {"valued", "answered"},
         UNCHANGED history \/ \E h : history' = [history EXCEPT ![cur] = h]
  PROVE  QueueInv' /\ ExamsInv'
  <1>1. \A s \in Students \ {cur} : history'[s] = history[s]
    BY CompleteFacts
  <1>2. \A s \in Students \ {cur} : /\ Early(s) => Early(s)'
                                    /\ HistoryAt(s, Rounds) => HistoryAt(s, Rounds)'
    BY <1>1 DEF Early, HistoryAt
  <1>3. QED
    BY <1>1, <1>2, OthersKeep

\* An update completes the burn-in records of the histories and adds no answer.
LEMMA ResolveKeepsAnswers ==
  ASSUME CompleteInv, ResolveStudents, UNCHANGED loopVars, step \in {"valued", "answered"}
  PROVE  /\ QueueInv' /\ ExamsInv'
         /\ HistoryAt(cur, round)' /\ After(history'[cur], cur, round)
         /\ \A g : ShowsNow(g) => Shows(g, cur, history'[cur])
         /\ round # 0 => history'[cur] = history[cur]
  <1>1. call.phase = "resolve" /\ call.todo = Answer /\ Unopened
    BY CompleteFacts DEF ResolveStudents, RoundInv, CallsOne, Unopened
  <1>2. CallStudents = {cur}
    BY <1>1 DEF CallStudents, Answer
  <1>3. history' = EnsuredHistory({cur}) /\ cur' = cur /\ round' = round
    BY <1>2 DEF ResolveStudents, loopVars
  <1>4. /\ HistoryAt(cur, round) /\ practiceSize[cur] = burn_in_size + round
    <2>1. ReadyFor(Size)
      BY <1>1, CompleteFacts DEF RoundInv, Progress, Recording
    <2>2. practiceSize[cur] = burn_in_size + round
      BY <2>1 DEF ReadyFor, GraphSaved, Size
    <2>3. HistoryAt(cur, round)
      BY <1>1, CompleteFacts DEF SittingInv, AnsweringInv, InRound
    <2>4. QED
      BY <2>2, <2>3
  <1>5. /\ InitialTrainSize(cur, {cur}) = burn_in_size + round
        /\ \A s \in Students \ {cur} : InitialTrainSize(s, {cur}) = BURN_IN_SIZE
    BY <1>4 DEF InitialTrainSize
  <1>6. ASSUME NEW s \in Students, NEW upTo \in Nat, upTo = InitialTrainSize(s, {cur})
        PROVE  /\ upTo <= Len(history[s]) => history'[s] = history[s]
               /\ upTo <= burn_in_size =>
                    \A n \in 0 .. burn_in_size :
                      history[s] = BaseHistory(s, n) =>
                        history'[s] = BaseHistory(s, Greater(n, upTo))
    BY <1>3, <1>6, EnsuredIs, CompleteFacts
  <1>7. ASSUME NEW s \in Students, NEW upTo \in 0 .. burn_in_size,
               upTo = InitialTrainSize(s, {cur}), NEW n \in 0 .. burn_in_size,
               history[s] = BaseHistory(s, n)
        PROVE  /\ history'[s] = BaseHistory(s, Greater(n, upTo)) /\ Early(s)'
               /\ \A g : Shows(g, s, history[s]) => Shows(g, s, history'[s])
    <2>0. upTo \in Nat /\ upTo <= burn_in_size /\ Greater(n, upTo) \in 0 .. burn_in_size
      BY SizeFacts DEF Greater
    <2>1. history'[s] = BaseHistory(s, Greater(n, upTo)) /\ Greater(n, upTo) \in 0 .. burn_in_size
      BY <1>6, <1>7, <2>0
    <2>2. Reached(history[s]) = {}
      BY <1>7, EarlyReachesNone
    <2>3. \A g : Shows(g, s, history[s]) => Shows(g, s, history'[s])
      BY <2>1, <2>2, EarlyShows
    <2>4. QED
      BY <2>1, <2>3 DEF Early
  <1>8. ASSUME NEW s \in Students \ {cur}
        PROVE  /\ Early(s) => Early(s)'
               /\ HistoryAt(s, Rounds) => HistoryAt(s, Rounds)'
               /\ \A g : HistoryAt(s, Rounds) /\ Shows(g, s, history[s])
                           => Shows(g, s, history'[s])
    <2>0. BURN_IN_SIZE \in 0 .. burn_in_size
      BY SizeFacts
    <2>1. InitialTrainSize(s, {cur}) = BURN_IN_SIZE /\ BURN_IN_SIZE \in 0 .. burn_in_size
      BY <1>5, <2>0
    <2>2. ASSUME Early(s)
          PROVE  Early(s)' /\ \A g : Shows(g, s, history[s]) => Shows(g, s, history'[s])
      BY <1>7, <2>1, <2>2 DEF Early
    <2>3. ASSUME Rounds # 0, HistoryAt(s, Rounds) PROVE history'[s] = history[s]
      <3>1. Len(history[s]) = burn_in_size + Rounds
        BY <2>3 DEF HistoryAt, After
      <3>2. BURN_IN_SIZE \in Nat /\ BURN_IN_SIZE <= Len(history[s])
        BY <3>1, SizeFacts
      <3>3. QED
        BY <1>6, <2>1, <3>2
    <2>4. CASE Rounds = 0
      BY <2>2, <2>4 DEF HistoryAt
    <2>5. CASE Rounds # 0
      BY <2>2, <2>3, <2>5 DEF HistoryAt
    <2>6. QED
      BY <2>4, <2>5
  <1>9. QueueInv' /\ ExamsInv'
    BY <1>8, OthersKeep
  <1>10. CASE round = 0
    <2>1. PICK n \in 0 .. burn_in_size : history[cur] = BaseHistory(cur, n)
      BY <1>4, <1>10 DEF HistoryAt, Early
    <2>0. burn_in_size \in 0 .. burn_in_size /\ burn_in_size + round = burn_in_size
      BY <1>10, SizeFacts
    <2>2. InitialTrainSize(cur, {cur}) = burn_in_size /\ burn_in_size \in 0 .. burn_in_size
      BY <1>5, <2>0
    <2>3. /\ history'[cur] = BaseHistory(cur, Greater(n, burn_in_size))
          /\ \A g : Shows(g, cur, history[cur]) => Shows(g, cur, history'[cur])
      BY <1>7, <2>1, <2>2, CompleteFacts
    <2>4. Greater(n, burn_in_size) = burn_in_size
      BY <2>1, SizeFacts DEF Greater
    <2>5. After(history'[cur], cur, round)
      BY <1>10, <2>3, <2>4, BaseIsAfter, CompleteFacts
    <2>6. Early(cur)'
      BY <1>3, <2>2, <2>3, <2>4 DEF Early
    <2>7. QED
      BY <1>3, <1>9, <1>10, <2>3, <2>5, <2>6 DEF HistoryAt, ShowsNow
  <1>11. CASE round # 0
    <2>1. After(history[cur], cur, round)
      BY <1>4, <1>11 DEF HistoryAt
    <2>2. /\ Len(history[cur]) = burn_in_size + round /\ burn_in_size + round \in Nat
          /\ burn_in_size + round <= Len(history[cur])
      BY <2>1, SizeFacts, CompleteFacts DEF After
    <2>3. history'[cur] = history[cur]
      BY <1>5, <1>6, <2>2, CompleteFacts
    <2>4. QED
      BY <1>3, <1>9, <1>11, <2>1, <2>3 DEF HistoryAt, ShowsNow
  <1>12. QED
    BY <1>10, <1>11

\* A hypothetical answer is in no history and no graph the round reads.
LEMMA HypothesisLeavesAnswers ==
  ASSUME CompleteInv, CallStep, UNCHANGED loopVars, step = "valued"
  PROVE  AnswersInv'
  <1>1. /\ UNCHANGED <<stage, step, cur, round, pick>> /\ stage = "practice"
        /\ HistoryAt(cur, round)
        /\ ShowsNow(cache[cur]) /\ ShowsNow(StoredGraph(cur, practiceSize[cur]))
        /\ call.phase # "idle" => ~IsActual
        /\ call.phase # "saved"
    BY CompleteFacts DEF loopVars, InRound, SittingInv, ShownInv, RoundInv, CallsOne
  <1>2. UNCHANGED <<practiceSize, cache, actualGraph>>
    <2>1. CASE OpenStudent
      BY <1>1, <2>1, OpensCurrent, CompleteFacts
    <2>2. CASE SaveGraph \/ SaveParam
      BY <1>1, <2>2 DEF SaveGraph, SaveParam
    <2>3. CASE Propagate \/ RunParameterUpdate
      BY <1>1, <2>3 DEF Propagate, RunParameterUpdate
    <2>4. CASE ResolveStudents \/ Observe \/ NothingObserved \/ SaveAssumption
               \/ AppendTempRecords \/ Return
      BY <2>4 DEF ResolveStudents, Observe, NothingObserved, SaveAssumption,
         AppendTempRecords, Return, rtVars
    <2>5. QED
      BY <2>1, <2>2, <2>3, <2>4 DEF CallStep
  <1>3. StoredGraph(cur, practiceSize[cur])' = StoredGraph(cur, practiceSize[cur])
    BY <1>1, <1>2 DEF StoredGraph
  <1>4. /\ QueueInv' /\ ExamsInv' /\ HistoryAt(cur, round)'
        /\ \A g : ShowsNow(g) => Shows(g, cur, history'[cur])
    <2>1. CASE ResolveStudents
      BY <2>1, ResolveKeepsAnswers
    <2>2. CASE ~ResolveStudents
      <3>1. history' = history
        BY <1>1, <2>2 DEF CallStep, OpenStudent, Observe, NothingObserved, Propagate,
           RunParameterUpdate, SaveAssumption, SaveGraph, SaveParam, AppendTempRecords, Return,
           kuVars
      <3>2. QED
        BY <1>1, <3>1, OthersStay DEF HistoryAt, Early, ShowsNow
    <2>3. QED
      BY <2>1, <2>2
  <1>5. ShownInv'
    BY <1>1, <1>2, <1>3, <1>4 DEF ShownInv, ShowsNow
  <1>6. SittingInv' /\ AnsweringInv'
    BY <1>1, <1>4 DEF SittingInv, AnsweringInv
  <1>7. QED
    BY <1>4, <1>5, <1>6 DEF AnswersInv

\* The real answer is in the history when it is observed, in the graph once the
\* update has propagated it, and in the file once that is saved.
LEMMA AnswerIsShown ==
  ASSUME CompleteInv, CallStep, UNCHANGED loopVars, step = "answered"
  PROVE  AnswersInv'
  <1>1. /\ UNCHANGED <<stage, step, cur, round, pick>>
        /\ RoundInv /\ AnsweringInv /\ ShownInv
        /\ cur \in Students /\ round \in Nat /\ call \in CallRec
        /\ history \in [Students -> Seq(Rec)] /\ practiceSize \in [Students -> Nat]
        /\ cache \in [Students -> Graph \cup {None}]
    BY CompleteFacts DEF loopVars
  <1>2. /\ call.phase # "idle" => IsActual
        /\ call.phase \in InCall => call.sid = cur /\ call.todo = << >>
        /\ Unopened => call.todo # << >>
    <2>1. CallsOwn /\ CallsOne
      BY <1>1 DEF RoundInv, LeakInv
    <2>2. call.phase # "idle" => IsActual
      BY <2>1 DEF CallsOne
    <2>3. call.phase \in InCall => call.sid = cur /\ call.todo = << >>
      BY <2>1 DEF CallsOwn, CallsOne
    <2>4. Answer # << >>
      BY DEF Answer
    <2>5. QED
      BY <2>1, <2>2, <2>3, <2>4 DEF CallsOne
  <1>3. SittingInv'
    BY <1>1 DEF SittingInv, InRound
  <1>4. CASE ResolveStudents
    <2>1. /\ QueueInv' /\ ExamsInv' /\ HistoryAt(cur, round)' /\ After(history'[cur], cur, round)
          /\ \A g : ShowsNow(g) => Shows(g, cur, history'[cur])
      BY <1>4, ResolveKeepsAnswers
    <2>2. /\ call.phase = "resolve" /\ call'.phase = "next" /\ call'.todo = call.todo
          /\ UNCHANGED <<cache, practiceSize, actualGraph>>
      BY <1>1, <1>4 DEF ResolveStudents, CallRec, rtVars
    <2>3. Unopened'
      BY <1>2, <2>2 DEF Unopened
    <2>4. AnsweringInv'
      BY <1>1, <2>1, <2>2, <2>3 DEF AnsweringInv
    <2>5. ShowsNow(cache[cur]) /\ ShowsNow(StoredGraph(cur, practiceSize[cur]))
      BY <1>1, <2>2 DEF ShownInv, Computing
    <2>6. StoredGraph(cur, practiceSize[cur])' = StoredGraph(cur, practiceSize[cur])
      BY <1>1, <2>2 DEF StoredGraph
    <2>7. ShownInv'
      BY <1>1, <2>1, <2>2, <2>5, <2>6 DEF ShownInv, ShowsNow
    <2>8. QED
      BY <1>3, <2>1, <2>4, <2>7 DEF AnswersInv
  <1>5. ASSUME UNCHANGED history, ShownInv', AnsweringInv' PROVE AnswersInv'
    BY <1>3, <1>5, OthersStay DEF AnswersInv
  <1>6. CASE OpenStudent
    <2>1. /\ call.phase = "next" /\ Unopened
          /\ call' = [call EXCEPT !.phase = "observe", !.sid = cur,
                        !.size = practiceSize[cur], !.todo = <<>>, !.obs = <<pick>>,
                        !.param = param, !.shared = TRUE, !.graph = cache[cur],
                        !.hist = history[cur], !.fresh = <<>>]
          /\ history' = history
      BY <1>1, <1>6, OpensCurrent DEF OpenStudent, Unopened
    <2>2. /\ call'.phase = "observe" /\ call'.obs = <<pick>> /\ call'.fresh = << >>
          /\ call'.graph = cache[cur] /\ call'.hist = history[cur]
      BY <1>1, <2>1 DEF CallRec
    <2>3. After(history[cur], cur, round) /\ ShowsNow(cache[cur])
      BY <1>1, <2>1 DEF AnsweringInv, ShownInv, Computing
    <2>4. Observing'
      BY <1>1, <2>1, <2>2, <2>3 DEF Observing, ShowsNow
    <2>5. AnsweringInv' /\ ShownInv'
      BY <1>1, <2>2, <2>4 DEF AnsweringInv, ShownInv, Computing, InRound, Unopened
    <2>6. QED
      BY <1>5, <2>1, <2>5
  <1>7. CASE Observe
    <2>1. /\ call.phase = "observe" /\ IsActual /\ call.sid = cur /\ call.hist = history[cur]
          /\ call.obs = <<pick>> /\ call.fresh = << >>
          /\ After(history[cur], cur, round) /\ ShowsNow(call.graph)
      BY <1>1, <1>2, <1>7 DEF Observe, AnsweringInv, Observing, InCall
    <2>2. pick \in Candidates /\ kcMapping[pick] = pick /\ pick \in KCs
      BY <1>1, EvalAssumption DEF RoundInv, LeakInv, EvalTypes, LoopTypeOK
    <2>3. Head(call.obs) = pick /\ Tail(call.obs) = << >>
      BY <2>1
    <2> DEFINE h == Append(history[cur], Given)
    <2>4. /\ call' = [call EXCEPT !.obs = Tail(call.obs), !.hist = h,
                        !.fresh = Append(call.fresh, Given)]
          /\ history' = [history EXCEPT ![cur] = h]
      BY <1>7, <2>1, <2>2, <2>3 DEF Observe, Given
    <2>5. Given' = Given
      BY <1>1 DEF Given
    <2> HIDE DEF h
    <2>6. /\ call'.phase = "observe" /\ call'.obs = << >> /\ call'.fresh = Append(<< >>, Given)
          /\ call'.hist = h /\ call'.graph = call.graph /\ history'[cur] = h
      BY <1>1, <2>1, <2>3, <2>4 DEF CallRec
    <2>7. call'.fresh = <<Given>>
      BY <2>6
    <2>8. /\ history[cur] \in Seq(Rec) /\ history'[cur] = Append(history[cur], Given)
          /\ Shows(call'.graph, cur, history[cur])
      BY <1>1, <2>1, <2>6 DEF h, ShowsNow
    <2>9. Observing'
      BY <1>1, <2>1, <2>5, <2>6, <2>7, <2>8 DEF Observing
    <2>10. AnsweringInv' /\ ShownInv'
      BY <1>1, <2>6, <2>9 DEF AnsweringInv, ShownInv, Computing, InRound, Unopened
    <2>11. QueueInv' /\ ExamsInv'
      BY <2>4, OthersStay
    <2>12. QED
      BY <1>3, <2>10, <2>11 DEF AnswersInv
  <1>8. CASE NothingObserved
    BY <1>1, <1>8 DEF NothingObserved, AnsweringInv, Observing
  <1>9. CASE Propagate
    <2> DEFINE lin == call.graph.lin \cup call.param.lin \cup {call.sid}
               g == Propagated(call.graph, call.hist, call.fresh, lin)
    <2>1. /\ call.phase = "observe" /\ IsActual /\ call.sid = cur /\ call.hist = history[cur]
          /\ call.fresh = <<Given>>
      BY <1>1, <1>2, <1>9 DEF Propagate, AnsweringInv, Observing, InCall
    <2>2. PICK h \in Seq(Rec) : /\ history[cur] = Append(h, Given)
                                /\ After(h, cur, round) /\ Shows(call.graph, cur, h)
      BY <1>1, <1>9, <2>1 DEF Propagate, AnsweringInv, Observing
    <2>3. pick \in KCs
      BY <1>1, EvalAssumption DEF RoundInv, LeakInv, EvalTypes, LoopTypeOK
    <2>4. After(history[cur], cur, round + 1) /\ Shows(g, cur, history[cur])
      BY <1>1, <2>1, <2>2, <2>3, AnswerShows DEF Given
    <2>5. /\ call' = [call EXCEPT !.phase = "estimate", !.graph = g]
          /\ cache' = [cache EXCEPT ![cur] = g] /\ history' = history
      BY <1>9, <2>1 DEF Propagate, kuVars
    <2> HIDE DEF g
    <2>6. call'.phase = "estimate" /\ call'.graph = g /\ cache'[cur] = g
      BY <1>1, <2>5 DEF CallRec
    <2>7. AnsweringInv' /\ ShownInv'
      BY <1>1, <2>4, <2>5, <2>6
      DEF AnsweringInv, ShownInv, Computing, InRound, Unopened, ShowsNow
    <2>8. QED
      BY <1>5, <2>5, <2>7
  <1>10. CASE RunParameterUpdate
    <2>1. /\ call.phase = "estimate" /\ call'.phase = "save" /\ call'.graph = call.graph
          /\ cache' = cache /\ history' = history
      BY <1>1, <1>10 DEF RunParameterUpdate, CallRec
    <2>2. /\ After(history[cur], cur, round + 1)
          /\ ShowsNow(call.graph) /\ ShowsNow(cache[cur])
      BY <1>1, <2>1 DEF AnsweringInv, Unopened
    <2>3. AnsweringInv' /\ ShownInv'
      BY <1>1, <2>1, <2>2
      DEF AnsweringInv, ShownInv, Computing, InRound, Unopened, ShowsNow
    <2>4. QED
      BY <1>5, <2>1, <2>3
  <1>11. CASE SaveGraph
    <2> DEFINE n == call.size + Len(call.fresh)
    <2>1. /\ call.phase = "save" /\ call.sid = cur /\ n \in Nat
          /\ After(history[cur], cur, round + 1) /\ ShowsNow(call.graph)
      BY <1>1, <1>2, <1>11 DEF SaveGraph, AnsweringInv, Unopened, InCall, CallRec
    <2>2. /\ actualGraph' = Put(actualGraph, <<cur, n>>, call.graph)
          /\ cache' = [cache EXCEPT ![cur] = call.graph]
          /\ practiceSize' = [practiceSize EXCEPT ![cur] = n]
          /\ call' = [call EXCEPT !.phase = "saved"] /\ history' = history
      BY <1>11, <2>1 DEF SaveGraph, SaveStudentGraph, kuVars
    <2> HIDE DEF n
    <2>3. /\ cache'[cur] = call.graph /\ practiceSize'[cur] = n
          /\ <<cur, n>> \in DOMAIN actualGraph' /\ actualGraph'[<<cur, n>>] = call.graph
          /\ call'.phase = "saved"
      BY <1>1, <2>1, <2>2 DEF Put, CallRec
    <2>4. StoredGraph(cur, practiceSize[cur])' = call.graph
      BY <1>1, <2>3 DEF StoredGraph
    <2>5. AnsweringInv' /\ ShownInv'
      BY <1>1, <2>1, <2>2, <2>3, <2>4
      DEF AnsweringInv, ShownInv, Computing, InRound, Unopened, ShowsNow
    <2>6. QED
      BY <1>5, <2>2, <2>5
  <1>12. CASE SaveParam \/ AppendTempRecords \/ Return
    <2>1. /\ ~Unopened /\ ~Unopened' /\ call'.phase \in {"log", "next", "idle"}
          /\ ~Computing /\ call.phase # "observe" /\ history' = history
          /\ cache' = cache /\ actualGraph' = actualGraph
      <3>1. CASE SaveParam
        BY <1>1, <3>1 DEF SaveParam, SaveParamGraph, Unopened, Computing, CallRec
      <3>2. CASE AppendTempRecords
        BY <1>1, <1>2, <3>2 DEF AppendTempRecords, rtVars, Unopened, Computing, CallRec, InCall
      <3>3. CASE Return
        BY <3>3 DEF Return, NoCall, rtVars, Unopened, Computing
      <3>4. QED
        BY <1>12, <3>1, <3>2, <3>3
    <2>2. practiceSize'[cur] = practiceSize[cur]
      <3>1. CASE SaveParam
        <4>1. /\ call.phase = "saved" /\ call.sid = cur
              /\ call.size + Len(call.fresh) = Size + 1 /\ practiceSize[cur] = Size + 1
              /\ Size + 1 > burn_in_size
          <5>1. call.phase = "saved" /\ Recording
            BY <1>1, <3>1 DEF SaveParam, RoundInv, Progress
          <5>2. call.size = Size /\ Len(call.fresh) = 1 /\ GraphSaved(Size + 1)
            BY <5>1 DEF Recording
          <5>3. call.sid = cur /\ practiceSize[cur] = Size + 1
            BY <1>2, <5>1, <5>2 DEF InCall, GraphSaved
          <5>4. burn_in_size \in Nat /\ Size = burn_in_size + round
            BY SizeFacts DEF Size
          <5>5. Size + 1 > burn_in_size
            BY <1>1, <5>4
          <5>6. QED
            BY <5>1, <5>2, <5>3, <5>5
        <4>2. practiceSize' = [practiceSize EXCEPT ![cur] = Size + 1]
          BY <3>1, <4>1 DEF SaveParam, SaveParamGraph
        <4>3. QED
          BY <1>1, <4>1, <4>2
      <3>2. CASE AppendTempRecords \/ Return
        BY <3>2 DEF AppendTempRecords, Return, rtVars
      <3>3. QED
        BY <1>12, <3>1, <3>2
    <2>3. /\ After(history[cur], cur, round + 1)
          /\ ShowsNow(cache[cur]) /\ ShowsNow(StoredGraph(cur, practiceSize[cur]))
      BY <1>1, <2>1 DEF AnsweringInv, ShownInv
    <2>4. StoredGraph(cur, practiceSize[cur])' = StoredGraph(cur, practiceSize[cur])
      BY <1>1, <2>1, <2>2 DEF StoredGraph
    <2>5. AnsweringInv'
      BY <1>1, <2>1, <2>3 DEF AnsweringInv
    <2>6. ShownInv'
      BY <1>1, <2>1, <2>3, <2>4 DEF ShownInv, ShowsNow
    <2>7. QED
      BY <1>5, <2>1, <2>5, <2>6
  <1>13. CASE SaveAssumption
    BY <1>2, <1>13 DEF SaveAssumption
  <1>14. QED
    BY <1>4, <1>6, <1>7, <1>8, <1>9, <1>10, <1>11, <1>12, <1>13 DEF CallStep

LEMMA CompleteStep == CompleteInv /\ [EvalNext]_evalVars => CompleteInv'
  <1> SUFFICES ASSUME CompleteInv, [EvalNext]_evalVars PROVE CompleteInv'
    OBVIOUS
  <1>1. RoundInv'
    BY RoundStep DEF CompleteInv
  <1>2. CASE UpdateStep
    <2>1. /\ CallStep /\ UNCHANGED loopVars
          /\ step = "valued" \/ step = "answered"
      BY <1>2 DEF UpdateStep
    <2>2. QED
      BY <1>1, <2>1, HypothesisLeavesAnswers, AnswerIsShown DEF CompleteInv
  <1>3. CASE EvalStep /\ ~UpdateStep
    BY <1>1, <1>3, OutsideAnswers, RoundsKeepAnswers, ExamKeepsAnswers
    DEF EvalStep, CompleteInv
  <1>4. CASE UNCHANGED evalVars
    <2>1. /\ UNCHANGED <<history, call, practiceSize, cache, actualGraph>>
          /\ UNCHANGED <<stage, step, queue, cur, round, pick, exams>>
      BY <1>4 DEF evalVars, vars, rtVars, kuVars, loopVars
    <2>2. \A s : Waiting(s)' <=> Waiting(s)
      BY <2>1 DEF Waiting
    <2>3. \A s : Early(s)' <=> Early(s)
      BY <2>1 DEF Early
    <2>4. \A s, n : HistoryAt(s, n)' <=> HistoryAt(s, n)
      BY <2>1, <2>3 DEF HistoryAt
    <2>5. StoredGraph(cur, practiceSize[cur])' = StoredGraph(cur, practiceSize[cur])
      BY <2>1 DEF StoredGraph
    <2>6. QueueInv' /\ ExamsInv'
      BY <2>1, <2>2, <2>3, <2>4, CompleteFacts DEF QueueInv, ExamsInv, Waiting
    <2>7. SittingInv' /\ ShownInv'
      BY <2>1, <2>5, CompleteFacts
      DEF SittingInv, HistoryAt, Early, ShownInv, ShowsNow, InRound, Computing
    <2>8. AnsweringInv'
      <3>1. (Observing => Observing') /\ (Unopened' <=> Unopened)
        BY <2>1 DEF Observing, Unopened, Given, ShowsNow
      <3>2. QED
        BY <2>1, <3>1, CompleteFacts DEF AnsweringInv, HistoryAt, Early, ShowsNow
    <2>9. QED
      BY <1>1, <2>6, <2>7, <2>8 DEF CompleteInv, AnswersInv
  <1>5. QED
    BY <1>2, <1>3, <1>4 DEF EvalNext, Done

LEMMA CompleteImplies == CompleteInv => EvidenceComplete
  <1> SUFFICES ASSUME CompleteInv, NEW s \in Students, exams[s] # None
               PROVE  LET h == IF Rounds = 0 THEN BaseHistory(s, burn_in_size) ELSE history[s]
                          answered == {h[i].kc : i \in burn_in_size + 1 .. Len(h)}
                      IN  /\ exams[s].size = burn_in_size + Rounds
                          /\ Len(h) = burn_in_size + Rounds
                          /\ SubSeq(h, 1, burn_in_size) = BaseHistory(s, burn_in_size)
                          /\ \A i \in burn_in_size + 1 .. Len(h) : h[i].src = "practice"
                          /\ \A k \in KCs :
                               IF \E j \in answered : k \in PathToRoot[j]
                                 THEN LatestOf(exams[s].graph.ev[k], ForKC(h, k))
                                 ELSE exams[s].graph.ev[k] = ForKC(BaseHistory(s, burn_in_size), k)
    BY DEF EvidenceComplete
  <1> DEFINE h == IF Rounds = 0 THEN BaseHistory(s, burn_in_size) ELSE history[s]
  <1>1. /\ exams[s].size = burn_in_size + Rounds /\ HistoryAt(s, Rounds)
        /\ Shows(exams[s].graph, s, history[s])
    BY CompleteFacts DEF ExamsInv
  <1>2. burn_in_size \in Nat \ {0} /\ burn_in_size \in 0 .. burn_in_size /\ Rounds \in Nat
    BY SizeFacts
  <1>3. After(h, s, Rounds) /\ Shows(exams[s].graph, s, h)
    <2>1. CASE Rounds = 0
      <3>1. PICK n \in 0 .. burn_in_size : history[s] = BaseHistory(s, n)
        BY <1>1, <2>1 DEF HistoryAt, Early
      <3>2. Reached(history[s]) = {}
        BY <3>1, EarlyReachesNone
      <3>3. h = BaseHistory(s, burn_in_size)
        BY <2>1
      <3> HIDE DEF h
      <3>4. Shows(exams[s].graph, s, h)
        BY <1>1, <1>2, <3>2, <3>3, EarlyShows
      <3>5. After(h, s, Rounds)
        BY <2>1, <3>3, BaseIsAfter
      <3>6. QED
        BY <3>4, <3>5
    <2>2. CASE Rounds # 0
      BY <1>1, <2>2 DEF HistoryAt
    <2>3. QED
      BY <2>1, <2>2
  <1> HIDE DEF h
  <1>4. /\ h \in Seq(Rec) /\ Len(h) = burn_in_size + Rounds
        /\ \A i \in burn_in_size + 1 .. Len(h) : h[i].src = "practice"
    BY <1>3 DEF After
  <1>5. SubSeq(h, 1, burn_in_size) = BaseHistory(s, burn_in_size)
    <2>1. /\ BaseHistory(s, burn_in_size) =
               [i \in 1 .. burn_in_size |-> [kc |-> Base[s][i], src |-> "dataset"]]
          /\ \A i \in 1 .. burn_in_size : h[i] = BaseHistory(s, burn_in_size)[i]
      BY <1>2, <1>3, BaseIs DEF After
    <2>2. SubSeq(h, 1, burn_in_size) = [i \in 1 .. burn_in_size |-> h[i]]
      BY <1>2, <1>4
    <2>3. QED
      BY <2>1, <2>2
  <1>6. ASSUME NEW k \in KCs
        PROVE  IF \E j \in AnsweredIn(h) : k \in PathToRoot[j]
                 THEN LatestOf(exams[s].graph.ev[k], ForKC(h, k))
                 ELSE exams[s].graph.ev[k] = ForKC(BaseHistory(s, burn_in_size), k)
    <2>1. (\E j \in AnsweredIn(h) : k \in PathToRoot[j]) <=> k \in Reached(h)
      BY DEF Reached
    <2>2. LatestOf(InWindow(ForKC(h, k)), ForKC(h, k))
      BY <1>4, ForKCIsList, WindowIsLatest
    <2>3. QED
      BY <1>3, <2>1, <2>2 DEF Shows
  <1>7. QED
    BY <1>1, <1>4, <1>5, <1>6 DEF AnsweredIn, h

\* A final exam is predicted from the burn-in records and all the answers of the
\* sitting, each once and in its place, whatever the scans computed in between
\* (update.py's history and the E-step on the path of each answer).
THEOREM ExamsComplete == EvalSpec => []EvidenceComplete
  <1>1. EvalInit => CompleteInv
    BY CompleteInit
  <1>2. CompleteInv /\ [EvalNext]_evalVars => CompleteInv'
    BY CompleteStep
  <1>3. CompleteInv => EvidenceComplete
    BY CompleteImplies
  <1>4. QED
    BY <1>1, <1>2, <1>3, PTL DEF EvalSpec

---------------------------------------------------------------------------
(* The session: what the practice session promises, read off the loop.     *)

LEMMA ConceptsAfter ==
  ASSUME NEW s \in Students, NEW n \in Nat, NEW h, After(h, s, n)
  PROVE  PracticeConcepts(h) = [i \in 1 .. n |-> h[burn_in_size + i].kc]
  <1> DEFINE given == {i \in DOMAIN h : h[i].src = "practice"}
  <1>1. /\ burn_in_size \in Nat /\ burn_in_size \in 0 .. burn_in_size
        /\ h \in Seq(Rec) /\ Len(h) = burn_in_size + n /\ DOMAIN h = 1 .. burn_in_size + n
    BY SizeFacts DEF After
  <1>2. \A i \in 1 .. burn_in_size : h[i].src = "dataset"
    BY <1>1, BaseIs DEF After
  <1>3. \A i \in burn_in_size + 1 .. burn_in_size + n : h[i].src = "practice"
    BY DEF After
  <1>4. given = burn_in_size + 1 .. burn_in_size + n
    BY <1>1, <1>2, <1>3
  <1>5. Cardinality(burn_in_size + 1 .. burn_in_size + n) = n
    <2>1. burn_in_size + 1 \in Int /\ burn_in_size + n \in Int
      BY <1>1
    <2>2. Cardinality(burn_in_size + 1 .. burn_in_size + n) =
            IF burn_in_size + 1 > burn_in_size + n THEN 0
            ELSE (burn_in_size + n) - (burn_in_size + 1) + 1
      BY <2>1, FS_Interval
    <2>3. QED
      BY <1>1, <2>2
  <1>6. Cardinality(given) = n
    BY <1>4, <1>5
  <1> HIDE DEF given
  <1>7. PracticeConcepts(h) = [i \in 1 .. n |-> h[Len(h) - n + i].kc]
    BY <1>6 DEF PracticeConcepts, given
  <1>8. \A i \in 1 .. n : Len(h) - n + i = burn_in_size + i
    BY <1>1
  <1>9. QED
    BY <1>7, <1>8

LEMMA NoConcepts ==
  ASSUME NEW s \in Students, NEW h, NEW n \in 0 .. burn_in_size, h = BaseHistory(s, n)
  PROVE  PracticeConcepts(h) = << >>
  <1>1. h = [i \in 1 .. n |-> [kc |-> Base[s][i], src |-> "dataset"]]
    BY BaseIs
  <1>2. {i \in DOMAIN h : h[i].src = "practice"} = {}
    BY <1>1
  <1>3. Cardinality({}) = 0
    BY FS_EmptySet
  <1>4. PracticeConcepts(h) = [i \in 1 .. 0 |-> h[Len(h) - 0 + i].kc]
    BY <1>2, <1>3 DEF PracticeConcepts
  <1>5. QED
    BY <1>4

LEMMA ConceptsAppend ==
  ASSUME NEW s \in Students, NEW n \in Nat, NEW h, After(h, s, n), NEW k \in KCs,
         NEW r, r = [kc |-> k, src |-> "practice"], After(Append(h, r), s, n + 1)
  PROVE  PracticeConcepts(Append(h, r)) = Append(PracticeConcepts(h), k)
  <1>1. /\ burn_in_size \in Nat /\ h \in Seq(Rec) /\ Len(h) = burn_in_size + n
    BY SizeFacts DEF After
  <1>2. PracticeConcepts(h) = [i \in 1 .. n |-> h[burn_in_size + i].kc]
    BY ConceptsAfter
  <1>3. PracticeConcepts(Append(h, r)) = [i \in 1 .. n + 1 |-> Append(h, r)[burn_in_size + i].kc]
    <2>1. n + 1 \in Nat
      OBVIOUS
    <2> DEFINE h2 == Append(h, r)
    <2>2. After(h2, s, n + 1)
      OBVIOUS
    <2> HIDE DEF h2
    <2>3. PracticeConcepts(h2) = [i \in 1 .. n + 1 |-> h2[burn_in_size + i].kc]
      BY <2>1, <2>2, ConceptsAfter
    <2>4. QED
      BY <2>3 DEF h2
  <1>4. \A i \in 1 .. n + 1 : Append(h, r)[burn_in_size + i].kc =
                                IF i = n + 1 THEN k ELSE h[burn_in_size + i].kc
    <2>1. r \in Rec
      BY DEF Rec
    <2> SUFFICES ASSUME NEW i \in 1 .. n + 1
                 PROVE  Append(h, r)[burn_in_size + i].kc =
                          IF i = n + 1 THEN k ELSE h[burn_in_size + i].kc
      OBVIOUS
    <2>2. Append(h, r)[burn_in_size + i] = IF i = n + 1 THEN r ELSE h[burn_in_size + i]
      BY <1>1, <2>1
    <2>3. r.kc = k
      OBVIOUS
    <2>4. CASE i = n + 1
      BY <2>2, <2>3, <2>4
    <2>5. CASE i # n + 1
      BY <2>2, <2>5
    <2>6. QED
      BY <2>4, <2>5
  <1>5. \A i \in 1 .. n : h[burn_in_size + i].kc \in KCs
    <2>1. \A i \in 1 .. n : h[burn_in_size + i] \in Rec
      BY <1>1
    <2>2. QED
      BY <2>1 DEF Rec
  <1>6. PracticeConcepts(h) \in Seq(KCs) /\ Len(PracticeConcepts(h)) = n
    BY <1>2, <1>5
  <1> DEFINE c == PracticeConcepts(h)
             d == PracticeConcepts(Append(h, r))
  <1> DEFINE of(i) == Append(h, r)[burn_in_size + i].kc
  <1>7. /\ d = [i \in 1 .. n + 1 |-> of(i)] /\ c = [i \in 1 .. n |-> h[burn_in_size + i].kc]
        /\ \A i \in 1 .. n + 1 : of(i) = IF i = n + 1 THEN k ELSE h[burn_in_size + i].kc
    BY <1>2, <1>3, <1>4
  <1> HIDE DEF of, c, d
  <1>8. /\ d \in Seq(KCs) /\ Len(d) = n + 1
        /\ \A i \in 1 .. n + 1 : d[i] = IF i = n + 1 THEN k ELSE c[i]
    <2>1. \A i \in 1 .. n + 1 : i # n + 1 => i \in 1 .. n
      OBVIOUS
    <2>2. \A i \in 1 .. n + 1 : of(i) \in KCs
      BY <1>5, <1>7, <2>1
    <2>3. \A i \in 1 .. n + 1 : d[i] = IF i = n + 1 THEN k ELSE c[i]
      BY <1>7, <2>1
    <2>4. d \in Seq(KCs) /\ Len(d) = n + 1
      BY <1>7, <2>2
    <2>5. QED
      BY <2>3, <2>4
  <1>9. d = Append(c, k)
    <2>1. /\ Append(c, k) \in Seq(KCs) /\ Len(Append(c, k)) = n + 1
          /\ \A i \in 1 .. n + 1 : Append(c, k)[i] = IF i = n + 1 THEN k ELSE c[i]
      BY <1>6 DEF c
    <2>2. QED
      BY <1>8, <2>1, SeqEqual
  <1>10. QED
    BY <1>9 DEF c, d

\* While no answer has left the window, the graph gives the answers back.
LEMMA GradeShown ==
  ASSUME NEW s \in Students, NEW h, After(h, s, Rounds), NEW g, Shows(g, s, h),
         WINDOW_SIZE = 0 \/ Rounds <= WINDOW_SIZE, NEW e, e.graph = g,
         e.size = burn_in_size + Rounds
  PROVE  GradedOn(e) = PracticeConcepts(h)
  <1>1. /\ burn_in_size \in Nat /\ Rounds \in Nat /\ WINDOW_SIZE \in Nat
        /\ h \in Seq(Rec) /\ Len(h) = burn_in_size + Rounds
    BY SizeFacts, UpdateAssumption DEF After
  <1>2. ASSUME NEW i \in 1 .. Rounds, NEW k \in KCs
        PROVE  [at |-> burn_in_size + i, src |-> "practice"] \in g.ev[k]
                 <=> h[burn_in_size + i].kc = k
    <2> DEFINE r == [at |-> burn_in_size + i, src |-> "practice"]
               j == burn_in_size + i
    <2>1. /\ j \in burn_in_size + 1 .. burn_in_size + Rounds /\ j \in 1 .. Len(h)
          /\ h[j].src = "practice" /\ j \in burn_in_size + 1 .. Len(h)
      BY <1>1 DEF After
    <2>2. r \in ForKC(h, k) <=> h[j].kc = k
      <3>1. DOMAIN h = 1 .. Len(h)
        BY <1>1
      <3> HIDE DEF j
      <3>2. ASSUME h[j].kc = k PROVE r \in ForKC(h, k)
        <4>1. j \in {x \in DOMAIN h : h[x].kc = k} /\ r = [at |-> j, src |-> h[j].src]
          BY <2>1, <3>1, <3>2 DEF j
        <4>2. QED
          BY <4>1 DEF ForKC
      <3>3. ASSUME r \in ForKC(h, k) PROVE h[j].kc = k
        <4>1. PICK x \in {y \in DOMAIN h : h[y].kc = k} : r = [at |-> x, src |-> h[x].src]
          BY <3>3 DEF ForKC
        <4>2. r.at = x /\ r.at = j
          BY <4>1 DEF j
        <4>3. QED
          BY <4>1, <4>2
      <3>4. QED
        BY <3>2, <3>3
    <2>3. CASE k \in Reached(h)
      <3>1. g.ev[k] = InWindow(ForKC(h, k))
        BY <2>3 DEF Shows
      <3>2. ASSUME h[j].kc = k, WINDOW_SIZE # 0
            PROVE  Cardinality({q \in ForKC(h, k) : q.at > r.at}) < WINDOW_SIZE
        <4> DEFINE later == j + 1 .. burn_in_size + Rounds
                   L == {q \in ForKC(h, k) : q.at > r.at}
                   at == [q \in L |-> q.at]
        <4>1. \A q \in ForKC(h, k) : q.at \in 1 .. Len(h)
          BY <1>1 DEF ForKC
        <4>2. at \in [L -> later]
          BY <1>1, <2>1, <4>1
        <4>3. at \in Injection(L, later)
          <5>1. \A q, p \in ForKC(h, k) : q.at = p.at => q = p
            BY <1>1, ForKCIsList
          <5>2. \A q, p \in L : at[q] = at[p] => q = p
            BY <5>1
          <5> HIDE DEF at, L, later
          <5>3. QED
            BY <4>2, <5>2 DEF Injection, IsInjective
        <4>4. IsFiniteSet(later) /\ Cardinality(later) = Rounds - i
          <5>1. j + 1 \in Int /\ burn_in_size + Rounds \in Int
            BY <1>1
          <5>2. /\ IsFiniteSet(later)
                /\ Cardinality(later) = IF j + 1 > burn_in_size + Rounds THEN 0
                                        ELSE (burn_in_size + Rounds) - (j + 1) + 1
            BY <5>1, FS_Interval
          <5>3. QED
            BY <1>1, <5>2
        <4> HIDE DEF later, L, at
        <4>5. IsFiniteSet(L) /\ Cardinality(L) <= Rounds - i
          BY <4>3, <4>4, FS_Injection
        <4>6. Cardinality(L) \in Nat
          BY <4>5, FS_CardinalityType
        <4>7. Cardinality(L) < WINDOW_SIZE
          BY <1>1, <3>2, <4>5, <4>6
        <4>8. QED
          BY <4>7 DEF L
      <3> HIDE DEF r, j
      <3>3. InWindow(ForKC(h, k)) \subseteq ForKC(h, k)
        BY DEF InWindow
      <3>4. h[j].kc = k => r \in InWindow(ForKC(h, k))
        BY <2>2, <3>2 DEF InWindow
      <3>5. QED
        BY <2>2, <3>1, <3>3, <3>4 DEF r, j
    <2>4. CASE k \notin Reached(h)
      <3>1. g.ev[k] = ForKC(BaseHistory(s, burn_in_size), k)
        BY <2>4 DEF Shows
      <3>2. r \notin g.ev[k]
        <4>1. burn_in_size \in 0 .. burn_in_size
          BY SizeFacts
        <4>2. BaseHistory(s, burn_in_size) =
                [m \in 1 .. burn_in_size |-> [kc |-> Base[s][m], src |-> "dataset"]]
          BY <4>1, BaseIs
        <4>3. \A q \in g.ev[k] : q.src = "dataset"
          BY <3>1, <4>2 DEF ForKC
        <4>4. QED
          BY <4>3
      <3>3. h[j].kc # k
        BY <2>1, <2>4, UpdateAssumption DEF Reached, AnsweredIn
      <3>4. QED
        BY <3>2, <3>3
    <2>5. QED
      BY <2>3, <2>4
  <1>3. \A i \in 1 .. Rounds : h[burn_in_size + i].kc \in KCs
    <2>1. \A i \in 1 .. Rounds : h[burn_in_size + i] \in Rec
      BY <1>1
    <2>2. QED
      BY <2>1 DEF Rec
  <1>4. \A i \in 1 .. Rounds :
          (CHOOSE k \in KCs : [at |-> burn_in_size + i, src |-> "practice"] \in e.graph.ev[k])
            = h[burn_in_size + i].kc
    <2> SUFFICES ASSUME NEW i \in 1 .. Rounds
                 PROVE  (CHOOSE k \in KCs : [at |-> burn_in_size + i, src |-> "practice"]
                                              \in e.graph.ev[k]) = h[burn_in_size + i].kc
      OBVIOUS
    <2> DEFINE P(k) == [at |-> burn_in_size + i, src |-> "practice"] \in e.graph.ev[k]
    <2>1. \A k \in KCs : P(k) <=> h[burn_in_size + i].kc = k
      BY <1>2
    <2> HIDE DEF P
    <2>2. (CHOOSE k \in KCs : P(k)) = h[burn_in_size + i].kc
      BY <1>3, <2>1
    <2>3. QED
      BY <2>2 DEF P
  <1>5. (burn_in_size + Rounds) - burn_in_size = Rounds
    BY <1>1
  <1>6. GradedOn(e) = [i \in 1 .. Rounds |-> h[burn_in_size + i].kc]
    BY <1>4, <1>5 DEF GradedOn
  <1>7. QED
    BY <1>1, <1>6, ConceptsAfter

\* The queue is what is left of the order, and a sitting has no more rounds
\* than it was given.
QueueIsRest ==
  /\ Len(queue) <= Len(Order)
  /\ \A i \in 1 .. Len(queue) : queue[i] = Order[Len(Order) - Len(queue) + i]
  /\ stage = "sample" => queue = Order

RoundsLeft ==
  stage = "practice" =>
    /\ step \in {"size", "load", "round"} => round <= Rounds
    /\ step \in {"scan", "value", "valued", "ask", "answered"} => round < Rounds

SessionInv == CompleteInv /\ QueueIsRest /\ RoundsLeft

LEMMA SessionInvInit == EvalInit => SessionInv
  <1> SUFFICES ASSUME EvalInit PROVE SessionInv
    OBVIOUS
  <1>1. CompleteInv
    BY CompleteInit
  <1>2. queue = Order /\ stage = "sample" /\ Len(Order) \in Nat
    BY EvalAssumption DEF EvalInit
  <1>3. QED
    BY <1>1, <1>2 DEF SessionInv, QueueIsRest, RoundsLeft

LEMMA SessionFacts ==
  ASSUME SessionInv
  PROVE  /\ CompleteInv /\ QueueIsRest /\ RoundsLeft
         /\ queue \in Seq(Students) /\ Order \in Seq(Students) /\ Len(queue) \in Nat
         /\ Len(Order) \in Nat /\ round \in Nat /\ Rounds \in Nat
         /\ stage \in {"sample", "initial", "practice", "done"}
         /\ InRound \/ step = "answered" => stage = "practice"
  BY CompleteFacts, EvalAssumption DEF SessionInv, LoopTypeOK

LEMMA SessionInvStep == SessionInv /\ [EvalNext]_evalVars => SessionInv'
  <1> SUFFICES ASSUME SessionInv, [EvalNext]_evalVars PROVE SessionInv'
    OBVIOUS
  <1> USE SessionFacts
  <1>1. CompleteInv'
    BY CompleteStep
  <1>2. SUFFICES QueueIsRest' /\ RoundsLeft'
    BY <1>1 DEF SessionInv
  <1>3. CASE UNCHANGED evalVars
    BY <1>3 DEF evalVars, loopVars, QueueIsRest, RoundsLeft
  <1>4. CASE PickStudent
    <2>1. /\ stage \in {"initial", "practice"} /\ queue # << >> /\ queue' = Tail(queue)
          /\ stage' = stage /\ round' = 0 /\ step' = "size"
      BY <1>4 DEF PickStudent
    <2>2. /\ Len(queue') = Len(queue) - 1
          /\ \A i \in 1 .. Len(queue) - 1 : queue'[i] = queue[i + 1]
      BY <2>1, HeadTailProperties
    <2>3. QueueIsRest'
      <3>1. ASSUME NEW i \in 1 .. Len(queue')
            PROVE  queue'[i] = Order[Len(Order) - Len(queue') + i]
        <4>1. i + 1 \in 1 .. Len(queue) /\ i \in 1 .. Len(queue) - 1
          BY <2>2, <3>1
        <4>2. Len(Order) - Len(queue) + (i + 1) = Len(Order) - Len(queue') + i
          BY <2>2
        <4>3. QED
          BY <2>2, <4>1, <4>2 DEF QueueIsRest
      <3>2. Len(queue') <= Len(Order)
        BY <2>2 DEF QueueIsRest
      <3>3. QED
        BY <2>1, <3>1, <3>2 DEF QueueIsRest
    <2>4. QED
      BY <2>1, <2>3 DEF RoundsLeft
  <1>5. CASE InitialsDone
    <2>1. queue' = Order /\ stage' = "practice" /\ step' = "pick"
      BY <1>5 DEF InitialsDone
    <2>2. QED
      BY <2>1 DEF QueueIsRest, RoundsLeft
  <1>6. CASE ChooseBurnIn \/ LoadBurnIn \/ InitialExam \/ Finish
    <2>1. /\ UNCHANGED <<queue, round>> /\ (stage' = "sample" => stage = "sample")
          /\ stage' = "practice" => \/ step' = "pick"
                                    \/ /\ stage = "practice" /\ step \in {"size", "load"}
                                       /\ step' \in {"load", "round"}
      BY <1>6 DEF ChooseBurnIn, LoadBurnIn, InitialExam, Finish
    <2>2. QED
      BY <2>1 DEF QueueIsRest, RoundsLeft
  <1>7. CASE StartRound
    <2>1. /\ UNCHANGED <<stage, queue, round>> /\ round < Rounds /\ step' = "scan"
      BY <1>7 DEF StartRound
    <2>2. QED
      BY <2>1 DEF QueueIsRest, RoundsLeft
  <1>8. CASE \/ AssumeCorrect \/ LoadAssumption \/ RecordAnswer \/ UpdateStep
             \/ \E k \in Candidates : PredictValue(k) \/ Ask(k)
    <2>1. /\ UNCHANGED <<stage, queue, round>>
          /\ step \in {"scan", "value", "valued", "ask", "answered"}
          /\ step' \in {"scan", "value", "valued", "ask", "answered"}
      BY <1>8 DEF AssumeCorrect, LoadAssumption, RecordAnswer, UpdateStep, PredictValue, Ask,
         loopVars
    <2>2. QED
      BY <2>1 DEF QueueIsRest, RoundsLeft
  <1>9. CASE EndRound
    <2>1. /\ UNCHANGED <<stage, queue>> /\ step = "answered" /\ step' = "round"
          /\ round' = round + 1
      BY <1>9 DEF EndRound
    <2>2. QED
      BY <2>1 DEF QueueIsRest, RoundsLeft
  <1>10. CASE FinalExam
    <2>1. UNCHANGED <<stage, queue, round>> /\ step' = "pick"
      BY <1>10 DEF FinalExam
    <2>2. QED
      BY <2>1 DEF QueueIsRest, RoundsLeft
  <1>11. QED
    BY <1>3, <1>4, <1>5, <1>6, <1>7, <1>8, <1>9, <1>10 DEF EvalNext, EvalStep, Done

\* What the session sees of the loop.
Served == IF stage \in {"practice", "done"} THEN Len(Order) - Len(queue) ELSE 0
Answers == IF Sitting THEN PracticeConcepts(history[cur]) ELSE << >>
Practising == IF Sitting THEN cur ELSE None
Grades == [s \in {Order[i] : i \in DOMAIN Order} |->
             IF exams[s] = None THEN None ELSE GradedOn(exams[s])]

LEMMA SessionSame ==
  ASSUME Served' = Served, Answers' = Answers, Practising' = Practising, Grades' = Grades
  PROVE  [Session!Next]_Session!vars
  BY DEF Served, Answers, Practising, Grades, Session!vars

\* Between two rounds, and while a candidate is valued, nobody has answered.
LEMMA SessionRests ==
  ASSUME SessionInv,
         UNCHANGED <<stage, queue, cur, history, exams>>, step # "pick", step' # "pick"
  PROVE  [Session!Next]_Session!vars
  BY SessionSame DEF Served, Answers, Practising, Grades, Sitting

LEMMA SittingConcepts ==
  ASSUME SessionInv, HistoryAt(cur, round)
  PROVE  /\ round = 0 => PracticeConcepts(history[cur]) = << >>
         /\ round # 0 => After(history[cur], cur, round)
  <1>1. cur \in Students
    BY SessionFacts, CompleteFacts
  <1>2. CASE round = 0
    BY <1>1, <1>2, NoConcepts DEF HistoryAt, Early
  <1>3. CASE round # 0
    BY <1>3 DEF HistoryAt
  <1>4. QED
    BY <1>2, <1>3

\* The concepts of a sitting's first n answers are n.
LEMMA ConceptsCount ==
  ASSUME NEW s \in Students, NEW n \in Nat, NEW h, After(h, s, n)
  PROVE  /\ Len(PracticeConcepts(h)) = n
         /\ n = 0 => PracticeConcepts(h) = << >>
  <1>1. PracticeConcepts(h) = [i \in 1 .. n |-> h[burn_in_size + i].kc]
    BY ConceptsAfter
  <1>2. \A i \in 1 .. n : h[burn_in_size + i] \in Rec
    BY SizeFacts DEF After
  <1>3. PracticeConcepts(h) \in Seq({h[burn_in_size + i].kc : i \in 1 .. n})
    BY <1>1
  <1>4. QED
    BY <1>1, <1>3

LEMMA PickStarts ==
  ASSUME SessionInv, PickStudent PROVE [Session!Next]_Session!vars
  <1> USE SessionFacts
  <1>1. /\ stage \in {"initial", "practice"} /\ stage' = stage /\ step = "pick" /\ step' = "size"
        /\ queue # << >> /\ cur' = Head(queue) /\ queue' = Tail(queue)
        /\ history' = history /\ exams' = exams
    BY DEF PickStudent, kuVars
  <1>2. Answers = << >> /\ Practising = None /\ Grades' = Grades
    BY <1>1 DEF Sitting, Answers, Practising, Grades
  <1>3. CASE stage = "initial"
    BY <1>1, <1>2, <1>3, SessionSame DEF Served, Answers, Practising, Sitting
  <1>4. CASE stage = "practice"
    <2>1. /\ Len(queue) \in 1 .. Len(Order) /\ Len(queue') = Len(queue) - 1
          /\ Served = Len(Order) - Len(queue) /\ Served' = Served + 1
      BY <1>1, <1>4, HeadTailProperties DEF QueueIsRest, Served
    <2>2. cur' = queue[1] /\ 1 \in 1 .. Len(queue) /\ queue[1] \in Students
      BY <1>1, <2>1
    <2>3. Served < Len(Order) /\ cur' = Order[Served']
      BY <2>1, <2>2 DEF QueueIsRest
    <2>4. Early(cur')
      BY <1>4, <2>2, CompleteFacts DEF QueueInv, Waiting
    <2>5. PracticeConcepts(history[cur']) = << >>
      BY <2>2, <2>4, NoConcepts DEF Early
    <2>6. Answers' = << >> /\ Practising' = cur'
      BY <1>1, <1>4, <2>5 DEF Answers, Practising, Sitting
    <2>7. Session!Start
      BY <1>2, <2>1, <2>3, <2>6 DEF Session!Start, Served, Answers, Practising, Grades
    <2>8. QED
      BY <2>7 DEF Session!Next
  <1>5. QED
    BY <1>1, <1>3, <1>4

\* A final exam is of a graph, which shows the answers, at the size they make.
LEMMA SnapshotIs ==
  ASSUME SessionInv, FinalExam
  PROVE  /\ exams' = [exams EXCEPT ![cur] = Snapshot] /\ DOMAIN exams = Students
         /\ Snapshot # None /\ Snapshot.size = burn_in_size + Rounds
         /\ Shows(Snapshot.graph, cur, history[cur]) /\ HistoryAt(cur, round)
         /\ round = Rounds /\ stage = "practice" /\ stage' = "practice" /\ step = "round"
         /\ step' = "pick" /\ UNCHANGED <<history, queue, cur>>
  <1> USE SessionFacts
  <1>1. /\ exams' = [exams EXCEPT ![cur] = Snapshot] /\ UNCHANGED <<history, stage, queue, cur>>
        /\ round = Rounds /\ step = "round" /\ step' = "pick"
    BY DEF FinalExam, PredictOnNewQuestion, kuVars
  <1>2. stage = "practice" /\ HistoryAt(cur, round) /\ Shows(cache[cur], cur, history[cur])
    BY <1>1, CompleteFacts DEF SittingInv, ShownInv, ShowsNow, InRound
  <1>3. practiceSize[cur] = burn_in_size + Rounds /\ cache[cur] # None
    <2>1. ReadyFor(Size) /\ OwnData
      BY <1>1, CompleteFacts DEF RoundInv, Progress, LeakInv
    <2>2. QED
      BY <1>1, <1>2, <2>1 DEF ReadyFor, GraphSaved, Size, OwnData, Serving
  <1>4. Snapshot \in [graph : Graph, param : Param, size : Nat]
    <2>1. param \in Param /\ cache[cur] \in Graph
      BY <1>3, CompleteFacts DEF EvalTypes, TypeOK, RTTypeOK
    <2>2. practiceSize[cur] \in Nat
      BY CompleteFacts
    <2>3. QED
      BY <2>1, <2>2 DEF Snapshot
  <1>5. Snapshot # None
    BY <1>4, NobodyAssumption
  <1>6. QED
    BY <1>1, <1>2, <1>3, <1>5, CompleteFacts DEF Snapshot, LoopTypeOK

LEMMA ExamGrades ==
  ASSUME SessionInv, FinalExam, WINDOW_SIZE = 0 \/ Rounds <= WINDOW_SIZE
  PROVE  [Session!Next]_Session!vars
  <1> USE SessionFacts
  <1>1. cur \in Students /\ cur # None
    BY CompleteFacts, NobodyAssumption
  <1>2. Practising = cur /\ Practising' = None /\ Answers' = << >> /\ Served' = Served
    BY SnapshotIs DEF Practising, Answers, Served, Sitting
  <1>3. Answers = PracticeConcepts(history[cur])
    BY SnapshotIs DEF Answers, Sitting
  <1>4. Len(Answers) = Rounds /\ GradedOn(Snapshot) = Answers
    <2>1. CASE Rounds = 0
      <3>1. Answers = << >>
        BY <1>3, <2>1, SnapshotIs, SittingConcepts
      <3>2. GradedOn(Snapshot) = << >>
        <4>1. Snapshot.size - burn_in_size = 0
          BY <2>1, SnapshotIs, SizeFacts
        <4>2. QED
          BY <4>1 DEF GradedOn
      <3>3. QED
        BY <2>1, <3>1, <3>2
    <2>2. CASE Rounds # 0
      <3>1. After(history[cur], cur, Rounds)
        BY <2>2, SnapshotIs, SittingConcepts
      <3>2. Len(Answers) = Rounds
        BY <1>1, <1>3, <3>1, ConceptsCount
      <3> DEFINE e == Snapshot
                 h == history[cur]
      <3>3. /\ After(h, cur, Rounds) /\ Shows(e.graph, cur, h)
            /\ e.size = burn_in_size + Rounds
        BY <3>1, SnapshotIs
      <3> HIDE DEF e, h
      <3>4. GradedOn(e) = PracticeConcepts(h)
        BY <1>1, <3>3, GradeShown
      <3>5. QED
        BY <1>3, <3>2, <3>4 DEF e, h
    <2>3. QED
      BY <2>1, <2>2
  <1>5. Grades' = [Grades EXCEPT ![cur] = Answers]
    <2>1. \A s \in Students : exams'[s] = IF s = cur THEN Snapshot ELSE exams[s]
      BY SnapshotIs
    <2>2. {Order[i] : i \in DOMAIN Order} \subseteq Students
      OBVIOUS
    <2> DEFINE All == {Order[i] : i \in DOMAIN Order}
    <2>3. /\ Grades = [s \in All |-> IF exams[s] = None THEN None ELSE GradedOn(exams[s])]
          /\ Grades' = [s \in All |-> IF exams'[s] = None THEN None ELSE GradedOn(exams'[s])]
      BY DEF Grades, GradedOn
    <2> HIDE DEF All
    <2>4. All \subseteq Students /\ Snapshot # None
      BY <2>2, SnapshotIs DEF All
    <2>5. Grades' = [s \in All |-> IF s = cur THEN Answers ELSE Grades[s]]
      BY <1>4, <2>1, <2>3, <2>4
    <2>6. [Grades EXCEPT ![cur] = Answers] = [s \in All |-> IF s = cur THEN Answers ELSE Grades[s]]
      BY <2>3
    <2>7. QED
      BY <2>5, <2>6
  <1>6. Session!Grade
    BY <1>1, <1>2, <1>4, <1>5 DEF Session!Grade, Practising, Answers, Served, Grades
  <1>7. QED
    BY <1>6 DEF Session!Next

\* An update touches the history when it first builds it, and with its answer.
LEMMA HistoryMoves ==
  ASSUME CompleteInv, CallStep
  PROVE  ResolveStudents \/ (Observe /\ IsActual) \/ history' = history
  BY DEF CallStep, OpenStudent, Observe, NothingObserved, Propagate, RunParameterUpdate,
     SaveAssumption, SaveGraph, SaveParam, AppendTempRecords, Return, kuVars

LEMMA UpdateAnswers ==
  ASSUME SessionInv, UpdateStep PROVE [Session!Next]_Session!vars
  <1> USE SessionFacts
  <1>1. /\ CallStep /\ step \in {"valued", "answered"} /\ UNCHANGED loopVars
        /\ UNCHANGED <<stage, step, queue, cur, round, pick, exams>>
        /\ stage = "practice" /\ Sitting /\ Sitting'
        /\ cur \in Students /\ cur # None /\ round < Rounds
    <2>1. /\ CallStep /\ step \in {"valued", "answered"} /\ UNCHANGED loopVars
          /\ UNCHANGED <<stage, step, queue, cur, round, pick, exams>>
      BY DEF UpdateStep, loopVars
    <2>2. stage = "practice" /\ cur \in Students /\ cur # None
      BY <2>1, CompleteFacts, NobodyAssumption DEF InRound
    <2>3. QED
      BY <2>1, <2>2 DEF Sitting, RoundsLeft
  <1>2. CASE history' = history
    BY <1>1, <1>2, SessionRests
  <1>3. CASE ResolveStudents
    <2>1. /\ HistoryAt(cur, round) /\ After(history'[cur], cur, round)
          /\ round # 0 => history'[cur] = history[cur]
      <3>1. /\ After(history'[cur], cur, round)
            /\ round # 0 => history'[cur] = history[cur]
        BY <1>1, <1>3, ResolveKeepsAnswers
      <3>2. call.phase = "resolve"
        BY <1>3 DEF ResolveStudents
      <3>3. HistoryAt(cur, round)
        BY <1>1, <3>2, CompleteFacts DEF SittingInv, AnsweringInv, InRound
      <3>4. QED
        BY <3>1, <3>3
    <2>2. PracticeConcepts(history'[cur]) = PracticeConcepts(history[cur])
      <3>1. CASE round = 0
        BY <1>1, <2>1, <3>1, SittingConcepts, ConceptsCount
      <3>2. CASE round # 0
        BY <2>1, <3>2
      <3>3. QED
        BY <3>1, <3>2
    <2>3. Answers' = Answers
      BY <1>1, <2>2 DEF Answers
    <2>4. QED
      BY <1>1, <2>3, SessionSame DEF Served, Practising, Grades
  <1>4. CASE Observe /\ IsActual
    <2>1. /\ call.phase = "observe" /\ step = "answered" /\ call.sid = cur
          /\ call.obs # << >>
      <3>1. CallsOne /\ CallsOwn
        BY CompleteFacts DEF RoundInv, LeakInv
      <3>2. QED
        BY <1>4, <3>1 DEF Observe, CallsOne, CallsOwn, InCall
    <2>2. /\ call.hist = history[cur] /\ call.obs = <<pick>>
          /\ After(history[cur], cur, round) /\ Shows(call.graph, cur, history[cur])
      BY <2>1, CompleteFacts DEF AnsweringInv, Observing, ShowsNow
    <2>3. pick \in Candidates /\ kcMapping[pick] = pick /\ pick \in KCs
      BY <2>1, CompleteFacts, EvalAssumption DEF LoopTypeOK
    <2>4. Head(call.obs) = pick
      BY <2>2
    <2> DEFINE h == history[cur]
               r == [kc |-> pick, src |-> "practice"]
    <2>5. history' = [history EXCEPT ![cur] = Append(h, r)]
      BY <1>4, <2>1, <2>2, <2>3, <2>4 DEF Observe
    <2>6. history'[cur] = Append(h, r)
      BY <1>1, <2>5, CompleteFacts
    <2>7. After(Append(h, r), cur, round + 1)
      BY <1>1, <2>2, <2>3, AnswerShows
    <2> HIDE DEF h
    <2>8. PracticeConcepts(Append(h, r)) = Append(PracticeConcepts(h), pick)
      BY <1>1, <2>2, <2>3, <2>7, ConceptsAppend DEF h
    <2>9. Len(PracticeConcepts(h)) = round
      BY <1>1, <2>2, ConceptsCount DEF h
    <2>10. /\ Answers = PracticeConcepts(h) /\ Answers' = Append(Answers, pick)
           /\ Practising = cur /\ Practising' = cur /\ Served' = Served /\ Grades' = Grades
      BY <1>1, <2>6, <2>8 DEF Answers, Practising, Served, Grades, h
    <2>11. Session!Answer(pick)
      BY <1>1, <2>9, <2>10 DEF Session!Answer, Answers, Practising, Served, Grades
    <2>12. QED
      BY <2>3, <2>11 DEF Session!Next
  <1>5. QED
    BY <1>1, <1>2, <1>3, <1>4, HistoryMoves

LEMMA SessionStep ==
  ASSUME SessionInv, [EvalNext]_evalVars, WINDOW_SIZE = 0 \/ Rounds <= WINDOW_SIZE
  PROVE  [Session!Next]_Session!vars
  <1> USE SessionFacts
  <1>1. CASE UNCHANGED evalVars
    BY <1>1, SessionSame
    DEF evalVars, vars, kuVars, loopVars, Served, Answers, Practising, Grades, Sitting
  <1>2. CASE LoadBurnIn \/ InitialExam \/ InitialsDone \/ Finish
    <2>1. /\ history' = history /\ exams' = exams
          /\ \/ UNCHANGED <<stage, queue, cur>> /\ step # "pick" /\ step' # "pick"
             \/ ~Sitting /\ ~Sitting' /\ Served' = Served
      <3>1. CASE LoadBurnIn
        <4>1. /\ history' = history /\ exams' = exams /\ UNCHANGED <<queue, cur>>
              /\ step = "load"
          BY <3>1 DEF LoadBurnIn, kuVars
        <4>2. CASE stage = "practice"
          BY <3>1, <4>1, <4>2 DEF LoadBurnIn
        <4>3. CASE stage # "practice"
          <5>1. /\ stage \in {"sample", "initial"} /\ stage' \in {"sample", "initial", "practice"}
                /\ stage' = "practice" => stage = "sample" /\ step' = "pick"
            BY <3>1, <4>3, CompleteFacts DEF LoadBurnIn, LoopTypeOK
          <5>2. QED
            BY <4>1, <5>1 DEF Sitting, Served, QueueIsRest
        <4>4. QED
          BY <4>2, <4>3
      <3>2. CASE InitialExam
        BY <3>2 DEF InitialExam, PredictOnNewQuestion, kuVars, Sitting, Served
      <3>3. CASE InitialsDone
        BY <3>3 DEF InitialsDone, vars, kuVars, Sitting, Served
      <3>4. CASE Finish
        BY <3>4 DEF Finish, vars, kuVars, Sitting, Served
      <3>5. QED
        BY <1>2, <3>1, <3>2, <3>3, <3>4
    <2>2. CASE UNCHANGED <<stage, queue, cur>> /\ step # "pick" /\ step' # "pick"
      BY <2>1, <2>2, SessionRests
    <2>3. CASE ~Sitting /\ ~Sitting' /\ Served' = Served
      BY <2>1, <2>3, SessionSame DEF Answers, Practising, Grades
    <2>4. QED
      BY <2>1, <2>2, <2>3
  <1>3. CASE \/ ChooseBurnIn \/ StartRound \/ AssumeCorrect \/ LoadAssumption \/ RecordAnswer
             \/ EndRound \/ \E k \in Candidates : PredictValue(k) \/ Ask(k)
    <2>1. /\ UNCHANGED <<stage, queue, cur, history, exams>> /\ step # "pick" /\ step' # "pick"
      BY <1>3 DEF ChooseBurnIn, StartRound, AssumeCorrect, LoadAssumption, RecordAnswer,
         EndRound, PredictValue, Ask, Refresh, PredictOnNewQuestion, Begin, vars, kuVars
    <2>2. QED
      BY <2>1, SessionRests
  <1>4. QED
    BY <1>1, <1>2, <1>3, PickStarts, UpdateAnswers, ExamGrades DEF EvalNext, EvalStep, Done

\* As long as no answer leaves the window, the loop is a practice session: one
\* student at a time, each answering its rounds from a fresh start, and graded
\* on exactly the answers of that sitting (_run_for_module of both loops).
\* Its liveness is left to the model checker.
THEOREM LoopIsSession ==
  ASSUME WINDOW_SIZE = 0 \/ Rounds <= WINDOW_SIZE
  PROVE  EvalSpec => Session!Init /\ [][Session!Next]_Session!vars
  <1>1. EvalInit => Session!Init
    <2> SUFFICES ASSUME EvalInit PROVE Session!Init
      OBVIOUS
    <2>1. /\ stage = "sample" /\ exams = [s \in Students |-> None]
      BY DEF EvalInit
    <2>2. {Order[i] : i \in DOMAIN Order} \subseteq Students
      BY EvalAssumption
    <2>3. QED
      BY <2>1, <2>2 DEF Session!Init, Sitting
  <1>2. SessionInv /\ [EvalNext]_evalVars => [Session!Next]_Session!vars
    BY SessionStep
  <1>3. QED
    BY <1>1, <1>2, SessionInvInit, SessionInvStep, PTL DEF EvalSpec
=============================================================================
