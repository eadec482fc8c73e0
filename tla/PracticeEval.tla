---------------------------- MODULE PracticeEval ----------------------------
(***************************************************************************)
(* The evaluation loop (_run_for_module of eval/gen_practice_eval.py and   *)
(* eval/recommender_eval.py) driving the runtime and the updater: sample   *)
(* graph, initial exam of every student, then for each student a clean     *)
(* start at the burn-in size, Rounds practice rounds (an optional value    *)
(* scan of every candidate concept, a question, an answer, an update), and *)
(* a final exam.  Model output, verifier scores and the sampled response   *)
(* are free choices.                                                       *)
(***************************************************************************)
EXTENDS KTUpdate

CONSTANTS
  Order,      \* the sorted student ids, cut to max_students
  Candidates, \* the concepts a practice question may be about
  Rounds      \* practice_rounds

ASSUME EvalAssumption ==
  /\ Order \in Seq(Students) /\ Len(Order) > 0 /\ Order[1] = FirstStudent
  /\ \A i, j \in DOMAIN Order : Order[i] = Order[j] => i = j
  /\ Candidates \subseteq KCs \cap RawKCs
  /\ \A k \in Candidates : kcMapping[k] = k
  /\ Rounds \in Nat
  /\ BURN_IN_SIZE <= burn_in_size
  /\ \A s \in Students : Len(Base[s]) >= burn_in_size

\* What stands for nobody, and for no exam yet, is neither.
ASSUME NobodyAssumption ==
  None \notin Students \cup [graph : Graph, param : Param, size : Nat]

VARIABLES
  stage,    \* "sample", "initial", "practice" or "done"
  step,     \* where the loop body stands
  oracle,   \* whether the recommender scans values before each question
  reuse,    \* whether the initial-exam cache file was found
  queue,    \* students still to serve in this stage
  cur,      \* the student being served
  round,    \* practice rounds completed
  scan,     \* candidates whose value is still to compute
  pick,     \* the concept being valued or asked
  opened,   \* graph and parameters as the round began
  initials, \* what each initial exam was computed from
  exams     \* what each final exam was computed from

loopVars == <<stage, step, oracle, reuse, queue, cur, round, scan, pick,
              opened, initials, exams>>
evalVars == <<vars, loopVars>>

EvalInit ==
  /\ UpdateInit
  /\ stage = "sample" /\ step = "size"
  /\ oracle \in BOOLEAN /\ reuse \in BOOLEAN
  /\ queue = Order /\ cur = FirstStudent
  /\ round = 0 /\ scan = {} /\ pick = None /\ opened = None
  /\ initials = [s \in Students |-> None]
  /\ exams = [s \in Students |-> None]

Snapshot == [graph |-> cache[cur], param |-> param, size |-> practiceSize[cur]]

---------------------------------------------------------------------------
PickStudent ==
  /\ stage \in {"initial", "practice"} /\ step = "pick"
  /\ queue # <<>>
  /\ ClearActualTempGraphs
  /\ cur' = Head(queue) /\ queue' = Tail(queue)
  /\ round' = 0 /\ step' = "size"
  /\ UNCHANGED <<kuVars, call, stage, oracle, reuse, scan, pick, opened,
                 initials, exams>>

ChooseBurnIn ==
  /\ step = "size"
  /\ SetPracticeSize(cur, burn_in_size)
  /\ step' = "load"
  /\ UNCHANGED <<kuVars, call, stage, oracle, reuse, queue, cur, round, scan,
                 pick, opened, initials, exams>>

\* The sample load only finds the leaf concepts; then the initial exams run
\* unless their cache file was found.
LoadBurnIn ==
  /\ step = "load"
  /\ LoadStudentGraph(cur, burn_in_size, TRUE)
  /\ step' = CASE stage = "sample" -> "pick"
               [] stage = "initial" -> "exam"
               [] stage = "practice" -> "round"
  /\ stage' = IF stage = "sample" THEN IF reuse THEN "practice" ELSE "initial"
                                  ELSE stage
  /\ UNCHANGED <<kuVars, call, oracle, reuse, queue, cur, round, scan, pick,
                 opened, initials, exams>>

InitialExam ==
  /\ stage = "initial" /\ step = "exam"
  /\ PredictOnNewQuestion(cur)
  /\ initials' = [initials EXCEPT ![cur] = Snapshot]
  /\ step' = "pick"
  /\ UNCHANGED <<stage, oracle, reuse, queue, cur, round, scan, pick, opened,
                 exams>>

\* As InitialsDone, iterating once more over an exhausted list.
InitialsDoneExhausted ==
  /\ stage = "initial" /\ step = "pick" /\ queue = <<>>
  /\ stage' = "practice"
  /\ UNCHANGED <<vars, step, oracle, reuse, queue, cur, round, scan, pick,
                 opened, initials, exams>>

InitialsDone ==
  /\ stage = "initial" /\ step = "pick" /\ queue = <<>>
  /\ stage' = "practice" /\ queue' = Order
  /\ UNCHANGED <<vars, step, oracle, reuse, cur, round, scan, pick, opened,
                 initials, exams>>

StartRound ==
  /\ step = "round" /\ round < Rounds
  /\ Refresh(cur)
  /\ opened' = [graph |-> cache'[cur], param |-> param', size |-> practiceSize[cur]]
  /\ scan' = IF oracle THEN Candidates ELSE {}
  /\ step' = "scan"
  /\ UNCHANGED <<stage, oracle, reuse, queue, cur, round, pick, initials, exams>>

\* value_fn: a prediction, an assumption update, and the resulting graph
\* loaded back by its path.
PredictValue(k) ==
  /\ step = "scan" /\ k \in scan
  /\ PredictOnNewQuestion(cur)
  /\ pick' = k /\ step' = "value"
  /\ UNCHANGED <<stage, oracle, reuse, queue, cur, round, scan, opened,
                 initials, exams>>

Answer == <<[sid |-> cur, obs |-> <<pick>>]>>

AssumeCorrect ==
  /\ step = "value"
  /\ Begin("assumption", FALSE, Answer)
  /\ step' = "valued"
  /\ UNCHANGED <<stage, oracle, reuse, queue, cur, round, scan, pick, opened,
                 initials, exams>>

LoadAssumption ==
  /\ step = "valued" /\ call.phase = "idle"
  /\ LoadByPath(cur)
  /\ scan' = scan \ {pick} /\ step' = "scan"
  /\ UNCHANGED <<kuVars, call, stage, oracle, reuse, queue, cur, round, pick,
                 opened, initials, exams>>

\* The question (recommended, or generated and classified by the verifier)
\* and the prediction its sampled response is drawn from.
Ask(k) ==
  /\ step = "scan" /\ scan = {}
  /\ PredictOnNewQuestion(cur)
  /\ pick' = k /\ step' = "ask"
  /\ UNCHANGED <<stage, oracle, reuse, queue, cur, round, scan, opened,
                 initials, exams>>

RecordAnswer ==
  /\ step = "ask"
  /\ Begin("actual", FALSE, Answer)
  /\ step' = "answered"
  /\ UNCHANGED <<stage, oracle, reuse, queue, cur, round, scan, pick, opened,
                 initials, exams>>

EndRound ==
  /\ step = "answered" /\ call.phase = "idle"
  /\ round' = round + 1 /\ step' = "round"
  /\ UNCHANGED <<vars, stage, oracle, reuse, queue, cur, scan, pick, opened,
                 initials, exams>>

UpdateStep ==
  /\ step \in {"valued", "answered"}
  /\ CallStep
  /\ UNCHANGED loopVars

\* The exam is scored on the state the last round left; final_step and
\* final_state_path are read from the runtime.
FinalExam ==
  /\ step = "round" /\ round = Rounds
  /\ PredictOnNewQuestion(cur)
  /\ HasGraph(cur, practiceSize[cur])
  /\ exams' = [exams EXCEPT ![cur] = Snapshot]
  /\ step' = "pick"
  /\ UNCHANGED <<stage, oracle, reuse, queue, cur, round, scan, pick, opened,
                 initials>>

Finish ==
  /\ stage = "practice" /\ step = "pick" /\ queue = <<>>
  /\ stage' = "done" /\ step' = "done"
  /\ UNCHANGED <<vars, oracle, reuse, queue, cur, round, scan, pick, opened,
                 initials, exams>>

Done == stage = "done" /\ UNCHANGED evalVars

EvalStep ==
  \/ PickStudent \/ ChooseBurnIn \/ LoadBurnIn \/ InitialExam \/ InitialsDone
  \/ StartRound \/ AssumeCorrect \/ LoadAssumption \/ RecordAnswer \/ EndRound
  \/ UpdateStep \/ FinalExam \/ Finish
  \/ \E k \in Candidates : PredictValue(k) \/ Ask(k)

EvalNext == EvalStep \/ Done

EvalSpec == EvalInit /\ [][EvalNext]_evalVars /\ WF_evalVars(EvalStep)

---------------------------------------------------------------------------
\* No student's answers reach another student's results, although one runtime,
\* with one parameter graph, serves all of them: an initial exam sees what EM
\* estimated, an update and a final exam at most the student's own answers
\* (clear_actual_temp_graphs, then the refreshing load at the burn-in size).
NoLeak ==
  /\ \A s \in Students : initials[s] # None =>
       /\ initials[s].size = burn_in_size
       /\ initials[s].graph = DatasetGraph(s, burn_in_size)
       /\ initials[s].param = DatasetParam(SharedKey)
  /\ \A s \in Students : exams[s] # None =>
       exams[s].graph.lin \cup exams[s].param.lin \subseteq {s}
  /\ call.phase = "observe" =>
       call.graph.lin \cup call.param.lin \subseteq {cur}

\* The window of a list: all of it, or as many of the latest as it holds.
LatestOf(window, list) ==
  /\ window \subseteq list
  /\ WINDOW_SIZE = 0 => window = list
  /\ WINDOW_SIZE > 0 => Cardinality(window) = Lesser(WINDOW_SIZE, Cardinality(list))
  /\ \A r \in list \ window, q \in window : r.at < q.at

\* A final exam is predicted from the burn-in records and all the answers of
\* the sitting, each once and in its place, whatever the scans computed in
\* between: every concept on a path from an answered one has its (windowed)
\* records, the others what EM gave them.  (The first update of a student builds
\* the history, so without a round there may be none.)
EvidenceComplete ==
  \A s \in Students : exams[s] # None =>
    LET h == IF Rounds = 0 THEN BaseHistory(s, burn_in_size) ELSE history[s]
        answered == {h[i].kc : i \in burn_in_size + 1..Len(h)}
    IN  /\ exams[s].size = burn_in_size + Rounds
        /\ Len(h) = burn_in_size + Rounds
        /\ SubSeq(h, 1, burn_in_size) = BaseHistory(s, burn_in_size)
        /\ \A i \in burn_in_size + 1..Len(h) : h[i].src = "practice"
        /\ \A k \in KCs :
             IF \E j \in answered : k \in PathToRoot[j]
               THEN LatestOf(exams[s].graph.ev[k], ForKC(h, k))
               ELSE exams[s].graph.ev[k] = ForKC(BaseHistory(s, burn_in_size), k)

\* Every candidate of a scan is valued from the state the round began with,
\* and the answer is recorded on that same state: an assumption update
\* followed by a load of its result changes nothing the next one reads.
ScanFromSameState ==
  call.phase = "observe" =>
    [graph |-> call.graph, param |-> call.param, size |-> call.size] = opened

\* A round begins from what the round before it saved: the right size, and
\* once an answer is recorded, parameters of this student and size that were
\* estimated here, not a file of the same name from the dataset.
RoundsBuildOnEachOther ==
  step = "scan" =>
    /\ opened.size = burn_in_size + round
    /\ IF round = 0 THEN opened.param = DatasetParam(SharedKey)
       ELSE /\ opened.param = [own |-> cur, size |-> opened.size, lin |-> {cur}]
            /\ opened.graph.lin = {cur}

\* The loop implements the session it is written for, failures aside: one
\* student at a time, from a fresh start, graded on exactly the answers given.
Sitting == stage = "practice" /\ step # "pick"
PracticeConcepts(h) ==
  LET n == Cardinality({i \in DOMAIN h : h[i].src = "practice"})
  IN  [i \in 1..n |-> h[Len(h) - n + i].kc]
GradedOn(e) ==
  [i \in 1..(e.size - burn_in_size) |->
     CHOOSE k \in KCs : [at |-> burn_in_size + i, src |-> "practice"] \in e.graph.ev[k]]

Session == INSTANCE PracticeSession WITH
  KCs <- Candidates,
  student <- IF Sitting THEN cur ELSE None,
  answers <- IF Sitting THEN PracticeConcepts(history[cur]) ELSE <<>>,
  served <- IF stage \in {"practice", "done"} THEN Len(Order) - Len(queue) ELSE 0,
  grades <- [s \in {Order[i] : i \in DOMAIN Order} |->
               IF exams[s] = None THEN None ELSE GradedOn(exams[s])]

ImplementsSession == Session!Spec

\* Every student is examined in the end: no load, prediction or update of the
\* loop raises, and none leaves it waiting.
EveryStudentGraded == \A i \in DOMAIN Order : <>(exams[Order[i]] # None)

---------------------------------------------------------------------------
\* What a comment of the code says, and the code does not do.

\* update.py:632, "train_sizes records the true accumulated total": the size
\* recorded for a student is at most the records there are of that student.
TrainSizeIsTotal ==
  call.phase = "save" => trainSize[cur] <= Len(call.hist)
===========================================================================
