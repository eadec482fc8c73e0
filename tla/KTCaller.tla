------------------------------ MODULE KTCaller ------------------------------
(***************************************************************************)
(* The runtime and the updater in the hands of a caller that makes any of  *)
(* their calls in any order and goes on after an exception: what the       *)
(* components promise by themselves, without the discipline of the         *)
(* evaluation loop (PracticeEval).                                         *)
(***************************************************************************)
EXTENDS KTUpdate

CONSTANTS
  MaxObs,     \* observations per student and call
  MaxTodo,    \* students per call
  MaxUpdates, \* updates in one behaviour: bounds the state space
  MaxSizeAsked  \* largest practice size the caller asks for

VARIABLE updates \* update calls made so far

callerVars == <<vars, updates>>

ObsLists == UNION {[1..n -> RawKCs] : n \in 1..MaxObs}
Items == [sid : Students, obs : ObsLists]
Todos == {t \in UNION {[1..n -> Items] : n \in 1..MaxTodo} :
            \A i, j \in DOMAIN t : t[i].sid = t[j].sid => i = j}

Init == UpdateInit /\ updates = 0

Update(mode, reset, todo) ==
  /\ updates < MaxUpdates
  /\ updates' = updates + 1
  /\ Begin(mode, reset, todo)

BetweenUpdates ==
  \/ \E s \in Students : \/ PredictOnNewQuestion(s) \/ Refresh(s)
                         \/ \E n \in 0..MaxSizeAsked : ChooseSize(s, n)
  \/ Clear

Next ==
  \/ \E mode \in {"actual", "assumption"}, reset \in BOOLEAN, todo \in Todos :
       Update(mode, reset, todo)
  \/ (BetweenUpdates \/ CallStep \/ Raise) /\ UNCHANGED updates

Spec == Init /\ [][Next]_callerVars

---------------------------------------------------------------------------
\* Every variable keeps its shape through every order of calls, the caches,
\* files and lists of kt/runtime.py and kt/update.py together.
TypeOK == RTTypeOK /\ KUTypeOK

\* Whatever the order of calls and wherever an exception leaves one, the
\* transient directories hold no file of burn-in size (which would shadow the
\* shared burn-in parameters or a dataset graph for every later student), no
\* parameters without the student graph saved before them, and under each name
\* the parameters of that student and size: the two saves at the end of
\* one_step_update_all and the clamp of set_practice_size.
ActualFilesConsistent ==
  /\ \A k \in DOMAIN actualGraph : k[2] > burn_in_size
  /\ \A k \in DOMAIN actualParam :
       /\ k \in DOMAIN actualGraph
       /\ actualParam[k].own = k[1] /\ actualParam[k].size = k[2]

PracticeCount(h, k) == Cardinality({i \in DOMAIN h : h[i] = [kc |-> k, src |-> "practice"]})

\* The three places that remember practice answers are filled one after the
\* other and reset together: the temp recordings never hold an answer the extra
\* records lack, nor those one the question history lacks, even when an
\* exception falls between two of them (one_step_update_all).
AnswersFlowDown ==
  \A s \in Students, k \in KCs :
    /\ PracticeCount(extras[s], k) <= PracticeCount(history[s], k)
    /\ tempRecords # None =>
         PracticeCount(tempRecords[s], k) <= PracticeCount(extras[s], k)

IsPrefixOf(g, h) == Len(g) <= Len(h) /\ \A i \in DOMAIN g : g[i] = h[i]

\* Between two resets a question history only grows at its end: _ensure_history
\* never drops or reorders what an update appended, whatever practice size the
\* caller chose meanwhile.
HistoryNeverRewritten ==
  [][\/ history' = NoRecords
     \/ \A s \in Students : IsPrefixOf(history[s], history'[s])]_callerVars

\* Once its students are resolved, an assumption update leaves alone every
\* file, practice size, history and record list, and every graph the cache
\* already held: the copies taken at update.py:142-149 cover all it writes to.
AssumptionIsolation ==
  [][call.mode = "assumption" /\ call.phase \notin {"idle", "resolve"} =>
       /\ UNCHANGED <<practiceSize, canonPath, actualGraph, actualParam,
                      history, extras, tempRecords>>
       /\ \A s \in Students : cache[s] # None => cache'[s] = cache[s]]_callerVars
===========================================================================
