# A verification of the practice loop, its knowledge tracing and the training it feeds

The program (`src/EQG_Codes`) evaluates question generators and recommenders for
simulated students. A student's knowledge is a graph of concepts with
posteriors, traced by an EM-trained hidden model; in a practice session the
system picks or generates a question, draws the student's response from the
predicted probability, updates the student's graph, and in the end gives an
exam. What a run reports is the difference between exams, so the report is only
worth something if every exam is computed from exactly the right evidence:
this student's burn-in records and this student's answers in this session,
nothing of another student, of a hypothetical answer or of an earlier session.

That evidence lives in one mutable holder (`KTRuntime`), in lists attached to
it, and in files of two directories, and is touched by loads that are cached
under a coarser key than the files, by in-place updates, and by cleanups. The
modules here model those states and their flow; the numbers are abstracted to
where they come from.

The generators are trained by the framework in `src/verl`: the launcher
(`src/scripts/train_stage1b_8b_fsdp.sh`) starts its synchronous PPO trainer, and
beside it the tree has a fully asynchronous trainer. Of that framework the two
parts with hard control are modelled: the checkpoints of the synchronous
trainer, over crashes and restarts, and the coroutines, queue, locks and weight
synchronization of the asynchronous one.

Paths below are relative to `src/EQG_Codes`, those that begin with `verl/` or
`recipe/` to `src/verl`.

## 1. The system

| Component | State | Operations | Behaviours that are hard | What makes it correct |
|---|---|---|---|---|
| KT runtime, `kt/runtime.py` | practice size per student, one cached graph per student, the parameter graph with its path and canonical path, the transient directories `*_actual` | load (by id, by path), save graph, save parameters, choose size, clear | cache keyed by student and not by size; parameters that follow the last load; files that shadow the dataset's | each load returns what was saved last for that student and size; a clear brings the dataset's state back |
| KT update, `kt/update.py` | question histories, extra records, train sizes, active students | `one_step_update_all` in "actual" and "assumption" mode | in-place work on the runtime's objects; an exception after any step; lazily built histories | an actual update counts each answer once and saves what it computed; an assumption update leaves no trace |
| Prediction, `kt/predict.py` | none of its own | `predict_on_new_question` | loads through the cache | reads the state the last update left |
| Data cache, `kt/KT2/module/data_cache.py` | record cache, temp recordings on disk | initialise, append, reset, change of path | failing writes; restart over an existing temp file; copies in memory | the file holds every answer that was given, in order, and none that was not |
| E-step, `kt/KT2/EM/E_Step.py`, `kt/KT2/KT/graph_update.py` | messages and posteriors of a graph | full and incremental upward-downward pass | work lists in set order; division of messages | each posterior counts each record of the tree once |
| M-step and calibration, `kt/KT2/EM/M_Step.py`, `kt/KT2/module/calibration.py` | parameters | estimate, clamp | order of difficulties at the clamps | difficulties stay ordered |
| EM training, `kt/KT2/EM/EM.py`; offline tracing, `kt/KT2/KT/KT.py` | graphs and parameters per step | iterate, early stop, save | a sequential batch program | produces the dataset graphs |
| Concept tree, `kt/KC_tree/` | children, parents and question counts | build, prune, cut a subtree | pruning in hash order | a forest; every question finds its concept |
| Practice evaluation, `eval/gen_practice_eval.py` | loop position, per-student results | initial exam, rounds, final exam | one runtime for all students | exams as described above |
| Recommender evaluation, `eval/recommender_eval.py` | the same, and the shared exam files | the same, with recommenders | processes that share files without a lock | initial and final exam on the same questions |
| Value function, `value/value_fn.py` | none of its own | predict, assume, load the result | called for every concept inside a round | leaves the round's state alone |
| Recommenders, `eval/recommenders/` | none | choose a concept | prompts | - |
| Verifier, `verifier/` | classifier, training loop | train, infer | early stopping | - |
| Generator training, `verl_bridge/` | datasets, reward | build prompts, score answers | the reward's many early returns | - |
| Baselines, answerability check, configuration, prompts, model wrapper, `rl/simple_loop.py`, launcher scripts | - | - | - | - |
| PPO trainer, `verl/trainer/ppo/ray_trainer.py`, `verl/utils/checkpoint/` | steps, weights of every rank, dataloader position; checkpoint folders and the tracker file | step, save, remove old checkpoints, resume | crashes between any two writes; ranks that write at different times; several launches in one directory | a tracked checkpoint is whole; every batch is trained on once and in order |
| Fully asynchronous training, `recipe/fully_async_policy/` | the rollouter's queues, tasks, flags and counters; the message queue; the trainer's loop; the weights on the servers | feed, generate, put aside, consume, pause, synchronize, resume, train | six coroutines on one event loop, a lock with a condition, cancelled generations, calls that are not waited for | no sample lost or doubled, samples of bounded age, everybody ends |
| the rest of `src/verl` | model engines, kernels, other recipes and trainers | - | - | - |

How they interact: the evaluation loops call the runtime (size, load, clear),
the predictor and the updater; the value function calls the same predictor and
updater from inside a round; the updater calls the E-step, the calibration and
the M-step on the graph objects the runtime caches, then the runtime's saves,
then the data cache. Everything inside an evaluation process is sequential:
there are no threads. The difficulty is in the *sequences* of calls and in what
an exception leaves behind. Between processes the only shared state is the pair
of exam files and the folders named after them, and the temp file of a path;
there the difficulty is in overlap, death and restart. Evaluation and training
meet only in files made before (a trained model, graphs that become prompts), so
their models are not composed. In training the actors do meet: trainer and
rollouter share the message queue, and the synchronizer calls into both.

## 2. Modules

| Module | Models | Composed with |
|---|---|---|
| `KTRuntime` | class `KTRuntime` | extended by `KTUpdate` |
| `KTUpdate` | `one_step_update_all` as steps an exception can leave, `predict_on_new_question`, temp recordings | extended by `KTCaller` and `PracticeEval` |
| `KTCaller` | a caller that makes any call in any order and goes on after exceptions | - |
| `PracticeEval` | the two `_run_for_module` loops with the value function | implements `PracticeSession` |
| `PracticeSession` | abstract: one student at a time, `Rounds` answers, graded on exactly those | - |
| `EStep` | `e_step` and `update_e_step` on one graph | - |
| `KCTreePrune` | `prune_graph` | - |
| `SharedExams` | the shared exam set and initial exams, for any number of processes | - |
| `TempRecordings` | the temp file of `data_cache.py` and the copies a process keeps of it, over failures and restarts | - |
| `AsyncRollouter` | `FullyAsyncRollouter` with its coroutines, the servers, the `MessageQueue` | extended by `FullyAsync` |
| `FullyAsync` | the trainer and the synchronizer, composed with the rollouter | implements `SampleStream` |
| `SampleStream` | abstract: each sample moves forward through its stages; batches of bounded age | - |
| `PPOTrainer` | `RayPPOTrainer.fit`, its checkpoints on every rank, crashes and launches | implements `DurableTraining` |
| `DurableTraining` | abstract: a checkpoint makes all training so far durable at once; a crash takes it back to that | - |
| `KTCallerProofs`, `PracticeEvalProofs`, `EStepProofs`, `KCTreePruneProofs`, `SharedExamsProofs`, `TempRecordingsProofs`, `FullyAsyncProofs`, `PPOTrainerProofs` | theorems | extend the module they are about (`PracticeEvalProofs` extends `KTCallerProofs`, whose lemmas are about the operations and not about who calls them) |
| `MC*` | instances for TLC | extend one module each |

### KTRuntime and KTUpdate

*State.* A variable per field: `practiceSize` is `_practice_size_map`, `cache`
`_student_cache`, `param`, `paramPath`, `canonPath` are `param_graph`,
`param_path` and `_param_canonical_path`; `actualGraph` and `actualParam` are the
files of the two transient directories, functions from `<<owner, size>>`. The
scan of the dataset, which never changes while the program runs, is the constants
`DatasetSizes` and `DatasetParams`. `history`, `extras`, `trainSize` and `active`
are the attributes `update.py` hangs on the runtime; `tempRecords` is the temp
file; `call` holds the locals of the update in progress.

*Data.* A student graph is the evidence its posteriors were computed from (per
concept, the positions of the records used and where each came from) and `lin`,
the students whose practice answers reached it, through the graph or through the
parameters. A parameter graph is the student and size it was estimated for and
the same `lin`. So the model can tell a stale graph from a fresh one, a missing or
repeated record, and a leak from another student, and nothing else.

*Steps.* `Begin` (with the optional reset), `ResolveStudents`, `OpenStudent`
(parameters read *before* the load that may realign them, as in the code),
`Observe` per observation, `Propagate` (E-step), `RunParameterUpdate`,
`SaveGraph`, `SaveParam`, `AppendTempRecords`, `Return`. `Raise` may leave the call
between any two of them, with nothing rolled back. In actual mode the working
graph, parameters and history *are* the runtime's: `call.shared` says whether the
parameter object read is still the runtime's after the load.

*Details taken from the code.* The window is off for values up to 0 (the shipped
configuration has -1); the model writes 0 for off. Assumption results go to files
tagged with a fresh id that nothing finds by name, so they are not state. Temp
recordings are kept by all callers (the default), although a docstring
(`kt/update.py:90`) has evaluations pass False. The temp file is absent at the
start, because every run has a path of its own. The shared burn-in parameter file
is assumed present. Observation lists have one element in all callers and in the
runs. An unknown concept is dropped, as in the code. A `FileNotFoundError` for one
student rejects the whole call before anything is changed, apart from a reset.

### PracticeEval and PracticeSession

`PracticeEval` drives the updater: the sample load, then one initial exam per
student unless its cache file was found (`reuse`), then for each student clear,
burn-in size, refreshing load, `Rounds` rounds and the final exam. A round
refreshes, optionally scans every candidate concept by the value function
(`oracle`), asks, and records the answer. Everything a model, a verifier or a
random draw decides is a free choice: which concept, in which order the scan
goes, which other students are sampled for the parameter pool. The two evaluation
programs share this control; they differ in who chooses the concept. No step can
raise in this loop unless a load finds no file, which `EveryStudentGraded` and
the deadlock check exclude, so `Raise` is not part of it. An "always correct"
response mode skips one prediction that leaves the state alone there.

`PracticeSession` has four variables and no files: a student starts, answers
`Rounds` questions, is graded on exactly these. The refinement mapping reads the
answers from the *practice part of the history* and the grade from the *evidence
of the graph the exam used*, so a grade that missed, repeated or reordered an
answer would not be a step of it.

### EStep

A message is the set of factors it is a product of (a concept with its number of
records); multiplication is union and the division of the downward pass is set
difference, exact as long as the divisor is a part of the product, which is what
the properties are about. `VisitUp` takes nodes in any order, since the code's
list goes through `set`. A full E-step may recompute a node and puts a node back
while a child is missing; the incremental one goes from the changed concept to the
root, once for each updated concept, then everything downwards. The parameters
are fixed: in the program each update also re-estimates them, and the messages
off the path keep the old ones; how far that drifts is numeric and out of scope.
`ForestAssumption` says that no concept is below itself: the walks from a concept to
its root (`kt/KT2/KT/KT.py:228`, `kt/predict.py:24`) and `e_step` itself would not end.
`Above` is the concepts from a concept up to its root, `TreeOf` those that share one
of these with it; `EvidenceOnce` is stated with them.

### KCTreePrune

The four phases of `prune_graph`: one parent each, remove empty concepts, merge
small leaves round by round, flatten the mapping. The order of the leaves is any,
since they come from a set of strings. The assertions of the code send the
model to "raised", from where it cannot go on: `PruneEnds` and the deadlock check
show that it is never reached. Nothing in the repository calls this module; its
output, the pruned graph and its `merged_mapping.json`, is what the rest reads. A
graph may have cycles, as the files it is built from may; the child and parent lists
agree, as `convert_to_graph` fills both.

### SharedExams

Per process: name the result folder after the exam set that is there, look for it
again, choose and write one if it is missing or made of placeholders, look for the
initial exams of *that* set, write them if missing, evaluate. A file is truncated
at its open and complete at its dump; two writers may leave a mixture
(`crossed`), and a process may die anywhere. `overlapped` remembers whether two
processes have ever run at once. Placeholder sets are assumed to have the size of
the file's name. A process that reads a torn file raises, as `json.load` does; the
file stays torn until somebody deletes it, which is not modelled.

### TempRecordings

A dataset is a function from students to sequences of records. `files` has the
dataset of each path's temp file, `cached` is `_temp_dataset_cache`, `datas` is
`global_datas`, `path` the configured path. An append is two actions, because the
write of the new file may fail (`AppendFails`) or the process die (`Restart`) in
between: `AppendBegins` finds or makes the dataset and extends a copy of it,
`AppendEnds` is `os.replace` with what follows. `SetPath` is what an evaluation does
before and after its run. `answers` and `kept` are histories. Left out: the `.tmp`
file, which nobody reads, a temp file that does not parse, and two processes on one
path (each would overwrite the other's appends; every evaluation has a path of its
own).

### AsyncRollouter, FullyAsync and SampleStream

*The event loop.* The rollouter is one asyncio actor. A coroutine gives the loop up
only where an `await` really waits, so an action is one stretch between two waits;
only the processor does several steps of the model in one stretch, and `busy` says
that it has the loop. `lockq` is the `asyncio.Lock`, first come, first served, with
the holder in front; a coroutine to which the lock has been handed runs before a
new call of another actor gets in (`HandedOver`). `lk` is the processor's wait for
the lock, for a task or on the condition.

*Coroutines.* `FeedSamples` is `_feed_samples`; the `Processor*` actions are
`_processor_worker` (`at` is its place); `TaskCancelled` and `TaskCompletes` are
`_process_single_sample_streaming`; `ConsumerTakes` and `QueueReceives` are
`_consumer_worker` and the queue's `put_sample`; `Main*` is
`_streaming_generation_main`; `Monitor*` is `_async_monitor_loop`. `Pause*`,
`Update*` and `Resume*` are the calls of the synchronizer; `update_param_version`
awaits the queue's size between the reading of its own counters and the
writing of `staleness_samples`, so it is two actions and `counted` is what it read
before. The calls to the queue's actor may overtake each other: Ray promises no order
among the calls of an asyncio actor (`message_queue.py:26`). So a sample the consumer
puts after that reading may be in the size that arrives. The trainer blocks on the queue and on `pause`; `update` and `resume` are
called and not waited for. `dropped`, `trained`, `left`, `born` and `weights` are
histories or stand for contents.

*Left out:* generation that raises, the contents of samples, the trainer's own
checkpoints, metrics. The monitor's look at `running` is part of `MonitorEnds`. A
resume without partial rollout does not wait. In the message queue `End` stands for
the `None` the rollouter puts at its end.

*Refinement.* A sample is waiting, rolling (until its generation ends, however often
it is cut), ready, picked, trained or gone. `SampleStream` lets a batch have exactly
the required number of samples, each started at most `Gap` versions ago; `MaxGap`
gives it 0 in synchronous mode, no bound with partial rollout, since a generation
that was cut keeps the version it first started with, and otherwise the number of
versions that fit into the samples under way, and two. Neither of the two is for
nothing: the trainer may go through a version before `update_param_version` counts
again, and the monitor can lift the pause between the end of `pause` and the transfer,
so that a generation of the old weights ends after those of the new. The number of
versions alone is exceeded in a simulation with one sample per version,
`max_required_samples = 2` and ten samples; whether the second of the two is ever
reached is open. With the four samples of the run the bound bites in synchronous mode
only, for the others it is the theorem of section 4 that shows it.

### PPOTrainer and DurableTraining

What workers learned is the sequence of batches they were updated with, each tagged
with the launch that rolled it out. `shards[role][step][rank]` is the content of a
rank's files, `folders` the step folders, `data` the dataloader's `data.pt`,
`tracker` the `latest_checkpointed_iteration.txt` with `Empty` between truncation
and write. `Launch` is the start of `fit` with `_load_checkpoint`; a launch that
would raise is a step that changes nothing. `NextBatch`, `UpdateCritic`,
`UpdateActor` and `Advance` are a step; `RemovePrevious`, `WriteShard(r)` in any order
of the ranks, `RoleSaved`, `SaveData`, `OpenTracker`, `WriteTracker` are
`_save_checkpoint` for the actor and then the critic. `Crash` loses the processes
anywhere. `durable` is a history.

A rank's shard write, a removal of a folder and `data.pt` are one step each. Left
out: generation, log probabilities, rewards and advantages (nothing of them
outlives the step), validation, remote directories, `del_local_after_load`,
`resume_path`, offloading and adapters. The stateful dataloader is a library: its
state is its position in the epoch.

## 3. Runs

| Run | Instance | Question |
|---|---|---|
| `caller` | 2 students, 2 concepts and a name that maps to none, 2 updates of up to 2 students, sizes up to 2 | do files, lists and copies stay consistent in any order of calls and exceptions? |
| `eval` | 3 students, 2 served, 3 rounds, burn-in 1, root with 2 leaves, window of 3 records | is every exam computed from exactly the right evidence, does the loop implement the session and end? |
| `eval_total` | the same | one statement of a comment (section 6) |
| `estep` | all forests of 4 concepts, up to 2 records each, up to 2 concepts per update | do both E-steps end, with every record counted once, in every order? |
| `prune` | all graphs of 5 concepts with 1 or 2 parents each, 0 to 2 questions, limit 1 | is the result a forest in which every question finds its concept? |
| `shared_exams` | 3 processes, 4 exam sets | do the processes compare exams on the same questions? |
| `temp_recordings` | 2 students, one of them tested, 2 paths, 4 answers | is every answer kept, and does memory follow the file? |
| `async` | 4 samples, 8 configurations | are samples kept, few and fresh, do weights follow, do runs end? |
| `async_hang`, `async_lost` | the same | two statements of the recipe's README (section 6) |
| `ppo` | 7 steps, 3 launches, 2 ranks, 7 configurations | is what is tracked loadable, every batch trained once, the disk bounded? |
| `ckpt` | the same | one statement of the documentation (section 6) |

The properties, and what would break them:

* `TypeOK` (of `KTCaller`, `TempRecordings`, `FullyAsync`, `PPOTrainer`) and `ETypeOK`:
  one type invariant per state machine whose shape is not already in another
  property. `PracticeEval` has the types of `KTUpdate`, proved for it in
  `PracticeEvalProofs`; `SharedTypeOK` is proved.
* `ActualFilesConsistent`: a file of burn-in size in a transient directory would
  shadow the shared starting point of all students; parameters without their
  graph, or under another name, would be loaded with the wrong student.
* `AnswersFlowDown`: the temp file holds no answer the extra records lack, nor
  these one the history lacks, at every exception.
* `HistoryNeverRewritten`: between resets a history is only appended to, whatever
  sizes are chosen in between.
* `AssumptionIsolation`: a missing copy would show as a changed cache entry or
  history under an assumption call.
* `NoLeak`: initial exams see the dataset only; final exams and updates at most
  the student's own answers.
* `EvidenceComplete`: the exam's evidence, concept by concept, within the window.
* `ScanFromSameState`: valuing many concepts in a row does not change what the
  later ones, or the answer, are computed from.
* `RoundsBuildOnEachOther`: a round starts from the file the last one saved, even
  where the dataset has a file of the same name.
* `ImplementsSession`, `EveryStudentGraded`: refinement and liveness.
* `NotedIsFinal`, `EvidenceOnce`, `EStepEnds`: a node noted as updated is final, no
  record is missed or counted twice, the work lists run empty.
* `PrunedIsForest`, `QuestionsResolve`, `PruneEnds`; `LargeGoWithChildren`: a concept
  above the limit is merged away only after its children, with their questions.
* `InitialOfOwnExam`, `NamedForItsExam`, `ExamSettles`, `SameExamForAll`: across
  processes, with the first three under any overlap and death.
* `AnswersKept`, `FreshBaseline`, `CacheIsTheFile`: a lost, repeated or phantom
  answer in the temp file; records beyond the burn-in, or from before a reset, in a
  new one; a copy in memory that is not the file. `FreshBaseline` is about a single
  path: with two, see section 6.
* `OnePlace`: a sample lost at a cancellation, taken twice, or in two queues.
* `OutstandingBound`: more samples under way than the staleness threshold permits,
  but for two the counter cannot see.
* `SynchronousMode`: with threshold 0 nothing is dropped, nothing is generated
  during a transfer, and a batch has the current weights' samples only.
* `WeightsFollow`: servers that keep old weights after a synchronization.
* `TrainingEnds`, `ImplementsStream`: the refinement, and liveness with the settings of
  `Paced`: synchronous, or without partial rollout and with a maximum above three times
  what a version can lack when it lacks all but one sample. `update_param_version` counts
  a sample up to three times, so with a smaller maximum a run can hang (section 6); with
  partial rollout it can hang as in `async_hang`.
* `TrackedLoadable`: a tracker that names a checkpoint removed or not yet whole, if
  at least two are kept and every launch resumes.
* `TrainedInOrder`: a batch skipped or repeated over a restart, ranks or roles that
  resume from different steps.
* `DiskBound`, `TrainingEnds`, `ImplementsDurable`: removal of what was saved; a run
  that cannot be brought to its end; the refinement.

### Bounds

Every bound is a constant of a cfg. *caller*: `MaxUpdates = 2` is the least with
which an update works on what another left (in the same or another mode, of the
same or another student, after an exception); `MaxTodo = 2` gives two students in
one call; `MaxSizeAsked = 2` reaches sizes below, at and above the burn-in size and
a size without a file. One student has a second dataset size, so the practice
size it starts at is not the burn-in size. *eval*: three rounds let a round build
on a file a round saved, twice, and with the burn-in record make four records, one
more than the window; two served students give a leak from one to the
next; the third is only in the pool, of which one is sampled; the first student
has dataset files of the size its first answer reaches, the collision
`RoundsBuildOnEachOther` is about. *estep*: four nodes give chains of length
four, forks under forks, several trees, and updates of concepts on a common and on
separate paths; five nodes with one record each were run as well (1.1 million
states, no error). *prune*: five concepts give merges into a sibling, into a
parent, chains of merges, and concepts that lose a parent; counts 0, 1, 2 are
none, at the limit, above it (241,791 states). *shared_exams*: a third process reads
what two have written over each other; the four sets are two of the size asked for,
one of another size and one of placeholders. *temp_recordings*: four answers let a
file be created, reset, created again and extended; the student who is not tested
has no limit of its own. *async*: four samples fill every queue and leave some for
two more synchronizations; the configurations are threshold 0 with and without
partial rollout, batches of two, two local steps per synchronization, threshold
above 0 with and without partial rollout, a maximum that is no multiple of a batch and
one above three times a batch less one, validation every version and every second one,
a pending queue smaller than the samples (197,302 states). *ppo*: two launches after the first
let a resumed run crash and resume again; two ranks write in any order; the
configurations are the launcher's settings on four steps, a critic with warm-up,
one kept checkpoint, no resuming, both modes, an instance that expires, and a total
beyond the epochs (26,698 states).

### Fairness and deadlock

`EvalSpec`, `PruneSpec` and `ESpec` have weak fairness of their own steps: the
loops are single-threaded and never wait for anything but themselves, so fairness
says that the process keeps running. In `ESpec` the arrival of new records is not
fair. `PracticeSession` has weak fairness of its next step, which the refinement
shows the loop to provide. `FullyAsync` has weak fairness per coroutine, of the
synchronizer's calls and of the trainer: an event loop runs every coroutine that can
go on, the servers answer every request, and the trainer's thread runs. Nothing is
assumed of which of two enabled coroutines is first, so no hang is assumed away.
`PPOTrainer` is fair to `Fit` and `Launch`: the job runs and is launched again after
a crash; crashes are not fair, and bounded. `KTCaller`, `SharedExams` and
`TempRecordings` have none, and no liveness is claimed: callers may stop and
processes die. The runs check for deadlock, where the terminal states (`Done`,
`Finished`, `AllEnded`) stutter explicitly, except those of `FullyAsync` and
`PPOTrainer`: there a run really ends, hangs or is stuck, which `TrainingEnds`,
`EveryRunEnds` and `ResumesAutomatically` are about.

## 4. Proofs

TLAPS proves the following for all values of the constants: any number of
students, concepts, records, rounds, calls, nodes, processes, exam sets, samples,
configurations, ranks, steps and launches.

| Module | Theorem | Statement |
|---|---|---|
| `KTCallerProofs` | `TypeCorrect` | `Spec => []TypeOK` |
| | `FilesConsistent` | `Spec => []ActualFilesConsistent` |
| | `AssumptionIsolated` | `Spec => AssumptionIsolation` |
| | `HistoryOnlyGrows` | `Spec => HistoryNeverRewritten` |
| | `AnswersFlow` | `Spec => []AnswersFlowDown` |
| `PracticeEvalProofs` | `StudentsKeptApart` | `EvalSpec => []NoLeak` |
| | `ScansStartAlike` | `EvalSpec => []ScanFromSameState` |
| | `RoundsBuild` | `EvalSpec => []RoundsBuildOnEachOther` |
| | `ExamsComplete` | `EvalSpec => []EvidenceComplete` |
| | `LoopIsSession` | if no answer leaves the window, `EvalSpec => Session!Init /\ [][Session!Next]_Session!vars` |
| `EStepProofs` | `EStepTypeCorrect` | `ESpec => []ETypeOK` |
| | `NotedFinal` | `ESpec => []NotedIsFinal` |
| | `SecondComputeChangesNothing` | `ESpec => SecondComputeIdle` |
| | `EvidenceCountedOnce` | `ESpec => []EvidenceOnce` |
| | `FullPassNeverStalls` | `ESpec => []FullPassProceeds` |
| `KCTreePruneProofs` | `LeavesForest` | `PruneSpec => []PrunedIsForest` |
| | `AssertionsHold` | `PruneSpec => [](phase # "raised")` |
| | `NoQuestionLost` | `PruneSpec => []QuestionsResolve` |
| | `LargeGoLast` | `PruneSpec => []LargeGoWithChildren` |
| `SharedExamsProofs` | `SharedTypeCorrect` | `SharedSpec => []SharedTypeOK` |
| | `InitialIsOwn` | `SharedSpec => []InitialOfOwnExam` |
| | `NamedRight` | `SharedSpec => []NamedForItsExam` |
| | `SettledStays` | `SharedSpec => ExamSettles` |
| | `SameExamWhenSerial` | `SharedSpec => []SameExamForAll` |
| `TempRecordingsProofs` | `RecordingsTyped` | `Spec => []TypeOK` |
| | `CacheFollowsFile` | `Spec => []CacheIsTheFile` |
| | `NoAnswerLost` | `Spec => []AnswersKept` |
| | `BaselineIsFresh` | `Spec => []FreshBaseline` |
| `FullyAsyncProofs` | `AsyncTypeCorrect` | `Spec => []TypeOK` |
| | `EverySampleInOnePlace` | `Spec => []OnePlace` |
| | `WeightsFollowTrainer` | `Spec => []WeightsFollow` |
| | `FewUnderWay` | `Spec => []OutstandingBound` |
| | `NoThresholdIsSynchronous` | `Spec => []SynchronousMode` |
| | `PipelineIsStream` | `Spec => ImplementsStream` |
| | `TrainerNeverStarved` | `Spec => []NeverStarved` |
| `PPOTrainerProofs` | `TrainerTypeCorrect` | `Spec => []TypeOK` |
| | `TrackedIsLoadable` | `Spec => []TrackedLoadable` |
| | `DiskStaysBounded` | `Spec => []DiskBound` |
| | `BatchesInOrder` | `Spec => []TrainedInOrder` |
| | `ImplementsDurableTraining` | `Spec => ImplementsDurable` |

Assumptions: those named in the modules that declare the constants, evaluated by
TLC on the instances. `SizesAssumption` says that every student has a graph of
burn-in size and none of a smaller one, `ParamsAssumption` that the shared
parameter file exists, `NoneAssumption` that an empty cache slot is not a graph, and
in `AsyncRollouter` that the version of a sample not yet started is not a number,
`EvalAssumption` that students are served once each and have the burn-in records,
and that candidates are concepts of the graph; `NobodyAssumption` that the value for
nobody is not a student and not an exam; `ExamsAssumption` what a placeholder
set may be; `LimitsAssumption` that the configured maximum is at least what one
synchronization needs; `InputsAssumption` that the lists of a graph before pruning
agree with each other, and not that it is a forest; `ForestAssumption` that the graph
of an E-step is one, which only `EvidenceCountedOnce` and
`FullPassNeverStalls` need.

Inductive invariants, and why they are needed:

* `TypeOK` of `KTCaller` is inductive as it stands, once it says (`CallTypeOK`) that
  in the middle of a call the student, the graph and the parameters are there.
* `FilesInv` = `TypeOK`, `SizesClamped` (no practice size below the burn-in size),
  `CallCarries` (past the observations a call has at least one new record, past
  `SaveGraph` its graph's file is there), `ActualFilesConsistent`. The saved size is
  the practice size plus the number of new records, so it exceeds the burn-in size
  *because* the size was clamped and the call did not come without a record
  (`NothingObserved`).
* `AssumptionInv` = `TypeOK`, `OnlyActualSaves`: the steps past the save phase,
  which write, belong to actual calls.
* `HistoryInv` = `TypeOK`, `OwnHistory`: while an actual update observes, the list it
  works on is the runtime's own, so that writing it back appends and does not
  replace.
* `LeakInv` = types, `OwnData`, `FreshStart`, `ExamReady`, `CallsOwn`, `CleanExams`.
  From the refreshing load to the final exam everything in memory and in the files
  is the current student's (`OwnData`). Between two students it is not: the clear
  empties files and cache (`FreshStart`) but may leave the last student's parameters,
  and the refreshing load at the burn-in size is what replaces them.
* `RoundInv` = `LeakInv`, `Untouched`, `UpdateReads`, `CallsOne`, `Progress`. Until the
  answer is opened the runtime is as the round found it, in memory *and* in the
  files every load comes back to (`Untouched`), and `Progress` follows the answer's
  update phase by phase to the files of the next size. It needs that a hypothetical
  call never reaches the saving phases (`CallsOne`) and that the one observation of
  an answer is of a concept of the graph, so that its call comes to a save at all.
* `CompleteInv` = `RoundInv`, `QueueInv`, `SittingInv`, `ShownInv`, `AnsweringInv`,
  `ExamsInv`. Who still waits has a history without answers, whatever other updates
  have built of it. The graph in memory and the one a load would find show the answers
  so far (`ShownInv`), except while an update computes, when `AnsweringInv` says what
  has reached the history, the graph and the file. `WindowIsLatest`: records are ranked
  from the end, so that the window takes as many as it may, and the latest.
* `SessionInv` = `CompleteInv`, `QueueIsRest`, `RoundsLeft`. A history is only built or
  appended to, so the answers of a sitting are its last records; the exam's graph gives
  them back as long as all of them fit into the window, which `LoopIsSession` supposes:
  `WINDOW_SIZE = 0 \/ Rounds <= WINDOW_SIZE`. The code's default is no window.
* `OwnInv` = `SharedTypeOK`, `OwnPredictions`: every file of initial exams holds, if
  anything, predictions of the set in its name.
* `SizeInv`: all processes use one size, fixed from the start: that of an existing
  set of another size, which nobody then replaces, or the one they ask for.
* `Serial`: without overlap the running process is alone, no file has two writers,
  those that have a set have the one in the file, and a writer is the first.
* `NotedIsFinal` is inductive with `ETypeOK`: `e_step` notes a node only when all
  children are noted, and a noted node's message only changes if a child's does.
* For the temp recordings: a file and a pending write agree up to the one record
  that is being appended, and the cache is the file of the *current* path, which is
  why a change of path has to drop it.
* `PlaceInv` = `PlaceTypes`, `HeldInv`, `EndInv`, `InjectiveInv`, `PartitionInv`: a sample's
  place is a function of where it stands. `HeldInv` ties the sample the processor
  holds to its place in the code, `EndInv` puts the end mark behind all samples.
* `WeightsInv` ties the synchronizer's calls to the trainer's place.
* `CheckpointInv` = `TypeInv`, `TrackerInv`, `WrittenInv`, `ListInv`, `TrackedLoadable`: the
  tracked step is behind the one being saved and is not in the part of the list that
  `RemovePrevious` cuts off, which is where "keep at least two" is needed.
* `DurableInv` = `CheckpointInv`, `AheadOfTracker`, `TrackedIsDurable`, `ActorWritten`: the
  tracked step's shards, if they are there, are what was durable when the tracker was
  written, since only a later step's shards are ever written. So a launch that loads
  them is a stutter of `DurableTraining`, whatever number of checkpoints is kept.

* `FlowInv` = `HistoryInv`, `OnlyActualSaves`, `KeptBelowHistory`, `WrittenBelowKept`: the
  call in progress carries what it has yet to add to the extra records, and after
  those to the temp recordings; with it counted the three places are in order between
  any two steps, so an exception may take it away anywhere.
* `EvidenceInv` = `ETypeOK`, `NotedIsFinal`, `WorkInv`, `UpInv`, `DownInv`, `EvidenceOnce`.
  The full pass notes every node, since one that is neither noted nor in a list has a
  child that is not noted, and a lowest such node has none (`WorkInv`). For the same
  reason the lists have a node to compute until all are noted (`FullPassProceeds`). The
  incremental pass leaves a message behind only where a changed concept is still in a
  list (`UpInv`), and downwards a message is right or one above it is still to be
  visited (`DownInv`). A set without a lowest or highest concept is what
  `ForestAssumption` excludes, so nothing is unfolded along a path.
* `ShapeInv` = `TypeInv`, `StartInv`, `TreeInv`, `DoneInv`: while concepts are merged the
  child lists name exactly those that are left, each under its first parent. The
  assertions of `merge_nodes` then hold. `KeepInv`: what goes without a mapping had no
  questions, a mapping leads to a concept that has nothing above it but what the
  merged one had, and concepts on a cycle never go, as they always have a child.
  `LargeInv`: a large concept keeps its count until what was below it is merged.
* `RunInv` types the coroutines together with `PlaceInv`, `WeightsInv` and `LockInv`, the
  last of which says who holds and who waits for the lock. `CountInv` relates the
  samples under way to `staleness_samples`: it may lag by the sample the processor
  holds and the one the consumer is putting, which gives the two samples of
  `OutstandingBound`. `SyncInv`: with a threshold of zero nothing is under way from the
  last step of a version until the count is made again (`SyncingInv`), and otherwise
  what is collected and under way is counted in full (`CollectingInv`).
* `StreamInv` adds to these what bounds the age of a batch. `CollectInv`: while the loop
  runs, exactly the steps of the versions so far were trained on. `BornInv`: a sample
  has a version once it was started, and none later than the weights'. `WholeInv`:
  without partial rollout a generation under way has the weights' version or, if it
  started while they were on their way, the one before. `FifoInv`: then samples move through the queues in
  the order of their versions, or one off. `AgeInv`: by version `b` no more samples were
  started and kept than `b + 1` versions take and `max_required_samples + 2`, from
  `CountInv`. All that was trained on before a sample of version `b` is of version
  `b + 1` at most, so there is not more of it than that. The steps are then those of
  `SampleStream`: a start, an end of generation, a drop, a pick, a training step, the
  final version, or a stutter.
* `PaceInv` adds to `RunInv`, `CollectInv`, `WholeInv` and `SyncInv` why the trainer is not
  starved. `StreamingInv`: while samples are left to start, the trainer is in its loop
  and nothing is left over. `Fresh`, the samples taken less those dropped and less what
  earlier versions used, is then what is under way or collected. `TimesInv`: without
  partial rollout `staleness_samples` is at most three times `Fresh`, in each phase of
  the count with what is still to come into it (`TimesCounted`), unless the samples under way alone are
  `Enough` for the version: a drop takes a sample out of `Fresh` and leaves it counted,
  but the queue that was full then has what the trainer needs. `OnceInv`: in synchronous
  mode the count is exact once it is made. A trainer that waits with nothing under way
  has collected all that is fresh, less than a version takes, so the count is below the
  maximum.
* `BoundInv`: what a launch finds on the disk it never adds to, and what it adds is in
  its own list or being written. `OrderInv` = `DurableInv`, `LiveInv`, `DiskInv`, `SavedInv`:
  the workers in memory, the checkpoint being written and the one the tracker names
  were each trained to their own step, with the dataloader's position to match.

Only model-checked: liveness, that in the refinement of `PracticeSession` included. Of
two liveness properties the part that is a safety property is proved: `EStepEnds` cannot
fail because a full pass waits for itself (`FullPassNeverStalls`), nor `TrainingEnds`
because the limits keep back what the trainer waits for (`TrainerNeverStarved`).
Every other property of a passing run is a theorem. Liveness under fairness and
`ENABLED` are out of the reach of the prover. So is induction over data with the library's theorems; where a
proof needs one it takes the least number or the lowest node at which the claim
fails, which is enough for sequences and finite forests.

## 5. Not modelled, and why

* Probabilities, likelihoods, the arithmetic of the M-step and the calibration, and
  the zero guards: floating-point data that no property here tells apart. Known
  edges: the minimum keeps difficulties in order only weakly although a comment asks
  for a strict order (`kt/KT2/module/calibration.py:106`); epsilon is put `1e-6` below
  the hard rate, which is zero at that rate's floor (`kt/KT2/EM/M_Step.py:46`); the
  incremental pass divides without `e_step`'s guard against zero
  (`kt/KT2/KT/graph_update.py:92`); messages off the updated path keep the old
  parameters (`kt/update.py:184`).
* Question generation, scoring by the verifier, prompts, recommenders' models:
  free choices of the loop. Result files are written once at the end.
* `kt/KT2/EM/EM.py`, `kt/KT2/KT/KT.py`: offline and sequential. The first raises at
  its first step (line 111, an undefined name) and would save nothing for
  `max_step = 1`. The main loop of `KT.py` (lines 107-109) walks the records beyond the
  burn-in of data already cut to the burn-in size by the cache, so its body never
  runs. A process that starts over an existing temp file would take the lengths found
  there as train sizes (`data_cache.py:173`); only these programs read them.
* The baselines, the answerability check, configuration, the verifier's training, the
  reward and datasets of `verl_bridge` and the scripts: no state shared with the rest,
  and nothing concurrent.
* The rest of `src/verl`: model engines, kernels, rollout backends, other recipes and
  trainers, which make up most of its lines. It is a vendored framework whose
  remaining parts are numeric, or wrap libraries that are not in the tree, and the
  repository's own launcher reaches them only through the trainer modelled here. So
  the share of the tree's lines these modules cover stays small; of `src/EQG_Codes`
  they cover the parts that keep state.

## 6. Where code and text disagree

Each of these is a run that TLC finds violated.

1. `eval_total`: "train_sizes records the true accumulated total"
   (`kt/update.py:632`) counts earlier answers twice from the second round on.
2. `async_hang`: with partial rollout and a threshold above 0 the monitor can un-pause
   generation while `pause()` holds the lock. Samples are then submitted during the
   transfer, refused by the servers and put into `cancel_queue`;
   `update_param_version` counts them, the counter stays at its maximum, and the
   processor, which looks at the pause before it looks at `cancel_queue`
   (`recipe/fully_async_policy/fully_async_rollouter.py:338`), never takes them.
   Rollouter and trainer wait for each other.
3. `async_lost`: past the end mark the processor takes nothing from `cancel_queue` any
   more, so a generation that is cut then is never continued, against the recipe's
   `README.md:212`.
4. `ckpt`: a crash between the truncation and the write of the tracker leaves an empty
   file on which every launch raises; with one kept checkpoint a crash after the
   removal leaves a tracker without its shards. `verl/docs/examples/config.rst:598`
   says that the program resumes automatically.

Met while modelling, without a run of their own:

* `kt/runtime.py:202`: a cache hit returns before the alignment of the parameters that
  the comment at line 214 promises, and the update reads the parameters before the
  load anyway. The evaluation loops are not affected, because they refresh first.
* `kt/runtime.py:60`: the "canonical parameter path for resets" follows every save into
  the directory that the reset deletes. Harmless in the loops for the same reason.
* `kt/update.py:103`: an update with `reset_temp` keeps the practice sizes whose files it
  has just deleted, and then rejects the student. No caller passes it.
* `kt/update.py:594`: the "historical burn-in pool" of the other students grows beyond
  the burn-in with each answer of the student who practises.
* `kt/update.py:325`: a practice size raised by hand after an answer makes
  `_ensure_history` skip a dataset record.
* `kt/update.py:563`: the fallback returns the difficulties in reverse order; it cannot
  be reached.
* `kt/predict.py:60`, `kt/update.py:77`: a prediction and an assumption update of a student
  who is not cached fill the cache and move the parameters, although both are said to
  leave the runtime alone.
* `kt/KC_tree/prune.py:91`: a concept with many questions of its own loses their count
  when its children are merged into it and may then be merged away, against line 53;
  `LargeGoWithChildren` says what does hold. The order of the leaves comes from a set of
  strings (line 58), so two runs may prune differently.
* `kt/KT2/module/data_cache.py`: with two paths in one process a new file's baseline is
  made from memory, which may hold answers of the other path's run; for a student who
  is not tested, or after an append to a file of an earlier process, a new file starts
  with other records than the truncated dataset.
* `recipe/fully_async_policy`: the oldest sample may be dropped because the sample in
  flight is not counted at an update; the end mark too can push one out. `update_param_version` (`fully_async_rollouter.py:199-204`) can count a
  sample three times: its ended task is still in `active_tasks`, it is in `result_queue`,
  and by the time the queue tells its size it is there too. Without partial rollout the
  count can thus reach `max_required_samples` while the trainer lacks samples, and both
  wait for ever: with batches of 3 and a maximum of 4 within ten samples, with a maximum
  of 5 within thirteen. `Paced` excludes it. Up to two
  more samples than the README's `rollout_num` (lines 134-135) are under way. A pause
  that empties the active tasks while the processor queues for the lock makes it read
  `done_tasks`, which is unbound if it never waited before, and the processor dies; the
  model reaches this when the pending queue has no more places than there may be
  concurrent samples (the code gives it 128). Generation
  may go on during a transfer with a threshold above 0. The trainer reads validation
  results one synchronization late and leaves the last one in its queue.
* `verl/trainer/ppo/ray_trainer.py`: "at most `max_ckpt_to_keep`" holds per launch only;
  a launch from scratch rewrites a tracked folder in place; a launch after a completed
  run trains one more step (unless there is one epoch); a total beyond the epochs ends
  without a last save; the epoch loop starts again at 0 after a resume.

## 7. State of the project

All parts planned are done: the runtime and the updater, the evaluation loop, the
E-step, the pruning, the shared exam files, the temp recordings, asynchronous training
and the checkpointed trainer, each checked, and the safety properties that can be
proved without induction over data proved, except those listed as only model-checked
in section 4. To work on it: `KTRuntime` before `KTUpdate`, then the two callers;
`AsyncRollouter` before `FullyAsync`; a proof module after the module it is about.
