----------------------------- MODULE FullyAsync -----------------------------
(***************************************************************************)
(* Fully asynchronous training as a whole: the trainer                     *)
(* (fully_async_trainer.py) and the synchronizer (param_sync.py) composed  *)
(* with the rollouter.  The trainer is one thread that blocks on the queue *)
(* and on the synchronizer; after a synchronization it goes on while the   *)
(* rollouter still updates and validates.                                  *)
(***************************************************************************)
EXTENDS AsyncRollouter, Functions

VARIABLES
  tpc,      \* the trainer's place in fit
  batch,    \* queue_samples
  local,    \* local_trigger_step
  tversion, \* current_param_version
  valdata,  \* val_data
  last,     \* the loop is over: the final synchronization, with validation
  trained,  \* history: the samples used for a training step
  left      \* history: the samples collected when the queue ended

trainVars == <<tpc, batch, local, tversion, valdata, last, trained,
               left>>
vars == <<rollVars, trainVars>>

Init ==
  /\ RollInit
  /\ tpc = "validate" /\ batch = <<>> /\ local = 1 /\ tversion = 0
  /\ valdata = None /\ last = FALSE /\ trained = {} /\ left = {}

queueOnly == <<conf, fed, got, procVars, task, settled, cancelq, resultq,
               inflight, paused, monitorOn, mon, staleness, counted, version,
               lockq, servers, weights, born, main, sync, dropped>>

\* get_sample_sync in _get_samples_from_queue; None ends the loop and what was
\* collected with it
TrainerGets ==
  /\ tpc = "collect" /\ mq # <<>>
  /\ mq' = Tail(mq)
  /\ left' = IF Head(mq) = End THEN left \cup Range(batch) ELSE left
  /\ batch' = IF Head(mq) = End THEN <<>> ELSE Append(batch, Head(mq))
  /\ tpc' = CASE Head(mq) = End -> "final"
              [] Head(mq) # End /\ Len(batch') = conf.required -> "train"
              [] OTHER -> "collect"
  /\ UNCHANGED <<queueOnly, valq, local, tversion, valdata, last, trained>>

\* mutant: the version is counted up and the weights stay behind
NextPlaceNoSync == "validate"

NextPlace == IF local < conf.trigger THEN "validate" ELSE "waitLast"

\* the training step and the head of _trigger_parameter_sync_after_step
TrainerTrains ==
  /\ tpc = "train"
  /\ trained' = trained \cup Range(batch)
  /\ batch' = <<>>
  /\ tpc' = NextPlace
  /\ IF local < conf.trigger
     THEN local' = local + 1 /\ UNCHANGED tversion
     ELSE local' = 1 /\ tversion' = tversion + 1
  /\ UNCHANGED <<rollVars, valdata, last, left>>

\* wait_last_valid, then sync_weights up to the call of pause
TrainerWaitsLast ==
  /\ tpc = "waitLast" /\ sync = "none"
  /\ sync' = "pauseCall" /\ tpc' = "syncing"
  /\ UNCHANGED <<conf, fed, got, procVars, task, settled, cancelq, resultq,
                 inflight, paused, monitorOn, mon, staleness, counted, version,
                 lockq, servers, weights, born, main, queueVars,
                 batch, local, tversion, valdata, last, trained, left>>

\* sync_rollout_weights on both sides; update and resume are called and not
\* waited for
Transfer ==
  /\ tpc = "syncing" /\ sync = "quiet"
  /\ weights' = tversion
  /\ sync' = "updateCall"
  /\ tpc' = IF last THEN "waitFinal" ELSE "validate"
  /\ UNCHANGED <<conf, fed, got, procVars, task, settled, cancelq, resultq,
                 inflight, paused, monitorOn, mon, staleness, counted, version,
                 lockq, servers, born, main, queueVars,
                 batch, local, tversion, valdata, last, trained, left>>

\* get_validate_sync, which does not wait
TrainerGetsValidation ==
  /\ \/ tpc = "validate" /\ tpc' = "collect"
     \/ tpc = "waitFinal" /\ sync = "none" /\ tpc' = "ended"
  /\ valdata' = IF valq = <<>> THEN None ELSE Head(valq)
  /\ valq' = IF valq = <<>> THEN valq ELSE Tail(valq)
  /\ UNCHANGED <<queueOnly, mq, batch, local, tversion, last, trained,
                 left>>

\* after the loop: one more synchronization unless the last val_data had
\* metrics
TrainerFinishes ==
  /\ tpc = "final"
  /\ IF valdata = None \/ ~valdata.metrics
     THEN /\ tversion' = tversion + 1 /\ local' = 1
          /\ last' = TRUE /\ tpc' = "waitLast"
     ELSE /\ tpc' = "ended"
          /\ UNCHANGED <<tversion, local, last>>
  /\ UNCHANGED <<rollVars, batch, valdata, trained, left>>

Trainer ==
  \/ TrainerGets \/ TrainerTrains \/ TrainerWaitsLast \/ Transfer
  \/ TrainerGetsValidation \/ TrainerFinishes

RolloutStep ==
  /\ Rollouter \/ UpdateBegins(weights) \/ UpdateEnds(tpc = "waitFinal")
  /\ UNCHANGED trainVars

Next == Trainer \/ RolloutStep

\* One step of the rollouter that leaves the trainer alone
Roll(A) == A /\ UNCHANGED trainVars

\* The event loop runs every coroutine that can go on, the servers answer
\* every request, and the trainer's thread runs.
Fairness ==
  /\ WF_vars(Roll(FeedSamples)) /\ WF_vars(Roll(Processor))
  /\ WF_vars(Roll(ConsumerTakes)) /\ WF_vars(Roll(QueueReceives))
  /\ \A s \in Samples : WF_vars(Roll(TaskCancelled(s) \/ TaskCompletes(s)))
  /\ WF_vars(Roll(MainStreamEnds \/ MainPutsEnd \/ MainStops))
  /\ WF_vars(Roll(MonitorQueues \/ MonitorUnpauses \/ MonitorEnds))
  /\ WF_vars(Roll(SyncQueues \/ PauseBegins \/ PauseCancels \/ PauseEnds
                  \/ UpdateBegins(weights) \/ UpdateEnds(tpc = "waitFinal")
                  \/ ResumeBegins \/ ResumeEnds))
  /\ WF_vars(Trainer)

Spec == Init /\ [][Next]_vars /\ Fairness

---------------------------------------------------------------------------
TypeOK ==
  /\ conf \in Configs
  /\ fed \in 0 .. End /\ got \in 0 .. fed
  /\ at \in {"top", "stop", "drain", "park", "get", "limit", "submit", "end",
             "done", "dead"}
  /\ lk \in {"free", "queued", "in", "wait", "cond"}
  /\ busy \in BOOLEAN /\ bound \in BOOLEAN
  /\ held \in 0 .. Total /\ inflight \in 0 .. Total
  /\ task \in [Samples -> {"none", "gen", "cut", "out"}]
  /\ settled \in Nat
  /\ cancelq \in Seq(Samples) /\ resultq \in Seq(Samples)
  /\ paused \in BOOLEAN /\ monitorOn \in BOOLEAN
  /\ mon \in {"sleep", "locking", "ended"}
  /\ staleness \in Nat /\ counted \in Nat /\ version \in Nat
  /\ lockq \in Seq({"proc", "mon", "main", "sync"})
  /\ servers \in {"open", "cut"} /\ weights \in Nat
  /\ born \in [Samples -> Nat \cup {None}]
  /\ main \in {"stream", "closing", "stopping", "ended"}
  /\ sync \in {"none", "pauseCall", "pauseLock", "cancelling", "gathering",
               "quiet", "updateCall", "updateLock", "counting", "resumeCall",
               "resumeLock", "resuming"}
  /\ mq \in Seq(1 .. End) /\ dropped \subseteq 1 .. End
  /\ valq \in Seq([version : Nat, metrics : BOOLEAN])
  /\ tpc \in {"validate", "collect", "train", "waitLast", "syncing", "final",
              "waitFinal", "ended"}
  /\ batch \in Seq(Samples) /\ local \in 1 .. conf.trigger
  /\ tversion \in Nat /\ last \in BOOLEAN
  /\ trained \subseteq Samples /\ left \subseteq Samples

Running == {s \in Samples : task[s] # "none"}
Rolled == Range(resultq) \cup ({inflight} \ {NoSample}) \cup (Range(mq) \ {End})

\* where a sample can be
Places ==
  [held |-> {held} \ {NoSample}, task |-> Running, cancelq |-> Range(cancelq),
   resultq |-> Range(resultq), inflight |-> {inflight} \ {NoSample},
   mq |-> Range(mq) \ {End}, batch |-> Range(batch), trained |-> trained,
   dropped |-> dropped \ {End}, left |-> left]

(* Every sample that was taken from the pending queue is in exactly one     *)
(* place: with the processor, in generation, put aside, on the way to the   *)
(* trainer, with the trainer, trained, dropped or left over; and no queue   *)
(* holds it twice.                                                          *)
OnePlace ==
  /\ \A s \in Samples :
       Cardinality({p \in DOMAIN Places : s \in Places[p]}) = IF s <= got THEN 1 ELSE 0
  /\ \A q \in {cancelq, resultq, mq, batch} : IsInjective(q)

(* However the calls interleave, at most two samples more than              *)
(* max_required_samples are under way: update_param_version counts neither  *)
(* the sample the processor holds nor the one the consumer is putting.      *)
OutstandingBound ==
  Cardinality(Running \cup Rolled \cup Range(cancelq) \cup ({held} \ {NoSample}))
    <= conf.max + 2

(* With staleness_threshold = 0 training is synchronous: a batch holds only *)
(* samples generated with the current weights, the queue never overflows    *)
(* and no generation is under way while weights are transferred.            *)
Synchronous == conf.max = conf.required * conf.trigger
SynchronousMode ==
  Synchronous =>
    /\ dropped = {}
    /\ sync = "quiet" => Running = {}
    /\ \A s \in Range(batch) : born[s] = tversion

(* The weights on the servers are those of the trainer's version or of the  *)
(* one before, and of the one before only until the synchronization of the  *)
(* current one has transferred them.                                        *)
WeightsFollow ==
  /\ weights \in {tversion, tversion - 1}
  /\ weights # tversion => tpc \in {"waitLast", "syncing"}

(* With these settings the count of staleness leaves room for new samples   *)
(* whenever the trainer has nothing left to take.  Without partial rollout  *)
(* update_param_version can count a sample three times: its ended task is   *)
(* still in active_tasks, it is in result_queue or on its way, and it is in *)
(* the message queue when that is asked for its size.                       *)
Paced ==
  \/ Synchronous
  \/ ~conf.partial /\ conf.max > 3 * (conf.required * conf.trigger - 1)

(* When Paced, the run comes to its end, with the trainer not left waiting  *)
(* for a sample or for the rollouter, and the rollouter's coroutines ended. *)
(* With other settings it may not: samples counted twice or more make       *)
(* staleness_samples reach max_required_samples while the trainer still     *)
(* lacks some (README, section 6), or generations are put aside, see        *)
(* EveryRunEnds.                                                            *)
TrainingEnds == Paced => <>(tpc = "ended" /\ main = "ended")

(* README.md:212 and the monitor's "Trigger rollout recovery": generations  *)
(* that a synchronization interrupts are taken up again, so that the run    *)
(* ends in every mode.                                                      *)
EveryRunEnds == <>(tpc = "ended" /\ main = "ended")

(* README.md:212: "The interrupted samples will continue to be generated    *)
(* after synchronization", so none is still put aside at the end.           *)
InterruptedContinue == main = "ended" => cancelq = <<>>

(* The pipeline implements a stream that hands each sample on once and      *)
(* trains on samples of bounded age: of the current version only when       *)
(* training is synchronous; otherwise of no more versions than fit into the *)
(* samples under way, and two: the trainer may go through a version before  *)
(* update_param_version counts, and a generation started before the         *)
(* transfer of new weights may end after all that were started with them.   *)
(* A generation that was cut keeps the version it started with however      *)
(* often it is cut, so with partial rollout there is no bound but Total.    *)
MaxGap(c) ==
  IF c.max = c.required * c.trigger THEN 0
  ELSE IF c.partial THEN Total
  ELSE (c.max + 1) \div (c.required * c.trigger) + 2

StageOf(s) ==
  CASE s \in trained -> "trained"
    [] s \in dropped \cup left -> "gone"
    [] s \in Range(batch) -> "picked"
    [] s \in Rolled -> "ready"
    [] OTHER -> IF born[s] = None THEN "waiting" ELSE "rolling"

Stream == INSTANCE SampleStream
  WITH stage <- [s \in Samples |-> StageOf(s)], birth <- born, ver <- tversion,
       Gap <- MaxGap

ImplementsStream == Stream!Spec
=============================================================================
