--------------------------- MODULE AsyncRollouter ---------------------------
(***************************************************************************)
(* The rollout side of fully asynchronous training                         *)
(* (verl/recipe/fully_async_policy): the actor FullyAsyncRollouter with    *)
(* its coroutines, the inference servers it drives and the MessageQueue it *)
(* fills.                                                                  *)
(*                                                                         *)
(* The rollouter is one asyncio event loop.  A coroutine gives the loop up *)
(* only where an await really waits: for the lock, the condition, a task,  *)
(* an empty queue or another actor.  The processor is the only coroutine   *)
(* that does several steps of the model between two such points, so "busy" *)
(* says that it has the loop; every other action of the rollouter is one   *)
(* stretch between two waits and needs the loop free.                      *)
(*                                                                         *)
(* Samples are numbered in the order they are fed; Total + 1 stands for    *)
(* "DONE" in the pending queue and for None in the message queue.          *)
(***************************************************************************)
EXTENDS Integers, Sequences, FiniteSets

CONSTANTS
  Configs,  \* the settings a run may have, see ConfigsAssumption
  Total,    \* total_rollout_steps
  None      \* a value that is not there

ASSUME TotalAssumption == Total \in Nat \ {0}
ASSUME NoneAssumption == None \notin Nat

\* required   required_samples           trigger  trigger_parameter_sync_step
\* max        max_required_samples       conc     max_concurrent_samples
\* room       maxsize of pending_queue   testFreq rollout.test_freq
\* partial    partial_rollout            valFirst val_before_train
ASSUME ConfigsAssumption ==
  Configs \subseteq [required : Nat \ {0}, trigger : Nat \ {0},
                     max : Nat \ {0}, conc : Nat \ {0}, room : Nat \ {0},
                     partial : BOOLEAN, testFreq : Nat, valFirst : BOOLEAN]

ASSUME LimitsAssumption ==
  \A c \in Configs : c.required * c.trigger <= c.max /\ c.conc <= c.max

Samples == 1 .. Total
End == Total + 1
NoSample == 0

VARIABLES
  conf,       \* the settings of this run, fixed at the start
  fed,        \* how many items _feed_samples has put, End included
  got,        \* how many of them the processor has taken
  at,         \* the processor's place in _processor_worker
  lk,         \* and what it waits for there
  busy,       \* it has the event loop
  held,       \* rollout_sample, between taking it and submitting it
  bound,      \* the local done_tasks has been assigned
  task,       \* the generation of each sample: none, gen, cut or out
  settled,    \* tasks that have ended and are still in active_tasks
  cancelq, resultq,
  inflight,   \* the sample of the consumer's put_sample under way
  paused, monitorOn,  \* paused, monitor_loop_trigger
  mon,        \* the monitor loop
  staleness,  \* staleness_samples
  counted,    \* the summands of staleness_samples read before the await
  version,    \* current_param_version
  lockq,      \* the coroutines at the lock, its holder first
  servers,    \* the servers' paused flag: "open" or "cut"
  weights,    \* the version of the weights the servers hold
  born,       \* the weights each sample's generation first started with
  main,       \* _streaming_generation_main
  sync,       \* the pause, update or resume call of the synchronizer
  mq, dropped, valq   \* the MessageQueue: queue, dropped_samples, val_queue

procVars == <<at, lk, busy, held, bound>>
queueVars == <<mq, dropped, valq>>
rollVars == <<conf, fed, got, procVars, task, settled, cancelq, resultq,
              inflight, paused, monitorOn, mon, staleness, counted, version,
              lockq, servers, weights, born, main, sync, queueVars>>

---------------------------------------------------------------------------
(* MessageQueue *)

\* mutant: left to the deque's own maxlen, which drops without a word
PutSilently(s) ==
  /\ mq' = Append(IF Len(mq) >= conf.max THEN Tail(mq) ELSE mq, s)
  /\ UNCHANGED <<dropped, valq>>

\* put_sample: a full queue loses its oldest entry
PutSample(s) ==
  LET full == Len(mq) >= conf.max
  IN  /\ mq' = Append(IF full THEN Tail(mq) ELSE mq, s)
      /\ dropped' = dropped \cup (IF full THEN {Head(mq)} ELSE {})
      /\ UNCHANGED valq

---------------------------------------------------------------------------
(* The lock, an asyncio.Lock: first come, first served.  lockq is its queue *)
(* with the holder in front.                                                *)

\* a call of the synchronizer that has arrived, when it has to queue
Queued == [pauseCall |-> "pauseLock", updateCall |-> "updateLock",
           resumeCall |-> "resumeLock"]
SyncQueued == {"pauseLock", "updateLock", "resumeLock"}

ActiveTasks == Cardinality({s \in Samples : task[s] # "none"}) + settled

\* mutants: a limit that is noticed one sample late; only the queue's limit
PauseOneLate == Len(mq) >= conf.max \/ staleness > conf.max
PauseOnFullQueue == Len(mq) >= conf.max

\* _should_pause_generation
ShouldPause == Len(mq) >= conf.max \/ staleness >= conf.max

Holds(c) == lockq # <<>> /\ Head(lockq) = c

\* "async with self.lock": a coroutine in front of it, or queued for it
Enters(c, calls, queued) ==
  \/ calls /\ lockq = <<>>
  \/ queued /\ Holds(c)

\* the lock has been handed to a coroutine that has not run yet
HandedOver ==
  lockq # <<>> /\ CASE Head(lockq) = "proc" -> lk = "queued"
                     [] Head(lockq) = "sync" -> sync \in SyncQueued
                     [] OTHER -> TRUE

\* mutant: the flag is cleared and nobody is told
NotifyNobody == UNCHANGED lk

\* condition.notify_all: only the processor ever waits on the condition
NotifyAll == lk' = IF lk = "cond" THEN "free" ELSE lk

---------------------------------------------------------------------------
(* _feed_samples *)

\* mutant: goes on after total_rollout_steps
FedPastEnd == got + conf.room

FedTo == IF got + conf.room < End THEN got + conf.room ELSE End

\* puts samples until the queue is full or "DONE" is in it
FeedSamples ==
  /\ ~busy
  /\ fed < End
  /\ fed - got < conf.room
  /\ fed' = FedTo
  /\ UNCHANGED <<conf, got, procVars, task, settled, cancelq, resultq,
                 inflight, paused, monitorOn, mon, staleness, counted, version,
                 lockq, servers, weights, born, main, sync, queueVars>>

---------------------------------------------------------------------------
(* _processor_worker.  Its three loops "while there are tasks: take the    *)
(* lock, wait for one" are the places drain (paused), limit (too many      *)
(* tasks) and end (after DONE).                                            *)

Loops == {"drain", "limit", "end"}
LoopGoesOn ==
  IF at = "limit" THEN ActiveTasks >= conf.conc ELSE ActiveTasks > 0
AfterLoop ==
  CASE at = "drain" -> "park" [] at = "limit" -> "submit" [] at = "end" -> "done"

procRest == <<conf, fed, task, cancelq, resultq, inflight, monitorOn, mon,
              counted, version, servers, weights, born, main, sync, queueVars>>

ProcessorSeesPause ==
  /\ at = "top"
  /\ paused \/ ShouldPause
  /\ at' = "stop" /\ busy' = TRUE
  /\ UNCHANGED <<procRest, got, lk, held, bound, settled, paused, staleness,
                 lockq>>

ProcessorTakesCancelled ==
  /\ at = "top"
  /\ ~paused /\ ~ShouldPause
  /\ cancelq # <<>>
  /\ held' = Head(cancelq) /\ cancelq' = Tail(cancelq)
  /\ at' = "limit" /\ busy' = TRUE
  /\ UNCHANGED <<conf, fed, got, lk, bound, task, settled, resultq, inflight,
                 paused, monitorOn, mon, staleness, counted, version, lockq,
                 servers, weights, born, main, sync, queueVars>>

\* pending_queue.get() at the top of an iteration, or after a wait in it
ProcessorTakesPending ==
  /\ \/ at = "get"
     \/ at = "top" /\ ~paused /\ ~ShouldPause /\ cancelq = <<>>
  /\ got < fed
  /\ got' = got + 1
  /\ staleness' = staleness + 1
  /\ held' = IF got' = End THEN NoSample ELSE got'
  /\ at' = IF got' = End THEN "end" ELSE "limit"
  /\ busy' = TRUE
  /\ UNCHANGED <<procRest, lk, bound, settled, paused, lockq>>

ProcessorWaitsForPending ==
  /\ at = "top"
  /\ ~paused /\ ~ShouldPause
  /\ cancelq = <<>> /\ got = fed
  /\ at' = "get" /\ busy' = FALSE
  /\ UNCHANGED <<procRest, got, lk, held, bound, settled, paused, staleness,
                 lockq>>

\* "async with self.lock": at once when nobody is there, else in turn
ProcessorLocks ==
  /\ lk = "free"
  /\ at \in {"stop", "park", "submit"} \/ (at \in Loops /\ LoopGoesOn)
  /\ lockq' = Append(lockq, "proc")
  /\ lk' = IF lockq = <<>> THEN "in" ELSE "queued"
  /\ busy' = (lockq = <<>>)
  /\ UNCHANGED <<procRest, got, at, held, bound, settled, paused, staleness>>

ProcessorGetsLock ==
  /\ ~busy /\ lk = "queued" /\ Holds("proc")
  /\ lk' = "in" /\ busy' = TRUE
  /\ UNCHANGED <<procRest, got, at, held, bound, settled, paused, staleness,
                 lockq>>

ProcessorPauses ==
  /\ lk = "in" /\ at = "stop"
  /\ paused' = TRUE
  /\ lockq' = Tail(lockq) /\ lk' = "free" /\ at' = "drain"
  /\ UNCHANGED <<procRest, got, busy, held, bound, settled, staleness>>

ProcessorLeavesLoop ==
  /\ lk = "free" /\ at \in Loops /\ ~LoopGoesOn
  /\ at' = AfterLoop
  /\ busy' = (at # "end")
  /\ UNCHANGED <<procRest, got, lk, held, bound, settled, paused, staleness,
                 lockq>>

\* asyncio.wait(active_tasks, FIRST_COMPLETED), the lock held all the while
ProcessorWaitsForTask ==
  /\ lk = "in" /\ at \in Loops /\ ActiveTasks > 0
  /\ lk' = "wait" /\ busy' = FALSE
  /\ UNCHANGED <<procRest, got, at, held, bound, settled, paused, staleness,
                 lockq>>

ProcessorSeesTaskDone ==
  /\ ~busy /\ lk = "wait" /\ settled > 0
  /\ settled' = 0 /\ bound' = TRUE
  /\ lockq' = Tail(lockq) /\ lk' = "free" /\ busy' = TRUE
  /\ UNCHANGED <<procRest, got, at, held, paused, staleness>>

\* pause() emptied active_tasks while the processor was queued: the loop over
\* done_tasks finds those of an earlier wait, or no such variable
ProcessorFindsNoTask ==
  /\ lk = "in" /\ at \in Loops /\ ActiveTasks = 0
  /\ lockq' = Tail(lockq) /\ lk' = "free"
  /\ at' = IF bound THEN at ELSE "dead"
  /\ busy' = bound
  /\ UNCHANGED <<procRest, got, held, bound, settled, paused, staleness>>

\* "while self.paused: await self.condition.wait()"
ProcessorParks ==
  /\ lk = "in" /\ at \in {"park", "submit"} /\ paused
  /\ lockq' = Tail(lockq) /\ lk' = "cond" /\ busy' = FALSE
  /\ UNCHANGED <<procRest, got, at, held, bound, settled, paused, staleness>>

ProcessorUnparks ==
  /\ lk = "in" /\ at = "park" /\ ~paused
  /\ lockq' = Tail(lockq) /\ lk' = "free" /\ at' = "top"
  /\ UNCHANGED <<procRest, got, busy, held, bound, settled, paused, staleness>>

ProcessorSubmits ==
  /\ lk = "in" /\ at = "submit" /\ ~paused
  /\ task' = [task EXCEPT ![held] = "gen"]
  /\ born' = [born EXCEPT ![held] = IF @ = None THEN weights ELSE @]
  /\ held' = NoSample
  /\ lockq' = Tail(lockq) /\ lk' = "free" /\ at' = "top"
  /\ UNCHANGED <<conf, fed, got, busy, bound, settled, cancelq, resultq,
                 inflight, paused, monitorOn, mon, staleness, counted, version,
                 servers, weights, main, sync, queueVars>>

Processor ==
  \/ ProcessorSeesPause \/ ProcessorTakesCancelled \/ ProcessorTakesPending
  \/ ProcessorWaitsForPending \/ ProcessorLocks \/ ProcessorGetsLock
  \/ ProcessorPauses \/ ProcessorLeavesLoop \/ ProcessorWaitsForTask
  \/ ProcessorSeesTaskDone \/ ProcessorFindsNoTask \/ ProcessorParks
  \/ ProcessorUnparks \/ ProcessorSubmits

---------------------------------------------------------------------------
(* _process_single_sample_streaming and the servers: a generation that the *)
(* servers cut is put aside, a complete one goes to the result queue.      *)

TaskCancelled(s) ==
  /\ ~busy
  /\ task[s] = "cut" \/ (task[s] = "gen" /\ servers = "cut")
  /\ task' = [task EXCEPT ![s] = "none"] /\ settled' = settled + 1
  /\ cancelq' = Append(cancelq, s)
  /\ UNCHANGED <<conf, fed, got, procVars, resultq, inflight, paused,
                 monitorOn, mon, staleness, counted, version, lockq, servers,
                 weights, born, main, sync, queueVars>>

TaskCompletes(s) ==
  /\ ~busy
  /\ task[s] = "out" \/ (task[s] = "gen" /\ servers = "open")
  /\ task' = [task EXCEPT ![s] = "none"] /\ settled' = settled + 1
  /\ resultq' = Append(resultq, s)
  /\ UNCHANGED <<conf, fed, got, procVars, cancelq, inflight, paused,
                 monitorOn, mon, staleness, counted, version, lockq, servers,
                 weights, born, main, sync, queueVars>>

---------------------------------------------------------------------------
(* _consumer_worker, _streaming_generation_main and _async_monitor_loop    *)

ConsumerTakes ==
  /\ ~busy /\ main = "stream"
  /\ inflight = NoSample /\ resultq # <<>>
  /\ inflight' = Head(resultq) /\ resultq' = Tail(resultq)
  /\ UNCHANGED <<conf, fed, got, procVars, task, settled, cancelq, paused,
                 monitorOn, mon, staleness, counted, version, lockq, servers,
                 weights, born, main, sync, queueVars>>

\* put_sample in the queue's actor, and its answer
QueueReceives ==
  /\ inflight # NoSample
  /\ PutSample(inflight)
  /\ inflight' = NoSample
  /\ UNCHANGED <<conf, fed, got, procVars, task, settled, cancelq, resultq,
                 paused, monitorOn, mon, staleness, counted, version, lockq,
                 servers, weights, born, main, sync>>

mainRest == <<conf, fed, got, procVars, task, settled, cancelq, resultq,
              inflight, paused, monitorOn, mon, staleness, counted, version,
              servers, weights, born, sync>>

\* after the feed and the processor: result_queue.join(), or the exception
MainStreamEnds ==
  /\ ~busy /\ main = "stream" /\ fed = End
  /\ at = "dead" \/ (at = "done" /\ resultq = <<>> /\ inflight = NoSample)
  /\ main' = "closing"
  /\ UNCHANGED <<mainRest, lockq, queueVars>>

\* put_sample(None), then "running" is cleared under the lock
MainPutsEnd ==
  /\ ~busy /\ main = "closing"
  /\ PutSample(End)
  /\ main' = IF lockq = <<>> THEN "ended" ELSE "stopping"
  /\ lockq' = IF lockq = <<>> THEN lockq ELSE Append(lockq, "main")
  /\ UNCHANGED mainRest

MainStops ==
  /\ ~busy /\ main = "stopping" /\ Holds("main")
  /\ lockq' = Tail(lockq) /\ main' = "ended"
  /\ UNCHANGED <<mainRest, queueVars>>

monRest == <<conf, fed, got, at, busy, held, bound, task, settled, cancelq,
             resultq, inflight, monitorOn, staleness, counted, version,
             servers, weights, born, main, sync, queueVars>>

\* the trigger and the limits are read before the lock is taken
MonitorQueues ==
  /\ ~busy /\ mon = "sleep"
  /\ monitorOn /\ ~ShouldPause
  /\ lockq # <<>>
  /\ mon' = "locking" /\ lockq' = Append(lockq, "mon")
  /\ UNCHANGED <<monRest, lk, paused>>

MonitorUnpauses ==
  /\ ~busy
  /\ Enters("mon", mon = "sleep" /\ monitorOn /\ ~ShouldPause, mon = "locking")
  /\ paused' = FALSE /\ NotifyAll
  /\ lockq' = IF lockq = <<>> THEN lockq ELSE Tail(lockq)
  /\ mon' = "sleep"
  /\ UNCHANGED monRest

MonitorEnds ==
  /\ ~busy /\ mon = "sleep" /\ main = "ended" /\ lockq = <<>>
  /\ mon' = "ended"
  /\ UNCHANGED <<monRest, lk, paused, lockq>>

---------------------------------------------------------------------------
(* pause, update_param_version and resume, which the synchronizer calls in *)
(* this order, each after the one before                                   *)

syncRest == <<conf, fed, got, at, busy, held, bound, cancelq, resultq,
              inflight, mon, born, weights, main, mq, dropped>>

\* a call arrives behind the lock's holder; a coroutine that already has the
\* lock handed over runs before the call does
SyncQueues ==
  /\ ~busy /\ lockq # <<>> /\ ~HandedOver
  /\ sync \in DOMAIN Queued /\ sync' = Queued[sync]
  /\ lockq' = Append(lockq, "sync")
  /\ UNCHANGED <<syncRest, lk, task, settled, paused, monitorOn, staleness,
                 counted, version, servers, valq>>

SyncEnters(call) == ~busy /\ Enters("sync", sync = call, sync = Queued[call])
SyncHolds == lockq' = IF lockq = <<>> THEN <<"sync">> ELSE lockq

PauseBegins ==
  /\ SyncEnters("pauseCall")
  /\ paused' = TRUE
  /\ SyncHolds
  /\ sync' = IF conf.partial THEN "cancelling" ELSE "gathering"
  /\ UNCHANGED <<syncRest, lk, task, settled, monitorOn, staleness, counted,
                 version, servers, valq>>

\* async_rollout_manager.cancel(): some generations are cut, others had
\* just been completed
PauseCancels ==
  /\ ~busy /\ sync = "cancelling"
  /\ servers' = "cut"
  /\ \E C \in SUBSET {s \in Samples : task[s] = "gen"} :
       task' = [s \in Samples |-> IF s \in C THEN "cut"
                                  ELSE IF task[s] = "gen" THEN "out"
                                  ELSE task[s]]
  /\ sync' = "gathering"
  /\ UNCHANGED <<syncRest, lk, settled, paused, monitorOn, staleness, counted,
                 version, lockq, valq>>

\* gather(active_tasks), active_tasks.clear(), reset_prefix_cache
PauseEnds ==
  /\ ~busy /\ sync = "gathering"
  /\ \A s \in Samples : task[s] = "none"
  /\ settled' = 0 /\ monitorOn' = FALSE
  /\ lockq' = Tail(lockq) /\ sync' = "quiet"
  /\ UNCHANGED <<syncRest, lk, task, paused, staleness, counted, version,
                 servers, valq>>

Counted == ActiveTasks + Len(resultq) + Len(cancelq)

\* the first three summands of staleness_samples are read before the await
\* of the fourth; a put_sample called after that may overtake it, since calls
\* to the queue's actor are not ordered
UpdateBegins(v) ==
  /\ SyncEnters("updateCall")
  /\ version' = v
  /\ SyncHolds
  /\ counted' = Counted
  /\ sync' = "counting"
  /\ UNCHANGED <<syncRest, lk, task, settled, paused, monitorOn, staleness,
                 servers, valq>>

\* the queue's size arrives; validation, which blocks the loop; put_validate
UpdateEnds(validate) ==
  /\ ~busy /\ sync = "counting"
  /\ staleness' = counted + Len(mq)
  /\ counted' = 0
  /\ valq' = Append(valq,
       [version |-> version,
        metrics |-> \/ validate
                    \/ /\ conf.testFreq > 0 /\ version > 0
                       /\ version % conf.testFreq = 0])
  /\ lockq' = Tail(lockq) /\ sync' = "resumeCall"
  /\ UNCHANGED <<syncRest, lk, task, settled, paused, monitorOn, version,
                 servers>>

\* resume keeps the lock until the servers have resumed, if they were cut
ResumeBegins ==
  /\ SyncEnters("resumeCall")
  /\ paused' = FALSE /\ monitorOn' = TRUE /\ NotifyAll
  /\ IF conf.partial
     THEN sync' = "resuming" /\ SyncHolds
     ELSE sync' = "none" /\ lockq' = IF lockq = <<>> THEN lockq ELSE Tail(lockq)
  /\ UNCHANGED <<syncRest, task, settled, staleness, counted, version,
                 servers, valq>>

ResumeEnds ==
  /\ ~busy /\ sync = "resuming"
  /\ servers' = "open"
  /\ lockq' = Tail(lockq) /\ sync' = "none"
  /\ UNCHANGED <<syncRest, lk, task, settled, paused, monitorOn, staleness,
                 counted, version, valq>>

---------------------------------------------------------------------------
\* after the first synchronization of fully_async_main.py, of version 0
RollInit ==
  /\ conf \in Configs
  /\ fed = 0 /\ got = 0
  /\ at = "top" /\ lk = "free" /\ busy = FALSE
  /\ held = NoSample /\ bound = FALSE
  /\ task = [s \in Samples |-> "none"] /\ settled = 0
  /\ cancelq = <<>> /\ resultq = <<>> /\ inflight = NoSample
  /\ paused = FALSE /\ monitorOn = TRUE /\ mon = "sleep"
  /\ staleness = 0 /\ counted = 0 /\ version = 0
  /\ lockq = <<>> /\ servers = "open" /\ weights = 0
  /\ born = [s \in Samples |-> None]
  /\ main = "stream" /\ sync = "none"
  /\ mq = <<>> /\ dropped = {}
  /\ valq = <<[version |-> 0, metrics |-> conf.valFirst]>>

Rollouter ==
  \/ FeedSamples \/ Processor \/ ConsumerTakes
  \/ \E s \in Samples : TaskCancelled(s) \/ TaskCompletes(s)
  \/ MainStreamEnds \/ MainPutsEnd \/ MainStops
  \/ MonitorQueues \/ MonitorUnpauses \/ MonitorEnds
  \/ QueueReceives
  \/ SyncQueues \/ PauseBegins \/ PauseCancels \/ PauseEnds
  \/ ResumeBegins \/ ResumeEnds
=============================================================================
