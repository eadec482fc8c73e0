----------------------------- MODULE PPOTrainer -----------------------------
(***************************************************************************)
(* The synchronous trainer RayPPOTrainer (verl/trainer/ppo/ray_trainer.py) *)
(* with the FSDP checkpoints of its workers, through crashes and launches. *)
(*                                                                         *)
(* The driver runs one step after the other; what the workers learned is   *)
(* the sequence of batches they were updated with, each tagged with the    *)
(* launch that rolled it out.  Generation, log probabilities, rewards and  *)
(* advantages of a step change nothing that outlives it and are part of    *)
(* the update.  A crash loses the processes and leaves the directory       *)
(* default_local_dir.                                                      *)
(***************************************************************************)
EXTENDS Integers, Sequences, FiniteSets

CONSTANTS
  Configs,     \* the settings a run may have, see ConfigsAssumption
  Ranks,       \* the ranks of the worker group, each with its own shards
  LastStep,    \* bound on global_steps
  MaxLaunches, \* bound on the launches
  None,        \* a file that is not there
  Empty        \* a file without content

Roles == {"actor", "critic"}
Steps == 1 .. LastStep
Hist == Seq(Nat \X Nat)
Rank0 == CHOOSE r \in Ranks : TRUE

\* critic  use_critic               keep   max_{actor,critic}_ckpt_to_keep
\* freq    save_freq                warmup critic_warmup
\* total   total_training_steps     size   len(train_dataloader)
\* epochs  total_epochs             modes  the resume_mode of each launch
\* esi     the instance may announce that it expires
ASSUME ConfigsAssumption ==
  Configs \subseteq [critic : BOOLEAN, keep : [Roles -> Nat], freq : Nat,
                     warmup : Nat, total : Nat \ {0}, size : Nat \ {0},
                     epochs : Nat \ {0}, modes : SUBSET {"auto", "disable"},
                     esi : BOOLEAN]

ASSUME BoundsAssumption ==
  /\ LastStep \in Nat \ {0} /\ MaxLaunches \in Nat
  /\ IsFiniteSet(Ranks) /\ Ranks # {}
  /\ None \notin Nat /\ None \notin Hist /\ Empty \notin Nat /\ Empty # None

VARIABLES
  conf,     \* the settings of this run
  (* the directory *)
  shards,   \* by role, step and rank: what the shard's weights were trained on
  folders,  \* the global_step_N that exist
  data,     \* data.pt of each step: the dataloader's position
  tracker,  \* latest_checkpointed_iteration.txt
  (* the processes *)
  pc,       \* where the driver is in fit
  step,     \* global_steps
  weights,  \* by role and rank: what the workers' weights were trained on
  pos,      \* batches the dataloader has given out in this epoch
  epoch,    \* the epoch of fit's loop
  role,     \* whose checkpoint is being saved
  written,  \* the ranks whose shards are written
  saved,    \* previous_saved_paths of each role's rank 0, as steps
  (* bookkeeping *)
  launches, \* how often the program was started
  durable   \* history: the actor of the last checkpoint whose tracker was written

diskVars == <<shards, folders, data, tracker>>
procVars == <<step, weights, pos, epoch, role, written, saved>>
vars == <<conf, diskVars, pc, procVars, launches, durable>>

Fresh == [o \in Roles |-> [r \in Ranks |-> <<>>]]
NothingSaved == [o \in Roles |-> <<>>]

\* what is left of the processes when they are gone
Gone ==
  /\ step' = 0 /\ weights' = Fresh /\ pos' = 0 /\ epoch' = 0
  /\ role' = "actor" /\ written' = {} /\ saved' = NothingSaved

Init ==
  /\ conf \in Configs
  /\ shards = [o \in Roles |-> [n \in Steps |-> [r \in Ranks |-> None]]]
  /\ folders = {} /\ data = [n \in Steps |-> None] /\ tracker = None
  /\ pc = "down" /\ step = 0 /\ weights = Fresh /\ pos = 0 /\ epoch = 0
  /\ role = "actor" /\ written = {} /\ saved = NothingSaved
  /\ launches = 0 /\ durable = <<>>

UsedRoles == IF conf.critic THEN Roles ELSE {"actor"}

---------------------------------------------------------------------------
(* _load_checkpoint, at the start of fit.  A launch that raises (the       *)
(* tracker is no number, a shard is missing) leaves everything as it was.  *)

\* mutant: the highest folder rather than the tracked one
LatestFolder ==
  IF folders = {} THEN None ELSE CHOOSE n \in folders : \A m \in folders : m <= n

\* find_latest_ckpt_path
FindLatest == IF tracker \in folders THEN tracker ELSE None

Whole(o, n) == \A r \in Ranks : shards[o][n][r] # None
Loadable(n) == \A o \in UsedRoles : Whole(o, n)

\* mutant: only when asked for, a missing tracker is an error
FromScratchWhenAsked(mode) ==
  /\ mode = "disable"
  /\ step' = 1 /\ weights' = Fresh /\ pos' = 0

FromScratch(mode) ==
  /\ mode = "disable" \/ (tracker # Empty /\ FindLatest = None)
  /\ step' = 1 /\ weights' = Fresh /\ pos' = 0

Resume(mode) ==
  /\ mode = "auto" /\ tracker # Empty /\ FindLatest # None
  /\ Loadable(FindLatest)
  /\ step' = FindLatest + 1
  /\ weights' = [o \in Roles |-> IF o \in UsedRoles THEN shards[o][FindLatest]
                                 ELSE Fresh[o]]
  /\ pos' = IF data[FindLatest] = None THEN 0 ELSE data[FindLatest]

Launch ==
  /\ pc = "down" /\ launches < MaxLaunches
  /\ \E mode \in conf.modes : FromScratch(mode) \/ Resume(mode)
  /\ launches' = launches + 1
  /\ pc' = "next"
  /\ UNCHANGED <<conf, diskVars, epoch, role, written, saved, durable>>

---------------------------------------------------------------------------
(* fit *)

IsLastStep == step >= conf.total

\* the dataloader's next batch; it goes on where a loaded position left it
NextBatch ==
  /\ pc = "next" /\ pos < conf.size /\ step <= LastStep
  /\ pos' = pos + 1
  /\ pc' = IF conf.critic THEN "updateCritic" ELSE "updateActor"
  /\ UNCHANGED <<conf, diskVars, step, weights, epoch, role, written, saved,
                 launches, durable>>

\* mutant: one epoch more
OneEpochMore == epoch < conf.epochs

MoreEpochs == epoch + 1 < conf.epochs

\* the loop over the epochs always starts at 0, whatever was loaded
NextEpoch ==
  /\ pc = "next" /\ pos = conf.size
  /\ IF MoreEpochs
     THEN pos' = 0 /\ epoch' = epoch + 1 /\ pc' = pc
     ELSE pos' = pos /\ epoch' = epoch /\ pc' = "ended"
  /\ UNCHANGED <<conf, diskVars, step, weights, role, written, saved,
                 launches, durable>>

Batch == <<launches, pos - 1>>
Learns(o) ==
  weights' = [weights EXCEPT ![o] = [r \in Ranks |-> Append(weights[o][r], Batch)]]

UpdateCritic ==
  /\ pc = "updateCritic"
  /\ Learns("critic")
  /\ pc' = "updateActor"
  /\ UNCHANGED <<conf, diskVars, step, pos, epoch, role, written, saved,
                 launches, durable>>

\* save_freq, the last step or an instance that is about to expire
SavesNow ==
  conf.freq > 0 /\ (IsLastStep \/ step % conf.freq = 0)

UpdateActor ==
  /\ pc = "updateActor"
  /\ IF conf.warmup <= step THEN Learns("actor") ELSE UNCHANGED weights
  /\ \/ SavesNow /\ pc' = "remove"
     \/ ~SavesNow /\ pc' = "advance"
     \/ conf.esi /\ conf.freq > 0 /\ pc' = "remove"
  /\ UNCHANGED <<conf, diskVars, step, pos, epoch, role, written, saved,
                 launches, durable>>

Advance ==
  /\ pc = "advance"
  /\ step' = step + 1
  /\ pc' = IF IsLastStep THEN "ended" ELSE "next"
  /\ UNCHANGED <<conf, diskVars, weights, pos, epoch, role, written, saved,
                 launches, durable>>

---------------------------------------------------------------------------
(* _save_checkpoint: the actor's save_checkpoint on all ranks, then the    *)
(* critic's, data.pt and the tracker                                       *)

\* mutants: makes room for one more, or for none
CutOneMore(o) ==
  IF conf.keep[o] = 1 THEN Len(saved[o]) ELSE Len(saved[o]) - conf.keep[o] + 2
CutOneLess(o) == Len(saved[o]) - conf.keep[o]

\* how many of the previous paths go
Cut(o) == Len(saved[o]) - conf.keep[o] + 1

\* rank 0 removes the previous directories, all ranks make the new one
RemovePrevious ==
  LET full == conf.keep[role] > 0 /\ Len(saved[role]) >= conf.keep[role]
      cut  == IF full THEN Cut(role) ELSE 0
      old  == {saved[role][i] : i \in 1 .. cut}
  IN  /\ pc = "remove"
      /\ shards' = [shards EXCEPT ![role] =
           [n \in Steps |-> IF n \in old THEN [r \in Ranks |-> None] ELSE @[n]]]
      /\ saved' = [saved EXCEPT ![role] = SubSeq(@, cut + 1, Len(@))]
      /\ folders' = folders \cup {step}
      /\ written' = {} /\ pc' = "write"
      /\ UNCHANGED <<conf, data, tracker, step, weights, pos, epoch, role,
                     launches, durable>>

WriteShard(r) ==
  /\ pc = "write" /\ r \notin written
  /\ shards' = [shards EXCEPT ![role][step][r] = weights[role][r]]
  /\ written' = written \cup {r}
  /\ UNCHANGED <<conf, folders, data, tracker, pc, step, weights, pos, epoch,
                 role, saved, launches, durable>>

\* the barrier; the path is noted
RoleSaved ==
  /\ pc = "write" /\ written = Ranks
  /\ saved' = [saved EXCEPT ![role] = Append(@, step)]
  /\ written' = {}
  /\ IF role = "actor" /\ conf.critic
     THEN role' = "critic" /\ pc' = "remove"
     ELSE role' = "actor" /\ pc' = "data"
  /\ UNCHANGED <<conf, diskVars, step, weights, pos, epoch, launches, durable>>

\* mutant: the position in the epoch before the batch that was just used
SaveDataEarly ==
  /\ pc = "data"
  /\ data' = [data EXCEPT ![step] = pos - 1] /\ pc' = "openTracker"
  /\ UNCHANGED <<conf, shards, folders, tracker, procVars, launches, durable>>

SaveData ==
  /\ pc = "data"
  /\ data' = [data EXCEPT ![step] = pos] /\ pc' = "openTracker"
  /\ UNCHANGED <<conf, shards, folders, tracker, procVars, launches, durable>>

\* open(..., "w") truncates the file
OpenTracker ==
  /\ pc = "openTracker"
  /\ tracker' = Empty /\ pc' = "writeTracker"
  /\ UNCHANGED <<conf, shards, folders, data, procVars, launches, durable>>

WriteTracker ==
  /\ pc = "writeTracker"
  /\ tracker' = step /\ pc' = "advance"
  /\ durable' = weights["actor"][Rank0]
  /\ UNCHANGED <<conf, shards, folders, data, procVars, launches>>

---------------------------------------------------------------------------
\* any process of the job dies, or the program has ended and is started again
Crash ==
  /\ pc # "down" /\ launches < MaxLaunches
  /\ Gone /\ pc' = "down"
  /\ UNCHANGED <<conf, diskVars, launches, durable>>

Fit ==
  \/ NextBatch \/ NextEpoch \/ UpdateCritic \/ UpdateActor \/ Advance
  \/ RemovePrevious \/ (\E r \in Ranks : WriteShard(r)) \/ RoleSaved
  \/ SaveData \/ OpenTracker \/ WriteTracker

Next == Launch \/ Fit \/ Crash

\* the job runs, and is launched again after a crash
Spec == Init /\ [][Next]_vars /\ WF_vars(Fit) /\ WF_vars(Launch)

---------------------------------------------------------------------------
TypeOK ==
  /\ conf \in Configs
  /\ shards \in [Roles -> [Steps -> [Ranks -> Hist \cup {None}]]]
  /\ folders \subseteq Steps
  /\ data \in [Steps -> (0 .. conf.size) \cup {None}]
  /\ tracker \in Steps \cup {None, Empty}
  /\ pc \in {"down", "next", "updateCritic", "updateActor", "advance", "remove",
             "write", "data", "openTracker", "writeTracker", "ended"}
  /\ step \in Nat
  /\ pc \notin {"down", "next", "ended"} => step \in Steps
  /\ weights \in [Roles -> [Ranks -> Hist]]
  /\ pos \in 0 .. conf.size /\ epoch \in 0 .. conf.epochs - 1
  /\ role \in Roles /\ written \subseteq Ranks
  /\ saved \in [Roles -> Seq(Steps)]
  /\ launches \in 0 .. MaxLaunches
  /\ durable \in Hist

AutoOnly == conf.modes = {"auto"}
KeepsTwo == \A o \in UsedRoles : conf.keep[o] # 1

(* When every launch resumes and two checkpoints are kept, a tracker that   *)
(* names a step names a whole checkpoint of every role and its data.pt,     *)
(* wherever the job has crashed and whatever it has removed.                *)
TrackedLoadable ==
  AutoOnly /\ KeepsTwo /\ tracker \in Steps =>
    Loadable(tracker) /\ data[tracker] # None

(* Across all crashes and launches the ranks were trained on the same       *)
(* rollouts, on every batch of the data exactly once and in its order, the  *)
(* actor from the step critic_warmup on and on the critic's rollouts.       *)
OneMode == Cardinality(conf.modes) = 1
FirstActorStep == IF conf.warmup > 1 THEN conf.warmup ELSE 1
InOrder(h, first) ==
  /\ Len(h) = IF step > first THEN step - first ELSE 0
  /\ \A k \in DOMAIN h : h[k][2] = (first + k - 2) % conf.size
TrainedInOrder ==
  OneMode /\ pc = "next" =>
    \A r \in Ranks :
      /\ InOrder(weights["actor"][r], FirstActorStep)
      /\ weights["actor"][r] = weights["actor"][Rank0]
      /\ conf.critic =>
           /\ InOrder(weights["critic"][r], 1)
           /\ weights["actor"][r]
                = SubSeq(weights["critic"][r], FirstActorStep, step - 1)

(* A launch removes what it saved itself and no more, so the checkpoints on *)
(* the disk are at most max_ckpt_to_keep for every launch.                  *)
DiskBound ==
  \A o \in UsedRoles : conf.keep[o] > 0 =>
    Cardinality({n \in Steps : \E r \in Ranks : shards[o][n][r] # None})
      <= conf.keep[o] * launches

(* A launch that resumes cannot go on from here. *)
Stuck ==
  /\ pc = "down" /\ AutoOnly
  /\ tracker = Empty \/ (FindLatest # None /\ ~Loadable(FindLatest))

(* Unless a crash leaves a checkpoint that cannot be loaded, training comes *)
(* to its end.                                                              *)
TrainingEnds == <>(pc = "ended" \/ Stuck)

(* verl/docs/examples/config.rst:598: with resume_mode auto "the program    *)
(* will automatically resume from the latest checkpoint in the              *)
(* default_local_dir".                                                      *)
ResumesAutomatically == ~Stuck

(* The trainer implements training whose checkpoints are durable: a launch  *)
(* goes on from all of the last checkpoint or from nothing.  Where launches *)
(* of both resume modes rewrite each other's folders nothing is promised.   *)
Durable == INSTANCE DurableTraining
  WITH Batches <- UNION {(0 .. MaxLaunches) \X (0 .. c.size - 1) : c \in Configs},
       model <- IF ~OneMode THEN <<>>
                ELSE IF pc = "down" THEN durable ELSE weights["actor"][Rank0],
       durable <- IF OneMode THEN durable ELSE <<>>

ImplementsDurable == Durable!Spec
=============================================================================
