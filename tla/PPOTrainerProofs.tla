--------------------------- MODULE PPOTrainerProofs ---------------------------
(***************************************************************************)
(* Theorems about training with checkpoints, for any settings, number of   *)
(* ranks, launches and crashes.                                            *)
(***************************************************************************)
EXTENDS PPOTrainer, SequenceTheorems, FiniteSetTheorems, TLAPS

Saving == {"remove", "write"}
Running == {"next", "updateCritic", "updateActor", "advance", "remove", "write",
            "data", "openTracker", "writeTracker"}

\* Strengthens TypeOK: a batch is out while it is learned, and the role whose
\* checkpoint is being saved is one the run has.
TypeInv ==
  /\ TypeOK
  /\ pc \in {"updateCritic", "updateActor"} => pos > 0
  /\ role \in UsedRoles
  /\ pc \notin Saving => role = "actor"
  /\ pc = "down" => saved = NothingSaved
  /\ pc \in Running => step > 0

LEMMA RestOf ==
  ASSUME NEW S, NEW q \in Seq(S), NEW c \in 0 .. Len(q)
  PROVE  /\ Len(SubSeq(q, c + 1, Len(q))) = Len(q) - c
         /\ \A i \in 1 .. Len(q) - c : SubSeq(q, c + 1, Len(q))[i] = q[i + c]
<1>1. \A i \in c + 1 .. Len(q) : q[i] \in S OBVIOUS
<1> QED BY <1>1, SubSeqProperties

LEMMA RolesFact ==
  Roles = {"actor", "critic"} /\ UsedRoles \subseteq Roles /\ "actor" \in UsedRoles
BY DEF Roles, UsedRoles

LEMMA ConfFacts ==
  ASSUME conf \in Configs
  PROVE  /\ conf.critic \in BOOLEAN /\ conf.keep \in [Roles -> Nat]
         /\ conf.freq \in Nat /\ conf.warmup \in Nat /\ conf.total \in Nat \ {0}
         /\ conf.size \in Nat \ {0} /\ conf.epochs \in Nat \ {0}
         /\ conf.modes \subseteq {"auto", "disable"} /\ conf.esi \in BOOLEAN
BY ConfigsAssumption

LEMMA FreshTyped == Fresh \in [Roles -> [Ranks -> Hist]]
<1>1. <<>> \in Hist BY DEF Hist
<1> QED BY <1>1 DEF Fresh

LEMMA NothingTyped == NothingSaved \in [Roles -> Seq(Steps)]
BY DEF NothingSaved

LEMMA Rank0Typed == Rank0 \in Ranks
BY BoundsAssumption DEF Rank0

LEMMA TypeInit == Init => TypeInv
<1> SUFFICES ASSUME Init PROVE TypeInv OBVIOUS
<1> USE RolesFact, ConfFacts, FreshTyped, NothingTyped, BoundsAssumption DEF Init
<1>1. <<>> \in Hist BY DEF Hist
<1>2. TypeOK BY <1>1 DEF TypeOK
<1> QED BY <1>2 DEF TypeInv, Saving, Running

LEMMA ConfFixed == [Next]_vars => conf' = conf
<1>1. UNCHANGED vars => conf' = conf BY DEF vars
<1>2. Launch \/ NextBatch \/ UpdateCritic \/ UpdateActor \/ Advance => conf' = conf
  BY DEF Launch, NextBatch, UpdateCritic, UpdateActor, Advance
<1>3. NextEpoch => conf' = conf BY DEF NextEpoch
<1>4. RemovePrevious => conf' = conf BY DEF RemovePrevious
<1>5. (\E r \in Ranks : WriteShard(r)) => conf' = conf BY DEF WriteShard
<1>6. RoleSaved \/ SaveData \/ OpenTracker \/ WriteTracker \/ Crash => conf' = conf
  BY DEF RoleSaved, SaveData, OpenTracker, WriteTracker, Crash
<1> QED BY <1>1, <1>2, <1>3, <1>4, <1>5, <1>6 DEF Next, Fit

LEMMA TypeNext == TypeInv /\ [Next]_vars => TypeInv'
<1> SUFFICES ASSUME TypeInv, [Next]_vars PROVE TypeInv' OBVIOUS
<1> USE RolesFact, ConfFacts, BoundsAssumption
    DEF TypeInv, TypeOK, diskVars, procVars, Saving, Running, UsedRoles
<1>0. CASE UNCHANGED vars BY <1>0 DEF vars
<1>1. CASE Launch
  <2>1. PICK mode \in conf.modes : FromScratch(mode) \/ Resume(mode)
    BY <1>1 DEF Launch
  <2>2. CASE FromScratch(mode)
    BY <1>1, <2>2, FreshTyped DEF Launch, FromScratch
  <2>3. CASE Resume(mode)
    <3>1. FindLatest \in Steps BY <2>3 DEF Resume, FindLatest
    <3>2. step' \in Nat /\ step' > 0 BY <2>3, <3>1 DEF Resume, Steps
    <3>3. \A o \in UsedRoles : shards[o][FindLatest] \in [Ranks -> Hist]
      <4> SUFFICES ASSUME NEW o \in UsedRoles PROVE shards[o][FindLatest] \in [Ranks -> Hist]
        OBVIOUS
      <4>1. shards[o][FindLatest] \in [Ranks -> Hist \cup {None}] BY <3>1
      <4>2. \A r \in Ranks : shards[o][FindLatest][r] # None
        BY <2>3 DEF Resume, Loadable, Whole
      <4> QED BY <4>1, <4>2
    <3>4. weights' \in [Roles -> [Ranks -> Hist]]
      BY <2>3, <3>3, FreshTyped DEF Resume
    <3>5. pos' \in 0 .. conf.size BY <2>3, <3>1 DEF Resume
    <3> QED BY <1>1, <3>2, <3>4, <3>5 DEF Launch
  <2> QED BY <2>1, <2>2, <2>3
<1>2. CASE NextBatch
  <2>1. pos' \in 0 .. conf.size /\ pos' > 0 /\ step \in Steps
    BY <1>2 DEF NextBatch, Steps
  <2>2. /\ pc' \in {"updateCritic", "updateActor"}
        /\ UNCHANGED <<conf, shards, folders, data, tracker, step, weights, epoch,
                       role, written, saved, launches, durable>>
    BY <1>2 DEF NextBatch
  <2>3. TypeOK' BY <2>1, <2>2
  <2> QED BY <1>2, <2>1, <2>2, <2>3 DEF NextBatch
<1>3. CASE NextEpoch
  <2>1. CASE MoreEpochs
    <3>1. /\ pos' = 0 /\ epoch' = epoch + 1 /\ pc' = pc /\ pc = "next"
          /\ UNCHANGED <<conf, shards, folders, data, tracker, step, weights, role,
                         written, saved, launches, durable>>
      BY <1>3, <2>1 DEF NextEpoch
    <3>2. epoch' \in 0 .. conf.epochs - 1 /\ pos' \in 0 .. conf.size
      BY <2>1, <3>1 DEF MoreEpochs
    <3>3. TypeOK' BY <3>1, <3>2
    <3> QED BY <3>1, <3>3
  <2>2. CASE ~MoreEpochs
    <3>1. pc' = "ended" /\ UNCHANGED <<conf, shards, folders, data, tracker, step,
            weights, pos, epoch, role, written, saved, launches, durable>>
      BY <1>3, <2>2 DEF NextEpoch
    <3>2. TypeOK' BY <3>1
    <3>3. pc = "next" /\ role = "actor" BY <1>3 DEF NextEpoch
    <3> QED BY <3>1, <3>2, <3>3
  <2> QED BY <2>1, <2>2
<1>4. ASSUME NEW o \in Roles, Learns(o), pos > 0 PROVE weights' \in [Roles -> [Ranks -> Hist]]
  <2>1. Batch \in Nat \X Nat BY <1>4 DEF Batch
  <2>2. \A r \in Ranks : Append(weights[o][r], Batch) \in Hist BY <2>1 DEF Hist
  <2> QED BY <1>4, <2>2 DEF Learns
<1>5. CASE UpdateCritic BY <1>4, <1>5 DEF UpdateCritic
<1>6. CASE UpdateActor
  <2>1. weights' \in [Roles -> [Ranks -> Hist]] BY <1>4, <1>6 DEF UpdateActor
  <2> QED BY <1>6, <2>1 DEF UpdateActor
<1>7. CASE Advance BY <1>7 DEF Advance
<1>8. CASE RemovePrevious
  <2> DEFINE full == conf.keep[role] > 0 /\ Len(saved[role]) >= conf.keep[role]
             cut == IF full THEN Cut(role) ELSE 0
             old == {saved[role][i] : i \in 1 .. cut}
  <2>1. /\ pc = "remove"
        /\ shards' = [shards EXCEPT ![role] =
             [n \in Steps |-> IF n \in old THEN [r \in Ranks |-> None] ELSE @[n]]]
        /\ saved' = [saved EXCEPT ![role] = SubSeq(@, cut + 1, Len(@))]
        /\ folders' = folders \cup {step}
        /\ written' = {} /\ pc' = "write"
        /\ UNCHANGED <<conf, data, tracker, step, weights, pos, epoch, role,
                       launches, durable>>
    BY <1>8 DEF RemovePrevious
  <2>2. cut \in 0 .. Len(saved[role]) BY DEF Cut
  <2>3. SubSeq(saved[role], cut + 1, Len(saved[role])) \in Seq(Steps) BY <2>2
  <2>4. saved' \in [Roles -> Seq(Steps)] BY <2>1, <2>3
  <2>5. shards' \in [Roles -> [Steps -> [Ranks -> Hist \cup {None}]]] BY <2>1
  <2>6. step \in Steps /\ folders' \subseteq Steps BY <2>1
  <2> HIDE DEF full, cut, old
  <2>7. TypeOK' BY <2>1, <2>4, <2>5, <2>6
  <2> QED BY <2>1, <2>7
<1>9. ASSUME NEW r \in Ranks, WriteShard(r) PROVE TypeInv'
  <2>1. /\ shards' = [shards EXCEPT ![role][step][r] = weights[role][r]]
        /\ written' = written \cup {r} /\ pc = "write"
        /\ UNCHANGED <<conf, folders, data, tracker, pc, step, weights, pos, epoch,
                       role, saved, launches, durable>>
    BY <1>9 DEF WriteShard
  <2>2. shards' \in [Roles -> [Steps -> [Ranks -> Hist \cup {None}]]] BY <2>1
  <2>3. TypeOK' BY <2>1, <2>2
  <2> QED BY <2>1, <2>3
<1>10. CASE RoleSaved
  <2>1. Append(saved[role], step) \in Seq(Steps) BY <1>10 DEF RoleSaved
  <2>2. saved' \in [Roles -> Seq(Steps)] BY <1>10, <2>1 DEF RoleSaved
  <2>3. /\ role' \in UsedRoles /\ pc' \in {"remove", "data"}
        /\ pc' = "data" => role' = "actor"
    BY <1>10 DEF RoleSaved
  <2>4. /\ pc = "write" /\ written' = {}
        /\ UNCHANGED <<conf, shards, folders, data, tracker, step, weights, pos,
                       epoch, launches, durable>>
    BY <1>10 DEF RoleSaved
  <2>5. TypeOK' BY <2>2, <2>3, <2>4
  <2> QED BY <2>2, <2>3, <2>4, <2>5
<1>11. CASE SaveData BY <1>11 DEF SaveData
<1>12. CASE OpenTracker BY <1>12 DEF OpenTracker
<1>13. CASE WriteTracker BY <1>13, Rank0Typed DEF WriteTracker
<1>14. CASE Crash
  <2>1. /\ pc' = "down" /\ step' = 0 /\ weights' = Fresh /\ pos' = 0 /\ epoch' = 0
        /\ role' = "actor" /\ written' = {} /\ saved' = NothingSaved
        /\ UNCHANGED <<conf, shards, folders, data, tracker, launches, durable>>
    BY <1>14 DEF Crash, Gone
  <2>2. 0 \in 0 .. conf.size /\ 0 \in 0 .. conf.epochs - 1 OBVIOUS
  <2>3. TypeOK' BY <2>1, <2>2, FreshTyped, NothingTyped
  <2> QED BY <2>1, <2>3
<1> QED BY <1>0, <1>1, <1>2, <1>3, <1>5, <1>6, <1>7, <1>8, <1>9, <1>10, <1>11,
           <1>12, <1>13, <1>14 DEF Next, Fit

\* The files and the processes keep their shapes.
THEOREM TrainerTypeCorrect == Spec => []TypeOK
<1>1. TypeInv => TypeOK BY DEF TypeInv
<1> QED BY TypeInit, TypeNext, <1>1, PTL DEF Spec

---------------------------------------------------------------------------
Safe == AutoOnly /\ KeepsTwo

\* the roles whose checkpoint of this step is written
Done(o) ==
  \/ pc \in Saving /\ role = "critic" /\ o = "actor"
  \/ pc \in {"data", "openTracker", "writeTracker"}

\* The tracked folder exists.  Until the tracker names the current step it
\* names an earlier one.
TrackerInv ==
  /\ tracker \in Steps => tracker \in folders
  /\ pc \in {"write", "data", "openTracker", "writeTracker"} => step \in folders
  /\ Safe /\ pc \in Running /\ tracker \in Steps =>
       tracker <= step /\ (pc # "advance" => tracker < step)

\* What is written of the current step's checkpoint.
WrittenInv ==
  /\ pc = "write" => \A r \in written : shards[role][step][r] # None
  /\ \A o \in UsedRoles : Done(o) => Whole(o, step)
  /\ pc \in {"openTracker", "writeTracker"} => data[step] # None

\* The path that the tracker names is the newest in a role's list, until the
\* role has saved the current step: only a newer one can push it out.
ListInv ==
  Safe => \A o \in UsedRoles : \A i \in 1 .. Len(saved[o]) :
    /\ pc \in Running =>
         saved[o][i] <= step /\ (pc # "advance" /\ ~Done(o) => saved[o][i] < step)
    /\ Done(o) /\ i < Len(saved[o]) => saved[o][i] < step
    /\ ~Done(o) /\ i < Len(saved[o]) => saved[o][i] # tracker

CheckpointInv == TypeInv /\ TrackerInv /\ WrittenInv /\ ListInv /\ TrackedLoadable

LEMMA CheckpointInit == Init => CheckpointInv
<1> SUFFICES ASSUME Init PROVE CheckpointInv OBVIOUS
<1>1. TypeInv BY TypeInit
<1>2. tracker \notin Steps BY BoundsAssumption DEF Init, Steps
<1>3. TrackerInv BY <1>2 DEF Init, TrackerInv
<1>4. WrittenInv BY DEF Init, WrittenInv, Done, Saving
<1>5. ListInv BY RolesFact DEF Init, ListInv, NothingSaved
<1>6. TrackedLoadable BY <1>2 DEF TrackedLoadable
<1> QED BY <1>1, <1>3, <1>4, <1>5, <1>6 DEF CheckpointInv

\* What the steps below need of the types.
LEMMA CheckpointFacts ==
  ASSUME CheckpointInv
  PROVE  /\ TypeInv /\ TrackerInv /\ WrittenInv /\ ListInv /\ TrackedLoadable
         /\ shards \in [Roles -> [Steps -> [Ranks -> Hist \cup {None}]]]
         /\ data \in [Steps -> (0 .. conf.size) \cup {None}]
         /\ saved \in [Roles -> Seq(Steps)]
         /\ \A o \in Roles : \A i \in 1 .. Len(saved[o]) : saved[o][i] \in Steps
         /\ \A o \in Roles, r \in Ranks : weights[o][r] \in Hist
         /\ conf \in Configs /\ step \in Nat /\ role \in UsedRoles
         /\ pc \in Running => step > 0
         /\ pc \notin {"down", "next", "ended"} => step \in Steps
         /\ pc \notin Saving => role = "actor"
         /\ pc = "down" => saved = NothingSaved
         /\ Steps \subseteq Nat
<1>1. TypeInv /\ TrackerInv /\ WrittenInv /\ ListInv /\ TrackedLoadable BY DEF CheckpointInv
<1>2. TypeOK BY <1>1 DEF TypeInv
<1>3. \A o \in Roles : saved[o] \in Seq(Steps) BY <1>2 DEF TypeOK
<1>4. \A o \in Roles : \A i \in 1 .. Len(saved[o]) : saved[o][i] \in Steps BY <1>3
<1>5. \A o \in Roles, r \in Ranks : weights[o][r] \in Hist BY <1>2 DEF TypeOK
<1> QED BY <1>1, <1>2, <1>4, <1>5 DEF TypeInv, TypeOK, Steps

\* Steps of the training loop that touch neither the directory nor the lists.
LEMMA QuietStep ==
  ASSUME CheckpointInv, TypeInv',
         UNCHANGED <<conf, shards, folders, data, tracker, step, role, written, saved>>,
         pc \in {"next", "updateCritic", "updateActor"},
         pc' \in {"next", "updateCritic", "updateActor", "advance", "remove", "ended"}
  PROVE  CheckpointInv'
<1> USE RolesFact, CheckpointFacts DEF Saving, Running
<1>1. Safe' = Safe /\ UsedRoles' = UsedRoles
  BY DEF Safe, AutoOnly, KeepsTwo, UsedRoles
<1>2. role = "actor" OBVIOUS
<1>3. \A o \in Roles : ~Done(o) /\ ~Done(o)' BY <1>2 DEF Done
<1>4. TrackerInv' BY <1>1 DEF TrackerInv
<1>5. WrittenInv' BY <1>1, <1>2, <1>3 DEF WrittenInv
<1>6. ListInv' BY <1>1, <1>3 DEF ListInv
<1>7. TrackedLoadable' BY <1>1 DEF TrackedLoadable, Safe, Loadable, Whole, AutoOnly, KeepsTwo
<1> QED BY <1>4, <1>5, <1>6, <1>7 DEF CheckpointInv

LEMMA LaunchStep ==
  ASSUME CheckpointInv, TypeInv', Launch
  PROVE  CheckpointInv'
<1> USE RolesFact, BoundsAssumption, CheckpointFacts DEF Saving, Running
<1>1. /\ pc = "down" /\ pc' = "next" /\ saved = NothingSaved
      /\ UNCHANGED <<conf, shards, folders, data, tracker, role, written, saved>>
  BY DEF Launch, diskVars
<1>2. Safe' = Safe /\ UsedRoles' = UsedRoles
  BY <1>1 DEF Safe, AutoOnly, KeepsTwo, UsedRoles
<1>3. \A o \in Roles : ~Done(o)' BY <1>1 DEF Done
<1>4. TrackerInv'
  <2> SUFFICES ASSUME Safe, tracker \in Steps PROVE tracker < step' /\ tracker <= step'
    BY <1>1, <1>2 DEF TrackerInv
  <2>1. FindLatest = tracker /\ tracker # None
    BY DEF TrackerInv, FindLatest, Steps
  <2>2. PICK mode \in conf.modes : FromScratch(mode) \/ Resume(mode) BY DEF Launch
  <2>3. mode = "auto" BY <2>2 DEF Safe, AutoOnly
  <2>4. step' = tracker + 1 BY <2>1, <2>2, <2>3 DEF FromScratch, Resume
  <2> QED BY <2>4 DEF Steps
<1>5. WrittenInv' BY <1>1, <1>2, <1>3 DEF WrittenInv
<1>6. ListInv' BY <1>1, <1>2 DEF ListInv, NothingSaved
<1>7. TrackedLoadable'
  BY <1>1, <1>2 DEF TrackedLoadable, Safe, Loadable, Whole, AutoOnly, KeepsTwo
<1> QED BY <1>4, <1>5, <1>6, <1>7 DEF CheckpointInv

LEMMA AdvanceStep ==
  ASSUME CheckpointInv, TypeInv', Advance
  PROVE  CheckpointInv'
<1> USE RolesFact, CheckpointFacts DEF Saving, Running
<1>1. /\ pc = "advance" /\ pc' \in {"next", "ended"} /\ step' = step + 1 /\ role = "actor"
      /\ UNCHANGED <<conf, shards, folders, data, tracker, role, written, saved>>
  BY DEF Advance, diskVars
<1>2. Safe' = Safe /\ UsedRoles' = UsedRoles
  BY <1>1 DEF Safe, AutoOnly, KeepsTwo, UsedRoles
<1>3. \A o \in Roles : ~Done(o) /\ ~Done(o)' BY <1>1 DEF Done
<1>4. TrackerInv' BY <1>1, <1>2 DEF TrackerInv, Steps
<1>5. WrittenInv' BY <1>1, <1>2, <1>3 DEF WrittenInv
<1>6. ListInv'
  <2> SUFFICES ASSUME Safe, NEW o \in UsedRoles, NEW i \in 1 .. Len(saved[o])
               PROVE  saved[o][i] <= step /\ (i < Len(saved[o]) => saved[o][i] # tracker)
                      /\ saved[o][i] \in Nat
    BY <1>1, <1>2, <1>3 DEF ListInv
  <2> QED BY <1>1, <1>3 DEF ListInv
<1>7. TrackedLoadable'
  BY <1>1, <1>2 DEF TrackedLoadable, Safe, Loadable, Whole, AutoOnly, KeepsTwo
<1> QED BY <1>4, <1>5, <1>6, <1>7 DEF CheckpointInv

\* What is removed is never what the tracker names.
LEMMA RemoveStep ==
  ASSUME CheckpointInv, TypeInv', RemovePrevious
  PROVE  CheckpointInv'
<1> USE RolesFact, ConfFacts, CheckpointFacts DEF Saving, Running
<1> DEFINE full == conf.keep[role] > 0 /\ Len(saved[role]) >= conf.keep[role]
           cut == IF full THEN Cut(role) ELSE 0
           old == {saved[role][i] : i \in 1 .. cut}
<1>1. /\ pc = "remove" /\ pc' = "write" /\ written' = {}
      /\ shards' = [shards EXCEPT ![role] =
           [n \in Steps |-> IF n \in old THEN [r \in Ranks |-> None] ELSE @[n]]]
      /\ saved' = [saved EXCEPT ![role] = SubSeq(@, cut + 1, Len(@))]
      /\ folders' = folders \cup {step}
      /\ UNCHANGED <<conf, data, tracker, step, role>>
  BY DEF RemovePrevious
<1>2. Safe' = Safe /\ UsedRoles' = UsedRoles
  BY <1>1 DEF Safe, AutoOnly, KeepsTwo, UsedRoles
<1>3. \A o \in Roles : (Done(o)' <=> Done(o)) /\ (Done(o) => o # role) BY <1>1 DEF Done
<1>0. role \in Roles /\ role \in UsedRoles OBVIOUS
<1>a. /\ conf.keep[role] \in Nat /\ saved[role] \in Seq(Steps) /\ Len(saved[role]) \in Nat
      /\ Safe => conf.keep[role] # 1
  BY <1>0 DEF Safe, KeepsTwo
<1>4. cut \in 0 .. Len(saved[role]) /\ (Safe => cut < Len(saved[role]) \/ cut = 0)
  <2> DEFINE l == Len(saved[role])
             keep == conf.keep[role]
  <2>1. /\ keep \in Nat /\ l \in Nat /\ (Safe => keep # 1)
        /\ cut = IF keep > 0 /\ l >= keep THEN l - keep + 1 ELSE 0
    BY <1>a DEF Cut
  <2> HIDE DEF l, keep, full, cut
  <2>2. cut \in 0 .. l /\ (Safe => cut < l \/ cut = 0) BY <2>1
  <2> QED BY <2>2 DEF l
<1>5. Safe /\ tracker \in Steps => tracker \notin old
  <2>1. \A i \in 1 .. cut : i \in 1 .. Len(saved[role]) /\ (Safe => i < Len(saved[role]))
    BY <1>a, <1>4
  <2>2. ~Done(role) BY <1>0, <1>3
  <2> QED BY <1>0, <2>1, <2>2 DEF ListInv
<1>6. \A o \in Roles : o # role => saved'[o] = saved[o] /\ shards'[o] = shards[o]
  BY <1>1
<1>7. /\ Len(saved'[role]) = Len(saved[role]) - cut
      /\ \A i \in 1 .. Len(saved'[role]) : saved'[role][i] = saved[role][i + cut]
  <2>1. saved'[role] = SubSeq(saved[role], cut + 1, Len(saved[role])) BY <1>0, <1>1
  <2> HIDE DEF full, cut
  <2> QED BY <1>a, <1>4, <2>1, RestOf
<1> HIDE DEF full, cut
<1>8. TrackerInv' BY <1>1, <1>2 DEF TrackerInv
<1>9. WrittenInv' BY <1>1, <1>2, <1>3, <1>6 DEF WrittenInv, Whole
<1>10. ListInv'
  <2> SUFFICES ASSUME Safe, NEW o \in UsedRoles, NEW i \in 1 .. Len(saved'[o])
               PROVE  /\ saved'[o][i] <= step /\ (~Done(o) => saved'[o][i] < step)
                      /\ Done(o) /\ i < Len(saved'[o]) => saved'[o][i] < step
                      /\ ~Done(o) /\ i < Len(saved'[o]) => saved'[o][i] # tracker
    BY <1>1, <1>2, <1>3 DEF ListInv
  <2>1. CASE o # role BY <1>1, <1>6, <2>1 DEF ListInv
  <2>2. CASE o = role
    <3>1. /\ i + cut \in 1 .. Len(saved[o]) /\ saved'[o][i] = saved[o][i + cut]
          /\ i < Len(saved'[o]) => i + cut < Len(saved[o])
      <4> DEFINE l == Len(saved[o])
                 m == Len(saved'[o])
      <4>1. l \in Nat /\ cut \in 0 .. l /\ m = l - cut /\ i \in 1 .. m
        BY <1>a, <1>4, <1>7, <2>2
      <4>2. saved'[o][i] = saved[o][i + cut] BY <1>7, <2>2
      <4> HIDE DEF l, m
      <4>3. i + cut \in 1 .. l /\ (i < m => i + cut < l) BY <4>1
      <4> QED BY <4>2, <4>3 DEF l, m
    <3> QED BY <1>1, <3>1 DEF ListInv
  <2> QED BY <2>1, <2>2
<1>11. TrackedLoadable'
  <2> SUFFICES ASSUME Safe, tracker \in Steps
               PROVE  Loadable(tracker)' /\ data[tracker] # None
    BY <1>1, <1>2 DEF TrackedLoadable, Safe
  <2>1. Loadable(tracker) /\ data[tracker] # None BY DEF TrackedLoadable, Safe
  <2>2. \A o \in UsedRoles : shards'[o][tracker] = shards[o][tracker]
    BY <1>1, <1>5, <1>6
  <2> QED BY <1>1, <1>2, <2>1, <2>2 DEF Loadable, Whole
<1> QED BY <1>8, <1>9, <1>10, <1>11 DEF CheckpointInv

LEMMA WriteStep ==
  ASSUME CheckpointInv, TypeInv', NEW r \in Ranks, WriteShard(r)
  PROVE  CheckpointInv'
<1> USE RolesFact, BoundsAssumption, CheckpointFacts DEF Saving, Running
<1>1. /\ pc = "write" /\ written' = written \cup {r}
      /\ shards' = [shards EXCEPT ![role][step][r] = weights[role][r]]
      /\ UNCHANGED <<conf, folders, data, tracker, pc, step, role, saved>>
  BY DEF WriteShard
<1>2. Safe' = Safe /\ UsedRoles' = UsedRoles
  BY <1>1 DEF Safe, AutoOnly, KeepsTwo, UsedRoles
<1>3. \A o \in Roles : Done(o)' <=> Done(o) BY <1>1 DEF Done
<1>4. weights[role][r] # None
  <2>1. role \in Roles OBVIOUS
  <2>2. weights[role][r] \in Hist BY <2>1
  <2> QED BY <2>2
<1>5. /\ shards'[role][step][r] # None
      /\ \A o \in Roles, n \in Steps, s \in Ranks :
           shards[o][n][s] # None => shards'[o][n][s] # None
  BY <1>1, <1>4
<1>6. TrackerInv' BY <1>1, <1>2 DEF TrackerInv
<1>7. WrittenInv' BY <1>1, <1>2, <1>3, <1>5 DEF WrittenInv, Whole
<1>8. ListInv' BY <1>1, <1>2, <1>3 DEF ListInv
<1>9. TrackedLoadable'
  <2> SUFFICES ASSUME Safe, tracker \in Steps
               PROVE  Loadable(tracker)' /\ data[tracker] # None
    BY <1>1, <1>2 DEF TrackedLoadable, Safe
  <2>1. Loadable(tracker) /\ data[tracker] # None BY DEF TrackedLoadable, Safe
  <2> QED BY <1>1, <1>2, <1>5, <2>1 DEF Loadable, Whole
<1> QED BY <1>6, <1>7, <1>8, <1>9 DEF CheckpointInv

LEMMA SavedStep ==
  ASSUME CheckpointInv, TypeInv', RoleSaved
  PROVE  CheckpointInv'
<1> USE RolesFact, CheckpointFacts DEF Saving, Running
<1>1. /\ pc = "write" /\ written = Ranks /\ pc' \in {"remove", "data"}
      /\ saved' = [saved EXCEPT ![role] = Append(@, step)]
      /\ UNCHANGED <<conf, shards, folders, data, tracker, step>>
  BY DEF RoleSaved, diskVars
<1>2. \/ role = "actor" /\ role' = "critic" /\ pc' = "remove"
      \/ pc' = "data" /\ UsedRoles \subseteq {"actor", role}
  BY DEF RoleSaved, UsedRoles
<1>3. Safe' = Safe /\ UsedRoles' = UsedRoles
  BY <1>1 DEF Safe, AutoOnly, KeepsTwo, UsedRoles
<1>5. /\ \A o \in Roles : o # role => saved'[o] = saved[o]
      /\ Len(saved'[role]) = Len(saved[role]) + 1 /\ saved'[role][Len(saved[role]) + 1] = step
      /\ \A i \in 1 .. Len(saved[role]) : saved'[role][i] = saved[role][i]
      /\ Len(saved[role]) \in Nat
  <2>1. role \in Roles /\ step \in Steps BY <1>1
  <2>2. saved[role] \in Seq(Steps) BY <2>1
  <2>3. saved' \in [Roles -> Seq(Steps)] /\ saved'[role] = Append(saved[role], step)
    BY <1>1, <2>1, <2>2
  <2> QED BY <1>1, <2>1, <2>2, <2>3
<1>6. TrackerInv' BY <1>1, <1>3 DEF TrackerInv
<1>7. WrittenInv'
  <2>1. Whole(role, step) BY <1>1 DEF WrittenInv, Whole
  <2>2. ASSUME NEW o \in UsedRoles, Done(o)' PROVE Whole(o, step)'
    <3>1. CASE o = role BY <1>1, <2>1, <3>1 DEF Whole
    <3>2. CASE o # role
      <4>1. Done(o) BY <1>1, <1>2, <2>2, <3>2 DEF Done
      <4>2. Whole(o, step) BY <4>1 DEF WrittenInv
      <4> QED BY <1>1, <4>2 DEF Whole
    <3> QED BY <3>1, <3>2
  <2> QED BY <1>1, <1>3, <2>2 DEF WrittenInv
<1>8. ListInv'
  <2> SUFFICES ASSUME Safe, NEW o \in UsedRoles, NEW i \in 1 .. Len(saved'[o])
               PROVE  /\ saved'[o][i] <= step /\ (~Done(o)' => saved'[o][i] < step)
                      /\ Done(o)' /\ i < Len(saved'[o]) => saved'[o][i] < step
                      /\ ~Done(o)' /\ i < Len(saved'[o]) => saved'[o][i] # tracker
    BY <1>1, <1>3 DEF ListInv
  <2>1. CASE o # role
    <3>1. Done(o)' <=> Done(o) BY <1>1, <1>2, <2>1 DEF Done
    <3>2. saved'[o] = saved[o] BY <1>5, <2>1
    <3> QED BY <1>1, <3>1, <3>2 DEF ListInv
  <2>2. CASE o = role
    <3>1. Done(o)' /\ ~Done(o) BY <1>1, <1>2, <2>2 DEF Done
    <3>2. CASE i = Len(saved[o]) + 1
      <4>1. saved'[o][i] = step /\ ~(i < Len(saved'[o])) BY <1>5, <2>2, <3>2
      <4> QED BY <3>1, <4>1
    <3>3. CASE i \in 1 .. Len(saved[o])
      <4>1. saved'[o][i] = saved[o][i] BY <1>5, <2>2, <3>3
      <4>2. saved[o][i] < step BY <1>1, <3>1, <3>3 DEF ListInv
      <4>3. saved[o][i] \in Nat BY <3>3
      <4> QED BY <3>1, <4>1, <4>2, <4>3
    <3> QED BY <1>5, <2>2, <3>2, <3>3
  <2> QED BY <2>1, <2>2
<1>9. TrackedLoadable'
  BY <1>1, <1>3 DEF TrackedLoadable, Safe, Loadable, Whole, AutoOnly, KeepsTwo
<1> QED BY <1>6, <1>7, <1>8, <1>9 DEF CheckpointInv

\* data.pt and the tracker: the last writes of a checkpoint.
LEMMA CommitStep ==
  ASSUME CheckpointInv, TypeInv', SaveData \/ OpenTracker \/ WriteTracker
  PROVE  CheckpointInv'
<1> USE RolesFact, BoundsAssumption, CheckpointFacts DEF Saving, Running
<1>1. /\ pc \in {"data", "openTracker", "writeTracker"}
      /\ UNCHANGED <<conf, shards, folders, step, role, written, saved>>
  BY DEF SaveData, OpenTracker, WriteTracker, procVars
<1>2. Safe' = Safe /\ UsedRoles' = UsedRoles
  BY <1>1 DEF Safe, AutoOnly, KeepsTwo, UsedRoles
<1>3. \A o \in Roles : Done(o) BY <1>1 DEF Done
<1>4. Loadable(step)' BY <1>1, <1>2, <1>3 DEF WrittenInv, Loadable, Whole
<1>5. CASE SaveData
  <2>1. /\ pc' = "openTracker" /\ tracker' = tracker /\ data'[step] = pos
        /\ pos \in Nat /\ step \in Steps
        /\ \A n \in Steps : data[n] # None => data'[n] # None
    <3>1. pos \in Nat BY DEF TypeInv, TypeOK
    <3>2. step \in Steps BY <1>1
    <3>3. data' = [data EXCEPT ![step] = pos] BY <1>5 DEF SaveData
    <3> QED BY <1>5, <3>1, <3>2, <3>3 DEF SaveData
  <2>2. \A o \in Roles : Done(o)' BY <2>1 DEF Done
  <2>3. TrackerInv' BY <1>1, <1>2, <2>1 DEF TrackerInv
  <2>4. WrittenInv' BY <1>1, <1>2, <1>3, <2>1 DEF WrittenInv, Whole
  <2>5. ListInv' BY <1>1, <1>2, <1>3, <2>1, <2>2 DEF ListInv
  <2>6. TrackedLoadable'
    BY <1>1, <1>2, <2>1 DEF TrackedLoadable, Safe, Loadable, Whole, AutoOnly, KeepsTwo
  <2> QED BY <2>3, <2>4, <2>5, <2>6 DEF CheckpointInv
<1>6. CASE OpenTracker
  <2>1. pc' = "writeTracker" /\ tracker' = Empty /\ data' = data BY <1>6 DEF OpenTracker
  <2>2. \A o \in Roles : Done(o)' BY <2>1 DEF Done
  <2>3. tracker' \notin Steps BY <2>1 DEF Steps
  <2>4. TrackerInv' BY <1>1, <1>2, <2>1, <2>3 DEF TrackerInv
  <2>5. WrittenInv' BY <1>1, <1>2, <1>3, <1>6, <2>1 DEF WrittenInv, Whole, OpenTracker
  <2>6. ListInv' BY <1>1, <1>2, <1>3, <2>1, <2>2 DEF ListInv
  <2>7. TrackedLoadable' BY <2>3 DEF TrackedLoadable
  <2> QED BY <2>4, <2>5, <2>6, <2>7 DEF CheckpointInv
<1>7. CASE WriteTracker
  <2>1. pc = "writeTracker" /\ pc' = "advance" /\ tracker' = step /\ data' = data
    BY <1>7 DEF WriteTracker
  <2>2. \A o \in Roles : ~Done(o)' BY <1>1, <2>1 DEF Done
  <2>3. TrackerInv' BY <1>1, <1>2, <2>1 DEF TrackerInv
  <2>4. WrittenInv' BY <1>1, <1>2, <2>1, <2>2 DEF WrittenInv
  <2>5. ListInv'
    <3> SUFFICES ASSUME Safe, NEW o \in UsedRoles, NEW i \in 1 .. Len(saved[o])
                 PROVE  saved[o][i] <= step /\ (i < Len(saved[o]) => saved[o][i] # step)
      BY <1>1, <1>2, <2>1, <2>2 DEF ListInv
    <3>1. saved[o][i] \in Nat OBVIOUS
    <3> QED BY <1>1, <1>3, <3>1 DEF ListInv
  <2>6. data'[step] # None BY <2>1 DEF WrittenInv
  <2>7. TrackedLoadable' BY <1>1, <1>4, <2>1, <2>6 DEF TrackedLoadable, Loadable, Whole
  <2> QED BY <2>3, <2>4, <2>5, <2>7 DEF CheckpointInv
<1> QED BY <1>5, <1>6, <1>7

LEMMA CrashStep ==
  ASSUME CheckpointInv, TypeInv', Crash
  PROVE  CheckpointInv'
<1> USE RolesFact, CheckpointFacts DEF Saving, Running
<1>1. /\ pc' = "down" /\ saved' = NothingSaved
      /\ UNCHANGED <<conf, shards, folders, data, tracker>>
  BY DEF Crash, Gone, diskVars
<1>2. Safe' = Safe /\ UsedRoles' = UsedRoles
  BY <1>1 DEF Safe, AutoOnly, KeepsTwo, UsedRoles
<1>3. \A o \in Roles : ~Done(o)' BY <1>1 DEF Done
<1>4. TrackerInv' BY <1>1 DEF TrackerInv
<1>5. WrittenInv' BY <1>1, <1>2, <1>3 DEF WrittenInv
<1>6. ListInv' BY <1>1, <1>2 DEF ListInv, NothingSaved
<1>7. TrackedLoadable'
  BY <1>1, <1>2 DEF TrackedLoadable, Safe, Loadable, Whole, AutoOnly, KeepsTwo
<1> QED BY <1>4, <1>5, <1>6, <1>7 DEF CheckpointInv

LEMMA CheckpointNext == CheckpointInv /\ [Next]_vars => CheckpointInv'
<1> SUFFICES ASSUME CheckpointInv, [Next]_vars PROVE CheckpointInv' OBVIOUS
<1>1. TypeInv' BY TypeNext DEF CheckpointInv
<1>2. CASE UNCHANGED vars
  BY <1>1, <1>2 DEF CheckpointInv, vars, diskVars, procVars, TrackerInv, WrittenInv,
     ListInv, TrackedLoadable, Safe, Done, Loadable, Whole, AutoOnly, KeepsTwo, UsedRoles
<1>3. CASE NextBatch \/ NextEpoch \/ UpdateCritic \/ UpdateActor
  BY <1>1, <1>3, QuietStep
     DEF NextBatch, NextEpoch, UpdateCritic, UpdateActor, diskVars
<1>4. CASE SaveData \/ OpenTracker \/ WriteTracker BY <1>1, <1>4, CommitStep
<1> QED BY <1>1, <1>2, <1>3, <1>4, LaunchStep, AdvanceStep, RemoveStep, WriteStep,
           SavedStep, CrashStep DEF Next, Fit

\* Wherever the job crashes and however often it is launched again, a tracker
\* that names a step names a whole checkpoint.
THEOREM TrackedIsLoadable == Spec => []TrackedLoadable
<1>1. CheckpointInv => TrackedLoadable BY DEF CheckpointInv
<1> QED BY CheckpointInit, CheckpointNext, <1>1, PTL DEF Spec

---------------------------------------------------------------------------
(* The refinement.  A launch that resumes goes on from what is durable,    *)
(* because the tracked shards are not written again: the step being saved  *)
(* is a later one.  Here it does not matter how many checkpoints are kept; *)
(* a launch does not get past shards that are gone.                        *)

AheadOfTracker ==
  AutoOnly /\ pc \in Running /\ tracker \in Steps =>
    tracker <= step /\ (pc # "advance" => tracker < step)

ActorShard(n) == shards["actor"][n][Rank0]

\* What a resumed launch would load, if it is there.
TrackedIsDurable == AutoOnly /\ tracker \in Steps => ActorShard(tracker) \in {None, durable}

\* What the tracker is about to name.
ActorWritten ==
  Done("actor") \/ (pc = "write" /\ role = "actor" /\ Rank0 \in written) =>
    ActorShard(step) = weights["actor"][Rank0]

DurableInv == CheckpointInv /\ AheadOfTracker /\ TrackedIsDurable /\ ActorWritten

LEMMA DurableInit == Init => DurableInv
<1> SUFFICES ASSUME Init PROVE DurableInv OBVIOUS
<1>1. CheckpointInv BY CheckpointInit
<1>2. tracker \notin Steps BY BoundsAssumption DEF Init, Steps
<1> QED BY <1>1, <1>2 DEF Init, DurableInv, AheadOfTracker, TrackedIsDurable, ActorWritten,
           Done, Saving

LEMMA DurableFacts ==
  ASSUME DurableInv
  PROVE  /\ CheckpointInv /\ AheadOfTracker /\ TrackedIsDurable /\ ActorWritten
         /\ "actor" \in Roles /\ "actor" \in UsedRoles /\ Rank0 \in Ranks
         /\ weights \in [Roles -> [Ranks -> Hist]]
BY CheckpointFacts, RolesFact, Rank0Typed DEF DurableInv, TypeInv, TypeOK

LEMMA DurableNext == DurableInv /\ [Next]_vars => DurableInv'
<1> SUFFICES ASSUME DurableInv, [Next]_vars PROVE DurableInv' OBVIOUS
<1> USE DurableFacts, CheckpointFacts, BoundsAssumption DEF Saving, Running
<1>0. CheckpointInv' BY CheckpointNext
<1>1. SUFFICES AheadOfTracker' /\ TrackedIsDurable' /\ ActorWritten'
  BY <1>0 DEF DurableInv
<1>2. CASE UNCHANGED vars
  BY <1>2 DEF vars, diskVars, procVars, AheadOfTracker, TrackedIsDurable, ActorWritten,
     ActorShard, Done, AutoOnly
<1>3. CASE Launch
  <2>1. /\ pc = "down" /\ pc' = "next" /\ role = "actor" /\ role' = role
        /\ UNCHANGED <<conf, shards, folders, tracker, durable>>
    BY <1>3 DEF Launch, diskVars
  <2>2. AheadOfTracker'
    <3> SUFFICES ASSUME AutoOnly, tracker \in Steps PROVE tracker < step' /\ tracker <= step'
      BY <2>1 DEF AheadOfTracker, AutoOnly
    <3>1. FindLatest = tracker /\ tracker # None BY DEF TrackerInv, FindLatest, Steps
    <3>2. PICK mode \in conf.modes : FromScratch(mode) \/ Resume(mode) BY <1>3 DEF Launch
    <3>3. mode = "auto" BY <3>2 DEF AutoOnly
    <3>4. step' = tracker + 1 BY <3>1, <3>2, <3>3 DEF FromScratch, Resume
    <3> QED BY <3>4 DEF Steps
  <2> QED BY <2>1, <2>2 DEF TrackedIsDurable, ActorWritten, ActorShard, Done, AutoOnly
<1>4. CASE NextBatch \/ NextEpoch \/ UpdateCritic \/ UpdateActor
  <2>1. /\ pc \in {"next", "updateCritic", "updateActor"}
        /\ pc' \in {"next", "updateCritic", "updateActor", "advance", "remove", "ended"}
        /\ role = "actor"
        /\ UNCHANGED <<conf, shards, tracker, step, role, durable>>
    BY <1>4 DEF NextBatch, NextEpoch, UpdateCritic, UpdateActor, diskVars
  <2> QED BY <2>1 DEF AheadOfTracker, TrackedIsDurable, ActorWritten, ActorShard, Done, AutoOnly
<1>5. CASE Advance
  <2>1. /\ pc = "advance" /\ pc' \in {"next", "ended"} /\ step' = step + 1
        /\ role = "actor" /\ UNCHANGED <<conf, shards, tracker, role, durable>>
    BY <1>5 DEF Advance, diskVars
  <2> QED BY <2>1 DEF AheadOfTracker, TrackedIsDurable, ActorWritten, ActorShard, Done,
             AutoOnly, Steps
<1>6. CASE RemovePrevious
  <2>1. /\ pc = "remove" /\ pc' = "write" /\ written' = {}
        /\ UNCHANGED <<conf, tracker, step, weights, role, durable>>
        /\ \A n \in Steps : ActorShard(n)' \in {ActorShard(n), None}
        /\ role # "actor" => \A n \in Steps : ActorShard(n)' = ActorShard(n)
    BY <1>6 DEF RemovePrevious, ActorShard
  <2> QED BY <2>1 DEF AheadOfTracker, TrackedIsDurable, ActorWritten, ActorShard, Done, AutoOnly
<1>7. ASSUME NEW r \in Ranks, WriteShard(r)
      PROVE  AheadOfTracker' /\ TrackedIsDurable' /\ ActorWritten'
  <2>1. /\ pc = "write" /\ written' = written \cup {r}
        /\ shards' = [shards EXCEPT ![role][step][r] = weights[role][r]]
        /\ UNCHANGED <<conf, tracker, pc, step, weights, role, durable>>
    BY <1>7 DEF WriteShard
  <2>2. \A n \in Steps : n # step \/ role # "actor" => ActorShard(n)' = ActorShard(n)
    BY <2>1 DEF ActorShard
  <2>3. step \in Steps /\ (role = "actor" /\ r = Rank0 =>
                             ActorShard(step)' = weights["actor"][Rank0])
    BY <2>1 DEF ActorShard
  <2>4. role = "actor" /\ r # Rank0 => ActorShard(step)' = ActorShard(step)
    BY <2>1 DEF ActorShard
  <2>5. AheadOfTracker' BY <2>1 DEF AheadOfTracker, AutoOnly
  <2>6. TrackedIsDurable'
    BY <2>1, <2>2 DEF AheadOfTracker, TrackedIsDurable, ActorShard, AutoOnly, Steps
  <2>7. ActorWritten' BY <2>1, <2>2, <2>3, <2>4 DEF ActorWritten, ActorShard, Done
  <2> QED BY <2>5, <2>6, <2>7
<1>8. CASE RoleSaved
  <2>1. /\ pc = "write" /\ written = Ranks /\ pc' \in {"remove", "data"}
        /\ UNCHANGED <<conf, shards, tracker, step, weights, durable>>
        /\ role = "actor" \/ pc' = "data"
    BY <1>8 DEF RoleSaved, diskVars
  <2>2. ActorShard(step) = weights["actor"][Rank0]
    BY <2>1, RolesFact DEF ActorWritten, Done
  <2> QED BY <2>1, <2>2 DEF AheadOfTracker, TrackedIsDurable, ActorWritten, ActorShard, AutoOnly
<1>9. CASE SaveData
  <2>1. /\ pc = "data" /\ pc' = "openTracker"
        /\ UNCHANGED <<conf, shards, tracker, step, weights, role, written, durable>>
    BY <1>9 DEF SaveData, procVars
  <2> QED BY <2>1 DEF AheadOfTracker, TrackedIsDurable, ActorWritten, ActorShard, Done, AutoOnly
<1>10. CASE OpenTracker
  <2>1. /\ pc = "openTracker" /\ pc' = "writeTracker" /\ tracker' \notin Steps
        /\ UNCHANGED <<conf, shards, step, weights, role, written, durable>>
    BY <1>10 DEF OpenTracker, procVars, Steps
  <2> QED BY <2>1 DEF AheadOfTracker, TrackedIsDurable, ActorWritten, ActorShard, Done, AutoOnly
<1>11. CASE WriteTracker
  <2>1. /\ pc = "writeTracker" /\ pc' = "advance" /\ tracker' = step
        /\ durable' = weights["actor"][Rank0] /\ role = "actor" /\ step \in Nat
        /\ UNCHANGED <<conf, shards, step, weights, role>>
    BY <1>11 DEF WriteTracker, procVars
  <2>2. ActorShard(step) = durable' BY <2>1 DEF ActorWritten, Done
  <2> QED BY <2>1, <2>2 DEF AheadOfTracker, TrackedIsDurable, ActorWritten, ActorShard, Done,
             AutoOnly
<1>12. CASE Crash
  <2>1. pc' = "down" /\ UNCHANGED <<conf, shards, tracker, durable>>
    BY <1>12 DEF Crash, diskVars
  <2> QED BY <2>1 DEF AheadOfTracker, TrackedIsDurable, ActorWritten, ActorShard, Done, AutoOnly
<1> QED BY <1>2, <1>3, <1>4, <1>5, <1>6, <1>7, <1>8, <1>9, <1>10, <1>11, <1>12
        DEF Next, Fit

LEMMA ModeFact ==
  ASSUME conf \in Configs, OneMode, "auto" \in conf.modes
  PROVE  AutoOnly
<1>1. IsFiniteSet({"auto"}) BY FS_Singleton
<1>2. {"auto", "disable"} = {"auto"} \cup {"disable"} OBVIOUS
<1>3. IsFiniteSet({"auto", "disable"}) BY <1>1, <1>2, FS_AddElement
<1>4. IsFiniteSet(conf.modes) BY <1>3, ConfFacts, FS_Subset
<1>5. \E m : conf.modes = {m} BY <1>4, FS_Singleton DEF OneMode
<1> QED BY <1>5 DEF AutoOnly

\* What the abstract variables stand for.
Model == IF pc = "down" THEN durable ELSE weights["actor"][Rank0]

\* A step of the trainer is one of the abstract specification, or none.
LEMMA ModelStep ==
  ASSUME OneMode' = OneMode,
         \/ Model' = Model /\ durable' = durable
         \/ /\ durable' = durable
            /\ launches \in 0 .. MaxLaunches
            /\ \E c \in Configs : pos - 1 \in 0 .. c.size - 1
            /\ Model' = Append(Model, Batch)
         \/ Model' = Model /\ durable' = Model
         \/ Model' = durable /\ durable' = durable
         \/ Model' = <<>> /\ durable' = durable
  PROVE  [Durable!Next]_(Durable!vars)
<1>1. CASE ~OneMode BY <1>1 DEF Durable!vars
<1>2. CASE OneMode
  <2>1. CASE Model' = Model /\ durable' = durable
    BY <1>2, <2>1 DEF Model, Durable!vars
  <2>2. CASE /\ durable' = durable /\ launches \in 0 .. MaxLaunches
             /\ \E c \in Configs : pos - 1 \in 0 .. c.size - 1
             /\ Model' = Append(Model, Batch)
    <3>1. Batch \in UNION {(0 .. MaxLaunches) \X (0 .. c.size - 1) : c \in Configs}
      BY <2>2 DEF Batch
    <3>2. Durable!Train BY <1>2, <2>2, <3>1 DEF Model, Durable!Train
    <3> QED BY <3>2 DEF Durable!Next
  <2>3. CASE Model' = Model /\ durable' = Model
    BY <1>2, <2>3 DEF Model, Durable!Next, Durable!Checkpoint
  <2>4. CASE Model' = durable /\ durable' = durable
    BY <1>2, <2>4 DEF Model, Durable!Next, Durable!Crash
  <2>5. CASE Model' = <<>> /\ durable' = durable
    BY <1>2, <2>5 DEF Model, Durable!Next, Durable!FromScratch
  <2> QED BY <2>1, <2>2, <2>3, <2>4, <2>5
<1> QED BY <1>1, <1>2

LEMMA ImplementsInit == Init => Durable!Init
BY DEF Init, Durable!Init

LEMMA ImplementsNext == DurableInv /\ [Next]_vars => [Durable!Next]_(Durable!vars)
<1> SUFFICES ASSUME DurableInv, [Next]_vars PROVE [Durable!Next]_(Durable!vars)
  OBVIOUS
<1>0. SUFFICES ASSUME OneMode PROVE [Durable!Next]_(Durable!vars)
  <2>0. conf' = conf BY ConfFixed
  <2>1. OneMode' = OneMode BY <2>0 DEF OneMode
  <2>2. CASE ~OneMode BY <2>1, <2>2 DEF Durable!vars
  <2> QED BY <2>2
<1> USE DurableFacts, CheckpointFacts
<1>8. TypeOK /\ TypeInv BY DEF DurableInv, CheckpointInv, TypeInv
<1>1. CASE UNCHANGED vars
  BY <1>1, ModelStep DEF vars, diskVars, procVars, Model, OneMode
<1>2. CASE Launch
  <2>1. pc = "down" /\ pc' = "next" /\ UNCHANGED <<conf, durable>>
    BY <1>2 DEF Launch
  <2>2. OneMode' = OneMode /\ Model = durable BY <2>1 DEF OneMode, Model
  <2>3. PICK mode \in conf.modes : FromScratch(mode) \/ Resume(mode) BY <1>2 DEF Launch
  <2>4. CASE FromScratch(mode)
    <3>1. Model' = <<>> BY <2>1, <2>4 DEF FromScratch, Fresh, Model
    <3> QED BY <2>1, <2>2, <3>1, ModelStep
  <2>5. CASE Resume(mode)
    <3>1. AutoOnly BY <1>0, <1>8, <2>5, ModeFact DEF Resume, TypeOK
    <3>2. FindLatest = tracker /\ tracker \in Steps
      BY <1>8, <2>5 DEF Resume, FindLatest, TypeOK
    <3>3. ActorShard(tracker) # None
      BY <2>5, <3>2 DEF Resume, Loadable, Whole, ActorShard
    <3>4. ActorShard(tracker) = durable BY <3>1, <3>2, <3>3 DEF TrackedIsDurable
    <3>5. weights'["actor"][Rank0] = ActorShard(tracker)
      BY <2>5, <3>2 DEF Resume, ActorShard
    <3>6. Model' = Model BY <2>1, <2>2, <3>4, <3>5 DEF Model
    <3> QED BY <2>1, <2>2, <3>6, ModelStep
  <2> QED BY <2>3, <2>4, <2>5
<1>3. CASE UpdateActor
  <2>1. pc = "updateActor" /\ pc' # "down" /\ UNCHANGED <<conf, durable>>
    BY <1>3 DEF UpdateActor
  <2>2. OneMode' = OneMode BY <2>1 DEF OneMode
  <2>3. CASE UNCHANGED weights
    BY <2>1, <2>2, <2>3, ModelStep DEF Model
  <2>4. CASE Learns("actor")
    <3>1. Model' = Append(Model, Batch) BY <2>1, <2>4 DEF Learns, Model
    <3>2. conf \in Configs /\ conf.size \in Nat /\ pos \in 1 .. conf.size
          /\ launches \in 0 .. MaxLaunches
      BY <1>8, <2>1, ConfFacts DEF TypeInv, TypeOK
    <3>3. pos - 1 \in 0 .. conf.size - 1 BY <3>2
    <3> QED BY <2>1, <2>2, <3>1, <3>2, <3>3, ModelStep
  <2> QED BY <1>3, <2>3, <2>4 DEF UpdateActor
<1>4. CASE UpdateCritic
  <2>1. weights'["actor"] = weights["actor"] BY <1>4 DEF UpdateCritic, Learns
  <2> QED BY <1>4, <2>1, ModelStep DEF UpdateCritic, Model, OneMode
<1>5. CASE WriteTracker
  <2>1. Model' = Model /\ durable' = Model /\ conf' = conf
    BY <1>5 DEF WriteTracker, Model, procVars
  <2> QED BY <2>1, ModelStep DEF OneMode
<1>6. CASE Crash
  <2>1. Model' = durable /\ durable' = durable /\ conf' = conf BY <1>6 DEF Crash, Model
  <2> QED BY <2>1, ModelStep DEF OneMode
<1>7. CASE \/ NextBatch \/ NextEpoch \/ Advance \/ RemovePrevious
           \/ (\E r \in Ranks : WriteShard(r)) \/ RoleSaved \/ SaveData \/ OpenTracker
  <2>1. pc # "down" /\ pc' # "down" /\ UNCHANGED <<conf, weights, durable>>
    BY <1>7 DEF NextBatch, NextEpoch, Advance, RemovePrevious, WriteShard, RoleSaved,
       SaveData, OpenTracker, procVars
  <2> QED BY <2>1, ModelStep DEF Model, OneMode
<1> QED BY <1>1, <1>2, <1>3, <1>4, <1>5, <1>6, <1>7 DEF Next, Fit

\* Whatever crashes and is launched again, the actor goes on from all of the
\* last checkpoint or from nothing (_save_checkpoint and _load_checkpoint).
THEOREM ImplementsDurableTraining == Spec => ImplementsDurable
BY DurableInit, DurableNext, ImplementsInit, ImplementsNext, PTL
   DEF Spec, ImplementsDurable, Durable!Spec
---------------------------------------------------------------------------
(* What stays on the disk.  Each launch leaves at most the checkpoints it   *)
(* keeps itself, those in its own list and the one it was writing.         *)

OnDisk(o) == {n \in Steps : \E r \in Ranks : shards[o][n][r] # None}
InWrite(o) == pc = "write" /\ role = o

\* the step folders this launch may still remove, and how many it may list
Own(o) == Range(saved[o]) \cup (IF InWrite(o) THEN {step} ELSE {})
Limit(o) == IF InWrite(o) THEN conf.keep[o] - 1 ELSE conf.keep[o]

BoundOf(o) ==
  /\ pc = "down" => Cardinality(OnDisk(o)) <= conf.keep[o] * launches
  /\ pc # "down" => /\ launches > 0
                    /\ Len(saved[o]) <= Limit(o)
                    /\ Cardinality(OnDisk(o) \ Own(o)) <= conf.keep[o] * (launches - 1)

BoundInv == \A o \in UsedRoles : conf.keep[o] > 0 => BoundOf(o)

LEMMA RangeBound ==
  ASSUME NEW S, NEW q \in Seq(S)
  PROVE  IsFiniteSet(Range(q)) /\ Cardinality(Range(q)) <= Len(q) /\ Len(q) \in Nat
<1>1. Len(q) \in Nat /\ q \in [1 .. Len(q) -> Range(q)] BY DEF Range
<1>2. q \in Surjection(1 .. Len(q), Range(q)) BY <1>1 DEF Surjection, Range
<1>3. IsFiniteSet(1 .. Len(q)) /\ Cardinality(1 .. Len(q)) = Len(q) BY <1>1, FS_Interval
<1> QED BY <1>1, <1>2, <1>3, FS_Surjection

LEMMA StepSets ==
  ASSUME NEW S, S \subseteq Steps
  PROVE  IsFiniteSet(S) /\ Cardinality(S) \in Nat
<1>1. IsFiniteSet(Steps) BY BoundsAssumption, FS_Interval DEF Steps
<1> QED BY <1>1, FS_Subset, FS_CardinalityType

\* A running launch that drops what it removes and owns what it writes.
LEMMA BoundStep ==
  ASSUME NEW o \in Roles, BoundOf(o), pc # "down", pc' # "down",
         conf' = conf, launches' = launches, Len(saved'[o]) <= Limit(o)',
         OnDisk(o)' \ Own(o)' \subseteq OnDisk(o) \ Own(o),
         conf.keep[o] \in Nat, launches \in Nat
  PROVE  BoundOf(o)'
<1>1. OnDisk(o) \ Own(o) \subseteq Steps BY DEF OnDisk
<1>2. IsFiniteSet(OnDisk(o) \ Own(o)) BY <1>1, StepSets
<1>3. Cardinality(OnDisk(o)' \ Own(o)') <= Cardinality(OnDisk(o) \ Own(o))
  BY <1>2, FS_Subset
<1>4. Cardinality(OnDisk(o) \ Own(o)) \in Nat BY <1>1, StepSets
<1>5. Cardinality(OnDisk(o)' \ Own(o)') \in Nat
  <2>1. OnDisk(o)' \ Own(o)' \subseteq Steps BY <1>1
  <2> QED BY <2>1, StepSets
<1>6. conf.keep[o] * (launches - 1) \in Int OBVIOUS
<1> QED BY <1>3, <1>4, <1>5, <1>6 DEF BoundOf

LEMMA BoundFacts ==
  ASSUME CheckpointInv, BoundInv, NEW o \in UsedRoles, conf.keep[o] > 0
  PROVE  /\ o \in Roles /\ BoundOf(o) /\ conf.keep[o] \in Nat /\ launches \in Nat
         /\ saved[o] \in Seq(Steps) /\ OnDisk(o) \subseteq Steps /\ Len(saved[o]) \in Nat
<1>1. TypeOK BY DEF CheckpointInv, TypeInv
<1> QED BY <1>1, CheckpointFacts, RolesFact, ConfFacts, BoundsAssumption
        DEF BoundInv, OnDisk, TypeOK

LEMMA OwnedBound ==
  ASSUME CheckpointInv, BoundInv, NEW o \in UsedRoles, conf.keep[o] > 0, pc # "down"
  PROVE  Cardinality(OnDisk(o)) <= conf.keep[o] * launches
<1>b. /\ BoundOf(o) /\ conf.keep[o] \in Nat /\ launches \in Nat
      /\ saved[o] \in Seq(Steps) /\ OnDisk(o) \subseteq Steps /\ Len(saved[o]) \in Nat
  BY BoundFacts
<1> USE <1>b
<1> DEFINE own == Range(saved[o])
           rest == OnDisk(o) \ Own(o)
<1>1. IsFiniteSet(own) /\ Cardinality(own) <= Len(saved[o]) BY RangeBound
<1>2. IsFiniteSet(Own(o)) /\ Cardinality(Own(o)) <= conf.keep[o]
  <2>0. Len(saved[o]) <= Limit(o) /\ Cardinality(own) \in Nat
    BY <1>1, FS_CardinalityType DEF BoundOf
  <2>1. CASE InWrite(o)
    <3>1. Own(o) = own \cup {step} /\ Limit(o) = conf.keep[o] - 1
      BY <2>1 DEF Own, Limit
    <3> HIDE DEF own
    <3>2. IsFiniteSet(Own(o)) /\ Cardinality(Own(o)) <= Cardinality(own) + 1
      <4>1. /\ IsFiniteSet(own \cup {step})
            /\ Cardinality(own \cup {step}) =
                 IF step \in own THEN Cardinality(own) ELSE Cardinality(own) + 1
        BY <1>1, FS_AddElement
      <4> QED BY <2>0, <3>1, <4>1
    <3>3. Cardinality(Own(o)) \in Nat BY <3>2, FS_CardinalityType
    <3> QED BY <1>1, <2>0, <3>1, <3>2, <3>3
  <2>2. CASE ~InWrite(o)
    <3>1. Own(o) = own /\ Limit(o) = conf.keep[o] BY <2>2 DEF Own, Limit
    <3> QED BY <1>1, <2>0, <3>1
  <2> QED BY <2>1, <2>2
<1>3. IsFiniteSet(rest) /\ Cardinality(rest) \in Nat
  <2>1. rest \subseteq Steps OBVIOUS
  <2> QED BY <2>1, StepSets
<1>4. Cardinality(rest) <= conf.keep[o] * (launches - 1) /\ launches > 0 BY DEF BoundOf
<1>5. Cardinality(rest \cup Own(o)) <= Cardinality(rest) + Cardinality(Own(o))
      /\ IsFiniteSet(rest \cup Own(o)) /\ Cardinality(rest \cup Own(o)) \in Nat
  <2>1. Cardinality(rest \cap Own(o)) \in Nat BY <1>3, FS_Intersection, FS_CardinalityType
  <2>2. Cardinality(Own(o)) \in Nat BY <1>2, FS_CardinalityType
  <2>3. IsFiniteSet(rest \cup Own(o)) /\ Cardinality(rest \cup Own(o)) =
          Cardinality(rest) + Cardinality(Own(o)) - Cardinality(rest \cap Own(o))
    BY <1>2, <1>3, FS_Union
  <2> QED BY <1>3, <2>1, <2>2, <2>3, FS_CardinalityType
<1>6. Cardinality(OnDisk(o)) <= Cardinality(rest \cup Own(o)) /\ Cardinality(OnDisk(o)) \in Nat
  <2>1. OnDisk(o) \subseteq rest \cup Own(o) OBVIOUS
  <2> QED BY <1>5, <2>1, FS_Subset, StepSets
<1>7. Cardinality(Own(o)) \in Nat BY <1>2, FS_CardinalityType
<1>8. conf.keep[o] * (launches - 1) + conf.keep[o] = conf.keep[o] * launches OBVIOUS
<1>9. conf.keep[o] * (launches - 1) \in Int /\ conf.keep[o] * launches \in Int OBVIOUS
<1> HIDE DEF rest
<1> QED BY <1>2, <1>3, <1>4, <1>5, <1>6, <1>7, <1>8, <1>9

LEMMA BoundNext == CheckpointInv /\ BoundInv /\ [Next]_vars => BoundInv'
<1> SUFFICES ASSUME CheckpointInv, BoundInv, [Next]_vars,
                    NEW o \in Roles, o \in UsedRoles', conf'.keep[o] > 0
             PROVE  BoundOf(o)'
  <2>1. \A o \in UsedRoles' : o \in Roles BY DEF Roles, UsedRoles
  <2> QED BY <2>1 DEF BoundInv
<1>0. conf' = conf BY ConfFixed
<1>a. o \in UsedRoles /\ conf.keep[o] > 0 BY <1>0 DEF UsedRoles
<1>b. /\ BoundOf(o) /\ conf.keep[o] \in Nat /\ launches \in Nat
      /\ saved[o] \in Seq(Steps) /\ OnDisk(o) \subseteq Steps /\ Len(saved[o]) \in Nat
  BY <1>a, BoundFacts
<1> USE <1>0, <1>a, <1>b
<1>1. CASE UNCHANGED vars
  BY <1>1 DEF vars, diskVars, procVars, BoundOf, OnDisk, Own, InWrite, Limit
<1>2. CASE Launch
  <2>1. /\ pc = "down" /\ pc' = "next" /\ launches' = launches + 1
        /\ saved' = NothingSaved /\ shards' = shards
    BY <1>2, CheckpointFacts DEF Launch, diskVars
  <2>2. saved'[o] = <<>> /\ Own(o)' = {} /\ OnDisk(o)' = OnDisk(o)
    BY <2>1 DEF NothingSaved, Own, InWrite, OnDisk, Range
  <2>3. Cardinality(OnDisk(o)' \ Own(o)') <= conf.keep[o] * (launches' - 1)
    BY <2>1, <2>2 DEF BoundOf
  <2> QED BY <2>1, <2>2, <2>3 DEF BoundOf, Limit, InWrite
<1>3. CASE \/ NextBatch \/ NextEpoch \/ UpdateCritic \/ UpdateActor \/ Advance
           \/ SaveData \/ OpenTracker \/ WriteTracker
  <2>1. /\ pc \notin {"down", "write"} /\ pc' \notin {"down", "write"}
        /\ UNCHANGED <<shards, saved, launches>>
    BY <1>3 DEF NextBatch, NextEpoch, UpdateCritic, UpdateActor, Advance, SaveData,
       OpenTracker, WriteTracker, diskVars, procVars
  <2> QED BY <2>1, BoundStep DEF BoundOf, OnDisk, Own, InWrite, Limit
<1>4. CASE RemovePrevious
  <2> DEFINE full == conf.keep[role] > 0 /\ Len(saved[role]) >= conf.keep[role]
             cut == IF full THEN Cut(role) ELSE 0
             old == {saved[role][i] : i \in 1 .. cut}
             rest == SubSeq(saved[role], cut + 1, Len(saved[role]))
  <2>1. /\ pc = "remove" /\ pc' = "write"
        /\ shards' = [shards EXCEPT ![role] =
             [n \in Steps |-> IF n \in old THEN [r \in Ranks |-> None] ELSE @[n]]]
        /\ saved' = [saved EXCEPT ![role] = rest]
        /\ UNCHANGED <<step, role, launches>>
    BY <1>4 DEF RemovePrevious
  <2>2. /\ shards \in [Roles -> [Steps -> [Ranks -> Hist \cup {None}]]]
        /\ saved \in [Roles -> Seq(Steps)]
    BY CheckpointFacts
  <2>3. CASE o # role
    <3>1. saved'[o] = saved[o] /\ shards'[o] = shards[o] BY <2>1, <2>2, <2>3
    <3> QED BY <2>1, <2>3, <3>1, BoundStep DEF BoundOf, OnDisk, Own, InWrite, Limit
  <2>4. CASE o = role
    <3>0. Len(saved[o]) <= conf.keep[o] BY <2>1, <2>4 DEF BoundOf, Limit, InWrite
    <3>1. cut \in 0 .. Len(saved[o]) /\ Len(saved[o]) - cut <= conf.keep[o] - 1
      <4>1. CASE full
        <5>1. cut = Len(saved[o]) - conf.keep[o] + 1 BY <2>4, <4>1 DEF Cut
        <5> QED BY <2>4, <3>0, <4>1, <5>1
      <4>2. CASE ~full
        <5>1. cut = 0 /\ Len(saved[o]) < conf.keep[o] BY <2>4, <4>2
        <5> QED BY <5>1
      <4> QED BY <4>1, <4>2
    <3>2. saved'[o] = rest /\ \A n \in Steps : shards'[o][n] =
                               IF n \in old THEN [r \in Ranks |-> None] ELSE shards[o][n]
      BY <2>1, <2>2, <2>4
    <3> HIDE DEF full, cut
    <3>c. cut \in Nat /\ o \in Roles BY <3>1
    <3>3. /\ Len(rest) = Len(saved[o]) - cut /\ DOMAIN rest = 1 .. Len(saved[o]) - cut
          /\ \A i \in 1 .. Len(saved[o]) - cut : rest[i] = saved[o][i + cut]
      BY <2>4, <3>1, RestOf
    <3>4. Range(saved[o]) \subseteq old \cup Range(rest)
      <4>1. ASSUME NEW i \in 1 .. Len(saved[o]), i \notin 1 .. cut
            PROVE  saved[o][i] \in Range(rest)
        <5> HIDE DEF rest, old
        <5>1. i - cut \in 1 .. Len(saved[o]) - cut /\ (i - cut) + cut = i
          BY <3>c, <4>1
        <5>2. i - cut \in DOMAIN rest /\ rest[i - cut] = saved[o][i] BY <3>3, <5>1
        <5> QED BY <5>2 DEF Range
      <4>2. \A x \in Range(saved[o]) : \E i \in 1 .. Len(saved[o]) : x = saved[o][i]
        BY DEF Range
      <4>3. \A i \in 1 .. cut : saved[o][i] \in old BY <2>4
      <4> HIDE DEF rest, old
      <4> QED BY <4>1, <4>2, <4>3
    <3>5. OnDisk(o)' \subseteq OnDisk(o) \ old BY <3>2 DEF OnDisk
    <3>6. InWrite(o)' /\ ~InWrite(o) BY <2>1, <2>4 DEF InWrite
    <3>7. OnDisk(o)' \ Own(o)' \subseteq OnDisk(o) \ Own(o)
      BY <3>2, <3>4, <3>5, <3>6 DEF Own
    <3>8. Len(saved'[o]) <= Limit(o)' BY <3>1, <3>2, <3>3, <3>6 DEF Limit
    <3> QED BY <2>1, <3>7, <3>8, BoundStep
  <2> QED BY <2>3, <2>4
<1>5. ASSUME NEW r \in Ranks, WriteShard(r) PROVE BoundOf(o)'
  <2>1. /\ pc = "write" /\ shards' = [shards EXCEPT ![role][step][r] = weights[role][r]]
        /\ UNCHANGED <<pc, step, role, saved, launches>>
    BY <1>5 DEF WriteShard
  <2>2. \A n \in Steps : o # role \/ n # step => shards'[o][n] = shards[o][n]
    BY <2>1, CheckpointFacts
  <2>3. Own(o)' = Own(o) /\ Limit(o)' = Limit(o) BY <2>1 DEF Own, InWrite, Limit
  <2>4. OnDisk(o)' \ Own(o)' \subseteq OnDisk(o) \ Own(o)
    BY <2>1, <2>2, <2>3 DEF OnDisk, Own, InWrite
  <2> QED BY <2>1, <2>3, <2>4, BoundStep DEF BoundOf
<1>6. CASE RoleSaved
  <2>1. /\ pc = "write" /\ pc' \in {"remove", "data"}
        /\ saved' = [saved EXCEPT ![role] = Append(@, step)]
        /\ UNCHANGED <<shards, launches>>
    BY <1>6 DEF RoleSaved, diskVars
  <2>2. OnDisk(o)' = OnDisk(o) /\ ~InWrite(o)' BY <2>1 DEF OnDisk, InWrite
  <2>3. CASE o # role
    <3>1. saved'[o] = saved[o] BY <2>1, <2>3, CheckpointFacts
    <3> QED BY <2>1, <2>2, <2>3, <3>1, BoundStep DEF BoundOf, Own, InWrite, Limit
  <2>4. CASE o = role
    <3>1. saved'[o] = Append(saved[o], step) /\ step \in Steps
      BY <2>1, <2>4, CheckpointFacts
    <3>2. /\ Len(saved'[o]) = Len(saved[o]) + 1 /\ DOMAIN saved'[o] = 1 .. Len(saved[o]) + 1
          /\ saved'[o][Len(saved[o]) + 1] = step
          /\ \A i \in 1 .. Len(saved[o]) : saved'[o][i] = saved[o][i]
      BY <3>1
    <3>3. Range(saved[o]) \cup {step} \subseteq Range(saved'[o])
      <4> DEFINE q == saved[o]
                 w == saved'[o]
      <4>1. /\ Len(q) \in Nat /\ DOMAIN q = 1 .. Len(q) /\ DOMAIN w = 1 .. Len(q) + 1
            /\ w[Len(q) + 1] = step /\ \A i \in 1 .. Len(q) : w[i] = q[i]
        BY <3>2, CheckpointFacts
      <4> HIDE DEF q, w
      <4>2. Len(q) + 1 \in DOMAIN w /\ \A i \in 1 .. Len(q) : i \in DOMAIN w BY <4>1
      <4>3. step \in Range(w) BY <4>1, <4>2 DEF Range
      <4>4. Range(q) \subseteq Range(w) BY <4>1, <4>2 DEF Range
      <4> QED BY <4>3, <4>4 DEF q, w
    <3>4. OnDisk(o)' \ Own(o)' \subseteq OnDisk(o) \ Own(o)
      BY <2>1, <2>2, <2>4, <3>3 DEF Own, InWrite
    <3>5. Len(saved'[o]) <= Limit(o)'
      <4>1. InWrite(o) /\ Len(saved[o]) <= Limit(o)
        BY <2>1, <2>4 DEF BoundOf, InWrite
      <4> QED BY <2>2, <3>2, <4>1 DEF Limit
    <3> QED BY <2>1, <3>4, <3>5, BoundStep
  <2> QED BY <2>3, <2>4
<1>7. CASE Crash
  <2>1. pc # "down" /\ pc' = "down" /\ UNCHANGED <<shards, launches>>
    BY <1>7 DEF Crash, diskVars
  <2>2. OnDisk(o)' = OnDisk(o) BY <2>1 DEF OnDisk
  <2>3. Cardinality(OnDisk(o)) <= conf.keep[o] * launches BY <2>1, OwnedBound
  <2> QED BY <2>1, <2>2, <2>3 DEF BoundOf
<1> QED BY <1>1, <1>2, <1>3, <1>4, <1>5, <1>6, <1>7 DEF Next, Fit

\* A launch leaves no more than it keeps on the disk, whatever else earlier
\* ones left there (_save_checkpoint of fsdp_checkpoint_manager.py).
THEOREM DiskStaysBounded == Spec => []DiskBound
<1>1. Init => BoundInv
  <2> SUFFICES ASSUME Init, NEW o \in UsedRoles PROVE BoundOf(o)
    BY DEF BoundInv
  <2>1. OnDisk(o) = {} /\ o \in Roles BY RolesFact DEF Init, OnDisk
  <2>2. conf.keep[o] * 0 = 0 BY <2>1, ConfFacts DEF Init
  <2> QED BY <2>1, <2>2, FS_EmptySet DEF Init, BoundOf
<1>2. CheckpointInv /\ BoundInv => DiskBound
  <2> SUFFICES ASSUME CheckpointInv, BoundInv, NEW o \in UsedRoles, conf.keep[o] > 0
               PROVE  Cardinality(OnDisk(o)) <= conf.keep[o] * launches
    BY DEF DiskBound, OnDisk
  <2>1. CASE pc = "down" BY <2>1, BoundFacts DEF BoundOf
  <2>2. CASE pc # "down" BY <2>2, OwnedBound
  <2> QED BY <2>1, <2>2
<1> QED BY <1>1, <1>2, CheckpointInit, CheckpointNext, BoundNext, PTL DEF Spec
---------------------------------------------------------------------------
(* The order of the batches                                                *)

LEMMA ModNext ==
  ASSUME NEW a \in Nat, NEW n \in Nat \ {0}
  PROVE  (a + 1) % n = IF a % n = n - 1 THEN 0 ELSE (a % n) + 1
<1> DEFINE q == a \div n
           r == a % n
           q1 == (a + 1) \div n
           r1 == (a + 1) % n
<1>1. q \in Nat /\ r \in 0 .. n - 1 /\ q1 \in Nat /\ r1 \in 0 .. n - 1 OBVIOUS
<1>2. a = n * q + r /\ a + 1 = n * q1 + r1 OBVIOUS
<1> HIDE DEF q, r, q1, r1
<1>3. n * (q1 - q) = r + 1 - r1 BY <1>1, <1>2
<1>4. q1 - q \in {0, 1}
  <2>1. ASSUME q1 - q >= 2 PROVE FALSE
    <3>1. n * (q1 - q) >= n * 2 BY <1>1, <2>1
    <3> QED BY <1>1, <1>3, <3>1
  <2>2. ASSUME q1 - q <= -1 PROVE FALSE
    <3>1. n * (q1 - q) <= n * (-1) BY <1>1, <2>2
    <3> QED BY <1>1, <1>3, <3>1
  <2> QED BY <1>1, <2>1, <2>2
<1>5. r1 = IF r = n - 1 THEN 0 ELSE r + 1
  <2>1. CASE q1 - q = 0 BY <1>1, <1>3, <2>1
  <2>2. CASE q1 - q = 1 BY <1>1, <1>3, <2>2
  <2> QED BY <1>4, <2>1, <2>2
<1> QED BY <1>5 DEF r, r1

LEMMA ModFacts ==
  ASSUME NEW n \in Nat \ {0}
  PROVE  /\ \A a \in 0 .. n - 1 : a % n = a
         /\ n % n = 0
         /\ \A a \in Nat : a % n \in 0 .. n - 1
OBVIOUS

First(c) == IF c.warmup > 1 THEN c.warmup ELSE 1

\* h is what a role learned in the steps first .. n
Covers(c, h, first, n) ==
  /\ Len(h) = IF n >= first THEN n - first + 1 ELSE 0
  /\ \A k \in 1 .. Len(h) : h[k][2] = (first + k - 2) % c.size

\* the weights w are those of an actor after na steps and of a critic after nc
TrainedTo(c, w, na, nc) ==
  \A r \in Ranks :
    /\ Covers(c, w["actor"][r], First(c), na)
    /\ w["actor"][r] = w["actor"][Rank0]
    /\ c.critic =>
         /\ Covers(c, w["critic"][r], 1, nc)
         /\ \A k \in 1 .. Len(w["actor"][r]) :
              w["actor"][r][k] = w["critic"][r][First(c) + k - 1]

Weights == [Roles -> [Ranks -> Hist]]
Learned(w, o, b) == [w EXCEPT ![o] = [r \in Ranks |-> Append(w[o][r], b)]]

LEMMA CoversMore ==
  ASSUME NEW c \in Configs, NEW h \in Hist, NEW first \in Nat \ {0}, NEW n \in Nat,
         Covers(c, h, first, n), n + 1 >= first,
         NEW b \in Nat \X Nat, b[2] = n % c.size
  PROVE  /\ Covers(c, Append(h, b), first, n + 1)
         /\ Append(h, b) \in Hist /\ Len(Append(h, b)) = Len(h) + 1
         /\ \A k \in 1 .. Len(h) : Append(h, b)[k] = h[k]
         /\ Append(h, b)[Len(h) + 1] = b
<1> DEFINE g == Append(h, b)
<1>1. /\ g \in Hist /\ Len(g) = Len(h) + 1 /\ Len(h) \in Nat
      /\ \A k \in 1 .. Len(h) : g[k] = h[k]
      /\ g[Len(h) + 1] = b
  BY AppendProperties DEF Hist
<1> HIDE DEF g
<1>2. Len(h) = n - first + 1 BY DEF Covers
<1>3. ASSUME NEW k \in 1 .. Len(g) PROVE g[k][2] = (first + k - 2) % c.size
  <2>1. CASE k = Len(h) + 1
    <3>1. first + k - 2 = n BY <1>2, <2>1
    <3> QED BY <1>1, <2>1, <3>1
  <2>2. CASE k # Len(h) + 1
    <3>1. k \in 1 .. Len(h) BY <1>1, <2>2
    <3> QED BY <1>1, <3>1 DEF Covers
  <2> QED BY <2>1, <2>2
<1>4. Covers(c, g, first, n + 1) BY <1>1, <1>2, <1>3 DEF Covers
<1> QED BY <1>1, <1>4 DEF g

LEMMA FirstTyped == ASSUME NEW c \in Configs PROVE First(c) \in Nat \ {0} /\ c.warmup \in Nat
BY ConfigsAssumption DEF First

LEMMA CriticLearns ==
  ASSUME NEW c \in Configs, c.critic, NEW w \in Weights, NEW n \in Nat, TrainedTo(c, w, n, n),
         NEW b \in Nat \X Nat, b[2] = n % c.size
  PROVE  /\ TrainedTo(c, Learned(w, "critic", b), n, n + 1)
         /\ \A r \in Ranks : Learned(w, "critic", b)["critic"][r][n + 1] = b
<1> DEFINE v == Learned(w, "critic", b)
<1>1. /\ v["actor"] = w["actor"]
      /\ \A r \in Ranks : v["critic"][r] = Append(w["critic"][r], b)
  BY DEF Learned, Weights, Roles
<1> HIDE DEF v
<1>2. ASSUME NEW r \in Ranks
      PROVE  /\ Covers(c, v["critic"][r], 1, n + 1) /\ v["critic"][r][n + 1] = b
             /\ \A k \in 1 .. n : v["critic"][r][k] = w["critic"][r][k]
  <2>1. w["critic"][r] \in Hist /\ Covers(c, w["critic"][r], 1, n) BY DEF TrainedTo, Weights, Roles
  <2>2. Len(w["critic"][r]) = n BY <2>1 DEF Covers
  <2> DEFINE h == w["critic"][r]
  <2>3. /\ Covers(c, Append(h, b), 1, n + 1) /\ Append(h, b)[Len(h) + 1] = b
        /\ \A k \in 1 .. Len(h) : Append(h, b)[k] = h[k]
    <3> HIDE DEF h
    <3>1. h \in Hist /\ Covers(c, h, 1, n) /\ n + 1 >= 1 /\ 1 \in Nat \ {0} BY <2>1 DEF h
    <3> QED BY <3>1, CoversMore
  <2> QED BY <1>1, <2>2, <2>3
<1>3. ASSUME NEW r \in Ranks, NEW k \in 1 .. Len(w["actor"][r])
      PROVE  v["actor"][r][k] = v["critic"][r][First(c) + k - 1]
  <2>1. First(c) + k - 1 \in 1 .. n
    <3>1. Covers(c, w["actor"][r], First(c), n) BY DEF TrainedTo
    <3>2. Len(w["actor"][r]) = IF n >= First(c) THEN n - First(c) + 1 ELSE 0
      BY <3>1 DEF Covers
    <3> QED BY <3>2, FirstTyped
  <2>2. w["actor"][r][k] = w["critic"][r][First(c) + k - 1] BY DEF TrainedTo
  <2> QED BY <1>1, <1>2, <2>1, <2>2
<1>4. TrainedTo(c, v, n, n + 1) BY <1>1, <1>2, <1>3 DEF TrainedTo
<1> QED BY <1>2, <1>4 DEF v

LEMMA ActorLearns ==
  ASSUME NEW c \in Configs, NEW w \in Weights, NEW n \in Nat, TrainedTo(c, w, n, n + 1),
         c.warmup <= n + 1, NEW b \in Nat \X Nat, b[2] = n % c.size,
         c.critic => \A r \in Ranks : w["critic"][r][n + 1] = b
  PROVE  TrainedTo(c, Learned(w, "actor", b), n + 1, n + 1)
<1> DEFINE v == Learned(w, "actor", b)
<1>1. /\ v["critic"] = w["critic"]
      /\ \A r \in Ranks : v["actor"][r] = Append(w["actor"][r], b)
  BY DEF Learned, Weights, Roles
<1> HIDE DEF v
<1>2. First(c) \in Nat \ {0} /\ n + 1 >= First(c) BY FirstTyped DEF First
<1>3. ASSUME NEW r \in Ranks
      PROVE  /\ Covers(c, v["actor"][r], First(c), n + 1) /\ v["actor"][r] = v["actor"][Rank0]
             /\ c.critic => \A k \in 1 .. Len(v["actor"][r]) :
                              v["actor"][r][k] = v["critic"][r][First(c) + k - 1]
  <2>1. /\ w["actor"][r] \in Hist /\ Covers(c, w["actor"][r], First(c), n)
        /\ w["actor"][r] = w["actor"][Rank0]
    BY DEF TrainedTo, Weights, Roles
  <2>2. Len(w["actor"][r]) = n - First(c) + 1 BY <1>2, <2>1 DEF Covers
  <2>3. /\ Covers(c, v["actor"][r], First(c), n + 1)
        /\ Len(v["actor"][r]) = n - First(c) + 2
        /\ \A k \in 1 .. Len(w["actor"][r]) : v["actor"][r][k] = w["actor"][r][k]
        /\ v["actor"][r][n - First(c) + 2] = b
    <3> DEFINE h == w["actor"][r]
    <3>1. /\ Covers(c, Append(h, b), First(c), n + 1) /\ Append(h, b)[Len(h) + 1] = b
          /\ Len(Append(h, b)) = Len(h) + 1
          /\ \A k \in 1 .. Len(h) : Append(h, b)[k] = h[k]
      <4> HIDE DEF h
      <4>1. h \in Hist /\ Covers(c, h, First(c), n) BY <2>1 DEF h
      <4> QED BY <1>2, <4>1, CoversMore
    <3>2. Len(h) + 1 = n - First(c) + 2 BY <1>2, <2>2
    <3> QED BY <1>1, <3>1, <3>2
  <2>4. v["actor"][r] = v["actor"][Rank0] BY <1>1, <2>1, Rank0Typed
  <2>5. ASSUME c.critic, NEW k \in 1 .. Len(v["actor"][r])
        PROVE  v["actor"][r][k] = v["critic"][r][First(c) + k - 1]
    <3>1. CASE k = n - First(c) + 2
      <4>1. First(c) + k - 1 = n + 1 BY <1>2, <3>1
      <4> QED BY <1>1, <2>3, <2>5, <3>1, <4>1
    <3>2. CASE k # n - First(c) + 2
      <4>1. k \in 1 .. Len(w["actor"][r]) BY <1>2, <2>2, <2>3, <3>2
      <4>2. w["actor"][r][k] = w["critic"][r][First(c) + k - 1] BY <2>5, <4>1 DEF TrainedTo
      <4> QED BY <1>1, <2>3, <4>1, <4>2
    <3> QED BY <3>1, <3>2
  <2> QED BY <2>3, <2>4, <2>5
<1>4. TrainedTo(c, v, n + 1, n + 1)
  <2>1. \A r \in Ranks : c.critic => Covers(c, v["critic"][r], 1, n + 1)
    BY <1>1 DEF TrainedTo
  <2> QED BY <1>3, <2>1 DEF TrainedTo
<1> QED BY <1>4 DEF v

\* Before the warm-up is over the actor learns nothing.
LEMMA ActorWaits ==
  ASSUME NEW c \in Configs, NEW w \in Weights, NEW n \in Nat, TrainedTo(c, w, n, n + 1),
         ~(c.warmup <= n + 1)
  PROVE  TrainedTo(c, w, n + 1, n + 1)
<1>1. First(c) > n + 1 BY FirstTyped DEF First
<1>2. \A r \in Ranks : Covers(c, w["actor"][r], First(c), n + 1)
  BY <1>1, FirstTyped DEF TrainedTo, Covers
<1> QED BY <1>2 DEF TrainedTo

\* The steps whose batch a role has had.
ActorDone ==
  IF pc \in {"next", "updateCritic", "updateActor", "ended"} THEN step - 1 ELSE step
CriticDone == IF pc \in {"next", "updateCritic", "ended"} THEN step - 1 ELSE step

\* The workers have learned what their step says, and the dataloader is where
\* the step says.
LiveInv ==
  OneMode /\ pc # "down" =>
    /\ TrainedTo(conf, weights, ActorDone, CriticDone)
    /\ IF pc \in {"next", "ended"} THEN pos % conf.size = (step - 1) % conf.size
       ELSE pos > 0 /\ pos - 1 = (step - 1) % conf.size
    /\ pc = "updateActor" /\ conf.critic => \A r \in Ranks : weights["critic"][r][step] = Batch

Stored(n) == [o \in Roles |-> shards[o][n]]

\* What a resumed launch loads was trained to its step, if all of it is there,
\* and its dataloader goes on after it.
DiskInv ==
  AutoOnly /\ tracker \in Steps =>
    /\ Loadable(tracker) => TrainedTo(conf, Stored(tracker), tracker, tracker)
    /\ data[tracker] \in 1 .. conf.size
    /\ data[tracker] % conf.size = tracker % conf.size

\* What is written of the current step's checkpoint is what the workers learned.
SavedInv ==
  /\ pc = "write" => \A r \in written : shards[role][step][r] = weights[role][r]
  /\ \A o \in UsedRoles : Done(o) => \A r \in Ranks : shards[o][step][r] = weights[o][r]
  /\ pc \in {"openTracker", "writeTracker"} => data[step] = pos

OrderInv == DurableInv /\ LiveInv /\ DiskInv /\ SavedInv

LEMMA OrderFacts ==
  ASSUME OrderInv
  PROVE  /\ DurableInv /\ CheckpointInv /\ TypeInv /\ LiveInv /\ DiskInv /\ SavedInv
         /\ AheadOfTracker
         /\ weights \in Weights /\ conf \in Configs
         /\ shards \in [Roles -> [Steps -> [Ranks -> Hist \cup {None}]]]
         /\ data \in [Steps -> (0 .. conf.size) \cup {None}]
         /\ step \in Nat /\ (pc \in Running => step > 0)
         /\ (pc \notin {"down", "next", "ended"} => step \in Steps)
         /\ role \in UsedRoles /\ role \in Roles /\ (pc \notin Saving => role = "actor")
         /\ pos \in 0 .. conf.size /\ launches \in Nat
         /\ conf.size \in Nat \ {0} /\ conf.critic \in BOOLEAN
         /\ (pc \in {"updateCritic", "updateActor"} => pos > 0)
         /\ Steps \subseteq Nat
<1>1. DurableInv /\ CheckpointInv /\ TypeInv /\ LiveInv /\ DiskInv /\ SavedInv /\ AheadOfTracker
  BY CheckpointFacts DEF OrderInv, DurableInv
<1>2. TypeOK BY <1>1 DEF TypeInv
<1>3. launches \in Nat BY <1>2, BoundsAssumption DEF TypeOK
<1> QED BY <1>1, <1>2, <1>3, CheckpointFacts, ConfFacts, RolesFact DEF TypeInv, TypeOK, Weights

LEMMA AutoIsOne == AutoOnly => OneMode
<1>1. Cardinality({"auto"}) = 1 BY FS_Singleton
<1> QED BY <1>1 DEF AutoOnly, OneMode

\* Without a critic nothing is said about one.
LEMMA CriticCounts ==
  ASSUME NEW c, NEW w, NEW na, NEW nc, NEW mc, ~c.critic, TrainedTo(c, w, na, nc)
  PROVE  TrainedTo(c, w, na, mc)
BY DEF TrainedTo

\* Only the histories of the roles the run has matter.
LEMMA SameTraining ==
  ASSUME NEW c \in Configs, NEW v, NEW w, NEW na, NEW nc, TrainedTo(c, v, na, nc),
         \A r \in Ranks : w["actor"][r] = v["actor"][r],
         c.critic => \A r \in Ranks : w["critic"][r] = v["critic"][r]
  PROVE  TrainedTo(c, w, na, nc)
BY Rank0Typed DEF TrainedTo

LEMMA FreshTrained == ASSUME NEW c \in Configs PROVE TrainedTo(c, Fresh, 0, 0)
<1>1. \A o \in Roles, r \in Ranks : Fresh[o][r] = <<>> BY DEF Fresh
<1>2. /\ Fresh["actor"][Rank0] = <<>>
      /\ \A r \in Ranks : Fresh["actor"][r] = <<>> /\ Fresh["critic"][r] = <<>>
  BY <1>1, Rank0Typed DEF Roles
<1>3. Covers(c, <<>>, First(c), 0) /\ Covers(c, <<>>, 1, 0) BY FirstTyped DEF Covers
<1> QED BY <1>2, <1>3 DEF TrainedTo

\* The position after the batch of step n + 1.
LEMMA PosAfter ==
  ASSUME NEW m \in Nat \ {0}, NEW n \in Nat, NEW p \in 1 .. m, p - 1 = n % m
  PROVE  p % m = (n + 1) % m
<1>1. (n + 1) % m = IF n % m = m - 1 THEN 0 ELSE (n % m) + 1 BY ModNext
<1>2. m % m = 0 /\ \A a \in 0 .. m - 1 : a % m = a BY ModFacts
<1>3. CASE p = m
  <2>1. n % m = m - 1 BY <1>3
  <2> QED BY <1>1, <1>2, <1>3, <2>1
<1>4. CASE p # m
  <2>1. (n + 1) % m = p BY <1>1, <1>4
  <2>2. p \in 0 .. m - 1 BY <1>4
  <2> QED BY <1>2, <2>1, <2>2
<1> QED BY <1>3, <1>4

\* Nothing of the directory changes.
LEMMA DiskSame ==
  ASSUME OrderInv, UNCHANGED <<conf, shards, data, tracker>>
  PROVE  DiskInv'
BY OrderFacts DEF DiskInv, AutoOnly, Loadable, Whole, UsedRoles, Stored

LEMMA LiveLaunch == ASSUME OrderInv, Launch PROVE LiveInv'
<1> USE OrderFacts, BoundsAssumption
<1>1. /\ pc = "down" /\ pc' = "next" /\ conf' = conf
      /\ UNCHANGED <<shards, data, tracker>>
  BY DEF Launch, diskVars
<1>2. SUFFICES ASSUME OneMode
               PROVE  /\ TrainedTo(conf, weights', step' - 1, step' - 1)
                      /\ pos' % conf.size = (step' - 1) % conf.size
  BY <1>1 DEF LiveInv, OneMode, ActorDone, CriticDone
<1>3. PICK mode \in conf.modes : FromScratch(mode) \/ Resume(mode) BY DEF Launch
<1>4. CASE FromScratch(mode)
  <2>1. step' - 1 = 0 /\ weights' = Fresh /\ pos' = 0 BY <1>4 DEF FromScratch
  <2> QED BY <2>1, FreshTrained
<1>5. CASE Resume(mode)
  <2>1. FindLatest = tracker /\ tracker \in Steps /\ tracker \in Nat
    <3>1. FindLatest # None BY <1>5 DEF Resume
    <3> QED BY <3>1 DEF FindLatest, TypeInv, TypeOK
  <2>2. AutoOnly BY <1>2, <1>5, ModeFact DEF Resume
  <2>3. Loadable(tracker) /\ step' - 1 = tracker BY <1>5, <2>1 DEF Resume
  <2>4. /\ TrainedTo(conf, Stored(tracker), tracker, tracker)
        /\ data[tracker] \in 1 .. conf.size /\ data[tracker] % conf.size = tracker % conf.size
    BY <2>1, <2>2, <2>3 DEF DiskInv
  <2>5. pos' = data[tracker] BY <1>5, <2>1, <2>4 DEF Resume
  <2>6. \A o \in UsedRoles, r \in Ranks : weights'[o][r] = Stored(tracker)[o][r]
    BY <1>5, <2>1, RolesFact DEF Resume, Stored
  <2>7. TrainedTo(conf, weights', tracker, tracker)
    BY <2>4, <2>6, SameTraining, RolesFact DEF UsedRoles
  <2> QED BY <2>3, <2>4, <2>5, <2>7
<1> QED BY <1>3, <1>4, <1>5

LEMMA LiveLoop ==
  ASSUME OrderInv, NextBatch \/ NextEpoch \/ Advance
  PROVE  LiveInv'
<1> USE OrderFacts DEF Running
<1>0. conf' = conf /\ weights' = weights BY DEF NextBatch, NextEpoch, Advance
<1>1. CASE NextBatch
  <2>1. /\ pc = "next" /\ pos < conf.size /\ pos' = pos + 1 /\ step' = step
        /\ pc' = IF conf.critic THEN "updateCritic" ELSE "updateActor"
    BY <1>1 DEF NextBatch
  <2>0. pos \in Nat /\ pos' = pos + 1 => pos' > 0 /\ pos' - 1 = pos OBVIOUS
  <2>2. SUFFICES ASSUME OneMode
                 PROVE  /\ TrainedTo(conf, weights, ActorDone', CriticDone')
                        /\ pos = (step - 1) % conf.size
    <3>2. /\ pc' \in {"updateCritic", "updateActor"}
          /\ ~(pc' = "updateActor" /\ conf.critic)
      BY <2>1
    <3> QED BY <1>0, <2>0, <2>1, <3>2 DEF LiveInv, OneMode
  <2>3. /\ TrainedTo(conf, weights, step - 1, step - 1) /\ ActorDone' = step - 1
        /\ pos % conf.size = (step - 1) % conf.size
    BY <2>1, <2>2 DEF LiveInv, ActorDone, CriticDone
  <2>4. TrainedTo(conf, weights, step - 1, CriticDone')
    <3>1. CASE conf.critic BY <2>1, <2>3, <3>1 DEF CriticDone
    <3>2. CASE ~conf.critic BY <2>3, <3>2, CriticCounts
    <3> QED BY <3>1, <3>2
  <2>5. pos % conf.size = pos
    <3>1. pos \in 0 .. conf.size - 1 BY <2>1
    <3> QED BY <3>1, ModFacts
  <2> QED BY <2>3, <2>4, <2>5
<1>2. CASE NextEpoch
  <2>1. /\ pc = "next" /\ pos = conf.size /\ step' = step /\ pc' \in {"next", "ended"}
        /\ pos' \in {0, conf.size}
    BY <1>2 DEF NextEpoch
  <2>2. SUFFICES ASSUME OneMode
                 PROVE  /\ TrainedTo(conf, weights, step - 1, step - 1)
                        /\ pos' % conf.size = (step - 1) % conf.size
    BY <1>0, <2>1 DEF LiveInv, OneMode, ActorDone, CriticDone
  <2>3. /\ TrainedTo(conf, weights, step - 1, step - 1)
        /\ pos % conf.size = (step - 1) % conf.size
    BY <2>1, <2>2 DEF LiveInv, ActorDone, CriticDone
  <2>4. 0 % conf.size = 0 /\ conf.size % conf.size = 0 BY ModFacts
  <2> QED BY <2>1, <2>3, <2>4
<1>3. CASE Advance
  <2>1. /\ pc = "advance" /\ step' = step + 1 /\ pc' \in {"next", "ended"} /\ pos' = pos
    BY <1>3 DEF Advance
  <2>2. SUFFICES ASSUME OneMode
                 PROVE  /\ TrainedTo(conf, weights, step, step)
                        /\ pos % conf.size = step % conf.size
    <3>1. step' - 1 = step BY <2>1
    <3> QED BY <1>0, <2>1, <3>1 DEF LiveInv, OneMode, ActorDone, CriticDone
  <2>3. /\ TrainedTo(conf, weights, step, step)
        /\ pos > 0 /\ pos - 1 = (step - 1) % conf.size
    BY <2>1, <2>2 DEF LiveInv, ActorDone, CriticDone
  <2>4. step - 1 \in Nat /\ (step - 1) + 1 = step /\ pos \in 1 .. conf.size BY <2>1, <2>3
  <2>5. pos % conf.size = ((step - 1) + 1) % conf.size BY <2>3, <2>4, PosAfter
  <2> QED BY <2>3, <2>4, <2>5
<1> QED BY <1>1, <1>2, <1>3

LEMMA LiveLearn ==
  ASSUME OrderInv, UpdateCritic \/ UpdateActor
  PROVE  LiveInv'
<1> USE OrderFacts DEF Running
<1>1. /\ pc \in {"updateCritic", "updateActor"} /\ UNCHANGED <<conf, step, pos, launches>>
  BY DEF UpdateCritic, UpdateActor
<1>2. SUFFICES ASSUME OneMode
               PROVE  /\ TrainedTo(conf, weights', ActorDone', CriticDone')
                      /\ pc' \notin {"next", "ended"} /\ pos > 0
                      /\ pos - 1 = (step - 1) % conf.size
                      /\ pc' = "updateActor" /\ conf.critic =>
                           \A r \in Ranks : weights'["critic"][r][step] = Batch
  BY <1>1 DEF LiveInv, OneMode, Batch
<1> DEFINE n == step - 1
<1>3. n \in Nat /\ n + 1 = step BY <1>1
<1>4. /\ TrainedTo(conf, weights, n, IF pc = "updateCritic" THEN n ELSE n + 1)
      /\ pos > 0 /\ pos - 1 = n % conf.size
      /\ pc = "updateActor" /\ conf.critic => \A r \in Ranks : weights["critic"][r][n + 1] = Batch
  BY <1>1, <1>2, <1>3 DEF LiveInv, ActorDone, CriticDone
<1>5. Batch \in Nat \X Nat /\ Batch[2] = n % conf.size BY <1>4 DEF Batch
<1>6. \A o \in Roles : Learns(o) => weights' = Learned(weights, o, Batch)
  BY DEF Learns, Learned
<1> HIDE DEF n
<1>7. CASE UpdateCritic
  <2>1. pc = "updateCritic" /\ pc' = "updateActor" /\ Learns("critic")
    BY <1>7 DEF UpdateCritic
  <2>2. weights' = Learned(weights, "critic", Batch) BY <1>6, <2>1 DEF Roles
  <2>3. ActorDone' = n /\ CriticDone' = n + 1
    BY <1>1, <1>3, <2>1 DEF ActorDone, CriticDone, n
  <2>4. CASE conf.critic
    <3>1. TrainedTo(conf, weights, n, n) BY <1>4, <2>1
    <3>2. /\ TrainedTo(conf, weights', n, n + 1)
          /\ \A r \in Ranks : weights'["critic"][r][n + 1] = Batch
      BY <1>3, <1>5, <2>2, <2>4, <3>1, CriticLearns
    <3> QED BY <1>3, <1>4, <2>1, <2>3, <3>2 DEF n
  <2>5. CASE ~conf.critic
    <3>1. TrainedTo(conf, weights, n, n) BY <1>4, <2>1
    <3>2. \A r \in Ranks : weights'["actor"][r] = weights["actor"][r]
      BY <2>2 DEF Learned, Weights, Roles
    <3>3. TrainedTo(conf, weights', n, n) BY <2>5, <3>1, <3>2, SameTraining
    <3>4. TrainedTo(conf, weights', n, n + 1) BY <2>5, <3>3, CriticCounts
    <3> QED BY <1>3, <1>4, <2>1, <2>3, <2>5, <3>4 DEF n
  <2> QED BY <2>4, <2>5
<1>8. CASE UpdateActor
  <2>1. /\ pc = "updateActor" /\ pc' \in {"remove", "advance"}
        /\ IF conf.warmup <= step THEN Learns("actor") ELSE weights' = weights
    BY <1>8 DEF UpdateActor
  <2>2. ActorDone' = n + 1 /\ CriticDone' = n + 1
    BY <1>1, <1>3, <2>1 DEF ActorDone, CriticDone
  <2>3. TrainedTo(conf, weights, n, n + 1) BY <1>4, <2>1
  <2>4. TrainedTo(conf, weights', n + 1, n + 1)
    <3>1. CASE conf.warmup <= step
      <4>1. weights' = Learned(weights, "actor", Batch) BY <1>6, <2>1, <3>1 DEF Roles
      <4>2. conf.warmup <= n + 1 BY <1>3, <3>1
      <4>3. conf.critic => \A r \in Ranks : weights["critic"][r][n + 1] = Batch BY <1>4, <2>1
      <4> QED BY <1>3, <1>5, <2>3, <4>1, <4>2, <4>3, ActorLearns
    <3>2. CASE ~(conf.warmup <= step)
      <4>1. ~(conf.warmup <= n + 1) /\ weights' = weights BY <1>3, <2>1, <3>2
      <4> QED BY <1>3, <2>3, <4>1, ActorWaits
    <3> QED BY <3>1, <3>2
  <2> QED BY <1>4, <2>1, <2>2, <2>4 DEF n
<1> QED BY <1>7, <1>8

\* Saving and crashing leave what the workers learned and where the data is.
LEMMA LiveSave ==
  ASSUME OrderInv, \/ RemovePrevious \/ (\E r \in Ranks : WriteShard(r)) \/ RoleSaved
                   \/ SaveData \/ OpenTracker \/ WriteTracker \/ Crash
  PROVE  LiveInv'
<1>1. CASE Crash BY <1>1 DEF Crash, LiveInv
<1>2. CASE ~Crash
  <2>1. /\ pc \in {"remove", "write", "data", "openTracker", "writeTracker"}
        /\ pc' \in {"remove", "write", "data", "openTracker", "writeTracker", "advance"}
        /\ UNCHANGED <<conf, step, weights, pos>>
    BY <1>2 DEF RemovePrevious, WriteShard, RoleSaved, SaveData, OpenTracker, WriteTracker,
       procVars
  <2> QED BY <2>1, OrderFacts DEF LiveInv, OneMode, ActorDone, CriticDone
<1> QED BY <1>1, <1>2

\* A tracked checkpoint is rewritten by nothing but the tracker: it is removed
\* or it stays, while a later step is saved.
LEMMA DiskStep ==
  ASSUME OrderInv, \/ RemovePrevious \/ (\E r \in Ranks : WriteShard(r)) \/ RoleSaved
                   \/ SaveData \/ OpenTracker
  PROVE  DiskInv'
<1> USE OrderFacts, BoundsAssumption DEF Running, Saving
<1>1. /\ pc \in {"remove", "write", "data", "openTracker"}
      /\ conf' = conf /\ tracker' \in {tracker, Empty}
  BY DEF RemovePrevious, WriteShard, RoleSaved, SaveData, OpenTracker, diskVars
<1>2. SUFFICES ASSUME AutoOnly, tracker \in Steps, tracker' = tracker, tracker # step
               PROVE  /\ Loadable(tracker)' =>
                           Loadable(tracker) /\ Stored(tracker)' = Stored(tracker)
                      /\ data'[tracker] = data[tracker]
  <2>1. tracker' \in Steps => tracker' = tracker BY <1>1 DEF Steps
  <2>2. AutoOnly /\ tracker \in Steps => tracker # step BY <1>1 DEF AheadOfTracker
  <2> QED BY <1>1, <2>1, <2>2 DEF DiskInv, AutoOnly
<1>a. /\ UsedRoles \subseteq Roles
      /\ Loadable(tracker) <=> \A o \in UsedRoles, r \in Ranks : shards[o][tracker][r] # None
      /\ Loadable(tracker)' <=> \A o \in UsedRoles, r \in Ranks : shards'[o][tracker][r] # None
      /\ Stored(tracker)' = [o \in Roles |-> shards'[o][tracker]]
  <2>1. UsedRoles' = UsedRoles BY <1>1 DEF UsedRoles
  <2> QED BY <1>2, <2>1, RolesFact DEF Loadable, Whole, Stored
<1>3. CASE RemovePrevious
  <2> DEFINE full == conf.keep[role] > 0 /\ Len(saved[role]) >= conf.keep[role]
             cut == IF full THEN Cut(role) ELSE 0
             old == {saved[role][i] : i \in 1 .. cut}
  <2>1. /\ shards' = [shards EXCEPT ![role] =
             [n \in Steps |-> IF n \in old THEN [r \in Ranks |-> None] ELSE @[n]]]
        /\ data' = data
    BY <1>3 DEF RemovePrevious
  <2> HIDE DEF full, cut, old
  <2>2. CASE tracker \in old
    <3>1. \A r \in Ranks : shards'[role][tracker][r] = None BY <1>2, <2>1, <2>2
    <3>2. ~Loadable(tracker)' BY <1>a, <3>1
    <3> QED BY <2>1, <3>2
  <2>3. CASE tracker \notin old
    <3>1. \A o \in Roles : shards'[o][tracker] = shards[o][tracker] BY <1>2, <2>1, <2>3
    <3>2. Stored(tracker)' = Stored(tracker) BY <1>a, <3>1 DEF Stored
    <3>3. Loadable(tracker)' => Loadable(tracker) BY <1>a, <3>1
    <3> QED BY <2>1, <3>2, <3>3
  <2> QED BY <2>2, <2>3
<1>4. CASE \E r \in Ranks : WriteShard(r)
  <2>1. PICK r \in Ranks : WriteShard(r) BY <1>4
  <2>2. /\ shards' = [shards EXCEPT ![role][step][r] = weights[role][r]]
        /\ data' = data
    BY <2>1 DEF WriteShard
  <2>3. \A o \in Roles : shards'[o][tracker] = shards[o][tracker] BY <1>2, <2>2
  <2>4. Stored(tracker)' = Stored(tracker) BY <1>a, <2>3 DEF Stored
  <2>5. Loadable(tracker)' => Loadable(tracker) BY <1>a, <2>3
  <2> QED BY <2>2, <2>4, <2>5
<1>5. CASE SaveData
  <2>1. data' = [data EXCEPT ![step] = pos] /\ shards' = shards BY <1>5 DEF SaveData
  <2>2. data'[tracker] = data[tracker] BY <1>2, <2>1
  <2> QED BY <1>a, <2>1, <2>2 DEF Stored
<1>6. CASE RoleSaved \/ OpenTracker
  <2>1. data' = data /\ shards' = shards BY <1>6 DEF RoleSaved, OpenTracker, diskVars
  <2> QED BY <1>a, <2>1 DEF Stored
<1> QED BY <1>3, <1>4, <1>5, <1>6

\* The tracker names what was just saved: the workers' own histories.
LEMMA DiskCommit == ASSUME OrderInv, WriteTracker PROVE DiskInv'
<1> USE OrderFacts, BoundsAssumption DEF Running
<1>1. /\ pc = "writeTracker" /\ tracker' = step /\ step \in Steps
      /\ UNCHANGED <<conf, shards, data, step>>
  BY DEF WriteTracker, procVars
<1>2. SUFFICES ASSUME AutoOnly
               PROVE  /\ TrainedTo(conf, Stored(step), step, step)
                      /\ data[step] \in 1 .. conf.size
                      /\ data[step] % conf.size = step % conf.size
  BY <1>1 DEF DiskInv, AutoOnly, Stored
<1>3. /\ TrainedTo(conf, weights, step, step)
      /\ pos > 0 /\ pos - 1 = (step - 1) % conf.size
  BY <1>1, <1>2, AutoIsOne DEF LiveInv, ActorDone, CriticDone
<1>4. \A o \in UsedRoles, r \in Ranks : Stored(step)[o][r] = weights[o][r]
  BY <1>1, RolesFact DEF SavedInv, Done, Stored
<1>5. TrainedTo(conf, Stored(step), step, step)
  BY <1>3, <1>4, SameTraining, RolesFact DEF UsedRoles
<1>6. data[step] = pos BY <1>1 DEF SavedInv
<1>7. step - 1 \in Nat /\ (step - 1) + 1 = step /\ pos \in 1 .. conf.size
  <2>1. step \in Nat /\ step > 0 BY <1>1
  <2>2. pos \in 1 .. conf.size BY <1>3
  <2> QED BY <2>1, <2>2
<1>8. pos % conf.size = ((step - 1) + 1) % conf.size BY <1>3, <1>7, PosAfter
<1> QED BY <1>5, <1>6, <1>7, <1>8

LEMMA SavedNext == OrderInv /\ [Next]_vars => SavedInv'
<1> SUFFICES ASSUME OrderInv, [Next]_vars PROVE SavedInv' OBVIOUS
<1> USE OrderFacts DEF Running, Saving
<1>0. conf' = conf /\ UsedRoles' = UsedRoles /\ UsedRoles \subseteq Roles
  BY ConfFixed, RolesFact DEF UsedRoles
<1>1. CASE UNCHANGED vars
  BY <1>1 DEF vars, diskVars, procVars, SavedInv, Done, UsedRoles
<1>2. CASE \/ Launch \/ NextBatch \/ NextEpoch \/ UpdateCritic \/ UpdateActor \/ Advance
           \/ Crash
  <2>1. /\ pc' \notin {"write", "data", "openTracker", "writeTracker"} /\ role' = "actor"
    BY <1>2 DEF Launch, NextBatch, NextEpoch, UpdateCritic, UpdateActor, Advance, Crash, Gone
  <2>2. \A o \in Roles : ~Done(o)' BY <2>1 DEF Done
  <2> QED BY <1>0, <2>1, <2>2 DEF SavedInv
<1>3. CASE RemovePrevious
  <2> DEFINE full == conf.keep[role] > 0 /\ Len(saved[role]) >= conf.keep[role]
             cut == IF full THEN Cut(role) ELSE 0
             old == {saved[role][i] : i \in 1 .. cut}
  <2>1. /\ shards' = [shards EXCEPT ![role] =
             [n \in Steps |-> IF n \in old THEN [r \in Ranks |-> None] ELSE @[n]]]
        /\ pc = "remove" /\ pc' = "write" /\ written' = {}
        /\ UNCHANGED <<role, step, weights>>
    BY <1>3 DEF RemovePrevious
  <2> HIDE DEF full, cut, old
  <2>2. \A o \in Roles : o # role => shards'[o] = shards[o] BY <2>1
  <2>3. \A o \in Roles : Done(o)' => Done(o) /\ o # role BY <2>1 DEF Done
  <2> QED BY <1>0, <2>1, <2>2, <2>3 DEF SavedInv
<1>4. ASSUME NEW r \in Ranks, WriteShard(r) PROVE SavedInv'
  <2>1. /\ shards' = [shards EXCEPT ![role][step][r] = weights[role][r]]
        /\ pc = "write" /\ written' = written \cup {r} /\ step \in Steps
        /\ UNCHANGED <<pc, role, step, weights>>
    BY <1>4 DEF WriteShard
  <2>2. /\ shards'[role][step][r] = weights[role][r]
        /\ \A s \in Ranks : s # r => shards'[role][step][s] = shards[role][step][s]
        /\ \A o \in Roles : o # role => shards'[o] = shards[o]
    BY <2>1
  <2>3. \A o \in Roles : Done(o)' => Done(o) /\ o # role BY <2>1 DEF Done
  <2>4. \A s \in written' : shards'[role][step][s] = weights[role][s]
    <3>1. written \subseteq Ranks BY DEF TypeInv, TypeOK
    <3> QED BY <2>1, <2>2, <3>1 DEF SavedInv
  <2> QED BY <1>0, <2>1, <2>2, <2>3, <2>4 DEF SavedInv
<1>5. CASE RoleSaved
  <2>1. /\ pc = "write" /\ written = Ranks /\ pc' \in {"remove", "data"}
        /\ UNCHANGED <<shards, step, weights>>
    BY <1>5 DEF RoleSaved, diskVars
  <2>2. ASSUME NEW o \in UsedRoles, Done(o)' PROVE Done(o) \/ o = role
    <3>1. CASE role = "actor" /\ conf.critic
      <4>1. pc' = "remove" BY <1>5, <3>1 DEF RoleSaved
      <4>2. o = "actor" BY <2>2, <4>1 DEF Done
      <4> QED BY <3>1, <4>2
    <3>2. CASE role # "actor"
      <4>1. role = "critic" /\ o \in {"actor", "critic"} BY <1>0, <3>2, RolesFact
      <4> QED BY <2>1, <4>1 DEF Done
    <3>3. CASE ~conf.critic
      <4>1. UsedRoles = {"actor"} BY <3>3 DEF UsedRoles
      <4> QED BY <4>1
    <3> QED BY <3>1, <3>2, <3>3
  <2> QED BY <1>0, <2>1, <2>2 DEF SavedInv
<1>6. CASE SaveData \/ OpenTracker
  <2>1. /\ UNCHANGED <<shards, step, weights, pos>> /\ pc \in {"data", "openTracker"}
        /\ pc' \in {"openTracker", "writeTracker"}
        /\ data'[step] = pos
    <3>1. CASE SaveData BY <3>1 DEF SaveData, procVars
    <3>2. CASE OpenTracker BY <3>2 DEF OpenTracker, procVars, SavedInv
    <3> QED BY <1>6, <3>1, <3>2
  <2>2. \A o \in Roles : Done(o) BY <2>1 DEF Done
  <2> QED BY <1>0, <2>1, <2>2 DEF SavedInv
<1>7. CASE WriteTracker
  <2>1. pc' = "advance" BY <1>7 DEF WriteTracker
  <2>2. \A o \in Roles : ~Done(o)' BY <2>1 DEF Done
  <2> QED BY <1>0, <2>1, <2>2 DEF SavedInv
<1> QED BY <1>1, <1>2, <1>3, <1>4, <1>5, <1>6, <1>7 DEF Next, Fit

LEMMA OrderInit == Init => OrderInv
<1> SUFFICES ASSUME Init PROVE OrderInv OBVIOUS
<1>1. DurableInv BY DurableInit
<1>2. LiveInv BY DEF Init, LiveInv
<1>3. tracker \notin Steps BY BoundsAssumption DEF Init, Steps
<1>4. SavedInv BY DEF Init, SavedInv, Done, Saving
<1> QED BY <1>1, <1>2, <1>3, <1>4 DEF OrderInv, DiskInv

LEMMA OrderNext == OrderInv /\ [Next]_vars => OrderInv'
<1> SUFFICES ASSUME OrderInv, [Next]_vars PROVE OrderInv' OBVIOUS
<1>1. DurableInv' BY DurableNext DEF OrderInv
<1>2. SavedInv' BY SavedNext
<1>3. SUFFICES LiveInv' /\ DiskInv' BY <1>1, <1>2 DEF OrderInv
<1>4. CASE UNCHANGED vars
  <2>1. LiveInv'
    BY <1>4, OrderFacts DEF vars, procVars, LiveInv, OneMode, ActorDone, CriticDone, Batch
  <2> QED BY <1>4, <2>1, DiskSame DEF vars, diskVars
<1>5. CASE \/ Launch \/ NextBatch \/ NextEpoch \/ UpdateCritic \/ UpdateActor \/ Advance
           \/ Crash
  <2>1. DiskInv'
    BY <1>5, DiskSame
       DEF Launch, NextBatch, NextEpoch, UpdateCritic, UpdateActor, Advance, Crash, diskVars
  <2> QED BY <1>5, <2>1, LiveLaunch, LiveLoop, LiveLearn, LiveSave
<1>6. CASE \/ RemovePrevious \/ (\E r \in Ranks : WriteShard(r)) \/ RoleSaved
           \/ SaveData \/ OpenTracker
  BY <1>6, DiskStep, LiveSave
<1>7. CASE WriteTracker BY <1>7, DiskCommit, LiveSave
<1> QED BY <1>4, <1>5, <1>6, <1>7 DEF Next, Fit

\* What a launch trains on is the data in its order, every batch once, across
\* all crashes and launches, and all ranks and both roles agree on it.
THEOREM BatchesInOrder == Spec => []TrainedInOrder
<1>1. OrderInv => TrainedInOrder
  <2> SUFFICES ASSUME OrderInv, OneMode, pc = "next", NEW r \in Ranks
               PROVE  /\ InOrder(weights["actor"][r], FirstActorStep)
                      /\ weights["actor"][r] = weights["actor"][Rank0]
                      /\ conf.critic =>
                           /\ InOrder(weights["critic"][r], 1)
                           /\ weights["actor"][r]
                                = SubSeq(weights["critic"][r], FirstActorStep, step - 1)
    BY DEF TrainedInOrder
  <2> DEFINE a == weights["actor"][r]
             h == weights["critic"][r]
             f == First(conf)
  <2>1. /\ step \in Nat \ {0} /\ f \in Nat \ {0} /\ FirstActorStep = f
        /\ a \in Seq(Nat \X Nat) /\ h \in Seq(Nat \X Nat)
    BY OrderFacts, FirstTyped DEF Running, First, FirstActorStep, Weights, Hist, Roles
  <2>2. /\ Covers(conf, a, f, step - 1) /\ a = weights["actor"][Rank0]
        /\ conf.critic => /\ Covers(conf, h, 1, step - 1)
                          /\ \A k \in 1 .. Len(a) : a[k] = h[f + k - 1]
    BY OrderFacts DEF LiveInv, ActorDone, CriticDone, TrainedTo
  <2> HIDE DEF a, h, f
  <2>3. ASSUME NEW g \in Seq(Nat \X Nat), NEW first \in Nat \ {0},
               Covers(conf, g, first, step - 1)
        PROVE  InOrder(g, first)
    <3>1. DOMAIN g = 1 .. Len(g) OBVIOUS
    <3>2. Len(g) = IF step > first THEN step - first ELSE 0 BY <2>1, <2>3 DEF Covers
    <3> QED BY <2>3, <3>1, <3>2 DEF Covers, InOrder
  <2>4. ASSUME conf.critic PROVE a = SubSeq(h, f, step - 1)
    <3>1. Len(h) = step - 1 /\ Len(a) = IF step - 1 >= f THEN step - f ELSE 0
      BY <2>1, <2>2, <2>4 DEF Covers
    <3>2. \A i \in f .. step - 1 : h[i] \in Nat \X Nat BY <2>1, <3>1
    <3>3. /\ SubSeq(h, f, step - 1) \in Seq(Nat \X Nat)
          /\ Len(SubSeq(h, f, step - 1)) = IF f <= step - 1 THEN step - f ELSE 0
          /\ \A i \in 1 .. step - f : SubSeq(h, f, step - 1)[i] = h[f + i - 1]
      BY <2>1, <3>2, SubSeqProperties
    <3>4. Len(a) = Len(SubSeq(h, f, step - 1)) BY <2>1, <3>1, <3>3
    <3>5. \A k \in 1 .. Len(a) : a[k] = SubSeq(h, f, step - 1)[k]
      <4> DEFINE w == SubSeq(h, f, step - 1)
      <4>1. /\ \A k \in 1 .. Len(a) : a[k] = h[f + k - 1]
            /\ \A i \in 1 .. step - f : w[i] = h[f + i - 1]
        BY <2>2, <2>4, <3>3
      <4> HIDE DEF w
      <4>2. \A k \in 1 .. Len(a) : k \in 1 .. step - f BY <2>1, <3>1
      <4>3. \A k \in 1 .. Len(a) : a[k] = w[k] BY <4>1, <4>2
      <4> QED BY <4>3 DEF w
    <3> QED BY <2>1, <3>3, <3>4, <3>5, SeqEqual
  <2>5. InOrder(a, f) /\ (conf.critic => InOrder(h, 1))
    <3>1. f \in Nat \ {0} /\ a \in Seq(Nat \X Nat) /\ h \in Seq(Nat \X Nat) BY <2>1
    <3>2. Covers(conf, a, f, step - 1) /\ (conf.critic => Covers(conf, h, 1, step - 1))
      BY <2>2
    <3>3. 1 \in Nat \ {0} OBVIOUS
    <3>4. InOrder(a, f) BY <2>3, <3>1, <3>2
    <3>5. ASSUME conf.critic PROVE InOrder(h, 1) BY <2>3, <3>1, <3>2, <3>3, <3>5
    <3> QED BY <3>4, <3>5
  <2>6. f = FirstActorStep BY <2>1
  <2> QED BY <2>2, <2>4, <2>5, <2>6 DEF a, h
<1> QED BY OrderInit, OrderNext, <1>1, PTL DEF Spec
=============================================================================
