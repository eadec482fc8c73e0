--------------------------- MODULE FullyAsyncProofs ---------------------------
(***************************************************************************)
(* Theorems about fully asynchronous training, for any settings and number *)
(* of samples.                                                             *)
(***************************************************************************)
EXTENDS FullyAsync, SequenceTheorems, FiniteSetTheorems, TLAPS

\* What is known of a queue without duplicates when its head is taken, and
\* when something new is put in.
LEMMA HeadTaken ==
  ASSUME NEW S, NEW q \in Seq(S), q # <<>>, IsInjective(q)
  PROVE  /\ Tail(q) \in Seq(S) /\ Head(q) \in Range(q) /\ Head(q) \in S
         /\ Range(Tail(q)) = Range(q) \ {Head(q)} /\ IsInjective(Tail(q))
<1>1. /\ Tail(q) \in Seq(S) /\ Len(Tail(q)) = Len(q) - 1 /\ Head(q) \in S
      /\ \A i \in 1 .. Len(Tail(q)) : Tail(q)[i] = q[i + 1]
  BY HeadTailProperties
<1>2. Len(q) \in Nat \ {0} /\ DOMAIN q = 1 .. Len(q) /\ DOMAIN Tail(q) = 1 .. Len(q) - 1
      /\ Head(q) = q[1]
  BY <1>1
<1>3. Range(Tail(q)) \subseteq Range(q) \ {Head(q)}
  <2> SUFFICES ASSUME NEW i \in 1 .. Len(q) - 1 PROVE Tail(q)[i] \in Range(q) \ {q[1]}
    BY <1>2 DEF Range
  <2>1. Tail(q)[i] = q[i + 1] /\ i + 1 \in 1 .. Len(q) /\ i + 1 # 1 BY <1>1, <1>2
  <2> QED BY <1>2, <2>1 DEF Range, IsInjective
<1>4. Range(q) \ {Head(q)} \subseteq Range(Tail(q))
  <2> SUFFICES ASSUME NEW i \in 1 .. Len(q), q[i] # q[1] PROVE q[i] \in Range(Tail(q))
    BY <1>2 DEF Range
  <2>1. i - 1 \in 1 .. Len(q) - 1 BY <1>2
  <2>2. Tail(q)[i - 1] = q[i] BY <1>1, <1>2, <2>1
  <2> QED BY <1>2, <2>1, <2>2 DEF Range
<1>5. IsInjective(Tail(q))
  <2> SUFFICES ASSUME NEW i \in 1 .. Len(q) - 1, NEW j \in 1 .. Len(q) - 1,
                      Tail(q)[i] = Tail(q)[j]
               PROVE  i = j
    BY <1>2 DEF IsInjective
  <2>1. q[i + 1] = q[j + 1] /\ i + 1 \in DOMAIN q /\ j + 1 \in DOMAIN q BY <1>1, <1>2
  <2>2. i + 1 = j + 1 BY <2>1 DEF IsInjective
  <2> QED BY <2>2
<1>6. Head(q) \in Range(q) BY <1>2 DEF Range
<1> QED BY <1>1, <1>3, <1>4, <1>5, <1>6

LEMMA NewPut ==
  ASSUME NEW S, NEW q \in Seq(S), NEW x \in S, x \notin Range(q), IsInjective(q)
  PROVE  /\ Append(q, x) \in Seq(S)
         /\ Range(Append(q, x)) = Range(q) \cup {x} /\ IsInjective(Append(q, x))
<1> DEFINE w == Append(q, x)
<1>1. /\ w \in Seq(S) /\ Len(q) \in Nat
      /\ DOMAIN q = 1 .. Len(q) /\ DOMAIN w = 1 .. Len(q) + 1
      /\ w[Len(q) + 1] = x /\ \A i \in 1 .. Len(q) : w[i] = q[i]
  OBVIOUS
<1> HIDE DEF w
<1>2. Range(w) = Range(q) \cup {x}
  <2>1. ASSUME NEW y \in Range(w) PROVE y \in Range(q) \cup {x} BY <1>1 DEF Range
  <2>2. ASSUME NEW y \in Range(q) PROVE y \in Range(w)
    <3>1. PICK i \in 1 .. Len(q) : y = q[i] BY <1>1 DEF Range
    <3> QED BY <1>1, <3>1 DEF Range
  <2>3. x \in Range(w)
    <3>1. Len(q) + 1 \in DOMAIN w BY <1>1
    <3> QED BY <1>1, <3>1 DEF Range
  <2> QED BY <2>1, <2>2, <2>3
<1>3. IsInjective(w)
  <2> SUFFICES ASSUME NEW i \in 1 .. Len(q) + 1, NEW j \in 1 .. Len(q) + 1, w[i] = w[j]
               PROVE  i = j
    BY <1>1 DEF IsInjective
  <2>1. \A k \in 1 .. Len(q) : q[k] # x BY <1>1 DEF Range
  <2>2. CASE i \in 1 .. Len(q) /\ j \in 1 .. Len(q) BY <1>1, <2>2 DEF IsInjective
  <2>3. CASE i = Len(q) + 1 \/ j = Len(q) + 1 BY <1>1, <2>1, <2>3
  <2> QED BY <1>1, <2>2, <2>3
<1> QED BY <1>1, <1>2, <1>3 DEF w

\* The same for a queue of 1 .. n, as the message queue is.
LEMMA EntryPut ==
  ASSUME NEW n, NEW q, NEW x, q \in Seq(1 .. n), x \in 1 .. n, x \notin Range(q),
         IsInjective(q)
  PROVE  /\ Append(q, x) \in Seq(1 .. n)
         /\ Range(Append(q, x)) = Range(q) \cup {x} /\ IsInjective(Append(q, x))
<1> DEFINE S == 1 .. n
<1>1. q \in Seq(S) /\ x \in S OBVIOUS
<1> HIDE DEF S
<1>2. /\ Append(q, x) \in Seq(S)
      /\ Range(Append(q, x)) = Range(q) \cup {x} /\ IsInjective(Append(q, x))
  BY <1>1, NewPut
<1> QED BY <1>2 DEF S

---------------------------------------------------------------------------
(* A partition of the samples 1 .. n over the places, and how it changes   *)

Names == {"held", "task", "cancelq", "resultq", "inflight", "mq", "batch",
          "trained", "dropped", "left"}

Partition(P, n) ==
  /\ \A p \in Names : P[p] \subseteq 1 .. n
  /\ \A s \in 1 .. n : \E p \in Names : s \in P[p]
  /\ \A p, q \in Names : \A s \in P[p] \cap P[q] : p = q

\* X goes from place a to place b
Moved(P, Q, a, b, X) ==
  \A p \in Names : Q[p] = IF p = a THEN P[a] \ X ELSE IF p = b THEN P[b] \cup X ELSE P[p]

LEMMA MoveKeepsPartition ==
  ASSUME NEW P, NEW Q, NEW n \in Nat, NEW a \in Names, NEW b \in Names, NEW X,
         Partition(P, n), a # b, X \subseteq P[a], Moved(P, Q, a, b, X)
  PROVE  Partition(Q, n)
<1> HIDE DEF Names
<1>1. \A p \in Names : \A s \in Q[p] :
        \/ s \in P[p] /\ (p = a => s \notin X)
        \/ p = b /\ s \in X
  BY DEF Moved
<1>2. \A p \in Names : Q[p] \subseteq 1 .. n BY <1>1 DEF Partition
<1>3. ASSUME NEW s \in 1 .. n PROVE \E p \in Names : s \in Q[p]
  <2>1. PICK p \in Names : s \in P[p] BY DEF Partition
  <2>2. CASE p = a /\ s \in X BY <2>2 DEF Moved
  <2>3. CASE ~(p = a /\ s \in X) BY <2>1, <2>3 DEF Moved
  <2> QED BY <2>2, <2>3
<1>4. ASSUME NEW p \in Names, NEW q \in Names, NEW s \in Q[p] \cap Q[q] PROVE p = q
  BY <1>1 DEF Partition
<1> QED BY <1>2, <1>3, <1>4 DEF Partition

LEMMA TakeKeepsPartition ==
  ASSUME NEW P, NEW Q, NEW n \in Nat, Partition(P, n), P["held"] = {},
         \A p \in Names : Q[p] = IF p = "held" THEN {n + 1} ELSE P[p]
  PROVE  Partition(Q, n + 1)
<1>1. "held" \in Names BY DEF Names
<1> HIDE DEF Names
<1>2. \A p \in Names : Q[p] \subseteq 1 .. n + 1 BY DEF Partition
<1>3. ASSUME NEW s \in 1 .. n + 1 PROVE \E p \in Names : s \in Q[p]
  <2>1. CASE s = n + 1 BY <1>1, <2>1
  <2>2. CASE s # n + 1
    <3>1. s \in 1 .. n BY <2>2
    <3>2. PICK p \in Names : s \in P[p] BY <3>1 DEF Partition
    <3> QED BY <3>2
  <2> QED BY <2>1, <2>2
<1>4. ASSUME NEW p \in Names, NEW q \in Names, NEW s \in Q[p] \cap Q[q] PROVE p = q
  <2>1. \A m \in Names : n + 1 \notin P[m] BY DEF Partition
  <2> QED BY <2>1 DEF Partition
<1> QED BY <1>2, <1>3, <1>4 DEF Partition

LEMMA PlaceFields ==
  /\ DOMAIN Places = Names
  /\ Places["held"] = {held} \ {NoSample} /\ Places["task"] = Running
  /\ Places["cancelq"] = Range(cancelq) /\ Places["resultq"] = Range(resultq)
  /\ Places["inflight"] = {inflight} \ {NoSample} /\ Places["mq"] = Range(mq) \ {End}
  /\ Places["batch"] = Range(batch) /\ Places["trained"] = trained
  /\ Places["dropped"] = dropped \ {End} /\ Places["left"] = left
BY DEF Places, Names

LEMMA PlaceFieldsNext ==
  /\ Places'["held"] = {held'} \ {NoSample} /\ Places'["task"] = Running'
  /\ Places'["cancelq"] = Range(cancelq') /\ Places'["resultq"] = Range(resultq')
  /\ Places'["inflight"] = {inflight'} \ {NoSample} /\ Places'["mq"] = Range(mq') \ {End}
  /\ Places'["batch"] = Range(batch') /\ Places'["trained"] = trained'
  /\ Places'["dropped"] = dropped' \ {End} /\ Places'["left"] = left'
BY DEF Places

\* the trainer gets a step for the samples 1 .. got that End is not among
Taken == IF got < End THEN got ELSE Total


---------------------------------------------------------------------------
(* The invariant of OnePlace                                               *)

placeVars == <<conf, got, held, task, cancelq, resultq, inflight, mq, batch, trained,
               dropped, left>>

PlaceTypes ==
  /\ conf \in Configs
  /\ fed \in 0 .. End /\ got \in 0 .. fed
  /\ held \in 0 .. Total /\ inflight \in 0 .. Total
  /\ DOMAIN task = Samples
  /\ cancelq \in Seq(Samples) /\ resultq \in Seq(Samples) /\ batch \in Seq(Samples)
  /\ mq \in Seq(1 .. End) /\ dropped \subseteq 1 .. End
  /\ trained \subseteq Samples /\ left \subseteq Samples

\* the processor holds a sample exactly between taking and submitting it; one
\* that has died may hold one for ever
HeldInv ==
  /\ at \in {"limit", "submit"} => held # NoSample
  /\ at \notin {"limit", "submit", "dead"} => held = NoSample

\* None enters the message queue once
EndInv == main \in {"stream", "closing"} => End \notin Range(mq) \cup dropped

InjectiveInv ==
  IsInjective(cancelq) /\ IsInjective(resultq) /\ IsInjective(mq) /\ IsInjective(batch)

PartitionInv == Partition(Places, Taken)

PlaceInv == PlaceTypes /\ HeldInv /\ EndInv /\ InjectiveInv /\ PartitionInv

\* a step that moves no sample
Quiet ==
  /\ UNCHANGED placeVars
  /\ fed' \in fed .. End
  /\ HeldInv'
  /\ main' \in {"stream", "closing"} => main \in {"stream", "closing"}

LEMMA QuietKeeps == ASSUME PlaceInv, Quiet PROVE PlaceInv'
<1>1. Total \in Nat /\ End \in Nat BY TotalAssumption DEF End
<1>2. Places' = Places /\ Taken' = Taken BY DEF Quiet, placeVars, Places, Running, Taken
<1>3. PartitionInv' BY <1>2 DEF PlaceInv, PartitionInv
<1>4. PlaceTypes' BY <1>1 DEF PlaceInv, PlaceTypes, Quiet, placeVars
<1>5. EndInv' BY DEF PlaceInv, EndInv, Quiet, placeVars
<1>6. InjectiveInv' BY DEF PlaceInv, InjectiveInv, Quiet, placeVars
<1> QED BY <1>3, <1>4, <1>5, <1>6 DEF PlaceInv, Quiet

LEMMA ProcessorQuiet ==
  ASSUME PlaceInv, UNCHANGED trainVars,
         \/ ProcessorSeesPause \/ ProcessorWaitsForPending \/ ProcessorLocks
         \/ ProcessorGetsLock \/ ProcessorPauses \/ ProcessorLeavesLoop
         \/ ProcessorWaitsForTask \/ ProcessorSeesTaskDone
         \/ ProcessorFindsNoTask \/ ProcessorParks \/ ProcessorUnparks
  PROVE  Quiet
<1> USE TotalAssumption DEF Quiet, placeVars, trainVars, procRest, queueVars, End
<1> SUFFICES HeldInv' /\ UNCHANGED <<placeVars, fed, main>>
  BY DEF PlaceInv, PlaceTypes
<1>1. ASSUME ProcessorSeesPause PROVE HeldInv' /\ UNCHANGED <<placeVars, fed, main>>
  BY <1>1 DEF ProcessorSeesPause, PlaceInv, HeldInv
<1>2. ASSUME ProcessorWaitsForPending PROVE HeldInv' /\ UNCHANGED <<placeVars, fed, main>>
  BY <1>2 DEF ProcessorWaitsForPending, PlaceInv, HeldInv
<1>3. ASSUME ProcessorLocks \/ ProcessorGetsLock
      PROVE HeldInv' /\ UNCHANGED <<placeVars, fed, main>>
  BY <1>3 DEF ProcessorLocks, ProcessorGetsLock, PlaceInv, HeldInv
<1>4. ASSUME ProcessorPauses PROVE HeldInv' /\ UNCHANGED <<placeVars, fed, main>>
  BY <1>4 DEF ProcessorPauses, PlaceInv, HeldInv
<1>5. ASSUME ProcessorLeavesLoop PROVE HeldInv' /\ UNCHANGED <<placeVars, fed, main>>
  BY <1>5 DEF ProcessorLeavesLoop, Loops, AfterLoop, PlaceInv, HeldInv
<1>6. ASSUME ProcessorWaitsForTask \/ ProcessorSeesTaskDone
      PROVE HeldInv' /\ UNCHANGED <<placeVars, fed, main>>
  BY <1>6 DEF ProcessorWaitsForTask, ProcessorSeesTaskDone, PlaceInv, HeldInv
<1>7. ASSUME ProcessorFindsNoTask PROVE HeldInv' /\ UNCHANGED <<placeVars, fed, main>>
  BY <1>7 DEF ProcessorFindsNoTask, PlaceInv, HeldInv
<1>8. ASSUME ProcessorParks \/ ProcessorUnparks
      PROVE HeldInv' /\ UNCHANGED <<placeVars, fed, main>>
  BY <1>8 DEF ProcessorParks, ProcessorUnparks, PlaceInv, HeldInv
<1> QED BY <1>1, <1>2, <1>3, <1>4, <1>5, <1>6, <1>7, <1>8

LEMMA RestQuiet ==
  ASSUME PlaceInv, UNCHANGED trainVars,
         \/ FeedSamples \/ MainStreamEnds \/ MainStops
         \/ MonitorQueues \/ MonitorUnpauses \/ MonitorEnds
         \/ SyncQueues \/ PauseBegins \/ PauseEnds \/ UpdateBegins(weights)
         \/ UpdateEnds(tpc = "waitFinal") \/ ResumeBegins \/ ResumeEnds
  PROVE  Quiet
<1> USE DEF Quiet, placeVars, trainVars, procVars, queueVars, HeldInv
<1>1. HeldInv /\ fed \in 0 .. End /\ got \in 0 .. fed /\ End \in Nat /\ fed \in fed .. End
  BY TotalAssumption DEF PlaceInv, PlaceTypes, End
<1>2. ASSUME FeedSamples PROVE Quiet
  <2>1. fed' \in fed .. End
    <3>1. conf.room \in Nat BY ConfigsAssumption DEF PlaceInv, PlaceTypes
    <3> QED BY <1>1, <1>2, <3>1 DEF FeedSamples, FedTo
  <2> QED BY <1>1, <1>2, <2>1 DEF FeedSamples
<1>3. ASSUME MainStreamEnds \/ MainStops PROVE Quiet
  BY <1>1, <1>3 DEF MainStreamEnds, MainStops, mainRest
<1>4. ASSUME MonitorQueues \/ MonitorUnpauses \/ MonitorEnds PROVE Quiet
  BY <1>1, <1>4 DEF MonitorQueues, MonitorUnpauses, MonitorEnds, monRest
<1>5. ASSUME SyncQueues \/ PauseBegins \/ PauseEnds PROVE Quiet
  BY <1>1, <1>5 DEF SyncQueues, PauseBegins, PauseEnds, syncRest
<1>6. ASSUME UpdateBegins(weights) \/ UpdateEnds(tpc = "waitFinal") PROVE Quiet
  BY <1>1, <1>6 DEF UpdateBegins, UpdateEnds, syncRest
<1>7. ASSUME ResumeBegins \/ ResumeEnds PROVE Quiet
  BY <1>1, <1>7 DEF ResumeBegins, ResumeEnds, syncRest
<1> QED BY <1>2, <1>3, <1>4, <1>5, <1>6, <1>7

LEMMA TrainerQuiet ==
  ASSUME PlaceInv,
         TrainerWaitsLast \/ Transfer \/ TrainerGetsValidation \/ TrainerFinishes
  PROVE  Quiet
<1> USE DEF Quiet, placeVars, rollVars, procVars, queueVars, queueOnly, HeldInv
<1>1. HeldInv /\ fed \in fed .. End
  BY TotalAssumption DEF PlaceInv, PlaceTypes, End
<1>2. ASSUME TrainerWaitsLast \/ Transfer PROVE Quiet
  BY <1>1, <1>2 DEF TrainerWaitsLast, Transfer
<1>3. ASSUME TrainerGetsValidation PROVE Quiet
  BY <1>1, <1>3 DEF TrainerGetsValidation
<1>4. ASSUME TrainerFinishes PROVE Quiet
  BY <1>1, <1>4 DEF TrainerFinishes
<1> QED BY <1>2, <1>3, <1>4

---------------------------------------------------------------------------
(* The steps that move a sample                                            *)

LEMMA MovedInv ==
  ASSUME PlaceInv, got' = got, NEW a \in Names, NEW b \in Names, NEW X,
         a # b, X \subseteq Places[a], Moved(Places, Places', a, b, X)
  PROVE  PartitionInv'
<1>1. Taken \in Nat /\ Taken' = Taken
  BY TotalAssumption DEF PlaceInv, PlaceTypes, Taken, End
<1>2. Partition(Places, Taken) BY DEF PlaceInv, PartitionInv
<1>3. Partition(Places', Taken) BY <1>1, <1>2, MoveKeepsPartition
<1> QED BY <1>1, <1>3 DEF PartitionInv

\* no sample is in two places
LEMMA Apart ==
  ASSUME PlaceInv, NEW a \in Names, NEW b \in Names, a # b, NEW x \in Places[a]
  PROVE  x \notin Places[b] /\ x \in Samples
<1>1. Taken \in 0 .. Total BY TotalAssumption DEF PlaceInv, PlaceTypes, Taken, End
<1> QED BY <1>1, TotalAssumption DEF PlaceInv, PartitionInv, Partition, Samples

LEMMA SubmitsInv ==
  ASSUME PlaceInv, UNCHANGED trainVars, ProcessorSubmits PROVE PlaceInv'
<1> USE DEF trainVars, queueVars
<1>1. held \in Samples
  BY TotalAssumption DEF PlaceInv, PlaceTypes, HeldInv, ProcessorSubmits, NoSample, Samples
<1>2. Running' = Running \cup {held} /\ held' = NoSample /\ DOMAIN task' = Samples
  BY <1>1 DEF ProcessorSubmits, Running, PlaceInv, PlaceTypes
<1>3. UNCHANGED <<conf, fed, got, cancelq, resultq, inflight, mq, batch, trained, dropped,
                 left, main>>
  BY DEF ProcessorSubmits
<1>4. Moved(Places, Places', "held", "task", {held})
  BY <1>1, <1>2, <1>3, PlaceFields, PlaceFieldsNext DEF Moved, Names, NoSample, Samples
<1>5. {held} \subseteq Places["held"] BY <1>1, PlaceFields DEF NoSample, Samples
<1>6. PartitionInv' BY <1>3, <1>4, <1>5, MovedInv DEF Names
<1>7. PlaceTypes' BY <1>2, <1>3, TotalAssumption DEF PlaceInv, PlaceTypes, NoSample
<1>8. HeldInv' /\ EndInv' /\ InjectiveInv'
  BY <1>2, <1>3 DEF PlaceInv, HeldInv, EndInv, InjectiveInv, ProcessorSubmits
<1> QED BY <1>6, <1>7, <1>8 DEF PlaceInv

LEMMA TakesCancelledInv ==
  ASSUME PlaceInv, UNCHANGED trainVars, ProcessorTakesCancelled PROVE PlaceInv'
<1> USE DEF trainVars, queueVars
<1>1. /\ held = NoSample /\ cancelq # <<>> /\ cancelq \in Seq(Samples) /\ IsInjective(cancelq)
      /\ held' = Head(cancelq) /\ cancelq' = Tail(cancelq)
  BY DEF PlaceInv, PlaceTypes, HeldInv, InjectiveInv, ProcessorTakesCancelled
<1>2. /\ held' \in Samples /\ held' \in Range(cancelq) /\ cancelq' \in Seq(Samples)
      /\ Range(cancelq') = Range(cancelq) \ {held'} /\ IsInjective(cancelq')
  BY <1>1, HeadTaken
<1>3. UNCHANGED <<conf, fed, got, task, resultq, inflight, mq, batch, trained, dropped,
                 left, main>>
  BY DEF ProcessorTakesCancelled
<1>4. Running' = Running BY <1>3 DEF Running
<1>5. {held} \ {NoSample} = {} /\ {held'} \ {NoSample} = {held'}
  BY <1>1, <1>2, TotalAssumption DEF NoSample, Samples
<1>6. Moved(Places, Places', "cancelq", "held", {held'})
  BY <1>4, <1>2, <1>3, <1>5, PlaceFields, PlaceFieldsNext DEF Moved, Names
<1>7. {held'} \subseteq Places["cancelq"] BY <1>2, PlaceFields
<1>8. PartitionInv' BY <1>3, <1>6, <1>7, MovedInv DEF Names
<1>9. PlaceTypes' BY <1>2, <1>3, TotalAssumption DEF PlaceInv, PlaceTypes, Samples
<1>10. HeldInv' /\ EndInv' /\ InjectiveInv'
  BY <1>2, <1>3 DEF PlaceInv, HeldInv, EndInv, InjectiveInv, ProcessorTakesCancelled,
     NoSample, Samples
<1> QED BY <1>8, <1>9, <1>10 DEF PlaceInv

LEMMA TakesPendingInv ==
  ASSUME PlaceInv, UNCHANGED trainVars, ProcessorTakesPending PROVE PlaceInv'
<1> USE DEF trainVars, queueVars, procRest
<1>1. /\ fed \in 0 .. End /\ got \in 0 .. fed /\ got < fed /\ got' = got + 1
      /\ held = NoSample /\ End = Total + 1 /\ Total \in Nat
      /\ held' = IF got' = End THEN NoSample ELSE got'
  BY TotalAssumption
  DEF PlaceInv, PlaceTypes, HeldInv, ProcessorTakesPending, End
<1>2. UNCHANGED <<conf, fed, task, cancelq, resultq, inflight, mq, batch, trained, dropped,
                 left, main>>
  BY DEF ProcessorTakesPending
<1>3. PlaceTypes' BY <1>1, <1>2 DEF PlaceInv, PlaceTypes, NoSample
<1>4. HeldInv' /\ EndInv' /\ InjectiveInv'
  BY <1>1, <1>2 DEF PlaceInv, HeldInv, EndInv, InjectiveInv, ProcessorTakesPending, NoSample
<1>5. PartitionInv'
  <2>1. CASE got' = End
    <3>1. held' = held BY <1>1, <2>1
    <3>2. Places' = Places BY <1>2, <3>1 DEF Places, Running
    <3>3. Taken' = Taken BY <1>1, <2>1 DEF Taken
    <3> QED BY <3>2, <3>3 DEF PlaceInv, PartitionInv
  <2>2. CASE got' # End
    <3>1. Taken = got /\ Taken' = got + 1 /\ got \in Nat BY <1>1, <2>2 DEF Taken
    <3>2. Places["held"] = {} BY <1>1, PlaceFields
    <3>3. Running' = Running BY <1>2 DEF Running
    <3>4. {held'} \ {NoSample} = {got + 1} BY <1>1, <2>2 DEF NoSample
    <3>5. \A p \in Names : Places'[p] = IF p = "held" THEN {got + 1} ELSE Places[p]
      BY <1>2, <3>3, <3>4, PlaceFields, PlaceFieldsNext DEF Names
    <3>6. Partition(Places', got + 1)
      BY <3>1, <3>2, <3>5, TakeKeepsPartition DEF PlaceInv, PartitionInv
    <3> QED BY <3>1, <3>6 DEF PartitionInv
  <2> QED BY <2>1, <2>2
<1> QED BY <1>3, <1>4, <1>5 DEF PlaceInv

LEMMA TaskEndsInv ==
  ASSUME PlaceInv, UNCHANGED trainVars, NEW s \in Samples,
         TaskCancelled(s) \/ TaskCompletes(s)
  PROVE  PlaceInv'
<1> USE DEF trainVars, queueVars, procVars
<1>1. /\ s \in Running /\ task' = [task EXCEPT ![s] = "none"]
      /\ UNCHANGED <<conf, fed, got, at, held, inflight, mq, batch, trained, dropped, left, main>>
  BY DEF TaskCancelled, TaskCompletes, Running
<1>2. Running' = Running \ {s} /\ DOMAIN task' = Samples
  BY <1>1 DEF Running, PlaceInv, PlaceTypes
<1>3. s \in Places["task"] BY <1>1, PlaceFields
<1>4. s \notin Range(cancelq) /\ s \notin Range(resultq)
  BY <1>3, Apart, PlaceFields DEF Names
<1>5. HeldInv' /\ EndInv' BY <1>1 DEF PlaceInv, HeldInv, EndInv
<1>6. CASE TaskCancelled(s)
  <2>1. cancelq' = Append(cancelq, s) /\ resultq' = resultq BY <1>6 DEF TaskCancelled
  <2>2. /\ cancelq' \in Seq(Samples) /\ Range(cancelq') = Range(cancelq) \cup {s}
        /\ IsInjective(cancelq')
    BY <1>4, <2>1, NewPut DEF PlaceInv, PlaceTypes, InjectiveInv
  <2>3. Moved(Places, Places', "task", "cancelq", {s})
    BY <1>1, <1>2, <2>1, <2>2, PlaceFields, PlaceFieldsNext DEF Moved, Names
  <2>4. PartitionInv' BY <1>1, <1>3, <2>3, MovedInv DEF Names
  <2>5. PlaceTypes' BY <1>1, <1>2, <2>1, <2>2 DEF PlaceInv, PlaceTypes
  <2>6. InjectiveInv' BY <1>1, <2>1, <2>2 DEF PlaceInv, InjectiveInv
  <2> QED BY <1>5, <2>4, <2>5, <2>6 DEF PlaceInv
<1>7. CASE TaskCompletes(s)
  <2>1. resultq' = Append(resultq, s) /\ cancelq' = cancelq BY <1>7 DEF TaskCompletes
  <2>2. /\ resultq' \in Seq(Samples) /\ Range(resultq') = Range(resultq) \cup {s}
        /\ IsInjective(resultq')
    BY <1>4, <2>1, NewPut DEF PlaceInv, PlaceTypes, InjectiveInv
  <2>3. Moved(Places, Places', "task", "resultq", {s})
    BY <1>1, <1>2, <2>1, <2>2, PlaceFields, PlaceFieldsNext DEF Moved, Names
  <2>4. PartitionInv' BY <1>1, <1>3, <2>3, MovedInv DEF Names
  <2>5. PlaceTypes' BY <1>1, <1>2, <2>1, <2>2 DEF PlaceInv, PlaceTypes
  <2>6. InjectiveInv' BY <1>1, <2>1, <2>2 DEF PlaceInv, InjectiveInv
  <2> QED BY <1>5, <2>4, <2>5, <2>6 DEF PlaceInv
<1> QED BY <1>6, <1>7

\* cancel() changes how generations will end, not which are under way
LEMMA CancelsInv ==
  ASSUME PlaceInv, UNCHANGED trainVars, PauseCancels PROVE PlaceInv'
<1> USE DEF trainVars, syncRest
<1>1. /\ Running' = Running /\ DOMAIN task' = Samples
      /\ UNCHANGED <<conf, fed, got, at, held, cancelq, resultq, inflight, mq, batch, trained,
                     dropped, left, main>>
  BY DEF PauseCancels, Running
<1>2. Places' = Places /\ Taken' = Taken BY <1>1 DEF Places, Taken
<1>3. PartitionInv' BY <1>2 DEF PlaceInv, PartitionInv
<1>4. PlaceTypes' BY <1>1 DEF PlaceInv, PlaceTypes
<1>5. HeldInv' /\ EndInv' /\ InjectiveInv'
  BY <1>1 DEF PlaceInv, HeldInv, EndInv, InjectiveInv
<1> QED BY <1>3, <1>4, <1>5 DEF PlaceInv

LEMMA ConsumerTakesInv ==
  ASSUME PlaceInv, UNCHANGED trainVars, ConsumerTakes PROVE PlaceInv'
<1> USE DEF trainVars, queueVars, procVars
<1>1. /\ inflight = NoSample /\ resultq # <<>> /\ resultq \in Seq(Samples) /\ IsInjective(resultq)
      /\ inflight' = Head(resultq) /\ resultq' = Tail(resultq)
  BY DEF PlaceInv, PlaceTypes, InjectiveInv, ConsumerTakes
<1>2. /\ inflight' \in Samples /\ inflight' \in Range(resultq) /\ resultq' \in Seq(Samples)
      /\ Range(resultq') = Range(resultq) \ {inflight'} /\ IsInjective(resultq')
  BY <1>1, HeadTaken
<1>3. UNCHANGED <<conf, fed, got, at, held, task, cancelq, mq, batch, trained, dropped, left,
                 main>>
  BY DEF ConsumerTakes
<1>4. Running' = Running BY <1>3 DEF Running
<1>5. {inflight} \ {NoSample} = {} /\ {inflight'} \ {NoSample} = {inflight'}
  BY <1>1, <1>2, TotalAssumption DEF NoSample, Samples
<1>6. Moved(Places, Places', "resultq", "inflight", {inflight'})
  BY <1>2, <1>3, <1>4, <1>5, PlaceFields, PlaceFieldsNext DEF Moved, Names
<1>7. {inflight'} \subseteq Places["resultq"] BY <1>2, PlaceFields
<1>8. PartitionInv' BY <1>3, <1>6, <1>7, MovedInv DEF Names
<1>9. PlaceTypes' BY <1>2, <1>3, TotalAssumption DEF PlaceInv, PlaceTypes, Samples
<1>10. HeldInv' /\ EndInv' /\ InjectiveInv'
  BY <1>2, <1>3 DEF PlaceInv, HeldInv, EndInv, InjectiveInv
<1> QED BY <1>8, <1>9, <1>10 DEF PlaceInv

\* put_sample moves what it drops, if anything, and takes the new entry in
LEMMA PutEffect ==
  ASSUME PlaceInv, NEW x \in 1 .. End, x \notin Range(mq), PutSample(x)
  PROVE  /\ mq' \in Seq(1 .. End) /\ IsInjective(mq') /\ dropped' \subseteq 1 .. End
         /\ \E X \in SUBSET Range(mq) : /\ Range(mq') = (Range(mq) \ X) \cup {x}
                                       /\ dropped' = dropped \cup X
<1>1. /\ mq \in Seq(1 .. End) /\ IsInjective(mq) /\ dropped \subseteq 1 .. End
      /\ conf.max \in Nat \ {0}
  BY ConfigsAssumption DEF PlaceInv, PlaceTypes, InjectiveInv
<1>2. CASE Len(mq) >= conf.max
  <2>1. mq # <<>> BY <1>1, <1>2
  <2>2. mq' = Append(Tail(mq), x) /\ dropped' = dropped \cup {Head(mq)}
    BY <1>2 DEF PutSample
  <2>3. /\ Tail(mq) \in Seq(1 .. End) /\ Head(mq) \in Range(mq) /\ Head(mq) \in 1 .. End
        /\ Range(Tail(mq)) = Range(mq) \ {Head(mq)} /\ IsInjective(Tail(mq))
    BY <1>1, <2>1, HeadTaken
  <2>4. x \notin Range(Tail(mq)) BY <2>3
  <2>5. /\ mq' \in Seq(1 .. End) /\ IsInjective(mq')
        /\ Range(mq') = Range(Tail(mq)) \cup {x}
    <3> DEFINE q == Tail(mq)
    <3>1. q \in Seq(1 .. End) /\ x \notin Range(q) /\ IsInjective(q) BY <2>3, <2>4
    <3>2. mq' = Append(q, x) BY <2>2
    <3> HIDE DEF q
    <3>3. /\ Append(q, x) \in Seq(1 .. End) /\ Range(Append(q, x)) = Range(q) \cup {x}
          /\ IsInjective(Append(q, x))
      BY <3>1, EntryPut
    <3>4. /\ mq' \in Seq(1 .. End) /\ IsInjective(mq') /\ Range(mq') = Range(q) \cup {x}
      BY <3>2, <3>3
    <3> QED BY <3>4 DEF q
  <2>6. {Head(mq)} \in SUBSET Range(mq) BY <2>3
  <2> QED BY <1>1, <2>2, <2>3, <2>5, <2>6
<1>3. CASE ~(Len(mq) >= conf.max)
  <2>1. mq' = Append(mq, x) /\ dropped' = dropped BY <1>3 DEF PutSample
  <2>2. /\ mq' \in Seq(1 .. End) /\ IsInjective(mq') /\ Range(mq') = Range(mq) \cup {x}
    BY <1>1, <2>1, EntryPut
  <2>3. {} \in SUBSET Range(mq) /\ Range(mq') = (Range(mq) \ {}) \cup {x} /\ dropped' = dropped \cup {}
    BY <2>1, <2>2
  <2> QED BY <1>1, <2>1, <2>2, <2>3
<1> QED BY <1>2, <1>3

LEMMA QueueReceivesInv ==
  ASSUME PlaceInv, UNCHANGED trainVars, QueueReceives PROVE PlaceInv'
<1> USE DEF trainVars, procVars
<1>1. inflight \in Samples /\ inflight \in 1 .. End /\ inflight # End
  BY TotalAssumption DEF PlaceInv, PlaceTypes, QueueReceives, NoSample, Samples, End
<1>2. Places["inflight"] = {inflight} BY <1>1, PlaceFields DEF NoSample, Samples
<1>3. inflight \notin Range(mq) BY <1>1, <1>2, Apart, PlaceFields DEF Names
<1>4. PutSample(inflight) /\ inflight' = NoSample
      /\ UNCHANGED <<conf, fed, got, at, held, task, cancelq, resultq, batch, trained, left, main>>
  BY DEF QueueReceives
<1>5. /\ mq' \in Seq(1 .. End) /\ IsInjective(mq') /\ dropped' \subseteq 1 .. End
      /\ \E X \in SUBSET Range(mq) : /\ Range(mq') = (Range(mq) \ X) \cup {inflight}
                                    /\ dropped' = dropped \cup X
  BY <1>1, <1>3, <1>4, PutEffect
<1>6. PICK X \in SUBSET Range(mq) : /\ Range(mq') = (Range(mq) \ X) \cup {inflight}
                                   /\ dropped' = dropped \cup X
  BY <1>5
<1>7. Running' = Running BY <1>4 DEF Running
<1>8. {inflight'} \ {NoSample} = {} BY <1>4
<1> DEFINE D == X \ {End}
           R == [p \in Names |-> CASE p = "mq" -> Places["mq"] \ D
                                   [] p = "dropped" -> Places["dropped"] \cup D
                                   [] OTHER -> Places[p]]
<1>9. Moved(Places, R, "mq", "dropped", D) /\ D \subseteq Places["mq"]
  BY <1>6, PlaceFields DEF Moved, Names
<1>10. R["inflight"] = {inflight} /\ R["mq"] = Places["mq"] \ D
      /\ R["dropped"] = Places["dropped"] \cup D
      /\ \A p \in Names \ {"mq", "dropped"} : R[p] = Places[p]
  BY <1>2 DEF Names
<1> HIDE DEF R
<1>11. Places'["mq"] = R["mq"] \cup {inflight} /\ Places'["dropped"] = R["dropped"]
  BY <1>1, <1>6, <1>10, PlaceFields, PlaceFieldsNext
<1>12. Moved(R, Places', "inflight", "mq", {inflight})
  <2> DEFINE I == {inflight}
             P == Places'
  <2>1. R["inflight"] = I /\ P["inflight"] = R["inflight"] \ I
    BY <1>8, <1>10, PlaceFieldsNext
  <2>2. P["mq"] = R["mq"] \cup I BY <1>11
  <2>3. \A p \in Names \ {"inflight", "mq", "dropped"} : P[p] = Places[p]
    BY <1>4, <1>7, PlaceFields, PlaceFieldsNext DEF Names
  <2>4. \A p \in Names \ {"inflight", "mq"} : P[p] = R[p]
    BY <1>10, <1>11, <2>3
  <2> HIDE DEF I, P
  <2>5. Moved(R, P, "inflight", "mq", I) BY <2>1, <2>2, <2>4 DEF Moved
  <2> QED BY <2>5 DEF I, P
<1>13. Taken \in Nat /\ Taken' = Taken
  BY <1>4, TotalAssumption DEF PlaceInv, PlaceTypes, Taken, End
<1>14. Partition(R, Taken)
  BY <1>9, <1>13, MoveKeepsPartition DEF PlaceInv, PartitionInv, Names
<1>15. Partition(Places', Taken)
  BY <1>10, <1>12, <1>13, <1>14, MoveKeepsPartition DEF Names
<1>16. PartitionInv' BY <1>13, <1>15 DEF PartitionInv
<1>17. PlaceTypes' BY <1>4, <1>5, TotalAssumption DEF PlaceInv, PlaceTypes, NoSample
<1>18. EndInv' BY <1>1, <1>4, <1>6 DEF PlaceInv, EndInv
<1>19. HeldInv' /\ InjectiveInv' BY <1>4, <1>5 DEF PlaceInv, HeldInv, InjectiveInv
<1> QED BY <1>16, <1>17, <1>18, <1>19 DEF PlaceInv

LEMMA PutsEndInv ==
  ASSUME PlaceInv, UNCHANGED trainVars, MainPutsEnd PROVE PlaceInv'
<1> USE DEF trainVars, procVars, mainRest
<1>1. End \notin Range(mq) /\ End \in 1 .. End
  BY TotalAssumption DEF PlaceInv, EndInv, MainPutsEnd, End
<1>2. PutSample(End) /\ main' \notin {"stream", "closing"}
      /\ UNCHANGED <<conf, fed, got, at, held, task, cancelq, resultq, inflight, batch, trained,
                     left>>
  BY DEF MainPutsEnd
<1>3. /\ mq' \in Seq(1 .. End) /\ IsInjective(mq') /\ dropped' \subseteq 1 .. End
      /\ \E X \in SUBSET Range(mq) : /\ Range(mq') = (Range(mq) \ X) \cup {End}
                                    /\ dropped' = dropped \cup X
  BY <1>1, <1>2, PutEffect
<1>4. PICK X \in SUBSET Range(mq) : /\ Range(mq') = (Range(mq) \ X) \cup {End}
                                   /\ dropped' = dropped \cup X
  BY <1>3
<1>5. Running' = Running BY <1>2 DEF Running
<1>6. X \subseteq Places["mq"] BY <1>1, <1>4, PlaceFields
<1>7. Places'["mq"] = Places["mq"] \ X /\ Places'["dropped"] = Places["dropped"] \cup X
  BY <1>1, <1>4, PlaceFields, PlaceFieldsNext
<1>8. Moved(Places, Places', "mq", "dropped", X)
  BY <1>2, <1>5, <1>7, PlaceFields, PlaceFieldsNext DEF Moved, Names
<1>9. PartitionInv' BY <1>2, <1>6, <1>8, MovedInv DEF Names
<1>10. PlaceTypes' BY <1>2, <1>3 DEF PlaceInv, PlaceTypes
<1>11. HeldInv' /\ EndInv' /\ InjectiveInv'
  BY <1>2, <1>3 DEF PlaceInv, HeldInv, EndInv, InjectiveInv
<1> QED BY <1>9, <1>10, <1>11 DEF PlaceInv

LEMMA TrainerGetsInv == ASSUME PlaceInv, TrainerGets PROVE PlaceInv'
<1> USE DEF queueOnly, procVars
<1>1. mq # <<>> /\ mq \in Seq(1 .. End) /\ IsInjective(mq) /\ mq' = Tail(mq)
  BY DEF PlaceInv, PlaceTypes, InjectiveInv, TrainerGets
<1>2. /\ mq' \in Seq(1 .. End) /\ Head(mq) \in Range(mq) /\ Head(mq) \in 1 .. End
      /\ Range(mq') = Range(mq) \ {Head(mq)} /\ IsInjective(mq')
  BY <1>1, HeadTaken
<1>3. UNCHANGED <<conf, fed, got, at, held, task, cancelq, resultq, inflight, trained, dropped,
                 main>>
  BY DEF TrainerGets
<1>4. Running' = Running BY <1>3 DEF Running
<1>5. HeldInv' /\ EndInv' BY <1>2, <1>3 DEF PlaceInv, HeldInv, EndInv
<1>6. CASE Head(mq) = End
  <2>1. left' = left \cup Range(batch) /\ batch' = <<>> BY <1>6 DEF TrainerGets
  <2>2. Range(batch') = {} /\ IsInjective(batch') /\ batch' \in Seq(Samples)
    BY <2>1 DEF Range, IsInjective
  <2>3. Range(mq') \ {End} = Range(mq) \ {End} BY <1>2, <1>6
  <2>4. Range(batch) \subseteq Places["batch"] BY PlaceFields
  <2>5. /\ Places'["batch"] = Places["batch"] \ Range(batch)
        /\ Places'["left"] = Places["left"] \cup Range(batch)
    BY <2>1, <2>2, PlaceFields, PlaceFieldsNext
  <2>6. Moved(Places, Places', "batch", "left", Range(batch))
    BY <1>3, <1>4, <2>3, <2>5, PlaceFields, PlaceFieldsNext DEF Moved, Names
  <2>7. PartitionInv' BY <1>3, <2>4, <2>6, MovedInv DEF Names
  <2>8. left' \subseteq Samples
    BY <2>1 DEF PlaceInv, PlaceTypes, Range
  <2>9. PlaceTypes' BY <1>2, <1>3, <2>2, <2>8 DEF PlaceInv, PlaceTypes
  <2>10. InjectiveInv' BY <1>2, <1>3, <2>2 DEF PlaceInv, InjectiveInv
  <2> QED BY <1>5, <2>9, <2>10, <2>7 DEF PlaceInv
<1>7. CASE Head(mq) # End
  <2>1. left' = left /\ batch' = Append(batch, Head(mq)) BY <1>7 DEF TrainerGets
  <2>2. Head(mq) \in Places["mq"] BY <1>2, <1>7, PlaceFields
  <2>3. Head(mq) \notin Range(batch) /\ Head(mq) \in Samples
    BY <2>2, Apart, PlaceFields DEF Names
  <2>4. /\ batch' \in Seq(Samples) /\ Range(batch') = Range(batch) \cup {Head(mq)}
        /\ IsInjective(batch')
    BY <2>1, <2>3, NewPut DEF PlaceInv, PlaceTypes, InjectiveInv
  <2>5. Range(mq') \ {End} = (Range(mq) \ {End}) \ {Head(mq)} BY <1>2
  <2>6. Moved(Places, Places', "mq", "batch", {Head(mq)})
    BY <1>3, <1>4, <2>1, <2>4, <2>5, PlaceFields, PlaceFieldsNext DEF Moved, Names
  <2>7. PartitionInv' BY <1>3, <2>2, <2>6, MovedInv DEF Names
  <2>8. PlaceTypes' BY <1>2, <1>3, <2>1, <2>4 DEF PlaceInv, PlaceTypes
  <2>9. InjectiveInv' BY <1>2, <1>3, <2>4 DEF PlaceInv, InjectiveInv
  <2> QED BY <1>5, <2>7, <2>8, <2>9 DEF PlaceInv
<1> QED BY <1>6, <1>7

LEMMA TrainerTrainsInv == ASSUME PlaceInv, TrainerTrains PROVE PlaceInv'
<1> USE DEF rollVars, procVars, queueVars
<1>1. trained' = trained \cup Range(batch) /\ batch' = <<>> BY DEF TrainerTrains
<1>2. Range(batch') = {} /\ IsInjective(batch') /\ batch' \in Seq(Samples)
  BY <1>1 DEF Range, IsInjective
<1>3. UNCHANGED <<conf, fed, got, at, held, task, cancelq, resultq, inflight, mq, dropped, left,
                 main>>
  BY DEF TrainerTrains
<1>4. Running' = Running BY <1>3 DEF Running
<1>5. Range(batch) \subseteq Places["batch"] BY PlaceFields
<1>6. /\ Places'["batch"] = Places["batch"] \ Range(batch)
       /\ Places'["trained"] = Places["trained"] \cup Range(batch)
  BY <1>1, <1>2, PlaceFields, PlaceFieldsNext
<1>7. Moved(Places, Places', "batch", "trained", Range(batch))
  BY <1>3, <1>4, <1>6, PlaceFields, PlaceFieldsNext DEF Moved, Names
<1>8. PartitionInv' BY <1>3, <1>5, <1>7, MovedInv DEF Names
<1>9. trained' \subseteq Samples
  BY <1>1 DEF PlaceInv, PlaceTypes, Range
<1>10. PlaceTypes' BY <1>2, <1>3, <1>9 DEF PlaceInv, PlaceTypes
<1>11. HeldInv' /\ EndInv' /\ InjectiveInv'
  BY <1>2, <1>3 DEF PlaceInv, HeldInv, EndInv, InjectiveInv
<1> QED BY <1>8, <1>10, <1>11 DEF PlaceInv

---------------------------------------------------------------------------
LEMMA PlaceInit == Init => PlaceInv
<1> SUFFICES ASSUME Init PROVE PlaceInv
  OBVIOUS
<1> USE TotalAssumption DEF Init, RollInit
<1>1. PlaceTypes BY DEF PlaceTypes, Samples, End, NoSample
<1>2. HeldInv /\ EndInv /\ InjectiveInv
  BY DEF HeldInv, EndInv, InjectiveInv, IsInjective, Range
<1>3. \A p \in Names : Places[p] = {}
  BY DEF Places, Names, Running, Range, NoSample, Samples
<1>4. Taken = 0 BY DEF Taken, End
<1>5. PartitionInv BY <1>3, <1>4 DEF PartitionInv, Partition
<1> QED BY <1>1, <1>2, <1>5 DEF PlaceInv

LEMMA PlaceStep == PlaceInv /\ [Next]_vars => PlaceInv'
<1> SUFFICES ASSUME PlaceInv, [Next]_vars PROVE PlaceInv'
  OBVIOUS
<1>1. CASE Trainer
  BY <1>1, TrainerQuiet, QuietKeeps, TrainerGetsInv, TrainerTrainsInv DEF Trainer
<1>2. CASE RolloutStep
  <2>1. UNCHANGED trainVars BY <1>2 DEF RolloutStep
  <2>2. CASE Processor
    BY <2>1, <2>2, ProcessorQuiet, QuietKeeps, SubmitsInv, TakesCancelledInv,
       TakesPendingInv
    DEF Processor
  <2>3. CASE \E s \in Samples : TaskCancelled(s) \/ TaskCompletes(s)
    BY <2>1, <2>3, TaskEndsInv
  <2>4. CASE PauseCancels BY <2>1, <2>4, CancelsInv
  <2>5. CASE ConsumerTakes BY <2>1, <2>5, ConsumerTakesInv
  <2>6. CASE QueueReceives BY <2>1, <2>6, QueueReceivesInv
  <2>7. CASE MainPutsEnd BY <2>1, <2>7, PutsEndInv
  <2>8. CASE \/ FeedSamples \/ MainStreamEnds \/ MainStops
             \/ MonitorQueues \/ MonitorUnpauses \/ MonitorEnds
             \/ SyncQueues \/ PauseBegins \/ PauseEnds \/ UpdateBegins(weights)
             \/ UpdateEnds(tpc = "waitFinal") \/ ResumeBegins \/ ResumeEnds
    BY <2>1, <2>8, RestQuiet, QuietKeeps
  <2> QED BY <1>2, <2>2, <2>3, <2>4, <2>5, <2>6, <2>7, <2>8 DEF RolloutStep, Rollouter
<1>3. CASE UNCHANGED vars
  <2>1. Quiet
    BY <1>3, TotalAssumption
    DEF vars, rollVars, trainVars, procVars, queueVars, Quiet, placeVars, PlaceInv,
        PlaceTypes, HeldInv, End
  <2> QED BY <2>1, QuietKeeps
<1> QED BY <1>1, <1>2, <1>3 DEF Next

LEMMA PlaceInvGivesOnePlace == PlaceInv => OnePlace
<1> SUFFICES ASSUME PlaceInv PROVE OnePlace
  OBVIOUS
<1>1. \A q \in {cancelq, resultq, mq, batch} : IsInjective(q)
  BY DEF PlaceInv, InjectiveInv
<1>2. ASSUME NEW s \in Samples
      PROVE  Cardinality({p \in DOMAIN Places : s \in Places[p]}) = IF s <= got THEN 1 ELSE 0
  <2>1. Partition(Places, Taken) /\ DOMAIN Places = Names
    BY PlaceFields DEF PlaceInv, PartitionInv
  <2>2. /\ got \in Nat /\ Taken = IF got < End THEN got ELSE Total
        /\ End = Total + 1 /\ Total \in Nat /\ s \in 1 .. Total /\ got <= End
    BY TotalAssumption DEF PlaceInv, PlaceTypes, Taken, End, Samples
  <2>3. CASE s <= got
    <3>1. s \in 1 .. Taken BY <2>2, <2>3
    <3>2. PICK p \in Names : s \in Places[p] BY <2>1, <3>1 DEF Partition
    <3>3. {r \in DOMAIN Places : s \in Places[r]} = {p} BY <2>1, <3>2 DEF Partition
    <3> QED BY <2>3, <3>3, FS_Singleton
  <2>4. CASE ~(s <= got)
    <3>1. s \notin 1 .. Taken BY <2>2, <2>4
    <3>2. {r \in DOMAIN Places : s \in Places[r]} = {} BY <2>1, <3>1 DEF Partition
    <3> QED BY <2>4, <3>2, FS_EmptySet
  <2> QED BY <2>3, <2>4
<1> QED BY <1>1, <1>2 DEF OnePlace

(* However the coroutines, the synchronizer's calls and the trainer         *)
(* interleave, and whatever the settings, every sample taken from the       *)
(* pending queue is in exactly one place and in no queue twice: none is     *)
(* lost without being counted as dropped, and none is trained on twice.     *)
THEOREM EverySampleInOnePlace == Spec => []OnePlace
<1> QED BY PlaceInit, PlaceStep, PlaceInvGivesOnePlace, PTL DEF Spec

---------------------------------------------------------------------------
(* The weights                                                             *)

WeightsInv ==
  /\ weights \in Nat /\ tversion \in Nat
  /\ tpc \in {"waitLast", "syncing"} => tversion = weights + 1
  /\ tpc \notin {"waitLast", "syncing"} => tversion = weights

\* no step of the rollouter changes the weights
LEMMA RolloutKeepsWeights ==
  ASSUME RolloutStep PROVE UNCHANGED <<weights, trainVars>>
<1> SUFFICES ASSUME Rollouter \/ UpdateBegins(weights) \/ UpdateEnds(tpc = "waitFinal")
             PROVE  UNCHANGED weights
  BY DEF RolloutStep
<1>1. ASSUME FeedSamples PROVE UNCHANGED weights BY <1>1 DEF FeedSamples
<1>2. ASSUME Processor PROVE UNCHANGED weights
  BY <1>2 DEF Processor, procRest, ProcessorSeesPause, ProcessorTakesCancelled,
     ProcessorTakesPending, ProcessorWaitsForPending, ProcessorLocks,
     ProcessorGetsLock, ProcessorPauses, ProcessorLeavesLoop,
     ProcessorWaitsForTask, ProcessorSeesTaskDone, ProcessorFindsNoTask,
     ProcessorParks, ProcessorUnparks, ProcessorSubmits
<1>3. ASSUME NEW s \in Samples, TaskCancelled(s) \/ TaskCompletes(s)
      PROVE  UNCHANGED weights
  BY <1>3 DEF TaskCancelled, TaskCompletes
<1>4. ASSUME \/ ConsumerTakes \/ QueueReceives \/ MainStreamEnds \/ MainPutsEnd
             \/ MainStops
      PROVE  UNCHANGED weights
  BY <1>4 DEF ConsumerTakes, QueueReceives, MainStreamEnds, MainPutsEnd, MainStops,
     mainRest
<1>5. ASSUME MonitorQueues \/ MonitorUnpauses \/ MonitorEnds PROVE UNCHANGED weights
  BY <1>5 DEF MonitorQueues, MonitorUnpauses, MonitorEnds, monRest
<1>6. ASSUME \/ SyncQueues \/ PauseBegins \/ PauseCancels \/ PauseEnds
             \/ ResumeBegins \/ ResumeEnds
             \/ UpdateBegins(weights) \/ UpdateEnds(tpc = "waitFinal")
      PROVE  UNCHANGED weights
  BY <1>6 DEF SyncQueues, PauseBegins, PauseCancels, PauseEnds, ResumeBegins,
     ResumeEnds, UpdateBegins, UpdateEnds, syncRest
<1> QED BY <1>1, <1>2, <1>3, <1>4, <1>5, <1>6 DEF Rollouter

LEMMA WeightsStep == WeightsInv /\ [Next]_vars => WeightsInv'
<1> SUFFICES ASSUME WeightsInv, [Next]_vars PROVE WeightsInv'
  OBVIOUS
<1>1. CASE RolloutStep BY <1>1, RolloutKeepsWeights DEF WeightsInv, trainVars
<1>2. CASE TrainerGets BY <1>2 DEF WeightsInv, TrainerGets, queueOnly
<1>3. CASE TrainerTrains BY <1>3 DEF WeightsInv, TrainerTrains, NextPlace, rollVars
<1>4. CASE TrainerWaitsLast BY <1>4 DEF WeightsInv, TrainerWaitsLast
<1>5. CASE Transfer BY <1>5 DEF WeightsInv, Transfer
<1>6. CASE TrainerGetsValidation
  BY <1>6 DEF WeightsInv, TrainerGetsValidation, queueOnly
<1>7. CASE TrainerFinishes BY <1>7 DEF WeightsInv, TrainerFinishes, rollVars
<1>8. CASE UNCHANGED vars BY <1>8 DEF WeightsInv, vars, rollVars, trainVars
<1> QED BY <1>1, <1>2, <1>3, <1>4, <1>5, <1>6, <1>7, <1>8 DEF Next, Trainer

(* Every run keeps the servers' weights at the trainer's version, or one    *)
(* behind it while the synchronization of that version has yet to transfer  *)
(* them (param_sync.py:sync_weights), for any settings.                     *)
THEOREM WeightsFollowTrainer == Spec => []WeightsFollow
<1>1. Init => WeightsInv BY DEF Init, RollInit, WeightsInv
<1>2. WeightsInv => WeightsFollow BY DEF WeightsInv, WeightsFollow
<1> QED BY <1>1, <1>2, WeightsStep, PTL DEF Spec

---------------------------------------------------------------------------
(* The lock                                                                *)

Coroutines == {"proc", "mon", "main", "sync"}

\* where a call of the synchronizer has the lock while it waits for something
SyncHolding == {"cancelling", "gathering", "counting", "resuming"}

LockInv ==
  /\ lockq \in Seq(Coroutines) /\ IsInjective(lockq)
  /\ "proc" \in Range(lockq) <=> lk \in {"queued", "in", "wait"}
  /\ "sync" \in Range(lockq) <=> sync \in SyncQueued \cup SyncHolding
  /\ "mon" \in Range(lockq) <=> mon = "locking"
  /\ "main" \in Range(lockq) <=> main = "stopping"
  /\ lk \in {"in", "wait"} => Holds("proc")
  /\ sync \in SyncHolding => Holds("sync")

\* The lock goes to the next in the queue.
LEMMA LockReleased ==
  ASSUME LockInv, lockq # <<>>
  PROVE  /\ Tail(lockq) \in Seq(Coroutines) /\ IsInjective(Tail(lockq))
         /\ Head(lockq) \in Range(lockq)
         /\ Range(Tail(lockq)) = Range(lockq) \ {Head(lockq)}
BY HeadTaken DEF LockInv

\* A coroutine takes the lock or queues for it.
LEMMA LockAwaited ==
  ASSUME LockInv, NEW c \in Coroutines, c \notin Range(lockq)
  PROVE  /\ Append(lockq, c) \in Seq(Coroutines) /\ IsInjective(Append(lockq, c))
         /\ Range(Append(lockq, c)) = Range(lockq) \cup {c}
         /\ Append(lockq, c) # <<>>
         /\ Head(Append(lockq, c)) = IF lockq = <<>> THEN c ELSE Head(lockq)
<1> DEFINE q == lockq
<1>1. q \in Seq(Coroutines) /\ IsInjective(q) /\ c \notin Range(q) BY DEF LockInv
<1> HIDE DEF q
<1>2. /\ Append(q, c) \in Seq(Coroutines) /\ IsInjective(Append(q, c))
      /\ Range(Append(q, c)) = Range(q) \cup {c}
  BY <1>1, NewPut
<1>3. Append(q, c) # <<>> /\ Head(Append(q, c)) = IF q = <<>> THEN c ELSE Head(q)
  <2>1. /\ Append(q, c) # <<>> /\ Len(q) \in Nat /\ (q = <<>> => Len(q) = 0)
        /\ Head(Append(q, c)) = Append(q, c)[1]
        /\ Append(q, c)[Len(q) + 1] = c
        /\ \A i \in 1 .. Len(q) : Append(q, c)[i] = q[i]
    BY <1>2, <1>1, AppendProperties
  <2>2. q # <<>> => Head(q) = q[1] /\ 1 \in 1 .. Len(q) BY <1>1
  <2> QED BY <2>1, <2>2
<1> QED BY <1>2, <1>3 DEF q

LEMMA LockTaken ==
  ASSUME NEW c \in Coroutines
  PROVE  /\ <<c>> \in Seq(Coroutines) /\ IsInjective(<<c>>) /\ Range(<<c>>) = {c}
         /\ <<c>> # <<>> /\ Head(<<c>>) = c
<1>1. <<c>> \in Seq(Coroutines) /\ DOMAIN <<c>> = {1} /\ <<c>>[1] = c OBVIOUS
<1> QED BY <1>1 DEF Range, IsInjective

LEMMA EmptyRange == Range(<<>>) = {}
BY DEF Range

lockVars == <<lockq, lk, sync, mon, main>>

\* A step that leaves the lock alone, and what else those need of it.
LEMMA LockUntouched == LockInv /\ UNCHANGED lockVars => LockInv'
BY DEF LockInv, lockVars, Holds

LEMMA LockProcessor ==
  ASSUME LockInv, UNCHANGED trainVars, Processor
  PROVE  LockInv'
<1> USE DEF procRest
<1>1. CASE \/ ProcessorSeesPause \/ ProcessorTakesPending \/ ProcessorWaitsForPending
           \/ ProcessorLeavesLoop
  BY <1>1, LockUntouched
     DEF ProcessorSeesPause, ProcessorTakesPending, ProcessorWaitsForPending,
         ProcessorLeavesLoop, lockVars
<1>2. CASE ProcessorTakesCancelled BY <1>2, LockUntouched DEF ProcessorTakesCancelled, lockVars
<1>3. CASE ProcessorLocks
  <2>1. /\ lk = "free" /\ lockq' = Append(lockq, "proc")
        /\ lk' = IF lockq = <<>> THEN "in" ELSE "queued"
        /\ UNCHANGED <<sync, mon, main>>
    BY <1>3 DEF ProcessorLocks
  <2>2. "proc" \notin Range(lockq) BY <2>1 DEF LockInv
  <2> QED BY <2>1, <2>2, LockAwaited DEF LockInv, Holds, Coroutines
<1>4. CASE ProcessorGetsLock
  <2>1. lk = "queued" /\ Holds("proc") /\ lk' = "in" /\ UNCHANGED <<lockq, sync, mon, main>>
    BY <1>4 DEF ProcessorGetsLock
  <2> QED BY <2>1 DEF LockInv, Holds
<1>5. CASE ProcessorWaitsForTask
  <2>1. lk = "in" /\ lk' = "wait" /\ UNCHANGED <<lockq, sync, mon, main>>
    BY <1>5 DEF ProcessorWaitsForTask
  <2> QED BY <2>1 DEF LockInv, Holds
<1>6. CASE \/ ProcessorPauses \/ ProcessorSeesTaskDone \/ ProcessorFindsNoTask
           \/ ProcessorParks \/ ProcessorUnparks \/ ProcessorSubmits
  <2>1. /\ lk \in {"in", "wait"} /\ lk' \in {"free", "cond"} /\ lockq' = Tail(lockq)
        /\ UNCHANGED <<sync, mon, main>>
    BY <1>6 DEF ProcessorPauses, ProcessorSeesTaskDone, ProcessorFindsNoTask,
       ProcessorParks, ProcessorUnparks, ProcessorSubmits
  <2>2. Holds("proc") /\ lockq # <<>> /\ Head(lockq) = "proc" BY <2>1 DEF LockInv, Holds
  <2>3. sync \notin SyncHolding BY <2>2 DEF LockInv, Holds
  <2> QED BY <2>1, <2>2, <2>3, LockReleased DEF LockInv
<1> QED BY <1>1, <1>2, <1>3, <1>4, <1>5, <1>6 DEF Processor

LEMMA LockSync ==
  ASSUME LockInv, NEW v, NEW b,
         \/ SyncQueues \/ PauseBegins \/ PauseCancels \/ PauseEnds
         \/ UpdateBegins(v) \/ UpdateEnds(b) \/ ResumeBegins \/ ResumeEnds
  PROVE  LockInv'
<1> USE DEF syncRest, SyncQueued, SyncHolding
<1>1. CASE SyncQueues
  <2>1. /\ sync \in {"pauseCall", "updateCall", "resumeCall"}
        /\ sync' \in {"pauseLock", "updateLock", "resumeLock"}
        /\ lockq # <<>> /\ lockq' = Append(lockq, "sync") /\ UNCHANGED <<lk, mon, main>>
    BY <1>1 DEF SyncQueues, Queued
  <2>2. "sync" \notin Range(lockq) BY <2>1 DEF LockInv
  <2> QED BY <2>1, <2>2, LockAwaited DEF LockInv, Holds, Coroutines
<1>2. ASSUME NEW c \in {"pauseCall", "updateCall", "resumeCall"}, SyncEnters(c)
      PROVE  \/ lockq = <<>> /\ sync \in {"pauseCall", "updateCall", "resumeCall"}
             \/ lockq # <<>> /\ Holds("sync") /\ sync \in SyncQueued
  BY <1>2 DEF SyncEnters, Enters, Holds, Queued
<1>3. CASE PauseBegins \/ UpdateBegins(v) \/ (ResumeBegins /\ conf.partial)
  <2>1. /\ \E c \in {"pauseCall", "updateCall", "resumeCall"} : SyncEnters(c)
        /\ sync' \in SyncHolding /\ UNCHANGED <<mon, main>>
        /\ lockq' = IF lockq = <<>> THEN <<"sync">> ELSE lockq
        /\ lk' \in {lk, IF lk = "cond" THEN "free" ELSE lk}
    BY <1>3 DEF PauseBegins, UpdateBegins, ResumeBegins, SyncHolds, NotifyAll
  <2>2. lk' \in {"in", "wait", "queued"} <=> lk \in {"in", "wait", "queued"}
    BY <2>1
  <2>3. lk' \in {"in", "wait"} <=> lk \in {"in", "wait"} BY <2>1
  <2>4. CASE lockq = <<>>
    <3>1. lockq' = <<"sync">> BY <2>1, <2>4
    <3>2. lk \notin {"in", "wait", "queued"} /\ mon # "locking" /\ main # "stopping"
      BY <2>4, EmptyRange DEF LockInv
    <3> QED BY <2>1, <2>2, <2>3, <3>1, <3>2, LockTaken DEF LockInv, Holds, Coroutines
  <2>5. CASE lockq # <<>>
    <3>1. lockq' = lockq /\ Holds("sync") /\ sync \in SyncQueued BY <1>2, <2>1, <2>5
    <3> QED BY <2>1, <2>2, <2>3, <3>1 DEF LockInv, Holds
  <2> QED BY <2>4, <2>5
<1>4. CASE PauseCancels
  <2>1. sync = "cancelling" /\ sync' = "gathering" /\ UNCHANGED <<lockq, lk, mon, main>>
    BY <1>4 DEF PauseCancels
  <2> QED BY <2>1 DEF LockInv, Holds
<1>5. CASE PauseEnds \/ UpdateEnds(b) \/ ResumeEnds
  <2>1. /\ sync \in SyncHolding /\ sync' \in {"quiet", "resumeCall", "none"}
        /\ lockq' = Tail(lockq) /\ UNCHANGED <<lk, mon, main>>
    BY <1>5 DEF PauseEnds, UpdateEnds, ResumeEnds
  <2>2. lockq # <<>> /\ Head(lockq) = "sync" /\ lk \notin {"in", "wait"}
    BY <2>1 DEF LockInv, Holds
  <2> QED BY <2>1, <2>2, LockReleased DEF LockInv
<1>6. CASE ResumeBegins /\ ~conf.partial
  <2>1. /\ SyncEnters("resumeCall") /\ sync' = "none" /\ UNCHANGED <<mon, main>>
        /\ lockq' = IF lockq = <<>> THEN lockq ELSE Tail(lockq)
        /\ lk' = IF lk = "cond" THEN "free" ELSE lk
    BY <1>6 DEF ResumeBegins, NotifyAll
  <2>2. CASE lockq = <<>>
    <3>1. lockq' = lockq /\ Range(lockq) = {} BY <2>1, <2>2, EmptyRange
    <3> QED BY <2>1, <3>1 DEF LockInv, Holds
  <2>3. CASE lockq # <<>>
    <3>1. Head(lockq) = "sync" /\ lockq' = Tail(lockq) BY <1>2, <2>1, <2>3 DEF Holds
    <3>2. lk \notin {"in", "wait"} BY <3>1 DEF LockInv, Holds
    <3> QED BY <2>1, <2>3, <3>1, <3>2, LockReleased DEF LockInv
  <2> QED BY <2>2, <2>3
<1> QED BY <1>1, <1>3, <1>4, <1>5, <1>6

LEMMA LockRest ==
  ASSUME LockInv,
         \/ FeedSamples \/ ConsumerTakes \/ QueueReceives
         \/ (\E s \in Samples : TaskCancelled(s) \/ TaskCompletes(s))
         \/ MainStreamEnds \/ MainPutsEnd \/ MainStops
         \/ MonitorQueues \/ MonitorUnpauses \/ MonitorEnds
  PROVE  LockInv'
<1> USE DEF procVars, mainRest, monRest
<1>1. CASE \/ FeedSamples \/ ConsumerTakes \/ QueueReceives
           \/ (\E s \in Samples : TaskCancelled(s) \/ TaskCompletes(s))
  BY <1>1, LockUntouched
     DEF FeedSamples, ConsumerTakes, QueueReceives, TaskCancelled, TaskCompletes, lockVars
<1>2. CASE MainStreamEnds
  <2>1. main # "stopping" /\ main' # "stopping" /\ UNCHANGED <<lockq, lk, sync, mon>>
    BY <1>2 DEF MainStreamEnds
  <2> QED BY <2>1 DEF LockInv, Holds
<1>3. CASE MainPutsEnd
  <2>1. /\ main = "closing" /\ main' = IF lockq = <<>> THEN "ended" ELSE "stopping"
        /\ lockq' = IF lockq = <<>> THEN lockq ELSE Append(lockq, "main")
        /\ UNCHANGED <<lk, sync, mon>>
    BY <1>3 DEF MainPutsEnd
  <2>2. "main" \notin Range(lockq) BY <2>1 DEF LockInv
  <2>3. CASE lockq = <<>>
    <3>1. lockq' = lockq /\ main' = "ended" BY <2>1, <2>3
    <3> QED BY <2>1, <2>2, <3>1 DEF LockInv, Holds
  <2>4. CASE lockq # <<>>
    <3>1. lockq' = Append(lockq, "main") /\ main' = "stopping" BY <2>1, <2>4
    <3> QED BY <2>1, <2>2, <2>4, <3>1, LockAwaited DEF LockInv, Holds, Coroutines
  <2> QED BY <2>3, <2>4
<1>4. CASE MainStops
  <2>1. /\ lockq # <<>> /\ Head(lockq) = "main" /\ lockq' = Tail(lockq) /\ main' = "ended"
        /\ UNCHANGED <<lk, sync, mon>>
    BY <1>4 DEF MainStops, Holds
  <2>2. lk \notin {"in", "wait"} /\ sync \notin SyncHolding BY <2>1 DEF LockInv, Holds
  <2> QED BY <2>1, <2>2, LockReleased DEF LockInv
<1>5. CASE MonitorQueues
  <2>1. /\ mon = "sleep" /\ mon' = "locking" /\ lockq # <<>> /\ lockq' = Append(lockq, "mon")
        /\ UNCHANGED <<lk, sync, main>>
    BY <1>5 DEF MonitorQueues
  <2>2. "mon" \notin Range(lockq) BY <2>1 DEF LockInv
  <2> QED BY <2>1, <2>2, LockAwaited DEF LockInv, Holds, Coroutines
<1>6. CASE MonitorUnpauses
  <2>1. /\ lockq = <<>> \/ Head(lockq) = "mon"
        /\ lockq' = IF lockq = <<>> THEN lockq ELSE Tail(lockq)
        /\ mon' = "sleep" /\ UNCHANGED <<sync, main>>
        /\ lk' = IF lk = "cond" THEN "free" ELSE lk
    BY <1>6 DEF MonitorUnpauses, Enters, Holds, NotifyAll
  <2>2. CASE lockq = <<>>
    <3>1. lockq' = lockq /\ Range(lockq) = {} BY <2>1, <2>2, EmptyRange
    <3> QED BY <2>1, <3>1 DEF LockInv, Holds
  <2>3. CASE lockq # <<>>
    <3>1. Head(lockq) = "mon" /\ lockq' = Tail(lockq) BY <2>1, <2>3
    <3>2. lk \notin {"in", "wait"} /\ sync \notin SyncHolding BY <3>1 DEF LockInv, Holds
    <3> QED BY <2>1, <2>3, <3>1, <3>2, LockReleased DEF LockInv
  <2> QED BY <2>2, <2>3
<1>7. CASE MonitorEnds
  <2>1. mon # "locking" /\ mon' # "locking" /\ UNCHANGED <<lockq, lk, sync, main>>
    BY <1>7 DEF MonitorEnds
  <2> QED BY <2>1 DEF LockInv, Holds
<1> QED BY <1>1, <1>2, <1>3, <1>4, <1>5, <1>6, <1>7

LEMMA LockTrainer == ASSUME LockInv, Trainer PROVE LockInv'
<1> USE DEF procVars, rollVars, queueOnly
<1>1. CASE TrainerGets \/ TrainerTrains \/ TrainerGetsValidation \/ TrainerFinishes
  BY <1>1, LockUntouched
     DEF TrainerGets, TrainerTrains, TrainerGetsValidation, TrainerFinishes, lockVars
<1>2. CASE TrainerWaitsLast \/ Transfer
  <2>1. /\ sync \in {"none", "quiet"} /\ sync' \in {"pauseCall", "updateCall"}
        /\ UNCHANGED <<lockq, lk, mon, main>>
    BY <1>2 DEF TrainerWaitsLast, Transfer
  <2>2. sync \notin SyncQueued \cup SyncHolding /\ sync' \notin SyncQueued \cup SyncHolding
    BY <2>1 DEF SyncQueued, SyncHolding
  <2> QED BY <2>1, <2>2 DEF LockInv, Holds
<1> QED BY <1>1, <1>2 DEF Trainer

LEMMA LockStep == LockInv /\ [Next]_vars => LockInv'
<1> SUFFICES ASSUME LockInv, [Next]_vars PROVE LockInv' OBVIOUS
<1>1. CASE UNCHANGED vars BY <1>1, LockUntouched DEF vars, rollVars, procVars, lockVars
<1>2. CASE Trainer BY <1>2, LockTrainer
<1>3. CASE RolloutStep
  BY <1>3, LockProcessor, LockSync, LockRest DEF RolloutStep, Rollouter
<1> QED BY <1>1, <1>2, <1>3 DEF Next

LEMMA LockInit == Init => LockInv
BY EmptyRange DEF Init, RollInit, LockInv, SyncQueued, SyncHolding, IsInjective

---------------------------------------------------------------------------
(* Types                                                                   *)

FlagTypes ==
  /\ busy \in BOOLEAN /\ bound \in BOOLEAN /\ paused \in BOOLEAN /\ monitorOn \in BOOLEAN
  /\ last \in BOOLEAN
ProcTypes ==
  /\ at \in {"top", "stop", "drain", "park", "get", "limit", "submit", "end",
             "done", "dead"}
  /\ lk \in {"free", "queued", "in", "wait", "cond"}
  /\ task \in [Samples -> {"none", "gen", "cut", "out"}]
  /\ born \in [Samples -> Nat \cup {None}]
  /\ settled \in Nat
LoopTypes ==
  /\ mon \in {"sleep", "locking", "ended"}
  /\ main \in {"stream", "closing", "stopping", "ended"}
  /\ servers \in {"open", "cut"}
  /\ sync \in {"none", "pauseCall", "pauseLock", "cancelling", "gathering",
               "quiet", "updateCall", "updateLock", "counting", "resumeCall",
               "resumeLock", "resuming"}
CountTypes ==
  /\ staleness \in Nat /\ counted \in Nat /\ version \in Nat
  /\ valq \in Seq([version : Nat, metrics : BOOLEAN])
TrainTypes ==
  /\ tpc \in {"validate", "collect", "train", "waitLast", "syncing", "final",
              "waitFinal", "ended"}
  /\ local \in 1 .. conf.trigger

RunInv ==
  /\ PlaceInv /\ WeightsInv /\ LockInv
  /\ FlagTypes /\ ProcTypes /\ LoopTypes /\ CountTypes /\ TrainTypes

LEMMA SettingFacts ==
  ASSUME PlaceInv
  PROVE  /\ conf.required \in Nat \ {0} /\ conf.trigger \in Nat \ {0} /\ conf.max \in Nat \ {0}
         /\ conf.conc \in Nat \ {0} /\ conf.room \in Nat \ {0} /\ conf.partial \in BOOLEAN
         /\ conf.testFreq \in Nat /\ conf.valFirst \in BOOLEAN
         /\ conf.required * conf.trigger <= conf.max /\ conf.conc <= conf.max
<1>1. conf \in Configs BY DEF PlaceInv, PlaceTypes
<1> QED BY <1>1, ConfigsAssumption, LimitsAssumption

LEMMA SamplesFinite == IsFiniteSet(Samples) /\ Cardinality(Samples) = Total /\ Total \in Nat
BY TotalAssumption, FS_Interval DEF Samples

LEMMA ActiveTyped ==
  /\ IsFiniteSet(Running) /\ Cardinality(Running) \in Nat
  /\ ActiveTasks = Cardinality(Running) + settled
<1>1. Running \subseteq Samples BY DEF Running
<1>2. IsFiniteSet(Running) BY <1>1, SamplesFinite, FS_Subset
<1>3. Cardinality(Running) \in Nat BY <1>2, FS_CardinalityType
<1> QED BY <1>2, <1>3 DEF ActiveTasks, Running

LEMMA ConfFixed == [Next]_vars => conf' = conf
<1> SUFFICES ASSUME [Next]_vars PROVE conf' = conf OBVIOUS
<1> USE DEF queueOnly, rollVars, procRest, mainRest, monRest, syncRest
<1>1. Trainer => conf' = conf
  BY DEF Trainer, TrainerGets, TrainerTrains, TrainerWaitsLast, Transfer,
     TrainerGetsValidation, TrainerFinishes
<1>2. Processor => conf' = conf
  BY DEF Processor, ProcessorSeesPause, ProcessorTakesCancelled,
     ProcessorTakesPending, ProcessorWaitsForPending, ProcessorLocks,
     ProcessorGetsLock, ProcessorPauses, ProcessorLeavesLoop,
     ProcessorWaitsForTask, ProcessorSeesTaskDone, ProcessorFindsNoTask,
     ProcessorParks, ProcessorUnparks, ProcessorSubmits
<1>3. FeedSamples \/ ConsumerTakes \/ QueueReceives => conf' = conf
  BY DEF FeedSamples, ConsumerTakes, QueueReceives
<1>4. (\E s \in Samples : TaskCancelled(s) \/ TaskCompletes(s)) => conf' = conf
  BY DEF TaskCancelled, TaskCompletes
<1>5. MainStreamEnds \/ MainPutsEnd \/ MainStops => conf' = conf
  BY DEF MainStreamEnds, MainPutsEnd, MainStops
<1>6. MonitorQueues \/ MonitorUnpauses \/ MonitorEnds => conf' = conf
  BY DEF MonitorQueues, MonitorUnpauses, MonitorEnds
<1>7. ASSUME \/ SyncQueues \/ PauseBegins \/ PauseCancels \/ PauseEnds
             \/ UpdateBegins(weights) \/ UpdateEnds(tpc = "waitFinal")
             \/ ResumeBegins \/ ResumeEnds
      PROVE  conf' = conf
  BY <1>7 DEF SyncQueues, PauseBegins, PauseCancels, PauseEnds, ResumeBegins, ResumeEnds,
     UpdateBegins, UpdateEnds
<1>8. UNCHANGED vars => conf' = conf BY DEF vars
<1> QED BY <1>1, <1>2, <1>3, <1>4, <1>5, <1>6, <1>7, <1>8
        DEF Next, RolloutStep, Rollouter

LEMMA FlagsStep == FlagTypes /\ [Next]_vars => FlagTypes'
<1> SUFFICES ASSUME FlagTypes, [Next]_vars PROVE FlagTypes' OBVIOUS
<1> USE DEF queueOnly, rollVars, trainVars, procVars, procRest, mainRest, monRest, syncRest
<1>0. /\ busy \in BOOLEAN /\ bound \in BOOLEAN /\ paused \in BOOLEAN /\ monitorOn \in BOOLEAN
      /\ last \in BOOLEAN
  BY DEF FlagTypes
<1>1. Trainer => FlagTypes'
  <2>1. ASSUME Trainer PROVE UNCHANGED <<busy, bound, paused, monitorOn>> /\ last' \in {last, TRUE}
    BY <2>1
       DEF Trainer, TrainerGets, TrainerTrains, TrainerWaitsLast, Transfer,
           TrainerGetsValidation, TrainerFinishes
  <2> QED BY <1>0, <2>1 DEF FlagTypes
<1>2. RolloutStep => FlagTypes'
  <2> SUFFICES ASSUME RolloutStep PROVE FlagTypes' OBVIOUS
  <2>1. UNCHANGED <<last>> BY DEF RolloutStep
  <2>2. CASE Processor
    <3>1. UNCHANGED monitorOn
      BY <2>2
         DEF Processor, ProcessorSeesPause, ProcessorTakesCancelled,
             ProcessorTakesPending, ProcessorWaitsForPending, ProcessorLocks,
             ProcessorGetsLock, ProcessorPauses, ProcessorLeavesLoop,
             ProcessorWaitsForTask, ProcessorSeesTaskDone, ProcessorFindsNoTask,
             ProcessorParks, ProcessorUnparks, ProcessorSubmits
    <3>2. paused' \in {paused, TRUE} /\ bound' \in {bound, TRUE}
      BY <2>2
         DEF Processor, ProcessorSeesPause, ProcessorTakesCancelled,
             ProcessorTakesPending, ProcessorWaitsForPending, ProcessorLocks,
             ProcessorGetsLock, ProcessorPauses, ProcessorLeavesLoop,
             ProcessorWaitsForTask, ProcessorSeesTaskDone, ProcessorFindsNoTask,
             ProcessorParks, ProcessorUnparks, ProcessorSubmits
    <3>3. busy' \in {busy, bound, TRUE, FALSE}
      <4>1. CASE ProcessorLocks BY <4>1 DEF ProcessorLocks
      <4>2. CASE ProcessorLeavesLoop BY <4>2 DEF ProcessorLeavesLoop
      <4> QED BY <2>2, <4>1, <4>2
         DEF Processor, ProcessorSeesPause, ProcessorTakesCancelled,
             ProcessorTakesPending, ProcessorWaitsForPending,
             ProcessorGetsLock, ProcessorPauses,
             ProcessorWaitsForTask, ProcessorSeesTaskDone, ProcessorFindsNoTask,
             ProcessorParks, ProcessorUnparks, ProcessorSubmits
    <3> QED BY <1>0, <2>1, <3>1, <3>2, <3>3 DEF FlagTypes
  <2>3. CASE ~Processor
    <3>1. UNCHANGED <<busy, bound>> /\ paused' \in {paused, TRUE, FALSE}
      BY <2>3
         DEF RolloutStep, Rollouter, FeedSamples, ConsumerTakes, QueueReceives, TaskCancelled,
             TaskCompletes, MainStreamEnds, MainPutsEnd, MainStops, MonitorQueues,
             MonitorUnpauses, MonitorEnds, SyncQueues, PauseBegins, PauseCancels, PauseEnds,
             UpdateBegins, UpdateEnds, ResumeBegins, ResumeEnds
    <3>2. monitorOn' \in {monitorOn, TRUE, FALSE}
      BY <2>3
         DEF RolloutStep, Rollouter, FeedSamples, ConsumerTakes, QueueReceives, TaskCancelled,
             TaskCompletes, MainStreamEnds, MainPutsEnd, MainStops, MonitorQueues,
             MonitorUnpauses, MonitorEnds, SyncQueues, PauseBegins, PauseCancels, PauseEnds,
             UpdateBegins, UpdateEnds, ResumeBegins, ResumeEnds
    <3> QED BY <1>0, <2>1, <3>1, <3>2 DEF FlagTypes
  <2> QED BY <2>2, <2>3
<1>3. UNCHANGED vars => FlagTypes'
  <2>1. UNCHANGED vars => UNCHANGED <<busy, bound, paused, monitorOn, last>> BY DEF vars
  <2> QED BY <1>0, <2>1 DEF FlagTypes
<1> QED BY <1>1, <1>2, <1>3 DEF Next

LEMMA TypesProcessor ==
  ASSUME RunInv, UNCHANGED trainVars, Processor
  PROVE  ProcTypes' /\ LoopTypes' /\ CountTypes'
<1> USE DEF procRest, procVars, queueVars
<1>0. ProcTypes /\ LoopTypes /\ CountTypes BY DEF RunInv
<1>1. LoopTypes'
  <2>1. UNCHANGED <<mon, main, servers, sync>>
    BY DEF Processor, ProcessorSeesPause, ProcessorTakesCancelled,
       ProcessorTakesPending, ProcessorWaitsForPending, ProcessorLocks,
       ProcessorGetsLock, ProcessorPauses, ProcessorLeavesLoop,
       ProcessorWaitsForTask, ProcessorSeesTaskDone, ProcessorFindsNoTask,
       ProcessorParks, ProcessorUnparks, ProcessorSubmits
  <2> QED BY <1>0, <2>1 DEF LoopTypes
<1>2. CountTypes'
  <2>1. UNCHANGED <<counted, version, valq>> /\ staleness' \in {staleness, staleness + 1}
    BY DEF Processor, ProcessorSeesPause, ProcessorTakesCancelled,
       ProcessorTakesPending, ProcessorWaitsForPending, ProcessorLocks,
       ProcessorGetsLock, ProcessorPauses, ProcessorLeavesLoop,
       ProcessorWaitsForTask, ProcessorSeesTaskDone, ProcessorFindsNoTask,
       ProcessorParks, ProcessorUnparks, ProcessorSubmits
  <2> QED BY <1>0, <2>1 DEF CountTypes
<1>a. SUFFICES ProcTypes' BY <1>1, <1>2
<1>3. CASE \/ ProcessorSeesPause \/ ProcessorWaitsForPending \/ ProcessorLocks
           \/ ProcessorGetsLock \/ ProcessorPauses \/ ProcessorWaitsForTask
           \/ ProcessorParks \/ ProcessorUnparks
  <2>1. /\ UNCHANGED <<task, born, settled>>
        /\ at' \in {at, "stop", "get", "drain", "top"}
        /\ lk' \in {lk, "in", "queued", "free", "wait", "cond"}
    BY <1>0, <1>3
       DEF ProcessorSeesPause, ProcessorWaitsForPending, ProcessorLocks,
           ProcessorGetsLock, ProcessorPauses, ProcessorWaitsForTask,
           ProcessorParks, ProcessorUnparks, ProcTypes
  <2> QED BY <1>0, <2>1 DEF ProcTypes
<1>4. CASE ProcessorTakesCancelled
  BY <1>0, <1>4 DEF ProcessorTakesCancelled, ProcTypes
<1>5. CASE ProcessorTakesPending
  BY <1>0, <1>5 DEF ProcessorTakesPending, ProcTypes
<1>6. CASE ProcessorLeavesLoop
  <2>1. AfterLoop \in {"park", "submit", "done"} BY <1>6 DEF ProcessorLeavesLoop, Loops, AfterLoop
  <2> QED BY <1>0, <1>6, <2>1 DEF ProcessorLeavesLoop, ProcTypes
<1>7. CASE ProcessorSeesTaskDone BY <1>0, <1>7 DEF ProcessorSeesTaskDone, ProcTypes
<1>8. CASE ProcessorFindsNoTask BY <1>0, <1>8 DEF ProcessorFindsNoTask, ProcTypes
<1>9. CASE ProcessorSubmits
  <2>1. /\ task' = [task EXCEPT ![held] = "gen"]
        /\ born' = [born EXCEPT ![held] = IF @ = None THEN weights ELSE @]
        /\ at' = "top" /\ lk' = "free" /\ UNCHANGED settled
    BY <1>9 DEF ProcessorSubmits
  <2>2. weights \in Nat BY DEF RunInv, WeightsInv
  <2> QED BY <1>0, <2>1, <2>2 DEF ProcTypes
<1> QED BY <1>1, <1>2, <1>3, <1>4, <1>5, <1>6, <1>7, <1>8, <1>9 DEF Processor

LEMMA TypesRollouter ==
  ASSUME RunInv, UNCHANGED trainVars,
         \/ FeedSamples \/ ConsumerTakes \/ QueueReceives
         \/ (\E s \in Samples : TaskCancelled(s) \/ TaskCompletes(s))
         \/ MainStreamEnds \/ MainPutsEnd \/ MainStops
         \/ MonitorQueues \/ MonitorUnpauses \/ MonitorEnds
  PROVE  ProcTypes' /\ LoopTypes' /\ CountTypes'
<1> USE DEF procVars, queueVars, mainRest, monRest
<1>0. ProcTypes /\ LoopTypes /\ CountTypes BY DEF RunInv
<1>1. CountTypes'
  <2>1. UNCHANGED <<staleness, counted, version, valq>>
    BY DEF FeedSamples, ConsumerTakes, QueueReceives, PutSample, TaskCancelled, TaskCompletes,
       MainStreamEnds, MainPutsEnd, MainStops, MonitorQueues, MonitorUnpauses, MonitorEnds
  <2> QED BY <1>0, <2>1 DEF CountTypes
<1>2. CASE FeedSamples \/ ConsumerTakes \/ QueueReceives
  BY <1>0, <1>1, <1>2 DEF FeedSamples, ConsumerTakes, QueueReceives, ProcTypes, LoopTypes
<1>3. ASSUME NEW s \in Samples, TaskCancelled(s) \/ TaskCompletes(s)
      PROVE  ProcTypes' /\ LoopTypes'
  <2>1. /\ task' = [task EXCEPT ![s] = "none"] /\ settled' = settled + 1
        /\ UNCHANGED <<at, lk, born, mon, main, servers, sync>>
    BY <1>3 DEF TaskCancelled, TaskCompletes
  <2> QED BY <1>0, <2>1 DEF ProcTypes, LoopTypes
<1>4. CASE MainStreamEnds \/ MainPutsEnd \/ MainStops
  <2>1. /\ UNCHANGED <<at, lk, task, born, settled, mon, servers, sync>>
        /\ main' \in {"closing", "ended", "stopping"}
    BY <1>4 DEF MainStreamEnds, MainPutsEnd, MainStops
  <2> QED BY <1>0, <1>1, <2>1 DEF ProcTypes, LoopTypes
<1>5. CASE MonitorQueues \/ MonitorUnpauses \/ MonitorEnds
  <2>1. /\ UNCHANGED <<at, task, born, settled, main, servers, sync>>
        /\ mon' \in {"locking", "sleep", "ended"}
        /\ lk' \in {lk, "free"}
    BY <1>5 DEF MonitorQueues, MonitorUnpauses, MonitorEnds, NotifyAll
  <2> QED BY <1>0, <1>1, <2>1 DEF ProcTypes, LoopTypes
<1> QED BY <1>1, <1>2, <1>3, <1>4, <1>5

LEMMA TypesSync ==
  ASSUME RunInv, UNCHANGED trainVars,
         \/ SyncQueues \/ PauseBegins \/ PauseCancels \/ PauseEnds
         \/ UpdateBegins(weights) \/ UpdateEnds(tpc = "waitFinal")
         \/ ResumeBegins \/ ResumeEnds
  PROVE  ProcTypes' /\ LoopTypes' /\ CountTypes'
<1> USE DEF syncRest
<1>0. ProcTypes /\ LoopTypes /\ CountTypes BY DEF RunInv
<1>1. CASE SyncQueues \/ PauseBegins \/ ResumeBegins \/ ResumeEnds
  <2>1. /\ UNCHANGED <<at, task, born, settled, mon, main, staleness, counted,
                       version, valq>>
        /\ servers' \in {servers, "open"}
        /\ lk' \in {lk, "free"}
        /\ sync' \in {"pauseLock", "updateLock", "resumeLock", "cancelling", "gathering",
                      "resuming", "none"}
    BY <1>0, <1>1
       DEF SyncQueues, Queued, PauseBegins, ResumeBegins, ResumeEnds, NotifyAll, LoopTypes
  <2> QED BY <1>0, <2>1 DEF ProcTypes, LoopTypes, CountTypes
<1>2. CASE PauseCancels
  <2>1. PICK C \in SUBSET {s \in Samples : task[s] = "gen"} :
       task' = [s \in Samples |-> IF s \in C THEN "cut"
                                  ELSE IF task[s] = "gen" THEN "out"
                                  ELSE task[s]]
    BY <1>2 DEF PauseCancels
  <2>2. task' \in [Samples -> {"none", "gen", "cut", "out"}] BY <1>0, <2>1 DEF ProcTypes
  <2> QED BY <1>0, <1>2, <2>2 DEF PauseCancels, ProcTypes, LoopTypes, CountTypes
<1>3. CASE PauseEnds BY <1>0, <1>3 DEF PauseEnds, ProcTypes, LoopTypes, CountTypes
<1>4. CASE UpdateBegins(weights)
  <2>1. /\ version' = weights /\ counted' = Counted /\ sync' = "counting"
        /\ UNCHANGED <<at, lk, task, born, settled, mon, main, servers, staleness, valq>>
    BY <1>4 DEF UpdateBegins
  <2>2. Counted \in Nat
    <3>1. resultq \in Seq(Samples) /\ cancelq \in Seq(Samples) BY DEF RunInv, PlaceInv, PlaceTypes
    <3>2. Len(resultq) \in Nat /\ Len(cancelq) \in Nat BY <3>1
    <3>3. settled \in Nat BY <1>0 DEF ProcTypes
    <3> QED BY <3>2, <3>3, ActiveTyped DEF Counted
  <2>3. weights \in Nat BY DEF RunInv, WeightsInv
  <2> QED BY <1>0, <2>1, <2>2, <2>3 DEF ProcTypes, LoopTypes, CountTypes
<1>5. CASE UpdateEnds(tpc = "waitFinal")
  <2> DEFINE e == [version |-> version,
                   metrics |-> \/ tpc = "waitFinal"
                               \/ /\ conf.testFreq > 0 /\ version > 0
                                  /\ version % conf.testFreq = 0]
  <2>1. /\ staleness' = counted + Len(mq) /\ counted' = 0 /\ sync' = "resumeCall"
        /\ valq' = Append(valq, e)
        /\ UNCHANGED <<at, lk, task, born, settled, mon, main, servers, version>>
    BY <1>5 DEF UpdateEnds
  <2>2. e \in [version : Nat, metrics : BOOLEAN]
    BY <1>0, SettingFacts DEF CountTypes, RunInv
  <2> HIDE DEF e
  <2>3. valq' \in Seq([version : Nat, metrics : BOOLEAN]) BY <1>0, <2>1, <2>2 DEF CountTypes
  <2>4. Len(mq) \in Nat BY DEF RunInv, PlaceInv, PlaceTypes
  <2> QED BY <1>0, <2>1, <2>3, <2>4 DEF ProcTypes, LoopTypes, CountTypes
<1> QED BY <1>1, <1>2, <1>3, <1>4, <1>5

LEMMA TypesTrainer ==
  ASSUME RunInv, Trainer
  PROVE  ProcTypes' /\ LoopTypes' /\ CountTypes' /\ TrainTypes'
<1> USE DEF rollVars, procVars, queueVars, queueOnly
<1>0. /\ ProcTypes /\ LoopTypes /\ CountTypes /\ TrainTypes
      /\ conf.trigger \in Nat \ {0} /\ conf' = conf
  BY SettingFacts, ConfFixed DEF RunInv, Next
<1>1. CASE TrainerGets
  BY <1>0, <1>1 DEF TrainerGets, ProcTypes, LoopTypes, CountTypes, TrainTypes
<1>2. CASE TrainerTrains
  <2>1. ProcTypes' /\ LoopTypes' /\ CountTypes'
    BY <1>0, <1>2 DEF TrainerTrains, ProcTypes, LoopTypes, CountTypes
  <2>2. tpc' \in {"validate", "waitLast"} BY <1>2 DEF TrainerTrains, NextPlace
  <2>3. local' \in 1 .. conf.trigger 
    BY <1>0, <1>2 DEF TrainerTrains, TrainTypes
  <2> QED BY <1>0, <2>1, <2>2, <2>3 DEF TrainTypes
<1>3. CASE TrainerWaitsLast \/ Transfer
  BY <1>0, <1>3 DEF TrainerWaitsLast, Transfer, ProcTypes, LoopTypes, CountTypes, TrainTypes
<1>4. CASE TrainerGetsValidation
  <2>1. valq' \in Seq([version : Nat, metrics : BOOLEAN])
    BY <1>0, <1>4 DEF TrainerGetsValidation, CountTypes
  <2> QED BY <1>0, <1>4, <2>1
      DEF TrainerGetsValidation, ProcTypes, LoopTypes, CountTypes, TrainTypes
<1>5. CASE TrainerFinishes
  BY <1>0, <1>5 DEF TrainerFinishes, ProcTypes, LoopTypes, CountTypes, TrainTypes
<1> QED BY <1>1, <1>2, <1>3, <1>4, <1>5 DEF Trainer

LEMMA RunStep == RunInv /\ [Next]_vars => RunInv'
<1> SUFFICES ASSUME RunInv, [Next]_vars PROVE RunInv' OBVIOUS
<1>1. PlaceInv' /\ WeightsInv' /\ LockInv' /\ FlagTypes'
  BY PlaceStep, WeightsStep, LockStep, FlagsStep DEF RunInv
<1>2. SUFFICES ProcTypes' /\ LoopTypes' /\ CountTypes' /\ TrainTypes' BY <1>1 DEF RunInv
<1>3. CASE Trainer BY <1>3, TypesTrainer
<1>4. CASE RolloutStep
  <2>1. UNCHANGED trainVars BY <1>4 DEF RolloutStep
  <2>2. TrainTypes' BY <2>1, ConfFixed DEF RunInv, TrainTypes, trainVars
  <2> QED BY <1>4, <2>1, <2>2, TypesProcessor, TypesRollouter, TypesSync
      DEF RolloutStep, Rollouter
<1>5. CASE UNCHANGED vars
  BY <1>5 DEF RunInv, vars, rollVars, procVars, queueVars, trainVars, ProcTypes, LoopTypes,
     CountTypes, TrainTypes
<1> QED BY <1>3, <1>4, <1>5 DEF Next

LEMMA RunInit == Init => RunInv
<1> SUFFICES ASSUME Init PROVE RunInv OBVIOUS
<1>1. PlaceInv /\ LockInv /\ WeightsInv
  BY PlaceInit, LockInit DEF Init, RollInit, WeightsInv
<1>2. FlagTypes /\ ProcTypes /\ LoopTypes
  BY DEF Init, RollInit, FlagTypes, ProcTypes, LoopTypes
<1>4. TrainTypes
  BY <1>1, SettingFacts DEF Init, TrainTypes
<1>3. CountTypes
  BY <1>1, SettingFacts DEF Init, RollInit, CountTypes
<1> QED BY <1>1, <1>2, <1>3, <1>4 DEF RunInv

\* The coroutines' and the trainer's state keeps its shape: in particular the
\* lock is released only by who has it.
THEOREM AsyncTypeCorrect == Spec => []TypeOK
<1>1. RunInv => TypeOK
  BY DEF RunInv, TypeOK, PlaceInv, PlaceTypes, WeightsInv, LockInv, Coroutines, FlagTypes, ProcTypes,
     LoopTypes, CountTypes, TrainTypes
<1> QED BY RunInit, RunStep, <1>1, PTL DEF Spec

---------------------------------------------------------------------------
(* How many samples are under way                                          *)

\* what OutstandingBound counts, and what update_param_version counts of it
\* before it asks for the queue's size
Outs == Running \cup Rolled \cup Range(cancelq) \cup ({held} \ {NoSample})
Work ==
  Running \cup Range(resultq) \cup Range(cancelq) \cup ({inflight} \ {NoSample})

\* samples that have left the pipeline, and those past the result queue or
\* not yet in generation
Gone == Range(batch) \cup trained \cup (dropped \ {End}) \cup left
Aside == Gone \cup (Range(mq) \ {End}) \cup ({held} \ {NoSample})

\* What is counted is what the processor has taken less what is elsewhere.
OutsSplit ==
  /\ Outs = (1 .. Taken) \ Gone /\ Work = (1 .. Taken) \ Aside
  /\ Outs \subseteq Work \cup (Range(mq) \ {End}) \cup ({held} \ {NoSample})
  /\ Taken \in 0 .. Total

LEMMA OutsAndWork == PlaceInv => OutsSplit
<1> SUFFICES ASSUME PlaceInv PROVE OutsSplit OBVIOUS
<1>1. Partition(Places, Taken) BY DEF PlaceInv, PartitionInv
<1>2. /\ \A p \in Names : Places[p] \subseteq 1 .. Taken
      /\ \A p, q \in Names : \A s \in Places[p] : s \in Places[q] => p = q
      /\ \A s \in 1 .. Taken : \E p \in Names : s \in Places[p]
  BY <1>1 DEF Partition
<1>3. Outs \subseteq (1 .. Taken) \ Gone
  <2> SUFFICES ASSUME NEW s \in Outs PROVE s \in 1 .. Taken /\ s \notin Gone
    OBVIOUS
  <2>1. PICK p \in {"task", "resultq", "inflight", "mq", "cancelq", "held"} :
          s \in Places[p]
    BY PlaceFields DEF Outs, Rolled
  <2>2. p \in Names /\ \A q \in {"batch", "trained", "dropped", "left"} : q \in Names /\ p # q
    BY DEF Names
  <2>3. s \in 1 .. Taken /\ \A q \in {"batch", "trained", "dropped", "left"} : s \notin Places[q]
    BY <1>2, <2>1, <2>2
  <2> QED BY <2>3, PlaceFields DEF Gone
<1>4. Work \subseteq (1 .. Taken) \ Aside
  <2> SUFFICES ASSUME NEW s \in Work PROVE s \in 1 .. Taken /\ s \notin Aside
    OBVIOUS
  <2>1. PICK p \in {"task", "resultq", "inflight", "cancelq"} : s \in Places[p]
    BY PlaceFields DEF Work
  <2>2. p \in Names /\ \A q \in {"batch", "trained", "dropped", "left", "mq", "held"} :
                           q \in Names /\ p # q
    BY DEF Names
  <2>3. /\ s \in 1 .. Taken
        /\ \A q \in {"batch", "trained", "dropped", "left", "mq", "held"} : s \notin Places[q]
    BY <1>2, <2>1, <2>2
  <2> QED BY <2>3, PlaceFields DEF Gone, Aside
<1>5. ASSUME NEW s \in 1 .. Taken
      PROVE  (s \in Outs \/ s \in Gone) /\ (s \in Work \/ s \in Aside)
  <2>1. PICK p \in Names : s \in Places[p] BY <1>2
  <2> QED BY <2>1, PlaceFields DEF Names, Outs, Rolled, Work, Gone, Aside
<1>6. Taken \in 0 .. Total BY TotalAssumption DEF PlaceInv, PlaceTypes, Taken, End
<1> QED BY <1>3, <1>4, <1>5, <1>6 DEF OutsSplit, Outs, Rolled, Work

LEMMA OutsAndWorkNext == PlaceInv' => OutsSplit'
BY OutsAndWork, PTL

LEMMA CountsFinite ==
  ASSUME PlaceInv
  PROVE  /\ IsFiniteSet(Outs) /\ Cardinality(Outs) \in Nat
         /\ IsFiniteSet(Work) /\ Cardinality(Work) \in Nat
<1>1. Outs \subseteq Samples /\ Work \subseteq Samples
  BY OutsAndWork, TotalAssumption DEF OutsSplit, Samples
<1>2. IsFiniteSet(Outs) /\ IsFiniteSet(Work) BY <1>1, SamplesFinite, FS_Subset
<1> QED BY <1>2, FS_CardinalityType

LEMMA AtMost ==
  ASSUME NEW S, IsFiniteSet(S), NEW T \in SUBSET S
  PROVE  /\ IsFiniteSet(T) /\ Cardinality(T) \in Nat /\ Cardinality(S) \in Nat
         /\ Cardinality(T) <= Cardinality(S)
<1>1. IsFiniteSet(T) /\ Cardinality(T) <= Cardinality(S) BY FS_Subset
<1> QED BY <1>1, FS_CardinalityType

LEMMA UnionAtMost ==
  ASSUME NEW S, NEW T, IsFiniteSet(S), IsFiniteSet(T)
  PROVE  /\ IsFiniteSet(S \cup T) /\ Cardinality(S \cup T) \in Nat
         /\ Cardinality(S) \in Nat /\ Cardinality(T) \in Nat
         /\ Cardinality(S \cup T) <= Cardinality(S) + Cardinality(T)
<1>1. /\ IsFiniteSet(S \cup T)
      /\ Cardinality(S \cup T) = Cardinality(S) + Cardinality(T) - Cardinality(S \cap T)
  BY FS_Union
<1>2. IsFiniteSet(S \cap T) BY FS_Intersection
<1>3. /\ Cardinality(S) \in Nat /\ Cardinality(T) \in Nat /\ Cardinality(S \cap T) \in Nat
      /\ Cardinality(S \cup T) \in Nat
  BY <1>1, <1>2, FS_CardinalityType
<1> QED BY <1>1, <1>3

LEMMA OneAtMost ==
  ASSUME NEW x, NEW y
  PROVE  IsFiniteSet({x} \ {y}) /\ Cardinality({x} \ {y}) \in {0, 1}
<1>1. {x} \ {y} = {} \/ {x} \ {y} = {x} OBVIOUS
<1>2. IsFiniteSet({}) /\ Cardinality({}) = 0 BY FS_EmptySet
<1>3. IsFiniteSet({x}) /\ Cardinality({x}) = 1 BY FS_Singleton
<1> QED BY <1>1, <1>2, <1>3

LEMMA RangeAtMost ==
  ASSUME NEW S, NEW q \in Seq(S)
  PROVE  /\ IsFiniteSet(Range(q)) /\ Cardinality(Range(q)) \in Nat /\ Len(q) \in Nat
         /\ Cardinality(Range(q)) <= Len(q)
<1>1. Len(q) \in Nat /\ q \in [1 .. Len(q) -> Range(q)] BY DEF Range
<1>2. q \in Surjection(1 .. Len(q), Range(q)) BY <1>1 DEF Surjection, Range
<1>3. IsFiniteSet(1 .. Len(q)) /\ Cardinality(1 .. Len(q)) = Len(q) BY <1>1, FS_Interval
<1>4. IsFiniteSet(Range(q)) /\ Cardinality(Range(q)) <= Len(q)
  BY <1>1, <1>2, <1>3, FS_Surjection
<1> QED BY <1>1, <1>4, FS_CardinalityType

\* update_param_version's count misses at most the sample being put.
LEMMA CountedNearly ==
  ASSUME RunInv PROVE Cardinality(Work) <= Counted + 1 /\ Counted \in Nat
<1>1. resultq \in Seq(Samples) /\ cancelq \in Seq(Samples) /\ settled \in Nat
  BY DEF RunInv, PlaceInv, PlaceTypes, ProcTypes
<1> DEFINE A == Running
           B == Range(resultq)
           C == Range(cancelq)
           D == {inflight} \ {NoSample}
<1>2. Work = ((A \cup B) \cup C) \cup D BY DEF Work
<1>3. /\ IsFiniteSet(A) /\ Cardinality(A) \in Nat
      /\ ActiveTasks = Cardinality(A) + settled
  BY ActiveTyped
<1>4. /\ IsFiniteSet(B) /\ Cardinality(B) \in Nat /\ Len(resultq) \in Nat
      /\ Cardinality(B) <= Len(resultq)
  BY <1>1, RangeAtMost
<1>5. /\ IsFiniteSet(C) /\ Cardinality(C) \in Nat /\ Len(cancelq) \in Nat
      /\ Cardinality(C) <= Len(cancelq)
  BY <1>1, RangeAtMost
<1>6. IsFiniteSet(D) /\ Cardinality(D) \in {0, 1} BY OneAtMost
<1> HIDE DEF A, B, C, D
<1>7. /\ IsFiniteSet(A \cup B) /\ Cardinality(A \cup B) \in Nat
      /\ Cardinality(A \cup B) <= Cardinality(A) + Cardinality(B)
  BY <1>3, <1>4, UnionAtMost
<1>8. /\ IsFiniteSet((A \cup B) \cup C) /\ Cardinality((A \cup B) \cup C) \in Nat
      /\ Cardinality((A \cup B) \cup C) <= Cardinality(A \cup B) + Cardinality(C)
  BY <1>5, <1>7, UnionAtMost
<1>9. /\ Cardinality(((A \cup B) \cup C) \cup D) \in Nat
      /\ Cardinality(((A \cup B) \cup C) \cup D) <= Cardinality((A \cup B) \cup C) + Cardinality(D)
  BY <1>6, <1>8, UnionAtMost
<1>10. Counted = Cardinality(A) + settled + Len(resultq) + Len(cancelq) BY <1>3 DEF Counted
<1> DEFINE W == Cardinality(Work)
           AB == Cardinality(A \cup B)
           ABC == Cardinality((A \cup B) \cup C)
           a == Cardinality(A)
           b == Cardinality(B)
           c == Cardinality(C)
           d == Cardinality(D)
<1>11. /\ W \in Nat /\ AB \in Nat /\ ABC \in Nat /\ a \in Nat /\ b \in Nat /\ c \in Nat
       /\ d \in {0, 1} /\ Len(resultq) \in Nat /\ Len(cancelq) \in Nat /\ settled \in Nat
  BY <1>1, <1>2, <1>3, <1>4, <1>5, <1>6, <1>7, <1>8, <1>9
<1>12. W <= ABC + d BY <1>2, <1>9
<1>13. ABC <= AB + c /\ AB <= a + b BY <1>7, <1>8
<1>14. b <= Len(resultq) /\ c <= Len(cancelq) BY <1>4, <1>5
<1>15. Counted = a + settled + Len(resultq) + Len(cancelq) BY <1>10
<1> HIDE DEF W, AB, ABC, a, b, c, d
<1>16. W <= Counted + 1 /\ Counted \in Nat BY <1>11, <1>12, <1>13, <1>14, <1>15
<1> QED BY <1>16 DEF W

\* What is under way is what was counted, the queue, and what the processor
\* holds.
LEMMA OutsNearly ==
  ASSUME RunInv PROVE Cardinality(Outs) <= Cardinality(Work) + Len(mq) + 1 /\ Len(mq) \in Nat
<1>1. mq \in Seq(1 .. End) BY DEF RunInv, PlaceInv, PlaceTypes
<1> DEFINE W == Work
           M == Range(mq)
           N == Range(mq) \ {End}
           H == {held} \ {NoSample}
<1>2. /\ IsFiniteSet(M) /\ Cardinality(M) \in Nat /\ Len(mq) \in Nat
      /\ Cardinality(M) <= Len(mq)
  BY <1>1, RangeAtMost
<1>3. N \in SUBSET M OBVIOUS
<1>4. Outs \in SUBSET ((W \cup N) \cup H) BY OutsAndWork DEF OutsSplit, RunInv
<1>5. IsFiniteSet(H) /\ Cardinality(H) \in {0, 1} BY OneAtMost
<1>6. IsFiniteSet(W) /\ Cardinality(W) \in Nat BY CountsFinite DEF RunInv
<1> HIDE DEF W, M, N, H
<1>7. IsFiniteSet(N) /\ Cardinality(N) \in Nat /\ Cardinality(N) <= Cardinality(M)
  BY <1>2, <1>3, AtMost
<1>8. /\ IsFiniteSet(W \cup N) /\ Cardinality(W \cup N) \in Nat
      /\ Cardinality(W \cup N) <= Cardinality(W) + Cardinality(N)
  BY <1>6, <1>7, UnionAtMost
<1>9. /\ IsFiniteSet((W \cup N) \cup H) /\ Cardinality((W \cup N) \cup H) \in Nat
      /\ Cardinality((W \cup N) \cup H) <= Cardinality(W \cup N) + Cardinality(H)
  BY <1>5, <1>8, UnionAtMost
<1>10. Cardinality(Outs) \in Nat /\ Cardinality(Outs) <= Cardinality((W \cup N) \cup H)
  BY <1>4, <1>9, AtMost
<1> QED BY <1>2, <1>5, <1>6, <1>7, <1>8, <1>9, <1>10 DEF W

placedVars == <<got, held, inflight, mq, batch, trained, dropped, left>>

\* Nothing that has left the pipeline comes back, and what is past the result
\* queue or held by the processor stays so until it is submitted.
LEMMA GoneGrows ==
  ASSUME PlaceInv, [Next]_vars
  PROVE  /\ Gone \subseteq Gone'
         /\ ~ProcessorSubmits => Aside \subseteq Aside'
         /\ ~ProcessorTakesPending => got' = got
<1> USE DEF procRest, procVars, queueVars, mainRest, monRest, syncRest, rollVars, queueOnly,
            trainVars, placedVars
<1>1. UNCHANGED placedVars => Gone' = Gone /\ Aside' = Aside /\ got' = got BY DEF Gone, Aside
<1>2. CASE UNCHANGED vars BY <1>1, <1>2 DEF vars
<1>3. CASE TrainerGets
  <2>1. mq # <<>> /\ mq \in Seq(1 .. End) /\ IsInjective(mq) /\ mq' = Tail(mq)
    BY <1>3 DEF PlaceInv, PlaceTypes, InjectiveInv, TrainerGets
  <2>2. Head(mq) \in Range(mq) /\ Range(mq') = Range(mq) \ {Head(mq)} BY <2>1, HeadTaken
  <2>3. UNCHANGED <<got, held, trained, dropped>> BY <1>3 DEF TrainerGets
  <2>4. Range(batch) \cup left \cup ({Head(mq)} \ {End}) \subseteq Range(batch') \cup left'
    <3>1. CASE Head(mq) = End
      <4>1. left' = left \cup Range(batch) BY <1>3, <3>1 DEF TrainerGets
      <4> QED BY <3>1, <4>1
    <3>2. CASE Head(mq) # End
      <4>1. left' = left /\ batch' = Append(batch, Head(mq)) BY <1>3, <3>2 DEF TrainerGets
      <4>2. Head(mq) \in Places["mq"] BY <2>2, <3>2, PlaceFields
      <4>3. Head(mq) \notin Range(batch) /\ Head(mq) \in Samples
        BY <4>2, Apart, PlaceFields DEF Names
      <4>4. Range(batch') = Range(batch) \cup {Head(mq)}
        BY <4>1, <4>3, NewPut DEF PlaceInv, PlaceTypes, InjectiveInv
      <4> QED BY <4>1, <4>4
    <3> QED BY <3>1, <3>2
  <2> QED BY <2>2, <2>3, <2>4 DEF Gone, Aside
<1>4. CASE TrainerTrains
  <2>1. trained' = trained \cup Range(batch) /\ UNCHANGED <<got, held, mq, dropped, left>>
    BY <1>4 DEF TrainerTrains
  <2> QED BY <2>1 DEF Gone, Aside
<1>5. CASE TrainerWaitsLast \/ Transfer \/ TrainerGetsValidation \/ TrainerFinishes
  <2>1. UNCHANGED placedVars
    BY <1>5 DEF TrainerWaitsLast, Transfer, TrainerGetsValidation, TrainerFinishes
  <2> QED BY <1>1, <2>1
<1>a. ASSUME UNCHANGED trainVars PROVE UNCHANGED <<batch, trained, left>> BY <1>a
<1>6. CASE ProcessorSubmits /\ UNCHANGED trainVars
  <2>1. UNCHANGED <<batch, trained, left, dropped, got>> BY <1>6 DEF ProcessorSubmits
  <2> QED BY <1>6, <2>1 DEF Gone
<1>7. CASE ProcessorTakesCancelled /\ UNCHANGED trainVars
  <2>1. held = NoSample /\ UNCHANGED <<batch, trained, left, dropped, got, mq>>
    BY <1>7 DEF ProcessorTakesCancelled, PlaceInv, HeldInv
  <2> QED BY <1>7, <2>1 DEF Gone, Aside
<1>8. CASE ProcessorTakesPending /\ UNCHANGED trainVars
  <2>1. held = NoSample /\ UNCHANGED <<batch, trained, left, dropped, mq>>
    BY <1>8 DEF ProcessorTakesPending, PlaceInv, HeldInv
  <2> QED BY <1>8, <2>1 DEF Gone, Aside
<1>9. CASE UNCHANGED trainVars /\ Processor
           /\ ~ProcessorSubmits /\ ~ProcessorTakesCancelled /\ ~ProcessorTakesPending
  <2>1. UNCHANGED placedVars
    BY <1>9
       DEF Processor, ProcessorSeesPause,
           ProcessorWaitsForPending, ProcessorLocks,
           ProcessorGetsLock, ProcessorPauses, ProcessorLeavesLoop,
           ProcessorWaitsForTask, ProcessorSeesTaskDone, ProcessorFindsNoTask,
           ProcessorParks, ProcessorUnparks
  <2> QED BY <1>1, <2>1
<1>10. CASE UNCHANGED trainVars /\ QueueReceives
  <2>1. inflight \in Samples /\ inflight \in 1 .. End /\ inflight # End
    BY <1>10, TotalAssumption DEF PlaceInv, PlaceTypes, QueueReceives, NoSample, Samples, End
  <2>2. Places["inflight"] = {inflight} BY <2>1, PlaceFields DEF NoSample, Samples
  <2>3. inflight \notin Range(mq) BY <2>1, <2>2, Apart, PlaceFields DEF Names
  <2>4. PutSample(inflight) /\ UNCHANGED <<got, held, batch, trained, left>>
    BY <1>10 DEF QueueReceives
  <2>5. PICK X \in SUBSET Range(mq) : /\ Range(mq') = (Range(mq) \ X) \cup {inflight}
                                     /\ dropped' = dropped \cup X
    BY <2>1, <2>3, <2>4, PutEffect
  <2> QED BY <2>4, <2>5 DEF Gone, Aside
<1>11. CASE UNCHANGED trainVars /\ MainPutsEnd
  <2>1. End \notin Range(mq) /\ End \in 1 .. End
    BY <1>11, TotalAssumption DEF PlaceInv, EndInv, MainPutsEnd, End
  <2>2. PutSample(End) /\ UNCHANGED <<got, held, batch, trained, left>>
    BY <1>11 DEF MainPutsEnd
  <2>3. PICK X \in SUBSET Range(mq) : /\ Range(mq') = (Range(mq) \ X) \cup {End}
                                     /\ dropped' = dropped \cup X
    BY <2>1, <2>2, PutEffect
  <2> QED BY <2>2, <2>3 DEF Gone, Aside
<1>12. CASE /\ UNCHANGED trainVars
            /\ \/ FeedSamples \/ ConsumerTakes
               \/ \E s \in Samples : TaskCancelled(s) \/ TaskCompletes(s)
               \/ MainStreamEnds \/ MainStops
               \/ MonitorQueues \/ MonitorUnpauses \/ MonitorEnds
  <2>1. UNCHANGED <<got, held, mq, batch, trained, dropped, left>>
    BY <1>12 DEF FeedSamples, ConsumerTakes, TaskCancelled, TaskCompletes, MainStreamEnds, MainStops,
       MonitorQueues, MonitorUnpauses, MonitorEnds
  <2> QED BY <2>1 DEF Gone, Aside
<1>13. CASE /\ UNCHANGED trainVars
            /\ \/ SyncQueues \/ PauseBegins \/ PauseCancels \/ PauseEnds
               \/ UpdateBegins(weights) \/ UpdateEnds(tpc = "waitFinal")
               \/ ResumeBegins \/ ResumeEnds
  <2>1. UNCHANGED placedVars
    BY <1>13 DEF SyncQueues, PauseBegins, PauseCancels, PauseEnds, UpdateBegins, UpdateEnds,
       ResumeBegins, ResumeEnds
  <2> QED BY <1>1, <2>1
<1> QED BY <1>2, <1>3, <1>4, <1>5, <1>6, <1>7, <1>8, <1>9, <1>10, <1>11, <1>12, <1>13
        DEF Next, Trainer, RolloutStep, Rollouter

\* Only a sample taken from the pending queue makes what is under way grow,
\* and only a submission what is counted.
LEMMA CountsShrink ==
  ASSUME PlaceInv, [Next]_vars
  PROVE  /\ ~ProcessorTakesPending => Outs' \subseteq Outs
         /\ ProcessorTakesPending => Outs' \subseteq Outs \cup {got'}
         /\ ~ProcessorSubmits => Work' \subseteq Work
<1>1. PlaceInv' BY PlaceStep
<1>2. /\ Outs = (1 .. Taken) \ Gone /\ Work = (1 .. Taken) \ Aside /\ Taken \in 0 .. Total
  BY OutsAndWork DEF OutsSplit
<1>3. /\ Outs' = (1 .. Taken') \ Gone' /\ Work' = (1 .. Taken') \ Aside' /\ Taken' \in 0 .. Total
  BY <1>1, OutsAndWorkNext DEF OutsSplit
<1>4. /\ Gone \subseteq Gone' /\ (~ProcessorSubmits => Aside \subseteq Aside')
      /\ ~ProcessorTakesPending => Taken' = Taken
  BY GoneGrows DEF Taken
<1>5. CASE ~ProcessorTakesPending BY <1>2, <1>3, <1>4, <1>5
<1>6. CASE ProcessorTakesPending
  <2>1. got' = got + 1 /\ held' = IF got' = End THEN NoSample ELSE got'
    BY <1>6 DEF ProcessorTakesPending
  <2>2. got \in Nat /\ got' <= End /\ End = Total + 1 /\ Total \in Nat
    BY <1>1, TotalAssumption, <2>1 DEF PlaceInv, PlaceTypes, End
  <2>3. 1 .. Taken' \subseteq (1 .. Taken) \cup {got'} BY <2>1, <2>2 DEF Taken
  <2>4. got' \in 1 .. Taken' => got' \in {held'} \ {NoSample}
    BY <2>1, <2>2 DEF Taken, NoSample
  <2>5. ~ProcessorSubmits
    <3>1. ASSUME ProcessorSubmits PROVE FALSE
      <4>1. at = "submit" BY <3>1 DEF ProcessorSubmits
      <4>2. at \in {"get", "top"} BY <1>6 DEF ProcessorTakesPending
      <4> QED BY <4>1, <4>2
    <3> QED BY <3>1
  <2>6. {held'} \ {NoSample} \subseteq Aside' BY DEF Aside
  <2> QED BY <1>2, <1>3, <1>4, <1>6, <2>3, <2>4, <2>5, <2>6
<1> QED BY <1>5, <1>6

\* The count is short of at most two: the sample being put when
\* update_param_version counted, and the one the processor held.  One more is
\* taken while the count is below the limit, and one taken after a wait for
\* the pending queue was allowed before the wait.
CountInv ==
  /\ Cardinality(Outs) <= staleness + 2
  /\ Cardinality(Outs) <= conf.max + 2
  /\ at = "get" => Cardinality(Outs) <= conf.max + 1
  /\ sync = "counting" => Cardinality(Work) <= counted + 1

\* what a step may do to the counts
CountQuiet ==
  /\ UNCHANGED <<staleness, counted>>
  /\ at' = "get" => at = "get"
  /\ sync' = "counting" => sync = "counting"

LEMMA CountQuietOthers ==
  ASSUME [Next]_vars
  PROVE  \/ CountQuiet
         \/ ProcessorTakesPending \/ ProcessorWaitsForPending
         \/ UpdateBegins(weights) \/ UpdateEnds(tpc = "waitFinal")
<1> USE DEF procRest, procVars, mainRest, monRest, syncRest, rollVars, queueOnly, CountQuiet
<1>1. CASE UNCHANGED vars BY <1>1 DEF vars
<1>2. CASE Trainer
  BY <1>2 DEF Trainer, TrainerGets, TrainerTrains, TrainerWaitsLast, Transfer,
     TrainerGetsValidation, TrainerFinishes
<1>3. CASE Processor
  BY <1>3
     DEF Processor, ProcessorSeesPause, ProcessorTakesCancelled, ProcessorLocks,
         ProcessorGetsLock, ProcessorPauses, ProcessorLeavesLoop, AfterLoop, Loops,
         ProcessorWaitsForTask, ProcessorSeesTaskDone, ProcessorFindsNoTask,
         ProcessorParks, ProcessorUnparks, ProcessorSubmits
<1>4. CASE \/ FeedSamples \/ ConsumerTakes \/ QueueReceives
           \/ \E s \in Samples : TaskCancelled(s) \/ TaskCompletes(s)
           \/ MainStreamEnds \/ MainPutsEnd \/ MainStops
           \/ MonitorQueues \/ MonitorUnpauses \/ MonitorEnds
  BY <1>4
     DEF FeedSamples, ConsumerTakes, QueueReceives, TaskCancelled, TaskCompletes,
         MainStreamEnds, MainPutsEnd, MainStops, MonitorQueues, MonitorUnpauses, MonitorEnds
<1>5. CASE \/ SyncQueues \/ PauseBegins \/ PauseCancels \/ PauseEnds
           \/ ResumeBegins \/ ResumeEnds
  BY <1>5 DEF SyncQueues, Queued, PauseBegins, PauseCancels, PauseEnds, ResumeBegins, ResumeEnds
<1> QED BY <1>1, <1>2, <1>3, <1>4, <1>5 DEF Next, RolloutStep, Rollouter

LEMMA CountStep == RunInv /\ CountInv /\ [Next]_vars => CountInv'
<1> SUFFICES ASSUME RunInv, CountInv, [Next]_vars PROVE CountInv' OBVIOUS
<1> DEFINE o == Cardinality(Outs)
           w == Cardinality(Work)
           p == Cardinality(Outs')
           v == Cardinality(Work')
<1>1. RunInv' BY RunStep
<1>2. /\ o \in Nat /\ w \in Nat /\ IsFiniteSet(Outs) /\ IsFiniteSet(Work)
  BY CountsFinite DEF RunInv
<1>3. /\ conf.max \in Nat \ {0} /\ conf' = conf
      /\ staleness \in Nat /\ counted \in Nat
      /\ staleness' \in Nat /\ counted' \in Nat
  BY <1>1, SettingFacts, ConfFixed DEF RunInv, CountTypes
<1>4. ~ProcessorTakesPending => p \in Nat /\ p <= o BY <1>2, CountsShrink, AtMost DEF RunInv
<1>5. sync = "counting" \/ UpdateBegins(weights) => v \in Nat /\ v <= w
  <2>1. ProcessorSubmits => sync # "counting" /\ ~UpdateBegins(weights)
    <3>1. ASSUME ProcessorSubmits PROVE sync # "counting" /\ ~UpdateBegins(weights)
      <4>1. lk = "in" /\ sync' = sync BY <3>1 DEF ProcessorSubmits
      <4>2. Holds("proc") BY <4>1 DEF RunInv, LockInv
      <4>3. sync \notin SyncHolding BY <4>2 DEF RunInv, LockInv, Holds
      <4> QED BY <4>1, <4>3 DEF SyncHolding, UpdateBegins
    <3> QED BY <3>1
  <2>2. ~ProcessorSubmits => v \in Nat /\ v <= w BY <1>2, CountsShrink, AtMost DEF RunInv
  <2> QED BY <2>1, <2>2
<1>6. /\ o <= staleness + 2 /\ o <= conf.max + 2
      /\ at = "get" => o <= conf.max + 1
      /\ sync = "counting" => w <= counted + 1
  BY DEF CountInv
<1>7. ~ShouldPause => staleness < conf.max
  BY <1>3 DEF ShouldPause
<1>8. p <= staleness' + 2 /\ p <= conf.max + 2 /\ (at' = "get" => p <= conf.max + 1)
  <2>1. CASE ProcessorTakesPending
    <3>1. /\ at = "get" \/ ~ShouldPause
          /\ staleness' = staleness + 1 /\ at' # "get"
      BY <2>1 DEF ProcessorTakesPending
    <3>2. /\ IsFiniteSet(Outs \cup {got'})
          /\ Cardinality(Outs \cup {got'}) \in {o, o + 1}
      BY <1>2, FS_AddElement
    <3>3. p \in Nat /\ p <= Cardinality(Outs \cup {got'})
      BY <2>1, <3>2, CountsShrink, AtMost DEF RunInv
    <3> HIDE DEF o, p
    <3> QED BY <1>2, <1>3, <1>6, <1>7, <3>1, <3>2, <3>3
  <2>2. CASE ProcessorWaitsForPending
    <3>1. ~ShouldPause /\ staleness' = staleness /\ ~ProcessorTakesPending
      <4>1. ~ShouldPause /\ staleness' = staleness /\ got = fed
        BY <2>2 DEF ProcessorWaitsForPending, procRest
      <4>2. got \in Int /\ got = fed BY <4>1, TotalAssumption DEF RunInv, PlaceInv, PlaceTypes, End
      <4> QED BY <4>1, <4>2 DEF ProcessorTakesPending
    <3> HIDE DEF o, p
    <3> QED BY <1>2, <1>3, <1>4, <1>6, <1>7, <3>1
  <2>3. CASE UpdateEnds(tpc = "waitFinal")
    <3>1. sync = "counting" /\ staleness' = counted + Len(mq) /\ at' = at
          /\ ~ProcessorTakesPending
      <4>1. sync = "counting" /\ staleness' = counted + Len(mq) /\ at' = at /\ sync' # "counting"
        BY <2>3 DEF UpdateEnds, syncRest
      <4> QED BY <4>1 DEF ProcessorTakesPending, procRest
    <3>2. o <= w + Len(mq) + 1 /\ Len(mq) \in Nat BY OutsNearly
    <3> HIDE DEF o, w, p
    <3> QED BY <1>2, <1>3, <1>4, <1>6, <3>1, <3>2
  <2>4. CASE CountQuiet /\ ~ProcessorTakesPending
    <3>1. staleness' = staleness /\ (at' = "get" => at = "get") BY <2>4 DEF CountQuiet
    <3> HIDE DEF o, p
    <3> QED BY <1>2, <1>3, <1>4, <1>6, <2>4, <3>1
  <2>5. CASE UpdateBegins(weights) /\ ~ProcessorTakesPending
    <3>1. staleness' = staleness /\ at' = at BY <2>5 DEF UpdateBegins, syncRest
    <3> HIDE DEF o, p
    <3> QED BY <1>2, <1>3, <1>4, <1>6, <2>5, <3>1
  <2> QED BY <2>1, <2>2, <2>3, <2>4, <2>5, CountQuietOthers
<1>9. sync' = "counting" => v <= counted' + 1
  <2>1. CASE UpdateBegins(weights)
    <3>1. counted' = Counted BY <2>1 DEF UpdateBegins
    <3>2. w <= Counted + 1 /\ Counted \in Nat BY CountedNearly
    <3> HIDE DEF v, w
    <3> QED BY <1>2, <1>3, <1>5, <2>1, <3>1, <3>2
  <2>2. CASE UpdateEnds(tpc = "waitFinal") BY <2>2 DEF UpdateEnds
  <2>3. CASE ~UpdateBegins(weights) /\ ~UpdateEnds(tpc = "waitFinal")
    <3>1. counted' = counted /\ (sync' = "counting" => sync = "counting")
      BY <2>3, CountQuietOthers DEF CountQuiet, ProcessorTakesPending, ProcessorWaitsForPending,
         procRest
    <3> HIDE DEF v, w
    <3> QED BY <1>2, <1>3, <1>5, <1>6, <3>1
  <2> QED BY <2>1, <2>2, <2>3
<1> QED BY <1>3, <1>8, <1>9 DEF CountInv

LEMMA CountInit == Init => CountInv
<1> SUFFICES ASSUME Init PROVE CountInv OBVIOUS
<1>1. PlaceInv BY PlaceInit
<1>2. Taken = 0 BY TotalAssumption DEF Init, RollInit, Taken, End
<1>3. Outs = {} /\ Work = {} BY <1>1, <1>2, OutsAndWork DEF OutsSplit
<1>4. Cardinality(Outs) = 0 /\ Cardinality(Work) = 0 BY <1>3, FS_EmptySet
<1>5. staleness = 0 /\ counted = 0 /\ conf.max \in Nat
  BY <1>1, SettingFacts DEF Init, RollInit
<1> QED BY <1>4, <1>5 DEF CountInv

(* However the calls of the synchronizer, the consumer and the processor    *)
(* interleave, and whatever the settings, no more than                      *)
(* max_required_samples + 2 samples are ever under way                      *)
(* (fully_async_rollouter.py: _should_pause_generation reads a count that   *)
(* update_param_version makes in two parts).                                *)
THEOREM FewUnderWay == Spec => []OutstandingBound
<1>1. RunInv /\ CountInv => OutstandingBound BY DEF CountInv, Outs, OutstandingBound
<1> QED BY RunInit, RunStep, CountInit, CountStep, <1>1, PTL DEF Spec

---------------------------------------------------------------------------
(* Synchronous mode                                                        *)

\* from the last training step of a version, or the end of the loop, until
\* update_param_version has counted again
Syncing ==
  \/ tpc \in {"waitLast", "syncing"}
  \/ sync \in {"pauseCall", "pauseLock", "cancelling", "gathering", "quiet",
               "updateCall", "updateLock", "counting"}

\* the processor takes nothing more
NoMore == got = End \/ at = "dead"

\* samples of this version that the trainer has collected
Collected == (local - 1) * conf.required + Len(batch)

Idle == Running = {} /\ Rolled = {} /\ held = NoSample /\ batch = <<>>

\* the processor will look for a done task where there is none, or has
Stuck == at = "dead" \/ (lk \in {"queued", "in"} /\ at \in Loops /\ ActiveTasks = 0)

\* Nothing is under way while the weights are to be changed, and nothing new
\* gets under way until it has been counted.
SyncingInv ==
  Syncing => /\ Idle /\ local = 1
             /\ cancelq = <<>> \/ at = "done"
             /\ NoMore \/ (staleness >= conf.max /\ at # "get")
             /\ NoMore => Cardinality(Outs) <= conf.max - 1

\* Otherwise what is under way and collected is counted in full.
CollectingInv ==
  ~Syncing =>
    /\ NoMore => Collected + Cardinality(Outs) <= conf.max - 1
    /\ ~NoMore => /\ Collected + Cardinality(Outs) <= staleness
                  /\ staleness <= conf.max
                  /\ at = "get" => staleness < conf.max

CountingInv ==
  /\ sync \in {"quiet", "updateCall", "updateLock"} => settled = 0
  /\ sync = "counting" => counted = 0 \/ at = "done"
  /\ sync \in {"updateCall", "updateLock", "counting"} =>
       tpc \in {"validate", "collect"} \/ main # "stream"

BatchInv ==
  Len(batch) <= conf.required /\ (tpc = "train" <=> Len(batch) = conf.required)

\* How the rollouter ends: the processor, then the stream, then the trainer.
EndingInv ==
  /\ Stuck => Outs = {} /\ batch = <<>>
  /\ at = "done" => Running = {}
  /\ got = End => at \in {"end", "done", "dead"}
  /\ at \in {"end", "done"} => got = End
  /\ main # "stream" => /\ at \in {"done", "dead"} /\ Running = {}
                        /\ resultq = <<>> /\ inflight = NoSample /\ held = NoSample
  /\ End \in Range(mq) => main # "stream" /\ mq[Len(mq)] = End
  /\ tpc \in {"final", "waitFinal", "ended"} \/ last => main # "stream"
  /\ tpc \in {"final", "waitFinal", "ended"} => Rolled = {} /\ batch = <<>>

AgesInv ==
  /\ \A s \in Running \cup Rolled \cup Range(batch) : born[s] = weights
  /\ \A s \in Range(cancelq) : born[s] = weights \/ at = "done"
  /\ held # NoSample => born[held] \in {None, weights}
  /\ \A s \in Samples : s > got => born[s] = None

\* outside the lock's reach
FreeInv == at \in {"top", "get"} => lk = "free"

SyncInv ==
  /\ dropped = {} /\ FreeInv
  /\ SyncingInv /\ CollectingInv /\ CountingInv /\ BatchInv /\ EndingInv /\ AgesInv

\* the samples collected of a version, in the arithmetic of its batches
LEMMA BatchArithmetic ==
  ASSUME NEW r \in Nat \ {0}, NEW t \in Nat \ {0}, NEW l \in 1 .. t
  PROVE  /\ (l - 1) * r \in Nat /\ (l - 1) * r <= r * t - r
         /\ (l + 1 - 1) * r = (l - 1) * r + r /\ (l = t => (l - 1) * r = r * t - r)
         /\ (1 - 1) * r = 0
<1>1. (l - 1) * r \in Nat BY SMT
<1>2. (l + 1 - 1) * r = (l - 1) * r + r BY SMT
<1>3. (t - 1) * r = r * t - r BY SMT
<1>4. (l - 1) * r <= (t - 1) * r
  <2> DEFINE a == l - 1
             d == t - l
  <2>1. a \in Nat /\ d \in Nat /\ a + d = t - 1 OBVIOUS
  <2> HIDE DEF a, d
  <2>2. (a + d) * r = a * r + d * r /\ d * r \in Nat /\ a * r \in Nat BY <2>1, SMT
  <2>3. a * r <= (a + d) * r BY <2>2, SMT
  <2> QED BY <2>1, <2>3 DEF a
<1>5. (1 - 1) * r = 0 BY SMT
<1> QED BY <1>1, <1>2, <1>3, <1>4, <1>5

\* what the settings, the counts and the batch are in synchronous mode
SyncFacts ==
  /\ conf.max \in Nat \ {0} /\ conf.required \in Nat \ {0} /\ conf.trigger \in Nat \ {0}
  /\ local \in 1 .. conf.trigger
  /\ (local - 1) * conf.required \in Nat
  /\ (local - 1) * conf.required <= conf.max - conf.required
  /\ (local + 1 - 1) * conf.required = (local - 1) * conf.required + conf.required
  /\ local = conf.trigger => (local - 1) * conf.required = conf.max - conf.required
  /\ (1 - 1) * conf.required = 0
  /\ Len(batch) \in Nat /\ (Len(batch) = 0 <=> batch = <<>>) /\ Collected \in Nat
  /\ staleness \in Nat /\ Cardinality(Outs) \in Nat
  /\ Cardinality(Outs) = 0 <=> Outs = {}
  /\ Outs \subseteq Samples /\ Outs = (1 .. Taken) \ Gone /\ IsFiniteSet(Outs)

LEMMA SyncKnown == RunInv /\ Synchronous => SyncFacts
<1> SUFFICES ASSUME RunInv, Synchronous PROVE SyncFacts OBVIOUS
<1>1. /\ conf.max \in Nat \ {0} /\ conf.required \in Nat \ {0} /\ conf.trigger \in Nat \ {0}
      /\ conf.max = conf.required * conf.trigger
      /\ local \in 1 .. conf.trigger /\ batch \in Seq(Samples) /\ staleness \in Nat
  BY SettingFacts DEF RunInv, Synchronous, TrainTypes, PlaceInv, PlaceTypes, CountTypes
<1>2. /\ (local - 1) * conf.required \in Nat
      /\ (local - 1) * conf.required <= conf.max - conf.required
      /\ (local + 1 - 1) * conf.required = (local - 1) * conf.required + conf.required
      /\ local = conf.trigger => (local - 1) * conf.required = conf.max - conf.required
      /\ (1 - 1) * conf.required = 0
  BY <1>1, BatchArithmetic
<1>3. Len(batch) \in Nat /\ (Len(batch) = 0 <=> batch = <<>>) BY <1>1
<1>4. Collected \in Nat BY <1>2, <1>3 DEF Collected
<1>5. IsFiniteSet(Outs) /\ Cardinality(Outs) \in Nat BY CountsFinite DEF RunInv
<1>6. Cardinality(Outs) = 0 <=> Outs = {} BY <1>5, FS_EmptySet
<1>7. Outs \subseteq Samples /\ Outs = (1 .. Taken) \ Gone
  BY OutsAndWork, TotalAssumption DEF RunInv, OutsSplit, Samples
<1> QED BY <1>1, <1>2, <1>3, <1>4, <1>5, <1>6, <1>7 DEF SyncFacts

LEMMA SyncKnownNext == RunInv' /\ Synchronous' => SyncFacts'
BY SyncKnown, PTL

\* a step that changes what is under way or collected in nothing
quietVars == <<conf, dropped, batch, tpc, local, staleness, got, resultq, inflight, held,
               cancelq, mq, main, last, born, weights>>

SyncQuiet ==
  /\ UNCHANGED quietVars /\ Running' = Running
  /\ Syncing' <=> Syncing
  /\ CountingInv' /\ FreeInv'
  /\ Stuck' => Outs = {} /\ batch = <<>>
  /\ at' = "get" => at = "get" \/ (staleness < conf.max /\ at = "top")
  /\ at \in {"done", "dead"} => at' = at
  /\ at = "end" => at' \in {"end", "done", "dead"}
  /\ at' \in {"end", "done"} => at \in {"end", "done"}
  /\ at' = "done" => at = "done" \/ Running = {}

LEMMA SyncQuietKeeps ==
  ASSUME RunInv, Synchronous, SyncInv, SyncQuiet
  PROVE  SyncInv'
<1>1. SyncFacts BY SyncKnown
<1>2. /\ Outs' = Outs /\ Rolled' = Rolled /\ Idle' = Idle /\ Collected' = Collected
  BY DEF SyncQuiet, quietVars, Outs, Rolled, Idle, Collected
<1>3. (NoMore => NoMore') /\ (NoMore' => NoMore \/ (Outs = {} /\ batch = <<>>))
  BY DEF SyncQuiet, quietVars, NoMore, Stuck
<1>4. SyncingInv'
  <2>1. CASE ~Syncing BY <2>1 DEF SyncQuiet, SyncingInv
  <2>2. CASE Syncing
    <3>1. /\ Idle /\ local = 1 /\ (cancelq = <<>> \/ at = "done")
          /\ NoMore \/ (staleness >= conf.max /\ at # "get")
          /\ NoMore => Cardinality(Outs) <= conf.max - 1
      BY <2>2 DEF SyncInv, SyncingInv
    <3>2. NoMore' \/ (staleness' >= conf.max /\ at' # "get")
      BY <1>1, <1>3, <3>1 DEF SyncQuiet, quietVars, SyncFacts
    <3>3. Outs = {} => Cardinality(Outs) <= conf.max - 1 BY <1>1 DEF SyncFacts
    <3>4. NoMore' => Cardinality(Outs) <= conf.max - 1 BY <1>3, <3>1, <3>3
    <3> QED BY <1>2, <3>1, <3>2, <3>4 DEF SyncQuiet, quietVars, SyncingInv
  <2> QED BY <2>1, <2>2
<1>5. CollectingInv'
  <2>1. CASE Syncing BY <2>1 DEF SyncQuiet, CollectingInv
  <2>2. CASE ~Syncing
    <3>1. /\ NoMore => Collected + Cardinality(Outs) <= conf.max - 1
          /\ ~NoMore => /\ Collected + Cardinality(Outs) <= staleness
                        /\ staleness <= conf.max
                        /\ at = "get" => staleness < conf.max
      BY <2>2 DEF SyncInv, CollectingInv
    <3>2. Outs = {} /\ batch = <<>> => Collected + Cardinality(Outs) <= conf.max - 1
      BY <1>1 DEF SyncFacts, Collected
    <3> QED BY <1>2, <1>3, <3>1, <3>2 DEF SyncQuiet, quietVars, CollectingInv
  <2> QED BY <2>1, <2>2
<1>6. EndingInv' BY <1>2 DEF SyncQuiet, quietVars, SyncInv, EndingInv
<1>7. AgesInv' BY <1>2 DEF SyncQuiet, quietVars, SyncInv, AgesInv
<1>8. dropped' = {} /\ BatchInv' /\ CountingInv' /\ FreeInv'
  BY DEF SyncQuiet, quietVars, SyncInv, BatchInv
<1> QED BY <1>4, <1>5, <1>6, <1>7, <1>8 DEF SyncInv

LEMMA RangeEmpty ==
  ASSUME NEW S, NEW q \in Seq(S), Range(q) = {} PROVE q = <<>>
<1>1. Len(q) \in Nat /\ DOMAIN q = 1 .. Len(q) /\ (Len(q) = 0 => q = <<>>) OBVIOUS
<1>2. CASE Len(q) = 0 BY <1>1, <1>2
<1>3. CASE Len(q) # 0
  <2>1. 1 \in DOMAIN q BY <1>1, <1>3
  <2>2. q[1] \in Range(q) BY <2>1 DEF Range
  <2> QED BY <2>2
<1> QED BY <1>2, <1>3

ActiveKnown ==
  /\ ActiveTasks \in Nat /\ settled \in Nat
  /\ ActiveTasks = 0 <=> Running = {} /\ settled = 0

LEMMA NoneRunning == RunInv => ActiveKnown
<1> SUFFICES ASSUME RunInv PROVE ActiveKnown OBVIOUS
<1>1. /\ IsFiniteSet(Running) /\ Cardinality(Running) \in Nat
      /\ ActiveTasks = Cardinality(Running) + settled /\ settled \in Nat
  BY ActiveTyped DEF RunInv, ProcTypes
<1>2. Cardinality(Running) = 0 <=> Running = {} BY <1>1, FS_EmptySet
<1> QED BY <1>1, <1>2 DEF ActiveKnown

LEMMA NoneRunningNext == RunInv' => ActiveKnown'
BY NoneRunning, PTL

LEMMA SyncProcessor ==
  ASSUME RunInv, Synchronous, SyncInv, UNCHANGED trainVars,
         \/ ProcessorSeesPause \/ ProcessorWaitsForPending \/ ProcessorLocks
         \/ ProcessorGetsLock \/ ProcessorPauses \/ ProcessorLeavesLoop
         \/ ProcessorWaitsForTask \/ ProcessorSeesTaskDone
         \/ ProcessorFindsNoTask \/ ProcessorParks \/ ProcessorUnparks
  PROVE  SyncQuiet
<1> USE DEF procRest, trainVars, queueVars
<1>0. SyncFacts /\ conf.conc \in Nat \ {0} BY SyncKnown, SettingFacts DEF RunInv
<1>1. /\ ActiveTasks \in Nat /\ settled \in Nat
      /\ ActiveTasks = 0 <=> Running = {} /\ settled = 0
  BY NoneRunning DEF ActiveKnown
<1>2. /\ UNCHANGED <<quietVars, task, sync, counted>> /\ settled' \in {settled, 0}
      /\ settled' # settled => lk' = "free"
  BY DEF ProcessorSeesPause, ProcessorWaitsForPending, ProcessorLocks,
         ProcessorGetsLock, ProcessorPauses, ProcessorLeavesLoop,
         ProcessorWaitsForTask, ProcessorSeesTaskDone, ProcessorFindsNoTask,
         ProcessorParks, ProcessorUnparks, quietVars
<1>3. Running' = Running /\ (Syncing' <=> Syncing) BY <1>2 DEF Running, Syncing, quietVars
<1>5. settled' = settled => ActiveTasks' = ActiveTasks BY <1>2 DEF ActiveTasks
<1>6. Stuck => Outs = {} /\ batch = <<>> BY DEF SyncInv, EndingInv
<1> SUFFICES /\ FreeInv' /\ (Stuck' => Stuck)
             /\ at' = "get" => at = "get" \/ (staleness < conf.max /\ at = "top")
             /\ at \in {"done", "dead"} => at' = at
             /\ at = "end" => at' \in {"end", "done", "dead"}
             /\ at' \in {"end", "done"} => at \in {"end", "done"}
             /\ at' = "done" => at = "done" \/ Running = {}
  <2>1. ASSUME at = "done" => at' = "done" PROVE CountingInv'
    BY <1>2, <2>1 DEF SyncInv, CountingInv, quietVars
  <2> QED BY <1>2, <1>3, <1>6, <2>1 DEF SyncQuiet
<1> USE DEF FreeInv
<1>a. FreeInv BY DEF SyncInv
<1>7. CASE ProcessorSeesPause BY <1>7 DEF ProcessorSeesPause, Stuck, Loops
<1>8. CASE ProcessorWaitsForPending
  <2>1. staleness < conf.max BY <1>0, <1>8 DEF ProcessorWaitsForPending, ShouldPause, SyncFacts
  <2> QED BY <1>a, <1>8, <2>1 DEF ProcessorWaitsForPending, Stuck, Loops
<1>9. CASE ProcessorLocks
  <2>1. at' = at /\ at \notin {"dead", "top", "get"} /\ (at \in Loops => ActiveTasks > 0)
    BY <1>0, <1>1, <1>9 DEF ProcessorLocks, LoopGoesOn, Loops
  <2>2. settled' = settled BY <1>9 DEF ProcessorLocks
  <2> QED BY <1>1, <1>5, <2>1, <2>2 DEF Stuck
<1>10. CASE ProcessorGetsLock
  BY <1>5, <1>a, <1>10 DEF ProcessorGetsLock, Stuck
<1>11. CASE ProcessorPauses BY <1>11 DEF ProcessorPauses, Stuck
<1>12. CASE ProcessorLeavesLoop
  <2>1. /\ lk' = "free" /\ at \in Loops /\ at' = AfterLoop /\ ~LoopGoesOn
    BY <1>12 DEF ProcessorLeavesLoop
  <2>2. \/ at \in {"drain", "limit"} /\ at' \in {"park", "submit"}
        \/ at = "end" /\ at' = "done" /\ ~(ActiveTasks > 0)
    BY <2>1 DEF Loops, AfterLoop, LoopGoesOn
  <2> QED BY <1>1, <2>1, <2>2 DEF Stuck, Loops
<1>13. CASE ProcessorWaitsForTask
  <2>1. at \in Loops /\ at' = at /\ lk' = "wait" BY <1>13 DEF ProcessorWaitsForTask
  <2> QED BY <2>1 DEF Stuck, Loops
<1>14. CASE ProcessorSeesTaskDone
  <2>1. at' = at /\ lk' = "free" BY <1>14 DEF ProcessorSeesTaskDone
  <2> QED BY <2>1 DEF Stuck, Loops
<1>15. CASE ProcessorFindsNoTask
  <2>1. lk = "in" /\ at \in Loops /\ ActiveTasks = 0 /\ at' \in {at, "dead"}
    BY <1>15 DEF ProcessorFindsNoTask
  <2> QED BY <2>1 DEF Stuck, Loops
<1>16. CASE ProcessorParks \/ ProcessorUnparks
  <2>1. /\ at \in {"park", "submit"} /\ at' \in {at, "top"}
        /\ at' # at => lk' = "free"
    BY <1>16 DEF ProcessorParks, ProcessorUnparks
  <2> QED BY <2>1 DEF Stuck, Loops
<1> QED BY <1>7, <1>8, <1>9, <1>10, <1>11, <1>12, <1>13, <1>14, <1>15, <1>16

\* Nothing is waited for or counted while the weights are changed.
LEMMA SyncCalls ==
  ASSUME RunInv, Synchronous, SyncInv, UNCHANGED trainVars,
         \/ SyncQueues \/ PauseBegins \/ PauseCancels \/ PauseEnds
         \/ UpdateBegins(weights) \/ ResumeBegins \/ ResumeEnds
  PROVE  SyncQuiet
<1> USE DEF syncRest, trainVars
<1>0. SyncFacts BY SyncKnown
<1>1. /\ ActiveTasks \in Nat /\ settled \in Nat
      /\ ActiveTasks = 0 <=> Running = {} /\ settled = 0
  BY NoneRunning DEF ActiveKnown
<1>2. /\ UNCHANGED <<quietVars, at>> /\ (lk' \in {"queued", "in"} <=> lk \in {"queued", "in"})
      /\ Running' = Running /\ lk' \in {lk, "free"}
  BY DEF SyncQueues, PauseBegins, PauseCancels, PauseEnds, UpdateBegins, ResumeBegins,
         ResumeEnds, NotifyAll, Running, quietVars
<1>6. Stuck => Outs = {} /\ batch = <<>> BY DEF SyncInv, EndingInv
<1>9. FreeInv' BY <1>2 DEF SyncInv, FreeInv
<1>3. ASSUME Syncing' <=> Syncing, CountingInv', settled' = settled PROVE SyncQuiet
  <2>1. ActiveTasks' = ActiveTasks BY <1>2, <1>3 DEF ActiveTasks, Running
  <2>2. Stuck' => Stuck BY <1>2, <2>1 DEF Stuck
  <2> QED BY <1>2, <1>3, <1>6, <1>9, <2>2 DEF SyncQuiet
<1>4. UNCHANGED <<tpc, main, at>> BY <1>2 DEF quietVars
<1>5. CASE SyncQueues \/ PauseBegins \/ PauseCancels \/ ResumeBegins \/ ResumeEnds
  <2>1. settled' = settled /\ counted' = counted
    BY <1>5 DEF SyncQueues, PauseBegins, PauseCancels, ResumeBegins, ResumeEnds
  <2>2. \/ sync \in {"pauseCall", "pauseLock"} /\ sync' \in {"pauseLock", "cancelling", "gathering"}
        \/ sync = "updateCall" /\ sync' = "updateLock"
        \/ sync = "cancelling" /\ sync' = "gathering"
        \/ sync \in {"resumeCall", "resumeLock", "resuming"}
           /\ sync' \in {"resumeLock", "resuming", "none"}
    BY <1>5
       DEF SyncQueues, PauseBegins, PauseCancels, ResumeBegins, ResumeEnds, SyncEnters, Enters,
           Queued
  <2>3. CountingInv' /\ (Syncing' <=> Syncing)
    BY <1>4, <2>1, <2>2 DEF SyncInv, CountingInv, Syncing
  <2> QED BY <1>3, <2>1, <2>3
<1>7. CASE PauseEnds
  <2>1. /\ sync = "gathering" /\ sync' = "quiet" /\ settled' = 0
    BY <1>7 DEF PauseEnds
  <2>2. CountingInv' /\ Syncing /\ Syncing' BY <2>1 DEF CountingInv, Syncing
  <2>3. Idle /\ (cancelq = <<>> \/ at = "done") BY <2>2 DEF SyncInv, SyncingInv
  <2>4. Stuck' => Outs = {} /\ batch = <<>>
    <3>1. CASE at = "dead" BY <1>6, <3>1 DEF Stuck
    <3>2. CASE at \in Loops
      <4>1. cancelq = <<>> BY <2>3, <3>2 DEF Loops
      <4> QED BY <2>3, <4>1, EmptyRange DEF Idle, Outs
    <3> QED BY <1>2, <3>1, <3>2 DEF Stuck
  <2> QED BY <1>2, <1>9, <2>2, <2>4 DEF SyncQuiet
<1>8. CASE UpdateBegins(weights)
  <2>1. /\ sync \in {"updateCall", "updateLock"} /\ sync' = "counting"
        /\ counted' = Counted /\ settled' = settled
    BY <1>8 DEF UpdateBegins, SyncEnters, Enters, Queued
  <2>2. Syncing /\ Syncing' BY <2>1 DEF Syncing
  <2>3. Idle /\ (cancelq = <<>> \/ at = "done") BY <2>2 DEF SyncInv, SyncingInv
  <2>4. settled = 0 BY <2>1 DEF SyncInv, CountingInv
  <2>5. ActiveTasks = 0 BY <1>1, <2>3, <2>4 DEF Idle
  <2>6. resultq = <<>>
    <3>1. Range(resultq) = {} /\ resultq \in Seq(Samples)
      BY <2>3 DEF Idle, Rolled, RunInv, PlaceInv, PlaceTypes
    <3> QED BY <3>1, RangeEmpty
  <2>7. cancelq = <<>> => Counted = 0 BY <2>5, <2>6 DEF Counted
  <2>8. CountingInv' BY <1>4, <2>1, <2>3, <2>7 DEF SyncInv, CountingInv
  <2> QED BY <1>3, <2>1, <2>2, <2>8
<1> QED BY <1>5, <1>7, <1>8

LEMMA SyncOthers ==
  ASSUME RunInv, Synchronous, SyncInv,
         \/ UNCHANGED trainVars /\ (FeedSamples \/ MonitorQueues \/ MonitorUnpauses \/ MonitorEnds)
         \/ UNCHANGED vars
  PROVE  SyncQuiet
<1> USE DEF procVars, queueVars, monRest, trainVars
<1>1. /\ UNCHANGED <<quietVars, at, task, settled, sync, counted>>
      /\ lk' \in {"queued", "in"} <=> lk \in {"queued", "in"}
      /\ lk' \in {lk, "free"}
  BY DEF FeedSamples, MonitorQueues, MonitorUnpauses, MonitorEnds, NotifyAll, quietVars,
     vars, rollVars
<1>2. Stuck' => Stuck BY <1>1 DEF Stuck, ActiveTasks
<1>3. Stuck => Outs = {} /\ batch = <<>> BY DEF SyncInv, EndingInv
<1>4. CountingInv' /\ FreeInv' /\ (Syncing' <=> Syncing)
  BY <1>1 DEF SyncInv, CountingInv, FreeInv, Syncing, quietVars
<1>5. Running' = Running BY <1>1 DEF Running
<1> QED BY <1>1, <1>2, <1>3, <1>4, <1>5 DEF SyncQuiet

\* A cancelled sample is taken again only while nothing is synchronized.
LEMMA SyncTakesCancelled ==
  ASSUME RunInv, Synchronous, SyncInv, UNCHANGED trainVars, ProcessorTakesCancelled
  PROVE  SyncInv'
<1> USE DEF trainVars, queueVars
<1>0. SyncFacts BY SyncKnown
<1>1. /\ held = NoSample /\ cancelq # <<>> /\ cancelq \in Seq(Samples) /\ IsInjective(cancelq)
      /\ held' = Head(cancelq) /\ cancelq' = Tail(cancelq)
      /\ at = "top" /\ at' = "limit"
  BY DEF RunInv, PlaceInv, PlaceTypes, HeldInv, InjectiveInv, ProcessorTakesCancelled
<1>2. /\ held' \in Samples /\ held' \in Range(cancelq)
      /\ Range(cancelq') = Range(cancelq) \ {held'}
  BY <1>1, HeadTaken
<1>3. /\ UNCHANGED <<conf, dropped, batch, tpc, local, staleness, got, resultq, inflight, mq,
                     main, last, born, weights, task, settled, sync, counted, lk>>
  BY DEF ProcessorTakesCancelled
<1>4. /\ Running' = Running /\ Rolled' = Rolled /\ Collected' = Collected
      /\ (Syncing' <=> Syncing) /\ ActiveTasks' = ActiveTasks
  BY <1>3 DEF Running, Rolled, Collected, Syncing, ActiveTasks
<1>5. Outs' = Outs
  BY <1>1, <1>2, <1>4, TotalAssumption DEF Outs, NoSample, Samples
<1>6. ~NoMore /\ ~NoMore' /\ main = "stream"
  BY <1>1, <1>3 DEF NoMore, SyncInv, EndingInv
<1>7. ~Syncing BY <1>1, <1>6 DEF SyncInv, SyncingInv
<1>8. CollectingInv' BY <1>1, <1>3, <1>4, <1>5, <1>6, <1>7 DEF SyncInv, CollectingInv
<1>9. SyncingInv' /\ CountingInv' BY <1>3, <1>4, <1>7 DEF SyncInv, SyncingInv, CountingInv, Syncing
<1>10. dropped' = {} /\ BatchInv' /\ FreeInv' BY <1>1, <1>3 DEF SyncInv, BatchInv, FreeInv
<1>11. EndingInv'
  <2>1. lk = "free" BY <1>1 DEF SyncInv, FreeInv
  <2> QED BY <1>1, <2>1, <1>3, <1>4, <1>6 DEF SyncInv, EndingInv, Stuck, Loops
<1>12. AgesInv'
  BY <1>1, <1>2, <1>3, <1>4 DEF SyncInv, AgesInv
<1> QED BY <1>8, <1>9, <1>10, <1>11, <1>12 DEF SyncInv

\* Each sample taken from the pending queue is counted at once.
LEMMA SyncTakesPending ==
  ASSUME RunInv, Synchronous, SyncInv, UNCHANGED trainVars, ProcessorTakesPending
  PROVE  SyncInv'
<1> USE DEF trainVars, queueVars, procRest
<1>0. SyncFacts BY SyncKnown
<1>1. /\ at \in {"top", "get"} /\ (at = "top" => ~ShouldPause /\ cancelq = <<>>)
      /\ got < fed /\ got' = got + 1 /\ staleness' = staleness + 1
      /\ held' = (IF got' = End THEN NoSample ELSE got')
      /\ at' = (IF got' = End THEN "end" ELSE "limit")
      /\ UNCHANGED <<conf, dropped, batch, tpc, local, resultq, inflight, cancelq, mq,
                     main, last, born, weights, task, settled, sync, counted, lk>>
  BY DEF ProcessorTakesPending
<1>2. /\ got \in Nat /\ fed <= End /\ fed \in Nat /\ End \in Nat /\ got' \in Nat /\ End = Total + 1
      /\ Total \in Nat /\ born \in [Samples -> Nat \cup {None}]
  BY <1>1, TotalAssumption DEF RunInv, PlaceInv, PlaceTypes, ProcTypes, End
<1>3. held = NoSample /\ lk = "free"
  BY <1>1 DEF RunInv, PlaceInv, HeldInv, SyncInv, FreeInv
<1>4. ~NoMore /\ main = "stream" /\ (NoMore' <=> got' = End)
  BY <1>1, <1>2 DEF NoMore, SyncInv, EndingInv
<1>5. ~Syncing
  <2>1. at = "top" => staleness < conf.max BY <1>0, <1>1 DEF ShouldPause, SyncFacts
  <2> QED BY <1>0, <1>1, <1>4, <2>1 DEF SyncInv, SyncingInv, SyncFacts
<1>6. /\ Running' = Running /\ Rolled' = Rolled /\ Collected' = Collected
      /\ (Syncing' <=> Syncing)
  BY <1>1 DEF Running, Rolled, Collected, Syncing
<1>7. /\ Collected + Cardinality(Outs) <= staleness /\ staleness < conf.max
      /\ Collected \in Nat /\ staleness \in Nat /\ conf.max \in Nat /\ Cardinality(Outs) \in Nat
  <2>1. at = "top" => staleness < conf.max BY <1>0, <1>1 DEF ShouldPause, SyncFacts
  <2> QED BY <1>0, <1>1, <1>4, <1>5, <2>1 DEF SyncInv, CollectingInv, SyncFacts
<1>8. CollectingInv'
  <2>1. CASE got' = End
    <3>1. held' = held BY <1>1, <1>3, <2>1
    <3>2. Outs' = Outs BY <1>1, <1>6, <3>1 DEF Outs
    <3> QED BY <1>1, <1>4, <1>6, <1>7, <2>1, <3>2 DEF CollectingInv
  <2>2. CASE got' # End
    <3>1. {held'} \ {NoSample} = {got'} /\ {held} \ {NoSample} = {}
      BY <1>1, <1>2, <1>3, <2>2 DEF NoSample
    <3>2. Outs' = Outs \cup {got'} BY <1>1, <1>6, <3>1 DEF Outs
    <3>3. Cardinality(Outs') \in {Cardinality(Outs), Cardinality(Outs) + 1}
      BY <1>0, <3>2, FS_AddElement DEF SyncFacts
    <3> QED BY <1>1, <1>4, <1>6, <1>7, <2>2, <3>3 DEF CollectingInv
  <2> QED BY <2>1, <2>2
<1>9. SyncingInv' /\ CountingInv'
  BY <1>1, <1>5, <1>6 DEF SyncInv, SyncingInv, CountingInv, Syncing
<1>10. dropped' = {} /\ BatchInv' /\ FreeInv' BY <1>1 DEF SyncInv, BatchInv, FreeInv
<1>11. EndingInv'
  <2>1. ~Stuck' BY <1>1, <1>3 DEF Stuck
  <2> QED BY <1>1, <1>4, <1>6, <2>1 DEF SyncInv, EndingInv
<1>12. AgesInv'
  <2>1. held' # NoSample => held' \in Samples /\ held' > got
    BY <1>1, <1>2 DEF NoSample, Samples
  <2>2. \A s \in Samples : s > got' => s > got BY <1>1, <1>2 DEF Samples
  <2>3. at # "done" BY <1>1
  <2> QED BY <1>1, <1>6, <2>1, <2>2, <2>3 DEF SyncInv, AgesInv
<1> QED BY <1>8, <1>9, <1>10, <1>11, <1>12 DEF SyncInv

\* A generation starts with the weights that the others have.
LEMMA SyncSubmits ==
  ASSUME RunInv, Synchronous, SyncInv, UNCHANGED trainVars, ProcessorSubmits
  PROVE  SyncInv'
<1> USE DEF trainVars, queueVars
<1>0. SyncFacts /\ SyncFacts'
  <2>1. RunInv' BY RunStep DEF Next, RolloutStep, Rollouter, Processor
  <2>2. Synchronous' BY DEF Synchronous, ProcessorSubmits
  <2> QED BY <2>1, <2>2, SyncKnown, SyncKnownNext
<1>1. /\ lk = "in" /\ at = "submit" /\ lk' = "free" /\ at' = "top" /\ held' = NoSample
      /\ task' = [task EXCEPT ![held] = "gen"]
      /\ born' = [born EXCEPT ![held] = IF @ = None THEN weights ELSE @]
      /\ UNCHANGED <<conf, dropped, batch, tpc, local, staleness, got, resultq, inflight, cancelq, mq,
                     main, last, weights, settled, sync, counted>>
  BY DEF ProcessorSubmits
<1>2. /\ held \in Samples /\ held # NoSample /\ born \in [Samples -> Nat \cup {None}]
      /\ DOMAIN task = Samples /\ got \in Nat /\ held <= got
  <2>1. held # NoSample /\ held \in 0 .. Total /\ Total \in Nat
    BY <1>1, TotalAssumption DEF RunInv, PlaceInv, PlaceTypes, HeldInv
  <2>2. held \in Outs BY <2>1 DEF Outs
  <2>3. held \in 1 .. Taken /\ Taken <= got /\ got \in Nat
    <3>1. got \in Nat /\ got <= End /\ End = Total + 1 /\ Total \in Nat
      BY TotalAssumption DEF RunInv, PlaceInv, PlaceTypes, End
    <3>2. Taken <= got BY <3>1 DEF Taken
    <3> QED BY <1>0, <2>2, <3>1, <3>2 DEF SyncFacts
  <2>4. Taken \in 0 .. Total BY OutsAndWork DEF RunInv, OutsSplit
  <2> QED BY <2>1, <2>3, <2>4 DEF RunInv, ProcTypes, Samples, NoSample
<1>3. Running' = Running \cup {held} BY <1>1, <1>2 DEF Running
<1>4. /\ Rolled' = Rolled /\ Collected' = Collected /\ (Syncing' <=> Syncing)
      /\ (NoMore' <=> NoMore) /\ ~Syncing
  BY <1>1, <1>2 DEF Rolled, Collected, Syncing, NoMore, SyncInv, SyncingInv, Idle
<1>5. Outs' = Outs BY <1>1, <1>2, <1>3, <1>4 DEF Outs
<1>6. main = "stream" BY <1>1 DEF SyncInv, EndingInv
<1>8. CollectingInv' BY <1>0, <1>1, <1>4, <1>5 DEF SyncInv, CollectingInv
<1>9. SyncingInv' /\ CountingInv'
  BY <1>1, <1>4 DEF SyncInv, SyncingInv, CountingInv, Syncing
<1>10. dropped' = {} /\ BatchInv' /\ FreeInv' BY <1>1 DEF SyncInv, BatchInv, FreeInv
<1>11. EndingInv'
  <2>1. ~Stuck' BY <1>1 DEF Stuck
  <2> QED BY <1>1, <1>4, <1>6, <2>1 DEF SyncInv, EndingInv
<1>12. AgesInv'
  <2>1. born[held] \in {None, weights} /\ None = None BY <1>2 DEF SyncInv, AgesInv
  <2>2. /\ born'[held] = weights
        /\ \A s \in Samples \ {held} : born'[s] = born[s]
    BY <1>1, <1>2, <2>1
  <2>3. /\ Running \subseteq Samples /\ Rolled \subseteq Samples
        /\ Range(batch) \subseteq Samples /\ Range(cancelq) \subseteq Samples
    <3>1. Running \cup Rolled \cup Range(cancelq) \subseteq Outs BY DEF Outs
    <3>2. batch \in Seq(Samples) BY DEF RunInv, PlaceInv, PlaceTypes
    <3>3. Range(batch) \subseteq Samples BY <3>2 DEF Range
    <3> QED BY <1>0, <3>1, <3>3 DEF SyncFacts
  <2>4. at # "done" BY <1>1
  <2>5. \A s \in Running' \cup Rolled' \cup Range(batch') : born'[s] = weights'
    BY <1>1, <1>3, <1>4, <2>2, <2>3 DEF SyncInv, AgesInv
  <2>6. \A s \in Range(cancelq') : born'[s] = weights'
    BY <1>1, <2>2, <2>3, <2>4 DEF SyncInv, AgesInv
  <2>7. \A s \in Samples : s > got' => born'[s] = None
    <3>1. ~(held > got) BY <1>2 DEF Samples
    <3> QED BY <1>1, <2>2, <3>1 DEF SyncInv, AgesInv
  <2> QED BY <1>1, <2>5, <2>6, <2>7 DEF AgesInv
<1> QED BY <1>8, <1>9, <1>10, <1>11, <1>12 DEF SyncInv

\* A generation ends only while nothing is synchronized.
LEMMA SyncTaskEnds ==
  ASSUME RunInv, Synchronous, SyncInv, UNCHANGED trainVars, NEW s \in Samples,
         TaskCancelled(s) \/ TaskCompletes(s)
  PROVE  SyncInv'
<1> USE DEF trainVars, queueVars, procVars
<1>0. SyncFacts BY SyncKnown
<1>1. /\ s \in Running /\ task' = [task EXCEPT ![s] = "none"] /\ settled' = settled + 1
      /\ UNCHANGED <<conf, dropped, batch, tpc, local, staleness, got, inflight, mq, at, lk, held,
                     main, last, weights, born, sync, counted>>
  BY DEF TaskCancelled, TaskCompletes, Running
<1>2. /\ Running' = Running \ {s} /\ cancelq \in Seq(Samples) /\ resultq \in Seq(Samples)
      /\ IsInjective(cancelq) /\ IsInjective(resultq)
      /\ s \notin Range(cancelq) /\ s \notin Range(resultq)
  <2>1. PlaceInv BY DEF RunInv
  <2>2. s \in Places["task"] BY <1>1, PlaceFields
  <2>3. s \notin Range(cancelq) /\ s \notin Range(resultq)
    BY <2>1, <2>2, Apart, PlaceFields DEF Names
  <2> QED BY <1>1, <2>1, <2>3 DEF Running, PlaceInv, PlaceTypes, InjectiveInv
<1>3. /\ Collected' = Collected /\ (Syncing' <=> Syncing) /\ (NoMore' <=> NoMore)
      /\ ~Syncing /\ main = "stream" /\ at # "done" /\ at # "dead"
  <2>1. ~Syncing BY <1>1 DEF SyncInv, SyncingInv, Idle
  <2>2. main = "stream" /\ at # "done" BY <1>1 DEF SyncInv, EndingInv
  <2>3. at # "dead" BY <1>1 DEF SyncInv, EndingInv, Stuck, Outs
  <2> QED BY <1>1, <2>1, <2>2, <2>3 DEF Collected, Syncing, NoMore
<1>4. /\ Outs' = Outs
      /\ \/ Range(cancelq') = Range(cancelq) \cup {s} /\ Rolled' = Rolled /\ resultq' = resultq
         \/ cancelq' = cancelq /\ Rolled' = Rolled \cup {s}
  <2>1. CASE TaskCancelled(s)
    <3>1. cancelq' = Append(cancelq, s) /\ resultq' = resultq BY <2>1 DEF TaskCancelled
    <3>2. Range(cancelq') = Range(cancelq) \cup {s} BY <1>2, <3>1, NewPut
    <3>3. Rolled' = Rolled BY <1>1, <3>1 DEF Rolled
    <3> QED BY <1>1, <1>2, <3>1, <3>2, <3>3 DEF Outs
  <2>2. CASE TaskCompletes(s)
    <3>1. resultq' = Append(resultq, s) /\ cancelq' = cancelq BY <2>2 DEF TaskCompletes
    <3>2. Range(resultq') = Range(resultq) \cup {s} BY <1>2, <3>1, NewPut
    <3>3. Rolled' = Rolled \cup {s} BY <1>1, <3>1, <3>2 DEF Rolled
    <3> QED BY <1>1, <1>2, <3>1, <3>3 DEF Outs
  <2> QED BY <2>1, <2>2
<1>8. CollectingInv' BY <1>0, <1>1, <1>3, <1>4 DEF SyncInv, CollectingInv
<1>9. SyncingInv' /\ CountingInv'
  BY <1>1, <1>3 DEF SyncInv, SyncingInv, CountingInv, Syncing
<1>10. dropped' = {} /\ BatchInv' /\ FreeInv' BY <1>1 DEF SyncInv, BatchInv, FreeInv
<1>11. EndingInv'
  <2>1. ~Stuck'
    <3>1. ActiveTasks' # 0
      <4>1. RunInv' BY RunStep DEF Next, RolloutStep, Rollouter
      <4>2. settled \in Nat BY DEF RunInv, ProcTypes
      <4>3. settled' # 0 BY <1>1, <4>2
      <4>4. RunInv' => /\ ActiveTasks' \in Nat /\ settled' \in Nat
                       /\ ActiveTasks' = 0 <=> Running' = {} /\ settled' = 0
        BY NoneRunningNext DEF ActiveKnown
      <4> QED BY <4>1, <4>3, <4>4
    <3> QED BY <1>1, <1>3, <3>1 DEF Stuck
  <2>2. Running # {} BY <1>1
  <2>3. tpc \notin {"final", "waitFinal", "ended"} /\ End \notin Range(mq) /\ ~last
    BY <1>3 DEF SyncInv, EndingInv
  <2> QED BY <1>1, <1>3, <2>1, <2>3 DEF SyncInv, EndingInv
<1>12. AgesInv'
  BY <1>1, <1>2, <1>3, <1>4 DEF SyncInv, AgesInv
<1> QED BY <1>8, <1>9, <1>10, <1>11, <1>12 DEF SyncInv

LEMMA RangeExactly ==
  ASSUME NEW S, NEW q \in Seq(S), IsInjective(q)
  PROVE  /\ IsFiniteSet(Range(q)) /\ Len(q) \in Nat /\ Cardinality(Range(q)) = Len(q)
<1>1. Len(q) \in Nat /\ q \in [1 .. Len(q) -> Range(q)] /\ DOMAIN q = 1 .. Len(q) BY DEF Range
<1>2. q \in Surjection(1 .. Len(q), Range(q)) BY <1>1 DEF Surjection, Range
<1>3. q \in Injection(1 .. Len(q), Range(q)) BY <1>1 DEF Injection, IsInjective
<1>4. IsFiniteSet(1 .. Len(q)) /\ Cardinality(1 .. Len(q)) = Len(q) BY <1>1, FS_Interval
<1> QED BY <1>1, <1>2, <1>3, <1>4, FS_Surjection

LEMMA SyncConsumerTakes ==
  ASSUME RunInv, Synchronous, SyncInv, UNCHANGED trainVars, ConsumerTakes
  PROVE  SyncInv'
<1> USE DEF trainVars, queueVars, procVars
<1>1. /\ inflight = NoSample /\ resultq # <<>> /\ resultq \in Seq(Samples) /\ IsInjective(resultq)
      /\ inflight' = Head(resultq) /\ resultq' = Tail(resultq) /\ main = "stream"
      /\ UNCHANGED <<conf, dropped, batch, tpc, local, staleness, got, cancelq, mq, at, lk, held,
                     main, last, weights, born, sync, counted, task, settled>>
  BY DEF RunInv, PlaceInv, PlaceTypes, InjectiveInv, ConsumerTakes
<1>2. /\ inflight' \in Samples /\ inflight' \in Range(resultq)
      /\ Range(resultq') = Range(resultq) \ {inflight'}
  BY <1>1, HeadTaken
<1>3. /\ Rolled' = Rolled /\ Running' = Running
  BY <1>1, <1>2, TotalAssumption DEF Rolled, Running, NoSample, Samples
<1>4. Outs' = Outs /\ Collected' = Collected /\ (Syncing' <=> Syncing) /\ (NoMore' <=> NoMore)
      /\ (Idle' <=> Idle) /\ (Stuck' <=> Stuck)
  BY <1>1, <1>3 DEF Outs, Collected, Syncing, NoMore, Idle, Stuck, ActiveTasks
<1>5. SyncingInv' /\ CountingInv' /\ CollectingInv'
  BY <1>1, <1>4 DEF SyncInv, SyncingInv, CountingInv, CollectingInv
<1>6. dropped' = {} /\ BatchInv' /\ FreeInv' BY <1>1 DEF SyncInv, BatchInv, FreeInv
<1>7. EndingInv' BY <1>1, <1>3, <1>4 DEF SyncInv, EndingInv
<1>8. AgesInv' BY <1>1, <1>3 DEF SyncInv, AgesInv
<1> QED BY <1>5, <1>6, <1>7, <1>8 DEF SyncInv

\* The message queue has room for what is under way.
LEMMA SyncQueueReceives ==
  ASSUME RunInv, Synchronous, SyncInv, UNCHANGED trainVars, QueueReceives
  PROVE  SyncInv'
<1> USE DEF trainVars, procVars
<1>0. SyncFacts /\ PlaceInv BY SyncKnown DEF RunInv
<1>1. /\ inflight # NoSample /\ PutSample(inflight) /\ inflight' = NoSample
      /\ UNCHANGED <<conf, batch, tpc, local, staleness, got, cancelq, resultq, at, lk, held,
                     main, last, weights, born, sync, counted, task, settled>>
  BY DEF QueueReceives
<1>2. /\ inflight \in Samples /\ inflight \in 1 .. End /\ mq \in Seq(1 .. End)
      /\ IsInjective(mq) /\ inflight \in Rolled /\ inflight # End
  BY <1>0, <1>1, TotalAssumption
     DEF PlaceInv, PlaceTypes, InjectiveInv, NoSample, Samples, End, Rolled
<1>3. main = "stream" /\ ~Syncing /\ End \notin Range(mq)
  BY <1>1, <1>2 DEF SyncInv, EndingInv, SyncingInv, Idle
<1>4. inflight \notin Range(mq)
  <2>1. inflight \in Places["inflight"] BY <1>1, PlaceFields
  <2> QED BY <1>0, <1>2, <2>1, Apart, PlaceFields DEF Names
<1>5. Len(mq) < conf.max /\ Len(mq) \in Nat
  <2>1. IsFiniteSet(Range(mq)) /\ Len(mq) \in Nat /\ Cardinality(Range(mq)) = Len(mq)
    BY <1>2, RangeExactly
  <2>2. Cardinality(Range(mq) \cup {inflight}) = Len(mq) + 1
    BY <1>4, <2>1, FS_AddElement
  <2>3. Range(mq) \cup {inflight} \in SUBSET Outs
    BY <1>2, <1>3 DEF Outs, Rolled
  <2>4. Cardinality(Range(mq) \cup {inflight}) <= Cardinality(Outs)
    BY <1>0, <2>3, AtMost DEF SyncFacts
  <2>5. Cardinality(Outs) <= conf.max
    BY <1>0, <1>3 DEF SyncInv, CollectingInv, SyncFacts
  <2> QED BY <1>0, <2>1, <2>2, <2>4, <2>5 DEF SyncFacts
<1>6. mq' = Append(mq, inflight) /\ dropped' = dropped
  BY <1>0, <1>1, <1>5 DEF PutSample, SyncFacts
<1>7. Range(mq') = Range(mq) \cup {inflight}
  <2> DEFINE e == inflight
  <2> HIDE DEF e
  <2>1. e \in 1 .. End /\ e \notin Range(mq) BY <1>2, <1>4 DEF e
  <2>2. Range(Append(mq, e)) = Range(mq) \cup {e} BY <1>2, <2>1, EntryPut
  <2> QED BY <1>6, <2>2 DEF e
<1>8. Rolled' = Rolled /\ Running' = Running BY <1>1, <1>2, <1>7 DEF Rolled, Running
<1>9. Outs' = Outs /\ Collected' = Collected /\ (Syncing' <=> Syncing) /\ (NoMore' <=> NoMore)
      /\ (Idle' <=> Idle) /\ (Stuck' <=> Stuck)
  BY <1>1, <1>8 DEF Outs, Collected, Syncing, NoMore, Idle, Stuck, ActiveTasks
<1>10. SyncingInv' /\ CountingInv' /\ CollectingInv'
  BY <1>1, <1>9 DEF SyncInv, SyncingInv, CountingInv, CollectingInv
<1>11. dropped' = {} /\ BatchInv' /\ FreeInv' BY <1>1, <1>6 DEF SyncInv, BatchInv, FreeInv
<1>12. EndingInv' BY <1>1, <1>2, <1>3, <1>7, <1>8, <1>9 DEF SyncInv, EndingInv
<1>13. AgesInv' BY <1>1, <1>8 DEF SyncInv, AgesInv
<1> QED BY <1>10, <1>11, <1>12, <1>13 DEF SyncInv

LEMMA SyncStreamEnds ==
  ASSUME RunInv, Synchronous, SyncInv, UNCHANGED trainVars, MainStreamEnds \/ MainStops
  PROVE  SyncInv'
<1> USE DEF trainVars, procVars, queueVars, mainRest
<1>1. /\ main' # "stream"
      /\ \/ main # "stream"
         \/ at = "dead" \/ (at = "done" /\ resultq = <<>> /\ inflight = NoSample)
      /\ UNCHANGED <<conf, batch, tpc, local, staleness, got, cancelq, resultq, inflight, mq, dropped,
                     at, lk, held, last, weights, born, sync, counted, task, settled>>
  BY DEF MainStreamEnds, MainStops
<1>2. /\ Rolled' = Rolled /\ Running' = Running
  BY <1>1 DEF Rolled, Running
<1>3. Outs' = Outs /\ Collected' = Collected /\ (Syncing' <=> Syncing) /\ (NoMore' <=> NoMore)
      /\ (Idle' <=> Idle) /\ (Stuck' <=> Stuck)
  BY <1>1, <1>2 DEF Outs, Collected, Syncing, NoMore, Idle, Stuck, ActiveTasks
<1>4. SyncingInv' /\ CountingInv' /\ CollectingInv'
  BY <1>1, <1>3 DEF SyncInv, SyncingInv, CountingInv, CollectingInv
<1>5. dropped' = {} /\ BatchInv' /\ FreeInv' BY <1>1 DEF SyncInv, BatchInv, FreeInv
<1>6. /\ at \in {"done", "dead"} /\ Running = {}
      /\ resultq = <<>> /\ inflight = NoSample /\ held = NoSample
  <2>1. CASE main # "stream" BY <2>1 DEF SyncInv, EndingInv
  <2>2. CASE at = "dead"
    <3>1. Outs = {} BY <2>2 DEF SyncInv, EndingInv, Stuck
    <3>2. Range(resultq) = {} /\ resultq \in Seq(Samples)
      BY <3>1 DEF Outs, Rolled, RunInv, PlaceInv, PlaceTypes
    <3>3. resultq = <<>> BY <3>2, RangeEmpty
    <3> QED BY <2>2, <3>1, <3>3 DEF Outs, Rolled
  <2>3. CASE at = "done" /\ resultq = <<>> /\ inflight = NoSample
    BY <2>3 DEF SyncInv, EndingInv, RunInv, PlaceInv, HeldInv
  <2> QED BY <1>1, <2>1, <2>2, <2>3
<1>7. EndingInv' BY <1>1, <1>2, <1>3, <1>6 DEF SyncInv, EndingInv
<1>8. AgesInv' BY <1>1, <1>2 DEF SyncInv, AgesInv
<1> QED BY <1>4, <1>5, <1>7, <1>8 DEF SyncInv

LEMMA SyncPutsEnd ==
  ASSUME RunInv, Synchronous, SyncInv, UNCHANGED trainVars, MainPutsEnd
  PROVE  SyncInv'
<1> USE DEF trainVars, procVars, mainRest
<1>0. SyncFacts /\ PlaceInv BY SyncKnown DEF RunInv
<1>1. /\ main = "closing" /\ main' # "stream" /\ PutSample(End)
      /\ UNCHANGED <<conf, batch, tpc, local, staleness, got, cancelq, resultq, inflight, at, lk, held,
                     last, weights, born, sync, counted, task, settled>>
  BY DEF MainPutsEnd
<1>2. /\ End \in 1 .. End /\ mq \in Seq(1 .. End) /\ IsInjective(mq) /\ End \notin Range(mq)
  BY <1>0, <1>1, TotalAssumption DEF PlaceInv, PlaceTypes, InjectiveInv, EndInv, End
<1>3. at \in {"done", "dead"} /\ NoMore BY <1>1 DEF SyncInv, EndingInv, NoMore
<1>5. Len(mq) < conf.max /\ Len(mq) \in Nat
  <2>1. IsFiniteSet(Range(mq)) /\ Len(mq) \in Nat /\ Cardinality(Range(mq)) = Len(mq)
    BY <1>2, RangeExactly
  <2>2. Range(mq) \in SUBSET Outs BY <1>2 DEF Outs, Rolled
  <2>3. Cardinality(Range(mq)) <= Cardinality(Outs) BY <1>0, <2>2, AtMost DEF SyncFacts
  <2>4. CASE Syncing
    <3>1. Range(mq) = {} BY <1>2, <2>4 DEF SyncInv, SyncingInv, Idle, Rolled
    <3>2. Cardinality(Range(mq)) = 0 BY <3>1, FS_EmptySet
    <3> QED BY <1>0, <2>1, <3>2 DEF SyncFacts
  <2>5. CASE ~Syncing
    <3>1. Cardinality(Outs) <= conf.max - 1
      BY <1>0, <1>3, <2>5 DEF SyncInv, CollectingInv, SyncFacts
    <3> QED BY <1>0, <2>1, <2>3, <3>1 DEF SyncFacts
  <2> QED BY <2>4, <2>5
<1>6. mq' = Append(mq, End) /\ dropped' = dropped
  BY <1>0, <1>1, <1>5 DEF PutSample, SyncFacts
<1>7. Range(mq') = Range(mq) \cup {End} /\ mq'[Len(mq')] = End
  <2> DEFINE e == End
  <2> HIDE DEF e
  <2>1. e \in 1 .. End /\ e \notin Range(mq) BY <1>2 DEF e
  <2>2. Range(Append(mq, e)) = Range(mq) \cup {e} BY <1>2, <2>1, EntryPut
  <2>3. Append(mq, e)[Len(Append(mq, e))] = e BY <1>2, <2>1, <1>5
  <2> QED BY <1>6, <2>2, <2>3 DEF e
<1>8. Rolled' = Rolled /\ Running' = Running BY <1>1, <1>7 DEF Rolled, Running
<1>9. Outs' = Outs /\ Collected' = Collected /\ (Syncing' <=> Syncing) /\ (NoMore' <=> NoMore)
      /\ (Idle' <=> Idle) /\ (Stuck' <=> Stuck)
  BY <1>1, <1>8 DEF Outs, Collected, Syncing, NoMore, Idle, Stuck, ActiveTasks
<1>10. SyncingInv' /\ CountingInv' /\ CollectingInv'
  BY <1>1, <1>9 DEF SyncInv, SyncingInv, CountingInv, CollectingInv
<1>11. dropped' = {} /\ BatchInv' /\ FreeInv' BY <1>1, <1>6 DEF SyncInv, BatchInv, FreeInv
<1>12. EndingInv' BY <1>1, <1>7, <1>8, <1>9 DEF SyncInv, EndingInv
<1>13. AgesInv' BY <1>1, <1>8 DEF SyncInv, AgesInv
<1> QED BY <1>10, <1>11, <1>12, <1>13 DEF SyncInv

\* When update_param_version has counted, nothing is under way: the count is 0.
LEMMA SyncUpdateEnds ==
  ASSUME RunInv, Synchronous, SyncInv, UNCHANGED trainVars, NEW v, UpdateEnds(v)
  PROVE  SyncInv'
<1> USE DEF trainVars, syncRest
<1>0. SyncFacts /\ PlaceInv BY SyncKnown DEF RunInv
<1>1. /\ sync = "counting" /\ sync' = "resumeCall" /\ staleness' = counted + Len(mq)
      /\ UNCHANGED <<conf, batch, tpc, local, got, cancelq, resultq, inflight, at, lk, held, mq,
                     dropped, main, last, weights, born, task, settled>>
  BY DEF UpdateEnds
<1>2. Syncing BY <1>1 DEF Syncing
<1>3. /\ Idle /\ local = 1 /\ (cancelq = <<>> \/ at = "done")
      /\ NoMore => Cardinality(Outs) <= conf.max - 1
  BY <1>2 DEF SyncInv, SyncingInv
<1>4. Rolled' = Rolled /\ Running' = Running BY <1>1 DEF Rolled, Running
<1>5. Outs' = Outs /\ Collected' = Collected /\ (NoMore' <=> NoMore)
      /\ (Idle' <=> Idle) /\ (Stuck' <=> Stuck)
  BY <1>1, <1>4 DEF Outs, Collected, NoMore, Idle, Stuck, ActiveTasks
<1>6. Outs \subseteq Range(cancelq) /\ (cancelq = <<>> => Outs = {})
  BY <1>3, EmptyRange DEF Idle, Outs
<1>7. main # "stream" => NoMore BY DEF SyncInv, EndingInv, NoMore
<1>8. SyncingInv'
  <2> SUFFICES ASSUME Syncing' PROVE NoMore BY <1>1, <1>3, <1>5 DEF SyncingInv
  <2>1. tpc \in {"waitLast", "syncing"} BY <1>1 DEF Syncing
  <2>2. main # "stream" BY <1>1, <2>1 DEF SyncInv, CountingInv
  <2> QED BY <1>7, <2>2
<1>9. CollectingInv'
  <2> SUFFICES ASSUME ~Syncing' PROVE CollectingInv' BY DEF CollectingInv
  <2>0. Collected = 0 BY <1>0, <1>3 DEF SyncFacts, Collected, Idle
  <2>1. CASE at = "done"
    <3>1. NoMore BY <2>1 DEF SyncInv, EndingInv, NoMore
    <3> QED BY <1>0, <1>1, <1>3, <1>5, <2>0, <3>1 DEF CollectingInv, SyncFacts
  <2>2. CASE at # "done"
    <3>1. Outs = {} /\ Cardinality(Outs) = 0 BY <1>0, <1>3, <1>6, <2>2 DEF SyncFacts
    <3>2. CASE NoMore BY <1>0, <1>1, <1>5, <2>0, <3>1, <3>2 DEF CollectingInv, SyncFacts
    <3>3. CASE ~NoMore
      <4>1. Range(mq) \subseteq {End} BY <3>1 DEF Outs, Rolled
      <4>2. End \notin Range(mq) BY <1>7, <3>3 DEF SyncInv, EndingInv
      <4>3. mq = <<>> BY <1>0, <4>1, <4>2, RangeEmpty DEF PlaceInv, PlaceTypes
      <4>4. counted = 0 BY <1>1, <2>2 DEF SyncInv, CountingInv
      <4>5. staleness' = 0 BY <1>1, <4>3, <4>4
      <4> QED BY <1>0, <1>1, <1>5, <2>0, <3>1, <3>3, <4>5 DEF CollectingInv, SyncFacts
    <3> QED BY <3>2, <3>3
  <2> QED BY <2>1, <2>2
<1>10. CountingInv' /\ dropped' = {} /\ BatchInv' /\ FreeInv'
  BY <1>1 DEF SyncInv, CountingInv, BatchInv, FreeInv
<1>11. EndingInv' BY <1>1, <1>4, <1>5 DEF SyncInv, EndingInv
<1>12. AgesInv' BY <1>1, <1>4 DEF SyncInv, AgesInv
<1> QED BY <1>8, <1>9, <1>10, <1>11, <1>12 DEF SyncInv

LEMMA SyncTrainerGets ==
  ASSUME RunInv, Synchronous, SyncInv, TrainerGets
  PROVE  SyncInv'
<1> USE DEF queueOnly, procVars
<1>0. SyncFacts /\ PlaceInv BY SyncKnown DEF RunInv
<1>1. /\ tpc = "collect" /\ mq # <<>> /\ mq \in Seq(1 .. End) /\ IsInjective(mq) /\ mq' = Tail(mq)
      /\ UNCHANGED <<conf, local, staleness, got, cancelq, resultq, inflight, at, lk, held,
                     dropped, main, last, weights, born, task, settled, sync, counted>>
  BY <1>0 DEF PlaceInv, PlaceTypes, InjectiveInv, TrainerGets
<1>2. /\ mq' \in Seq(1 .. End) /\ Head(mq) \in Range(mq) /\ Head(mq) \in 1 .. End
      /\ Range(mq') = Range(mq) \ {Head(mq)}
  BY <1>1, HeadTaken
<1>3. /\ Running' = Running /\ (NoMore' <=> NoMore) /\ ActiveTasks' = ActiveTasks
  BY <1>1 DEF Running, NoMore, ActiveTasks
<1>4. Rolled' = Rolled \ ({Head(mq)} \ {End})
  <2>1. Head(mq) # End => Head(mq) \in Places["mq"] BY <1>2, PlaceFields
  <2>2. Head(mq) # End => Head(mq) \notin Range(resultq) /\ Head(mq) \notin {inflight} \ {NoSample}
    BY <1>0, <2>1, Apart, PlaceFields DEF Names
  <2> QED BY <1>1, <1>2, <2>2 DEF Rolled
<1>5. Outs' \subseteq Outs
  BY <1>1, <1>3, <1>4 DEF Outs
<1>6. End \in Range(mq') => main # "stream" /\ mq'[Len(mq')] = End
  <2> SUFFICES ASSUME End \in Range(mq') PROVE main # "stream" /\ mq'[Len(mq')] = End
    OBVIOUS
  <2>1. End \in Range(mq) BY <1>2
  <2>2. main # "stream" /\ mq[Len(mq)] = End BY <2>1 DEF SyncInv, EndingInv
  <2>3. Len(mq') \in Nat /\ Len(mq') = Len(mq) - 1 /\ (Len(mq') = 0 => mq' = <<>>)
        /\ \A i \in 1 .. Len(mq') : mq'[i] = mq[i + 1]
    BY <1>1, HeadTailProperties
  <2>4. Len(mq') # 0 BY <2>3, EmptyRange
  <2>5. Len(mq') \in 1 .. Len(mq') /\ Len(mq') + 1 = Len(mq) BY <1>1, <2>3, <2>4
  <2> QED BY <2>2, <2>3, <2>5
<1>7. CASE Head(mq) = End
  <2>1. batch' = <<>> /\ tpc' = "final" BY <1>7 DEF TrainerGets
  <2>2. main # "stream" /\ mq[Len(mq)] = End BY <1>2, <1>7 DEF SyncInv, EndingInv
  <2>3. Range(mq') = {}
    <3>1. Len(mq) \in Nat /\ DOMAIN mq = 1 .. Len(mq) /\ Len(mq) # 0 /\ Head(mq) = mq[1]
      BY <1>1
    <3>2. Len(mq) = 1 BY <1>1, <1>7, <2>2, <3>1 DEF IsInjective
    <3>3. mq' = <<>> BY <1>1, <3>2
    <3> QED BY <3>3, EmptyRange
  <2>4. /\ at \in {"done", "dead"} /\ Running = {} /\ NoMore
        /\ resultq = <<>> /\ inflight = NoSample /\ held = NoSample
    BY <2>2 DEF SyncInv, EndingInv, NoMore
  <2>5. Rolled' = {} BY <1>1, <2>3, <2>4, EmptyRange DEF Rolled
  <2>6. Outs' = Outs \ Rolled /\ Cardinality(Outs') \in Nat /\ Cardinality(Outs') <= Cardinality(Outs)
    <3>1. Outs' \in SUBSET Outs BY <1>5
    <3>2. Cardinality(Outs') \in Nat /\ Cardinality(Outs') <= Cardinality(Outs)
      BY <1>0, <3>1, AtMost DEF SyncFacts
    <3>3. Range(cancelq) \cap Rolled = {}
      <4> SUFFICES ASSUME NEW s \in Range(cancelq), s \in Rolled PROVE FALSE OBVIOUS
      <4>1. s \in Places["cancelq"] BY PlaceFields
      <4> QED BY <1>0, <4>1, Apart, PlaceFields DEF Names, Rolled
    <3> QED BY <1>1, <1>3, <2>4, <2>5, <3>2, <3>3 DEF Outs
  <2>7. /\ Len(batch') = 0 /\ Collected' \in Nat /\ Collected' <= Collected
    BY <1>0, <1>1, <2>1 DEF Collected, SyncFacts
  <2>8. SyncingInv'
    <3> SUFFICES ASSUME Syncing' PROVE SyncingInv' BY DEF SyncingInv
    <3>1. Syncing BY <1>1, <2>1 DEF Syncing
    <3> QED BY <1>0, <1>1, <1>3, <2>1, <2>4, <2>5, <2>6, <3>1
        DEF SyncInv, SyncingInv, Idle, SyncFacts
  <2>9. CollectingInv'
    <3> SUFFICES ASSUME ~Syncing' PROVE CollectingInv' BY DEF CollectingInv
    <3>1. ~Syncing BY <1>1 DEF Syncing
    <3>2. Collected + Cardinality(Outs) <= conf.max - 1
      BY <2>4, <3>1 DEF SyncInv, CollectingInv
    <3>3. Collected' + Cardinality(Outs') <= conf.max - 1 BY <1>0, <2>6, <2>7, <3>2 DEF SyncFacts
    <3> QED BY <1>1, <1>3, <2>4, <3>3 DEF CollectingInv
  <2>10. CountingInv' /\ BatchInv' /\ FreeInv' /\ dropped' = {}
    BY <1>0, <1>1, <2>1, <2>2, <2>7 DEF SyncInv, CountingInv, BatchInv, FreeInv, SyncFacts
  <2>11. EndingInv'
    <3>1. Stuck' => Stuck BY <1>1, <1>3 DEF Stuck
    <3>2. Stuck => Outs' = {} BY <1>5 DEF SyncInv, EndingInv
    <3> QED BY <1>1, <1>3, <1>6, <2>1, <2>2, <2>4, <2>5, <3>1, <3>2 DEF SyncInv, EndingInv
  <2>12. AgesInv' BY <1>1, <1>3, <2>1, <2>5, EmptyRange DEF SyncInv, AgesInv
  <2> QED BY <2>8, <2>9, <2>10, <2>11, <2>12 DEF SyncInv
<1>8. CASE Head(mq) # End
  <2>1. /\ batch' = Append(batch, Head(mq))
        /\ tpc' = IF Len(batch') = conf.required THEN "train" ELSE "collect"
    BY <1>8 DEF TrainerGets
  <2>2. Head(mq) \in Places["mq"] BY <1>2, <1>8, PlaceFields
  <2>3. /\ Head(mq) \notin Range(batch) /\ Head(mq) \in Samples
        /\ Head(mq) \notin Running /\ Head(mq) \notin Range(cancelq)
        /\ Head(mq) \notin {held} \ {NoSample}
    BY <1>0, <2>2, Apart, PlaceFields DEF Names
  <2>4. /\ Range(batch') = Range(batch) \cup {Head(mq)} /\ Len(batch') = Len(batch) + 1
    <3> DEFINE e == Head(mq)
    <3>1. batch \in Seq(Samples) /\ IsInjective(batch)
      BY <1>0 DEF PlaceInv, PlaceTypes, InjectiveInv
    <3>2. e \in Samples /\ e \notin Range(batch) BY <2>3
    <3> HIDE DEF e
    <3>3. Range(Append(batch, e)) = Range(batch) \cup {e} BY <3>1, <3>2, NewPut
    <3>4. Len(Append(batch, e)) = Len(batch) + 1 BY <3>1
    <3> QED BY <2>1, <3>3, <3>4 DEF e
  <2>5. Head(mq) \in Rolled /\ Head(mq) \in Outs BY <1>2, <1>8 DEF Rolled, Outs
  <2>6. ~Syncing BY <2>5 DEF SyncInv, SyncingInv, Idle
  <2>7. ~Syncing' BY <1>1, <2>1, <2>6 DEF Syncing
  <2>8. Outs' = Outs \ {Head(mq)} BY <1>1, <1>3, <1>4, <1>8, <2>3, <2>5 DEF Outs
  <2>9. Cardinality(Outs') = Cardinality(Outs) - 1
    BY <1>0, <2>5, <2>8, FS_RemoveElement DEF SyncFacts
  <2>10. Collected' = Collected + 1 BY <1>0, <1>1, <2>4 DEF Collected, SyncFacts
  <2>11. CollectingInv'
    BY <1>0, <1>1, <1>3, <2>6, <2>9, <2>10 DEF SyncInv, CollectingInv, SyncFacts
  <2>12. SyncingInv' BY <2>7 DEF SyncingInv
  <2>13. CountingInv'
    BY <1>1, <2>6 DEF SyncInv, CountingInv, Syncing
  <2>14. Len(batch) < conf.required BY <1>0, <1>1 DEF SyncInv, BatchInv, SyncFacts
  <2>15. BatchInv' /\ FreeInv' /\ dropped' = {}
    BY <1>0, <1>1, <2>1, <2>4, <2>14 DEF SyncInv, BatchInv, FreeInv, SyncFacts
  <2>16. EndingInv'
    <3>1. Stuck' => Stuck BY <1>1, <1>3 DEF Stuck
    <3>2. ~Stuck BY <2>5 DEF SyncInv, EndingInv
    <3>3. tpc' \notin {"final", "waitFinal", "ended"} BY <2>1
    <3> QED BY <1>1, <1>3, <1>6, <3>1, <3>2, <3>3 DEF SyncInv, EndingInv
  <2>17. AgesInv'
    <3>1. Head(mq) \in Rolled BY <2>5
    <3> QED BY <1>1, <1>3, <1>4, <2>4, <3>1 DEF SyncInv, AgesInv
  <2> QED BY <2>11, <2>12, <2>13, <2>15, <2>16, <2>17 DEF SyncInv
<1> QED BY <1>7, <1>8

\* what the trainer's other steps leave alone
trainerRest == <<conf, staleness, got, cancelq, resultq, inflight, at, lk, held, mq,
                 dropped, main, born, task, settled, counted>>

LEMMA TrainerAlone ==
  ASSUME UNCHANGED trainerRest
  PROVE  /\ Running' = Running /\ Rolled' = Rolled /\ Outs' = Outs
         /\ (NoMore' <=> NoMore) /\ (Stuck' <=> Stuck)
BY DEF trainerRest, Running, Rolled, Outs, NoMore, Stuck, ActiveTasks

\* When the last batch of a version has been trained on, nothing is under way.
LEMMA SyncTrainerTrains ==
  ASSUME RunInv, Synchronous, SyncInv, TrainerTrains
  PROVE  SyncInv'
<1> USE DEF rollVars, procVars, queueVars
<1>0. SyncFacts BY SyncKnown
<1>1. /\ tpc = "train" /\ batch' = <<>> /\ UNCHANGED <<trainerRest, weights, last, sync>>
  BY DEF TrainerTrains, trainerRest
<1>2. /\ Running' = Running /\ Rolled' = Rolled /\ Outs' = Outs
      /\ (NoMore' <=> NoMore) /\ (Stuck' <=> Stuck)
  BY <1>1, TrainerAlone
<1>3. Len(batch) = conf.required /\ Len(batch) # 0 /\ batch # <<>> /\ Len(batch') = 0
  BY <1>0, <1>1 DEF SyncInv, BatchInv, SyncFacts
<1>4. ~Syncing /\ ~Stuck BY <1>3 DEF SyncInv, SyncingInv, EndingInv, Idle
<1>5. tpc' \in {"validate", "waitLast"} /\ (tpc' = "validate" <=> local < conf.trigger)
  BY DEF TrainerTrains, NextPlace
<1>6. Collected = (local - 1) * conf.required + conf.required BY <1>3 DEF Collected
<1>7. SyncingInv' /\ CollectingInv'
  <2>1. CASE local < conf.trigger
    <3>1. local' = local + 1 /\ ~Syncing' BY <1>1, <1>4, <1>5, <2>1 DEF TrainerTrains, Syncing
    <3>2. Collected' = Collected
      <4>1. (local' - 1) * conf.required = Collected
        BY <1>0, <1>6, <3>1 DEF SyncFacts
      <4>2. Collected' = (local' - 1) * conf.required + 0
        BY <1>1, <1>3 DEF Collected, trainerRest
      <4> QED BY <1>0, <4>1, <4>2 DEF SyncFacts
    <3> QED BY <1>1, <1>2, <1>4, <3>1, <3>2 DEF SyncInv, SyncingInv, CollectingInv, trainerRest
  <2>2. CASE ~(local < conf.trigger)
    <3>1. local' = 1 /\ Syncing' BY <1>5, <2>2 DEF TrainerTrains, Syncing
    <3>2. Collected = conf.max BY <1>0, <1>6, <2>2 DEF SyncFacts
    <3>3. ~NoMore BY <1>0, <1>4, <3>2 DEF SyncInv, CollectingInv, SyncFacts
    <3>4. Outs = {} /\ staleness >= conf.max /\ at # "get"
      BY <1>0, <1>4, <3>2, <3>3 DEF SyncInv, CollectingInv, SyncFacts
    <3>5. Idle' /\ cancelq = <<>>
      <4>1. cancelq \in Seq(Samples) BY DEF RunInv, PlaceInv, PlaceTypes
      <4>2. Range(cancelq) = {} BY <3>4 DEF Outs
      <4>3. Running = {} /\ Rolled = {} /\ held = NoSample BY <3>4 DEF Outs
      <4> QED BY <1>1, <1>2, <4>1, <4>2, <4>3, RangeEmpty DEF Idle, trainerRest
    <3> QED BY <1>1, <1>2, <3>1, <3>3, <3>4, <3>5 DEF SyncingInv, CollectingInv, trainerRest
  <2> QED BY <2>1, <2>2
<1>8. CountingInv' BY <1>1, <1>4 DEF SyncInv, CountingInv, Syncing, trainerRest
<1>9. BatchInv' /\ FreeInv' /\ dropped' = {}
  BY <1>0, <1>1, <1>3, <1>5 DEF SyncInv, BatchInv, FreeInv, SyncFacts, trainerRest
<1>10. EndingInv' BY <1>1, <1>2, <1>4, <1>5 DEF SyncInv, EndingInv, trainerRest
<1>11. AgesInv' BY <1>1, <1>2, EmptyRange DEF SyncInv, AgesInv, trainerRest
<1> QED BY <1>7, <1>8, <1>9, <1>10, <1>11 DEF SyncInv

LEMMA SyncTrainerSyncs ==
  ASSUME RunInv, Synchronous, SyncInv,
         TrainerWaitsLast \/ Transfer \/ TrainerGetsValidation \/ TrainerFinishes
  PROVE  SyncInv'
<1> USE DEF rollVars, procVars, queueVars, queueOnly
<1>0. SyncFacts BY SyncKnown
<1>1. UNCHANGED <<trainerRest, batch>>
  BY DEF TrainerWaitsLast, Transfer, TrainerGetsValidation, TrainerFinishes, trainerRest
<1>2. /\ Running' = Running /\ Rolled' = Rolled /\ Outs' = Outs
      /\ (NoMore' <=> NoMore) /\ (Stuck' <=> Stuck)
  BY <1>1, TrainerAlone
<1>3. Idle' <=> Idle BY <1>1, <1>2 DEF Idle, trainerRest
<1>4. main # "stream" => NoMore /\ at \in {"done", "dead"}
  BY DEF SyncInv, EndingInv, NoMore
<1>5. FreeInv' /\ dropped' = {} BY <1>1 DEF SyncInv, FreeInv, trainerRest
<1>6. CASE TrainerWaitsLast
  <2>1. tpc = "waitLast" /\ sync' = "pauseCall" /\ tpc' = "syncing" /\ UNCHANGED <<local, last, weights>>
    BY <1>6 DEF TrainerWaitsLast
  <2>2. Syncing /\ Syncing' BY <2>1 DEF Syncing
  <2>3. SyncingInv' /\ CollectingInv'
    BY <1>1, <1>2, <1>3, <2>1, <2>2 DEF SyncInv, SyncingInv, CollectingInv, trainerRest
  <2>4. CountingInv' /\ BatchInv'
    BY <1>1, <2>1 DEF SyncInv, CountingInv, BatchInv, trainerRest
  <2>5. EndingInv' BY <1>1, <1>2, <2>1 DEF SyncInv, EndingInv, trainerRest
  <2>6. AgesInv' BY <1>1, <1>2, <2>1 DEF SyncInv, AgesInv, trainerRest
  <2> QED BY <1>5, <2>3, <2>4, <2>5, <2>6 DEF SyncInv
<1>7. CASE Transfer
  <2>1. /\ tpc = "syncing" /\ sync = "quiet" /\ sync' = "updateCall" /\ UNCHANGED <<local, last>>
        /\ tpc' = IF last THEN "waitFinal" ELSE "validate"
    BY <1>7 DEF Transfer
  <2>2. Syncing /\ Syncing' BY <2>1 DEF Syncing
  <2>3. SyncingInv' /\ CollectingInv'
    BY <1>1, <1>2, <1>3, <2>1, <2>2 DEF SyncInv, SyncingInv, CollectingInv, trainerRest
  <2>4. last => main # "stream" BY DEF SyncInv, EndingInv
  <2>5. CountingInv' BY <1>1, <2>1, <2>4 DEF SyncInv, CountingInv, trainerRest
  <2>6. BatchInv' BY <1>1, <2>1 DEF SyncInv, BatchInv, trainerRest
  <2>7. Idle /\ (cancelq = <<>> \/ at = "done") BY <2>2 DEF SyncInv, SyncingInv
  <2>8. EndingInv' BY <1>1, <1>2, <2>1, <2>7 DEF SyncInv, EndingInv, Idle, trainerRest
  <2>9. AgesInv'
    BY <1>1, <1>2, <2>7, EmptyRange DEF SyncInv, AgesInv, Idle, trainerRest
  <2> QED BY <1>5, <2>3, <2>5, <2>6, <2>8, <2>9 DEF SyncInv
<1>8. CASE TrainerGetsValidation
  <2>1. /\ (tpc = "validate" /\ tpc' = "collect") \/ (tpc = "waitFinal" /\ tpc' = "ended")
        /\ UNCHANGED <<local, last, weights, sync>>
    BY <1>8 DEF TrainerGetsValidation
  <2>2. (Syncing' <=> Syncing) /\ Collected' = Collected
    BY <1>1, <2>1 DEF Syncing, Collected, trainerRest
  <2>3. SyncingInv' /\ CollectingInv'
    BY <1>1, <1>2, <1>3, <2>1, <2>2 DEF SyncInv, SyncingInv, CollectingInv, trainerRest
  <2>4. CountingInv' /\ BatchInv'
    BY <1>1, <2>1 DEF SyncInv, CountingInv, BatchInv, EndingInv, trainerRest
  <2>5. EndingInv' BY <1>1, <1>2, <2>1 DEF SyncInv, EndingInv, trainerRest
  <2>6. AgesInv' BY <1>1, <1>2, <2>1 DEF SyncInv, AgesInv, trainerRest
  <2> QED BY <1>5, <2>3, <2>4, <2>5, <2>6 DEF SyncInv
<1>9. CASE TrainerFinishes
  <2>1. /\ tpc = "final" /\ UNCHANGED <<weights, sync>>
        /\ \/ local' = 1 /\ last' = TRUE /\ tpc' = "waitLast"
           \/ tpc' = "ended" /\ UNCHANGED <<local, last>>
    BY <1>9 DEF TrainerFinishes
  <2>2. /\ main # "stream" /\ Rolled = {} /\ batch = <<>> /\ Running = {} /\ held = NoSample
        /\ at \in {"done", "dead"} /\ NoMore
    BY <1>4, <2>1 DEF SyncInv, EndingInv
  <2>3. Idle BY <2>2 DEF Idle
  <2>4. cancelq = <<>> \/ at = "done"
    <3>1. CASE at = "dead"
      <4>1. Range(cancelq) = {} BY <3>1 DEF SyncInv, EndingInv, Stuck, Outs
      <4>2. cancelq \in Seq(Samples) BY DEF RunInv, PlaceInv, PlaceTypes
      <4> QED BY <4>1, <4>2, RangeEmpty
    <3> QED BY <2>2, <3>1
  <2>5. Cardinality(Outs) <= conf.max - 1
    <3>1. CASE Syncing BY <2>2, <3>1 DEF SyncInv, SyncingInv
    <3>2. CASE ~Syncing BY <1>0, <2>2, <3>2 DEF SyncInv, CollectingInv, SyncFacts
    <3> QED BY <3>1, <3>2
  <2>6. CASE local' = 1 /\ last' = TRUE /\ tpc' = "waitLast"
    <3>1. Syncing' BY <2>6 DEF Syncing
    <3>2. SyncingInv' /\ CollectingInv'
      BY <1>1, <1>2, <1>3, <2>2, <2>3, <2>4, <2>5, <2>6, <3>1
         DEF SyncingInv, CollectingInv, trainerRest
    <3>3. CountingInv' /\ BatchInv'
      BY <1>1, <2>1, <2>2, <2>6 DEF SyncInv, CountingInv, BatchInv, trainerRest
    <3>4. EndingInv' BY <1>1, <1>2, <2>2, <2>6 DEF SyncInv, EndingInv, trainerRest
    <3>5. AgesInv' BY <1>1, <1>2, <2>1 DEF SyncInv, AgesInv, trainerRest
    <3> QED BY <1>5, <3>2, <3>3, <3>4, <3>5 DEF SyncInv
  <2>7. CASE tpc' = "ended" /\ UNCHANGED <<local, last>>
    <3>1. (Syncing' <=> Syncing) /\ Collected' = Collected
      BY <1>1, <2>1, <2>7 DEF Syncing, Collected, trainerRest
    <3>2. SyncingInv' /\ CollectingInv'
      BY <1>1, <1>2, <1>3, <2>1, <2>7, <3>1 DEF SyncInv, SyncingInv, CollectingInv, trainerRest
    <3>3. CountingInv' /\ BatchInv'
      BY <1>1, <2>1, <2>2, <2>7 DEF SyncInv, CountingInv, BatchInv, trainerRest
    <3>4. EndingInv' BY <1>1, <1>2, <2>2, <2>7 DEF SyncInv, EndingInv, trainerRest
    <3>5. AgesInv' BY <1>1, <1>2, <2>1 DEF SyncInv, AgesInv, trainerRest
    <3> QED BY <1>5, <3>2, <3>3, <3>4, <3>5 DEF SyncInv
  <2> QED BY <2>1, <2>6, <2>7
<1> QED BY <1>6, <1>7, <1>8, <1>9

LEMMA SyncStep == RunInv /\ (Synchronous => SyncInv) /\ [Next]_vars => (Synchronous => SyncInv)'
<1> SUFFICES ASSUME RunInv, Synchronous => SyncInv, [Next]_vars, Synchronous'
             PROVE  SyncInv'
  OBVIOUS
<1>1. Synchronous /\ SyncInv BY ConfFixed DEF Synchronous
<1>2. CASE Trainer
  BY <1>1, <1>2, SyncTrainerGets, SyncTrainerTrains, SyncTrainerSyncs DEF Trainer
<1>3. CASE RolloutStep
  <2>1. UNCHANGED trainVars BY <1>3 DEF RolloutStep
  <2>2. CASE Processor
    BY <1>1, <2>1, <2>2, SyncProcessor, SyncQuietKeeps, SyncTakesCancelled, SyncTakesPending,
       SyncSubmits
    DEF Processor
  <2>3. CASE \E s \in Samples : TaskCancelled(s) \/ TaskCompletes(s)
    BY <1>1, <2>1, <2>3, SyncTaskEnds
  <2>4. CASE ConsumerTakes \/ QueueReceives BY <1>1, <2>1, <2>4, SyncConsumerTakes, SyncQueueReceives
  <2>5. CASE MainStreamEnds \/ MainPutsEnd \/ MainStops
    BY <1>1, <2>1, <2>5, SyncStreamEnds, SyncPutsEnd
  <2>6. CASE FeedSamples \/ MonitorQueues \/ MonitorUnpauses \/ MonitorEnds
    BY <1>1, <2>1, <2>6, SyncOthers, SyncQuietKeeps
  <2>7. CASE \/ SyncQueues \/ PauseBegins \/ PauseCancels \/ PauseEnds
             \/ UpdateBegins(weights) \/ ResumeBegins \/ ResumeEnds
    BY <1>1, <2>1, <2>7, SyncCalls, SyncQuietKeeps
  <2>8. CASE UpdateEnds(tpc = "waitFinal") BY <1>1, <2>1, <2>8, SyncUpdateEnds
  <2> QED BY <1>3, <2>2, <2>3, <2>4, <2>5, <2>6, <2>7, <2>8 DEF RolloutStep, Rollouter
<1>4. CASE UNCHANGED vars BY <1>1, <1>4, SyncOthers, SyncQuietKeeps
<1> QED BY <1>2, <1>3, <1>4 DEF Next

LEMMA SyncInit == Init => (Synchronous => SyncInv)
<1> SUFFICES ASSUME Init, Synchronous PROVE SyncInv OBVIOUS
<1>1. RunInv BY RunInit
<1>2. SyncFacts BY <1>1, SyncKnown
<1>3. Taken = 0 BY TotalAssumption DEF Init, RollInit, Taken, End
<1>4. Outs = {} /\ Cardinality(Outs) = 0
  <2>1. Outs = {} BY <1>2, <1>3 DEF SyncFacts
  <2> QED BY <2>1, FS_EmptySet
<1>5. Running = {} /\ Rolled = {} /\ Range(batch) = {} /\ Range(cancelq) = {} /\ Range(mq) = {}
  BY <1>4, EmptyRange DEF Outs, Init, RollInit
<1>6. Collected = 0 BY <1>2 DEF Init, RollInit, Collected, SyncFacts
<1>7. got # End /\ got = 0 BY TotalAssumption DEF Init, RollInit, End
<1>8. SyncingInv /\ CountingInv /\ FreeInv /\ dropped = {}
  BY DEF Init, RollInit, Syncing, SyncingInv, CountingInv, FreeInv
<1>9. CollectingInv BY <1>2, <1>4, <1>6, <1>7 DEF Init, RollInit, CollectingInv, NoMore, SyncFacts
<1>10. BatchInv BY <1>2 DEF Init, BatchInv, SyncFacts
<1>11. EndingInv BY <1>5, <1>7 DEF Init, RollInit, EndingInv, Stuck
<1>12. AgesInv BY <1>5 DEF Init, RollInit, AgesInv
<1> QED BY <1>8, <1>9, <1>10, <1>11, <1>12 DEF SyncInv

(* With staleness_threshold = 0 (max_required_samples as many as a version  *)
(* takes, fully_async_rollouter.py:set_max_required_samples) training is    *)
(* synchronous for any batch, trigger and concurrency, with or without      *)
(* partial rollout: only samples of the current weights are trained on, the *)
(* queue never overflows and nothing is in generation while the weights are *)
(* transferred.                                                             *)
THEOREM NoThresholdIsSynchronous == Spec => []SynchronousMode
<1>1. RunInv /\ (Synchronous => SyncInv) => SynchronousMode
  <2> SUFFICES ASSUME RunInv, Synchronous, SyncInv
               PROVE  /\ dropped = {}
                      /\ sync = "quiet" => Running = {}
                      /\ \A s \in Range(batch) : born[s] = tversion
    BY DEF SynchronousMode
  <2>1. dropped = {} BY DEF SyncInv
  <2>2. sync = "quiet" => Running = {} BY DEF SyncInv, SyncingInv, Syncing, Idle
  <2>3. ASSUME NEW s \in Range(batch) PROVE born[s] = tversion
    <3>1. batch # <<>> BY EmptyRange
    <3>2. ~Syncing BY <3>1 DEF SyncInv, SyncingInv, Idle
    <3>3. tversion = weights BY <3>2 DEF Syncing, RunInv, WeightsInv
    <3> QED BY <3>3 DEF SyncInv, AgesInv
  <2> QED BY <2>1, <2>2, <2>3
<1> QED BY RunInit, RunStep, SyncInit, SyncStep, <1>1, PTL DEF Spec
---------------------------------------------------------------------------
(* What the trainer has trained on                                         *)

PerVersion == conf.required * conf.trigger
Steps == tversion * PerVersion + (local - 1) * conf.required

\* While the loop runs, every version but the current one has been trained on
\* in full.
CollectInv ==
  /\ Len(batch) <= conf.required
  /\ tpc = "train" => Len(batch) = conf.required
  /\ tpc = "collect" => Len(batch) < conf.required
  /\ tpc \notin {"collect", "train"} => batch = <<>>
  /\ tpc \in {"waitLast", "syncing"} => local = 1
  /\ last => tpc \in {"waitLast", "syncing", "waitFinal", "ended"}
  /\ Cardinality(trained) <= Steps
  /\ ~last => Cardinality(trained) = Steps

\* the numbers of the settings and of the trainer
CollectFacts ==
  /\ conf.required \in Nat \ {0} /\ conf.trigger \in Nat \ {0} /\ conf.max \in Nat \ {0}
  /\ PerVersion \in Nat \ {0} /\ PerVersion <= conf.max
  /\ tversion \in Nat /\ local \in 1 .. conf.trigger
  /\ (local - 1) * conf.required \in Nat
  /\ (local - 1) * conf.required <= PerVersion - conf.required
  /\ (local + 1 - 1) * conf.required = (local - 1) * conf.required + conf.required
  /\ local = conf.trigger => (local - 1) * conf.required = PerVersion - conf.required
  /\ (1 - 1) * conf.required = 0
  /\ tversion * PerVersion \in Nat
  /\ (tversion + 1) * PerVersion = tversion * PerVersion + PerVersion
  /\ Steps \in Nat
  /\ IsFiniteSet(trained) /\ Cardinality(trained) \in Nat
  /\ batch \in Seq(Samples) /\ Len(batch) \in Nat /\ (Len(batch) = 0 <=> batch = <<>>)

LEMMA CollectKnown == RunInv => CollectFacts
<1> SUFFICES ASSUME RunInv PROVE CollectFacts OBVIOUS
<1> DEFINE r == conf.required
           t == conf.trigger
           p == PerVersion
           v == tversion
<1>1. /\ conf.max \in Nat \ {0} /\ r \in Nat \ {0} /\ t \in Nat \ {0}
      /\ r * t <= conf.max /\ v \in Nat
      /\ local \in 1 .. t /\ batch \in Seq(Samples) /\ trained \subseteq Samples
  BY SettingFacts DEF RunInv, TrainTypes, PlaceInv, PlaceTypes, WeightsInv
<1>2. p = r * t BY DEF PerVersion
<1> HIDE DEF r, t, p, v
<1>3. p \in Nat \ {0}
  <2>1. r * t \in Nat /\ r * t > 0 BY <1>1, SMT
  <2> QED BY <1>2, <2>1
<1>4. /\ (local - 1) * r \in Nat /\ (local - 1) * r <= r * t - r
      /\ (local + 1 - 1) * r = (local - 1) * r + r
      /\ local = t => (local - 1) * r = r * t - r
      /\ (1 - 1) * r = 0
  BY <1>1, BatchArithmetic
<1>5. v * p \in Nat /\ (v + 1) * p = v * p + p BY <1>1, <1>3, SMT
<1>6. IsFiniteSet(trained) /\ Cardinality(trained) \in Nat
  BY <1>1, SamplesFinite, AtMost
<1>7. Len(batch) \in Nat /\ (Len(batch) = 0 <=> batch = <<>>) BY <1>1
<1>8. Steps = v * p + (local - 1) * r BY DEF Steps, v, p, r
<1>9. Steps \in Nat BY <1>4, <1>5, <1>8
<1> QED BY <1>1, <1>2, <1>3, <1>4, <1>5, <1>6, <1>7, <1>9 DEF CollectFacts, r, t, p, v

LEMMA CollectStep == RunInv /\ CollectInv /\ [Next]_vars => CollectInv'
<1> SUFFICES ASSUME RunInv, CollectInv, [Next]_vars PROVE CollectInv' OBVIOUS
<1> USE DEF rollVars, procVars, queueVars, queueOnly
<1>0. CollectFacts BY CollectKnown
<1>1. conf' = conf /\ PerVersion' = PerVersion BY ConfFixed DEF PerVersion
<1>2. CASE RolloutStep \/ UNCHANGED vars
  <2>1. UNCHANGED trainVars BY <1>2 DEF RolloutStep, vars
  <2> QED BY <1>1, <2>1 DEF trainVars, CollectInv, Steps
<1>3. CASE TrainerGets
  <2>1. /\ tpc = "collect" /\ UNCHANGED <<local, tversion, last, trained>> /\ ~last
    BY <1>3 DEF TrainerGets, CollectInv
  <2>2. Steps' = Steps BY <1>1, <2>1 DEF Steps
  <2>3. CASE Head(mq) = End
    <3>1. tpc' = "final" /\ batch' = <<>> /\ Len(batch') = 0 BY <1>3, <2>3 DEF TrainerGets
    <3> QED BY <1>0, <1>1, <2>1, <2>2, <3>1 DEF CollectInv, CollectFacts
  <2>4. CASE Head(mq) # End
    <3>1. /\ batch' = Append(batch, Head(mq))
          /\ tpc' = IF Len(batch') = conf.required THEN "train" ELSE "collect"
      BY <1>3, <2>4 DEF TrainerGets
    <3>2. Len(batch') = Len(batch) + 1 BY <1>0, <3>1 DEF CollectFacts
    <3>3. Len(batch) < conf.required BY <2>1 DEF CollectInv
    <3>4. /\ Len(batch') <= conf.required
          /\ tpc' = "train" => Len(batch') = conf.required
          /\ tpc' = "collect" => Len(batch') < conf.required
      BY <1>0, <3>1, <3>2, <3>3 DEF CollectFacts
    <3>5. tpc' \in {"train", "collect"} BY <3>1
    <3> QED BY <1>1, <2>1, <2>2, <3>4, <3>5 DEF CollectInv
  <2> QED BY <2>3, <2>4
<1>4. CASE TrainerTrains
  <2>1. /\ tpc = "train" /\ batch' = <<>> /\ Len(batch') = 0 /\ last' = last /\ ~last
        /\ trained' = trained \cup Range(batch)
        /\ tpc' = IF local < conf.trigger THEN "validate" ELSE "waitLast"
    BY <1>4 DEF TrainerTrains, CollectInv, NextPlace
  <2>2. Len(batch) = conf.required BY <2>1 DEF CollectInv
  <2>3. Cardinality(trained') = Cardinality(trained) + conf.required
    <3> DEFINE B == Range(batch)
    <3>1. IsFiniteSet(B) /\ Cardinality(B) = conf.required
      BY <2>2, RangeExactly DEF RunInv, PlaceInv, PlaceTypes, InjectiveInv
    <3>2. trained \cap B = {}
      <4>1. ASSUME NEW s \in trained, s \in B PROVE FALSE
        <5>1. s \in Places["trained"] /\ s \in Places["batch"] BY <4>1, PlaceFields
        <5> QED BY <5>1, Apart DEF RunInv, Names
      <4> QED BY <4>1
    <3>3. IsFiniteSet(trained) /\ Cardinality(trained) \in Nat BY <1>0 DEF CollectFacts
    <3> HIDE DEF B
    <3>4. Cardinality(trained \cup B)
            = Cardinality(trained) + Cardinality(B) - Cardinality(trained \cap B)
      BY <3>1, <3>3, FS_Union
    <3>5. Cardinality(trained \cap B) = 0 BY <3>2, FS_EmptySet
    <3>6. conf.required \in Nat BY <1>0 DEF CollectFacts
    <3> QED BY <2>1, <3>1, <3>3, <3>4, <3>5, <3>6 DEF B
  <2>4. Cardinality(trained) = Steps BY <2>1 DEF CollectInv
  <2>5. Steps' = Steps + conf.required
    <3>1. CASE local < conf.trigger
      <4>1. local' = local + 1 /\ tversion' = tversion BY <1>4, <3>1 DEF TrainerTrains
      <4>2. Steps' = tversion * PerVersion + (local + 1 - 1) * conf.required
        <5>1. Steps' = tversion' * PerVersion' + (local' - 1) * conf'.required BY DEF Steps
        <5>2. tversion' * PerVersion' = tversion * PerVersion BY <1>1, <4>1
        <5>3. (local' - 1) * conf'.required = (local + 1 - 1) * conf.required
          <6>1. conf'.required = conf.required BY <1>1
          <6>2. local \in Int /\ local' = local + 1 BY <1>0, <4>1 DEF CollectFacts
          <6> QED BY <6>1, <6>2
        <5> QED BY <5>1, <5>2, <5>3
      <4>3. Steps = tversion * PerVersion + (local - 1) * conf.required BY DEF Steps
      <4> QED BY <1>0, <4>2, <4>3 DEF CollectFacts
    <3>2. CASE ~(local < conf.trigger)
      <4>1. local' = 1 /\ tversion' = tversion + 1 BY <1>4, <3>2 DEF TrainerTrains
      <4>2. local = conf.trigger BY <1>0, <3>2 DEF CollectFacts
      <4>3. Steps' = (tversion + 1) * PerVersion + (1 - 1) * conf.required
        BY <1>1, <4>1 DEF Steps
      <4>4. Steps = tversion * PerVersion + (local - 1) * conf.required BY DEF Steps
      <4> QED BY <1>0, <4>2, <4>3, <4>4 DEF CollectFacts
    <3> QED BY <3>1, <3>2
  <2>6. tpc' \in {"waitLast", "syncing"} => local' = 1 BY <1>4, <2>1 DEF TrainerTrains
  <2>7. conf.required \in Nat \ {0} /\ Cardinality(trained') = Steps' /\ Steps' \in Nat
    BY <1>0, <2>3, <2>4, <2>5 DEF CollectFacts
  <2>8. tpc' \in {"validate", "waitLast"} BY <2>1
  <2> QED BY <1>1, <2>1, <2>6, <2>7, <2>8 DEF CollectInv
<1>5. CASE TrainerWaitsLast \/ Transfer
  <2>1. /\ UNCHANGED <<batch, local, tversion, last, trained>>
        /\ tpc \in {"waitLast", "syncing"}
        /\ tpc' \in {"syncing", "waitFinal", "validate"} /\ (tpc' = "validate" => ~last)
    BY <1>5 DEF TrainerWaitsLast, Transfer
  <2>2. Steps' = Steps BY <1>1, <2>1 DEF Steps
  <2> QED BY <1>1, <2>1, <2>2 DEF CollectInv
<1>6. CASE TrainerGetsValidation
  <2>1. /\ UNCHANGED <<batch, local, tversion, last, trained>>
        /\ \/ tpc = "validate" /\ tpc' = "collect"
           \/ tpc = "waitFinal" /\ tpc' = "ended"
    BY <1>6 DEF TrainerGetsValidation
  <2>2. Steps' = Steps BY <1>1, <2>1 DEF Steps
  <2>3. batch = <<>> BY <2>1 DEF CollectInv
  <2>5. Len(batch) < conf.required
    <3>1. Len(batch) = 0 /\ conf.required \in Nat \ {0} BY <1>0, <2>3 DEF CollectFacts
    <3> QED BY <3>1
  <2>4. /\ Len(batch') <= conf'.required /\ Len(batch') < conf'.required /\ batch' = <<>>
        /\ tpc' \in {"collect", "ended"} /\ (last' => tpc' = "ended")
    BY <1>0, <1>1, <2>1, <2>3, <2>5 DEF CollectInv, CollectFacts
  <2> QED BY <1>0, <1>1, <2>1, <2>2, <2>4 DEF CollectInv
<1>7. CASE TrainerFinishes
  <2>1. tpc = "final" /\ ~last /\ UNCHANGED <<batch, trained>> BY <1>7 DEF TrainerFinishes, CollectInv
  <2>2. batch = <<>> /\ Cardinality(trained) = Steps BY <2>1 DEF CollectInv
  <2>3. CASE tpc' = "ended" /\ UNCHANGED <<tversion, local, last>>
    <3>1. Steps' = Steps BY <1>1, <2>3 DEF Steps
    <3> QED BY <1>0, <1>1, <2>1, <2>2, <2>3, <3>1 DEF CollectInv, CollectFacts
  <2>4. CASE tversion' = tversion + 1 /\ local' = 1 /\ last' = TRUE /\ tpc' = "waitLast"
    <3>1. Steps' = (tversion + 1) * PerVersion + (1 - 1) * conf.required
      BY <1>1, <2>4 DEF Steps
    <3>2. Steps = tversion * PerVersion + (local - 1) * conf.required BY DEF Steps
    <3>3. Steps <= Steps' BY <1>0, <3>1, <3>2 DEF CollectFacts
    <3> QED BY <1>0, <1>1, <2>1, <2>2, <2>4, <3>3 DEF CollectInv, CollectFacts
  <2> QED BY <1>7, <2>3, <2>4 DEF TrainerFinishes
<1> QED BY <1>2, <1>3, <1>4, <1>5, <1>6, <1>7 DEF Next, Trainer

LEMMA CollectInit == Init => CollectInv
<1> SUFFICES ASSUME Init PROVE CollectInv OBVIOUS
<1>1. CollectFacts BY RunInit, CollectKnown
<1>2. /\ batch = <<>> /\ tpc = "validate" /\ last = FALSE /\ trained = {}
      /\ local = 1 /\ tversion = 0
  BY DEF Init
<1>3. Cardinality(trained) = 0 BY <1>2, FS_EmptySet
<1>4. Steps = 0 * PerVersion + (1 - 1) * conf.required BY <1>2 DEF Steps
<1>5. 0 * PerVersion = 0 BY <1>1 DEF CollectFacts
<1>6. Steps = 0 BY <1>1, <1>4, <1>5 DEF CollectFacts
<1> QED BY <1>1, <1>2, <1>3, <1>6 DEF CollectInv, CollectFacts

---------------------------------------------------------------------------
(* The versions samples are started with                                   *)

\* what no step but a few changes
LEMMA FewMove ==
  ASSUME [Next]_vars
  PROVE  /\ dropped \subseteq dropped' /\ left \subseteq left'
         /\ ProcessorSubmits \/ born' = born
         /\ Transfer \/ weights' = weights
         /\ ProcessorTakesCancelled \/ ProcessorTakesPending \/ ProcessorSubmits \/ held' = held
<1> USE DEF procRest, procVars, queueVars, mainRest, monRest, syncRest, rollVars, queueOnly,
            trainVars
<1>1. CASE UNCHANGED vars BY <1>1 DEF vars
<1>2. CASE Trainer
  BY <1>2 DEF Trainer, TrainerGets, TrainerTrains, TrainerWaitsLast, Transfer,
     TrainerGetsValidation, TrainerFinishes
<1>3. CASE RolloutStep
  <2>1. UNCHANGED <<weights, left>> BY <1>3, RolloutKeepsWeights
  <2>2. CASE Processor
    BY <2>1, <2>2
       DEF Processor, ProcessorSeesPause, ProcessorTakesCancelled, ProcessorTakesPending,
           ProcessorWaitsForPending, ProcessorLocks, ProcessorGetsLock, ProcessorPauses,
           ProcessorLeavesLoop, ProcessorWaitsForTask, ProcessorSeesTaskDone,
           ProcessorFindsNoTask, ProcessorParks, ProcessorUnparks, ProcessorSubmits
  <2>3. CASE QueueReceives \/ MainPutsEnd
    BY <2>1, <2>3 DEF QueueReceives, MainPutsEnd, PutSample
  <2>4. CASE \/ FeedSamples \/ ConsumerTakes
             \/ \E s \in Samples : TaskCancelled(s) \/ TaskCompletes(s)
             \/ MainStreamEnds \/ MainStops
             \/ MonitorQueues \/ MonitorUnpauses \/ MonitorEnds
    BY <2>1, <2>4
       DEF FeedSamples, ConsumerTakes, TaskCancelled, TaskCompletes, MainStreamEnds, MainStops,
           MonitorQueues, MonitorUnpauses, MonitorEnds
  <2>5. CASE \/ SyncQueues \/ PauseBegins \/ PauseCancels \/ PauseEnds
             \/ UpdateBegins(weights) \/ UpdateEnds(tpc = "waitFinal")
             \/ ResumeBegins \/ ResumeEnds
    BY <2>1, <2>5 DEF SyncQueues, PauseBegins, PauseCancels, PauseEnds, UpdateBegins, UpdateEnds,
       ResumeBegins, ResumeEnds
  <2> QED BY <1>3, <2>2, <2>3, <2>4, <2>5 DEF RolloutStep, Rollouter
<1> QED BY <1>1, <1>2, <1>3 DEF Next

\* the samples whose generation has started and that are not lost
Started == Running \cup Range(cancelq) \cup Rolled \cup Range(batch) \cup trained
Lost == (dropped \ {End}) \cup left

\* Every sample taken is with the processor, started or lost.
StartedSplit == Started = (1 .. Taken) \ (Lost \cup ({held} \ {NoSample}))

LEMMA StartedIsRest == PlaceInv => StartedSplit
<1> SUFFICES ASSUME PlaceInv PROVE StartedSplit OBVIOUS
<1>1. Partition(Places, Taken) BY DEF PlaceInv, PartitionInv
<1>2. /\ \A p \in Names : Places[p] \subseteq 1 .. Taken
      /\ \A p, q \in Names : \A s \in Places[p] : s \in Places[q] => p = q
      /\ \A s \in 1 .. Taken : \E p \in Names : s \in Places[p]
  BY <1>1 DEF Partition
<1>3. ASSUME NEW s \in Started
      PROVE  s \in 1 .. Taken /\ s \notin Lost \cup ({held} \ {NoSample})
  <2>1. PICK p \in {"task", "cancelq", "resultq", "inflight", "mq", "batch", "trained"} :
          s \in Places[p]
    BY <1>3, PlaceFields DEF Started, Rolled
  <2>2. p \in Names /\ \A q \in {"dropped", "left", "held"} : q \in Names /\ p # q
    BY DEF Names
  <2>3. s \in 1 .. Taken /\ \A q \in {"dropped", "left", "held"} : s \notin Places[q]
    BY <1>2, <2>1, <2>2
  <2> QED BY <2>3, PlaceFields DEF Lost
<1>4. ASSUME NEW s \in 1 .. Taken, s \notin Lost \cup ({held} \ {NoSample}) PROVE s \in Started
  <2>1. PICK p \in Names : s \in Places[p] BY <1>2
  <2> QED BY <1>4, <2>1, PlaceFields DEF Names, Started, Rolled, Lost
<1> QED BY <1>3, <1>4 DEF StartedSplit

LEMMA StartedIsRestNext == PlaceInv' => StartedSplit'
BY StartedIsRest, PTL

\* Only a submission starts a sample, the one that was held.
LEMMA StartedGrows ==
  ASSUME PlaceInv, [Next]_vars
  PROVE  /\ ~ProcessorSubmits => Started' \subseteq Started
         /\ ProcessorSubmits => Started' \subseteq Started \cup {held} /\ held \in 1 .. Taken
         /\ 1 .. Taken \subseteq 1 .. Taken'
<1>1. PlaceInv' BY PlaceStep
<1>2. /\ Started = (1 .. Taken) \ (Lost \cup ({held} \ {NoSample}))
      /\ Started' = (1 .. Taken') \ (Lost' \cup ({held'} \ {NoSample}))
  BY <1>1, StartedIsRest, StartedIsRestNext DEF StartedSplit
<1>3. Lost \subseteq Lost' BY FewMove DEF Lost
<1>4. /\ got \in Nat /\ got <= End /\ got' \in Nat /\ got' <= End /\ End = Total + 1
      /\ Total \in Nat
  BY <1>1, TotalAssumption DEF PlaceInv, PlaceTypes, End
<1>5. ~ProcessorTakesPending => Taken' = Taken BY GoneGrows DEF Taken
<1>6. CASE ProcessorTakesPending
  <2>1. /\ got' = got + 1 /\ at \in {"get", "top"} /\ held = NoSample
        /\ held' = IF got' = End THEN NoSample ELSE got'
    BY <1>6 DEF ProcessorTakesPending, PlaceInv, HeldInv
  <2>2. ~ProcessorSubmits BY <2>1 DEF ProcessorSubmits
  <2>3. /\ 1 .. Taken' \subseteq (1 .. Taken) \cup ({held'} \ {NoSample})
        /\ 1 .. Taken \subseteq 1 .. Taken'
    BY <1>4, <2>1 DEF Taken, NoSample
  <2> QED BY <1>2, <1>3, <2>1, <2>2, <2>3
<1>7. CASE ProcessorSubmits
  <2>1. at = "submit" BY <1>7 DEF ProcessorSubmits
  <2>2. ~ProcessorTakesPending BY <2>1 DEF ProcessorTakesPending
  <2>3. held \in Places["held"] BY <2>1, PlaceFields DEF PlaceInv, HeldInv
  <2>4. held \in 1 .. Taken BY <2>3 DEF PlaceInv, PartitionInv, Partition, Names
  <2> QED BY <1>2, <1>3, <1>5, <1>7, <2>2, <2>4
<1>8. CASE ~ProcessorTakesPending /\ ~ProcessorSubmits
  <2>1. held' = held \/ held = NoSample
    BY <1>8, FewMove DEF ProcessorTakesCancelled, PlaceInv, HeldInv
  <2> QED BY <1>2, <1>3, <1>5, <1>8, <2>1
<1> QED BY <1>6, <1>7, <1>8

\* A started sample has the version it was first started with, and no other
\* has one that the processor has yet to take.
BornInv ==
  /\ \A s \in Started : born[s] # None
  /\ \A s \in Samples : born[s] # None => born[s] \in 0 .. weights /\ s \in 1 .. Taken

LEMMA BornStep == RunInv /\ BornInv /\ [Next]_vars => BornInv'
<1> SUFFICES ASSUME RunInv, BornInv, [Next]_vars PROVE BornInv' OBVIOUS
<1>1. RunInv' BY RunStep
<1>2. /\ weights \in Nat /\ weights' \in Nat /\ tversion \in Nat
      /\ born \in [Samples -> Nat \cup {None}]
  BY <1>1 DEF RunInv, WeightsInv, ProcTypes
<1>3. weights <= weights'
  <2>1. CASE Transfer BY <1>2, <2>1 DEF Transfer, RunInv, WeightsInv
  <2>2. CASE ~Transfer BY <1>2, <2>2, FewMove
  <2> QED BY <2>1, <2>2
<1>4. CASE ProcessorSubmits
  <2>1. Started' \subseteq Started \cup {held} /\ held \in 1 .. Taken /\ 1 .. Taken \subseteq 1 .. Taken'
    BY <1>4, StartedGrows DEF RunInv
  <2>2. /\ born' = [born EXCEPT ![held] = IF @ = None THEN weights ELSE @]
        /\ weights' = weights
    BY <1>4 DEF ProcessorSubmits
  <2>3. Started \subseteq Samples /\ held \in Samples
    <3>1. Taken \in 0 .. Total BY TotalAssumption DEF RunInv, PlaceInv, PlaceTypes, Taken, End
    <3>2. Started \subseteq 1 .. Taken BY StartedIsRest DEF RunInv, StartedSplit
    <3> QED BY <2>1, <3>1, <3>2, TotalAssumption DEF Samples
  <2>4. /\ \A s \in Samples \ {held} : born'[s] = born[s]
        /\ born'[held] # None
        /\ \/ born'[held] = born[held] /\ born[held] # None
           \/ born'[held] = weights
    BY <1>2, <2>2, <2>3, NoneAssumption
  <2>5. \A s \in Started' : born'[s] # None BY <2>1, <2>3, <2>4 DEF BornInv
  <2>6. ASSUME NEW s \in Samples, born'[s] # None PROVE born'[s] \in 0 .. weights' /\ s \in 1 .. Taken'
    <3>1. CASE s = held BY <1>2, <2>1, <2>2, <2>3, <2>4, <3>1 DEF BornInv
    <3>2. CASE s # held BY <2>1, <2>2, <2>4, <2>6, <3>2 DEF BornInv
    <3> QED BY <3>1, <3>2
  <2> QED BY <2>5, <2>6 DEF BornInv
<1>5. CASE ~ProcessorSubmits
  <2>1. Started' \subseteq Started /\ born' = born /\ 1 .. Taken \subseteq 1 .. Taken'
    BY <1>5, StartedGrows, FewMove DEF RunInv
  <2>2. \A s \in Started' : born'[s] # None BY <2>1 DEF BornInv
  <2>3. ASSUME NEW s \in Samples, born'[s] # None
        PROVE  born'[s] \in 0 .. weights' /\ s \in 1 .. Taken'
    BY <1>2, <1>3, <2>1, <2>3 DEF BornInv
  <2> QED BY <2>2, <2>3 DEF BornInv
<1> QED BY <1>4, <1>5

LEMMA BornInit == Init => BornInv
<1> SUFFICES ASSUME Init PROVE BornInv OBVIOUS
<1>1. PlaceInv BY PlaceInit
<1>2. Taken = 0 BY TotalAssumption DEF Init, RollInit, Taken, End
<1>3. Started = {} BY <1>1, <1>2, StartedIsRest DEF StartedSplit
<1>4. \A s \in Samples : born[s] = None BY DEF Init, RollInit
<1> QED BY <1>3, <1>4 DEF BornInv

\* Without partial rollout no generation is cut, and one that is under way
\* started with the current weights or, if it started while they were on
\* their way, with those before.
UncutInv ==
  /\ cancelq = <<>> /\ servers = "open" /\ sync \notin {"cancelling", "resuming"}
  /\ \A s \in Samples : task[s] \in {"none", "gen"}
RecentInv ==
  /\ held # NoSample => born[held] = None
  /\ \A s \in Running : born[s] \in weights - 1 .. weights
  /\ sync = "quiet" => \A s \in Running : born[s] = weights
WholeInv == ~conf.partial => UncutInv /\ RecentInv

LEMMA UncutStep ==
  ASSUME PlaceInv, ~conf.partial, UncutInv, [Next]_vars
  PROVE  /\ UncutInv'
         /\ ~ProcessorSubmits => Running' \subseteq Running
         /\ sync' = "quiet" => sync = "quiet" \/ Running = {}
         /\ ~ProcessorTakesCancelled
<1> USE DEF procRest, procVars, queueVars, mainRest, monRest, syncRest, rollVars, queueOnly
<1>1. ~ProcessorTakesCancelled BY DEF ProcessorTakesCancelled, UncutInv
<1>2. UNCHANGED <<cancelq, servers, task, sync>>
        => UncutInv' /\ Running' = Running /\ (sync' = "quiet" => sync = "quiet")
  BY DEF UncutInv, Running
<1>3. CASE UNCHANGED vars BY <1>1, <1>2, <1>3 DEF vars
<1>4. CASE TrainerGets \/ TrainerTrains \/ TrainerGetsValidation \/ TrainerFinishes
  <2>1. UNCHANGED <<cancelq, servers, task, sync>>
    BY <1>4 DEF TrainerGets, TrainerTrains, TrainerGetsValidation, TrainerFinishes
  <2> QED BY <1>1, <1>2, <2>1
<1>5. CASE TrainerWaitsLast \/ Transfer
  <2>1. UNCHANGED <<cancelq, servers, task>> /\ sync' \in {"pauseCall", "updateCall"}
    BY <1>5 DEF TrainerWaitsLast, Transfer
  <2> QED BY <1>1, <2>1 DEF UncutInv, Running
<1>6. CASE ProcessorSubmits
  <2>1. /\ UNCHANGED <<cancelq, servers, sync>> /\ DOMAIN task = Samples
        /\ task' = [task EXCEPT ![held] = "gen"]
    BY <1>6 DEF ProcessorSubmits, PlaceInv, PlaceTypes
  <2>2. \A s \in Samples : task'[s] \in {"none", "gen"} BY <2>1 DEF UncutInv
  <2> QED BY <1>1, <1>6, <2>1, <2>2 DEF UncutInv
<1>7. CASE Processor /\ ~ProcessorSubmits
  <2>1. UNCHANGED <<cancelq, servers, task, sync>>
    BY <1>1, <1>7
       DEF Processor, ProcessorSeesPause, ProcessorTakesPending,
           ProcessorWaitsForPending, ProcessorLocks, ProcessorGetsLock, ProcessorPauses,
           ProcessorLeavesLoop, ProcessorWaitsForTask, ProcessorSeesTaskDone,
           ProcessorFindsNoTask, ProcessorParks, ProcessorUnparks
  <2> QED BY <1>1, <1>2, <2>1
<1>8. CASE \E s \in Samples : TaskCancelled(s) \/ TaskCompletes(s)
  <2>1. PICK s \in Samples : TaskCancelled(s) \/ TaskCompletes(s) BY <1>8
  <2>2. TaskCompletes(s) BY <2>1 DEF TaskCancelled, UncutInv
  <2>3. /\ UNCHANGED <<cancelq, servers, sync>> /\ DOMAIN task = Samples
        /\ task' = [task EXCEPT ![s] = "none"]
    BY <2>2 DEF TaskCompletes, PlaceInv, PlaceTypes
  <2>4. \A x \in Samples : task'[x] \in {"none", "gen"} /\ (task'[x] # "none" => task'[x] = task[x])
    BY <2>3 DEF UncutInv
  <2> QED BY <1>1, <2>3, <2>4 DEF UncutInv, Running
<1>9. CASE \/ FeedSamples \/ ConsumerTakes \/ QueueReceives
           \/ MainStreamEnds \/ MainPutsEnd \/ MainStops
           \/ MonitorQueues \/ MonitorUnpauses \/ MonitorEnds
  <2>1. UNCHANGED <<cancelq, servers, task, sync>>
    BY <1>9
       DEF FeedSamples, ConsumerTakes, QueueReceives, MainStreamEnds, MainPutsEnd, MainStops,
           MonitorQueues, MonitorUnpauses, MonitorEnds
  <2> QED BY <1>1, <1>2, <2>1
<1>10. CASE \/ SyncQueues \/ PauseBegins \/ UpdateBegins(weights) \/ UpdateEnds(tpc = "waitFinal")
            \/ ResumeBegins
  <2>1. /\ UNCHANGED <<cancelq, servers, task>>
        /\ sync' \notin {"cancelling", "resuming", "quiet"}
    BY <1>10 DEF SyncQueues, Queued, PauseBegins, UpdateBegins, UpdateEnds, ResumeBegins
  <2> QED BY <1>1, <2>1 DEF UncutInv, Running
<1>11. ~PauseCancels /\ ~ResumeEnds BY DEF PauseCancels, ResumeEnds, UncutInv
<1>12. CASE PauseEnds
  <2>1. /\ UNCHANGED <<cancelq, servers, task>> /\ sync' = "quiet"
        /\ \A s \in Samples : task[s] = "none"
    BY <1>12 DEF PauseEnds
  <2> QED BY <1>1, <2>1 DEF UncutInv, Running
<1> QED BY <1>3, <1>4, <1>5, <1>6, <1>7, <1>8, <1>9, <1>10, <1>11, <1>12
        DEF Next, Trainer, RolloutStep, Rollouter

LEMMA WholeStep == RunInv /\ BornInv /\ WholeInv /\ [Next]_vars => WholeInv'
<1> SUFFICES ASSUME RunInv, BornInv, WholeInv, [Next]_vars, ~conf'.partial
             PROVE  UncutInv' /\ RecentInv'
  BY DEF WholeInv
<1>1. RunInv' /\ BornInv' BY RunStep, BornStep
<1>2. ~conf.partial /\ UncutInv /\ RecentInv BY ConfFixed DEF WholeInv
<1>3. /\ UncutInv' /\ (~ProcessorSubmits => Running' \subseteq Running)
      /\ sync' = "quiet" => sync = "quiet" \/ Running = {}
      /\ ~ProcessorTakesCancelled
  BY <1>2, UncutStep DEF RunInv
<1>4. weights \in Nat /\ born \in [Samples -> Nat \cup {None}]
  BY DEF RunInv, WeightsInv, ProcTypes
<1>5. CASE ProcessorSubmits
  <2>1. /\ held' = NoSample /\ UNCHANGED <<sync, weights>> /\ held # NoSample
        /\ task' = [task EXCEPT ![held] = "gen"] /\ DOMAIN task = Samples
        /\ born' = [born EXCEPT ![held] = IF @ = None THEN weights ELSE @]
    BY <1>5 DEF ProcessorSubmits, RunInv, PlaceInv, PlaceTypes, HeldInv
  <2>2. Running' \subseteq Running \cup {held} BY <2>1 DEF Running
  <2>3. born[held] = None BY <1>2, <2>1 DEF RecentInv
  <2>4. \A s \in Running' : (born'[s] = born[s] /\ s \in Running) \/ born'[s] = weights
    BY <1>4, <2>1, <2>2, <2>3 DEF Running
  <2> QED BY <1>2, <1>3, <1>4, <2>1, <2>4 DEF RecentInv
<1>6. CASE Transfer
  <2>1. /\ sync = "quiet" /\ sync' = "updateCall" /\ tpc = "syncing" /\ weights' = tversion
        /\ UNCHANGED <<held, task, born>>
    BY <1>6 DEF Transfer, procVars
  <2>2. weights' = weights + 1 BY <2>1 DEF RunInv, WeightsInv
  <2>3. Running' = Running BY <2>1 DEF Running
  <2>4. \A s \in Running : born[s] = weights BY <1>2, <2>1 DEF RecentInv
  <2>5. \A s \in Running' : born'[s] \in weights' - 1 .. weights'
    BY <1>4, <2>1, <2>2, <2>3, <2>4
  <2> QED BY <1>2, <1>3, <2>1, <2>5 DEF RecentInv
<1>7. CASE ~ProcessorSubmits /\ ~Transfer
  <2>1. born' = born /\ weights' = weights BY <1>7, FewMove
  <2>2. held' # NoSample => born'[held'] = None
    <3>1. CASE ProcessorTakesPending
      <4>1. /\ got' = got + 1 /\ held' = IF got' = End THEN NoSample ELSE got'
        BY <3>1 DEF ProcessorTakesPending
      <4>2. /\ got \in Nat /\ got' \in Nat /\ got' <= End /\ End = Total + 1 /\ Total \in Nat
        BY <1>1, TotalAssumption DEF RunInv, PlaceInv, PlaceTypes, End
      <4>3. CASE got' # End
        <5>1. held' \in Samples /\ held' \notin 1 .. Taken
          BY <4>1, <4>2, <4>3 DEF Taken, Samples
        <5> QED BY <2>1, <5>1 DEF BornInv
      <4> QED BY <4>1, <4>3
    <3>2. CASE ~ProcessorTakesPending
      <4>1. held' = held BY <1>3, <1>7, <3>2, FewMove
      <4> QED BY <1>2, <2>1, <4>1 DEF RecentInv
    <3> QED BY <3>1, <3>2
  <2> QED BY <1>2, <1>3, <1>7, <2>1, <2>2 DEF RecentInv
<1> QED BY <1>5, <1>6, <1>7

LEMMA WholeInit == Init => WholeInv
BY DEF Init, RollInit, WholeInv, UncutInv, RecentInv, Running

---------------------------------------------------------------------------
(* Without partial rollout samples reach the trainer in the order of their *)
(* versions, or one off.                                                   *)

Near(a, x, y) == a[x] <= a[y] + 1
Sorted(a, q) ==
  \A i, j \in 1 .. Len(q) : i < j /\ q[i] # End /\ q[j] # End => Near(a, q[i], q[j])

LEMMA SortedTail ==
  ASSUME NEW a, NEW S, NEW q \in Seq(S), q # <<>>, Sorted(a, q)
  PROVE  /\ Sorted(a, Tail(q))
         /\ Head(q) # End => \A y \in Range(Tail(q)) \ {End} : Near(a, Head(q), y)
<1> DEFINE t == Tail(q)
<1>1. /\ Len(q) \in Nat \ {0} /\ Len(t) = Len(q) - 1 /\ DOMAIN t = 1 .. Len(q) - 1
      /\ Head(q) = q[1] /\ \A i \in 1 .. Len(q) - 1 : t[i] = q[i + 1]
  OBVIOUS
<1> HIDE DEF t
<1>2. Sorted(a, t)
  <2> SUFFICES ASSUME NEW i \in 1 .. Len(q) - 1, NEW j \in 1 .. Len(q) - 1, i < j,
                      t[i] # End, t[j] # End
               PROVE  Near(a, t[i], t[j])
    BY <1>1 DEF Sorted
  <2>1. i + 1 \in 1 .. Len(q) /\ j + 1 \in 1 .. Len(q) /\ i + 1 < j + 1 BY <1>1
  <2> QED BY <1>1, <2>1 DEF Sorted
<1>3. ASSUME NEW y \in Range(t) \ {End}, Head(q) # End PROVE Near(a, Head(q), y)
  <2>1. PICK i \in 1 .. Len(q) - 1 : y = t[i] BY <1>1 DEF Range
  <2>2. i + 1 \in 1 .. Len(q) /\ 1 \in 1 .. Len(q) /\ 1 < i + 1 BY <1>1
  <2> QED BY <1>1, <1>3, <2>1, <2>2 DEF Sorted
<1> QED BY <1>2, <1>3 DEF t

LEMMA SortedAppend ==
  ASSUME NEW a, NEW S, NEW q \in Seq(S), NEW e, Sorted(a, q),
         e # End => \A x \in Range(q) \ {End} : Near(a, x, e)
  PROVE  Sorted(a, Append(q, e))
<1> DEFINE w == Append(q, e)
<1>1. /\ Len(q) \in Nat /\ Len(w) = Len(q) + 1 /\ DOMAIN q = 1 .. Len(q)
      /\ w[Len(q) + 1] = e /\ \A i \in 1 .. Len(q) : w[i] = q[i]
  OBVIOUS
<1> HIDE DEF w
<1> SUFFICES ASSUME NEW i \in 1 .. Len(q) + 1, NEW j \in 1 .. Len(q) + 1, i < j,
                    w[i] # End, w[j] # End
             PROVE  Near(a, w[i], w[j])
  BY <1>1 DEF Sorted, w
<1>2. i \in 1 .. Len(q) /\ w[i] = q[i] BY <1>1
<1>3. CASE j \in 1 .. Len(q) BY <1>1, <1>2, <1>3 DEF Sorted
<1>4. CASE j = Len(q) + 1
  <2>1. q[i] \in Range(q) BY <1>1, <1>2 DEF Range
  <2> QED BY <1>1, <1>2, <1>4, <2>1
<1> QED BY <1>1, <1>3, <1>4

\* a queue without End, or with
LEMMA SortedOf ==
  ASSUME NEW a, NEW b, NEW S, NEW q \in Seq(S), Sorted(a, q),
         \A x \in Range(q) \ {End} : b[x] = a[x]
  PROVE  Sorted(b, q)
<1> SUFFICES ASSUME NEW i \in 1 .. Len(q), NEW j \in 1 .. Len(q), i < j,
                    q[i] # End, q[j] # End
             PROVE  Near(b, q[i], q[j])
  BY DEF Sorted
<1>1. q[i] \in Range(q) /\ q[j] \in Range(q) BY DEF Range
<1> QED BY <1>1 DEF Sorted, Near

QueueOrder ==
  /\ \A x \in trained, y \in Range(batch) \cup Rolled : Near(born, x, y)
  /\ \A x \in Range(batch), y \in Rolled : Near(born, x, y)
  /\ \A x \in Range(mq) \ {End}, y \in ({inflight} \ {NoSample}) \cup Range(resultq) :
       Near(born, x, y)
  /\ \A x \in {inflight} \ {NoSample}, y \in Range(resultq) : Near(born, x, y)
  /\ Sorted(born, mq) /\ Sorted(born, resultq)
FifoInv == ~conf.partial => QueueOrder

pipeVars == <<trained, batch, mq, inflight, resultq>>

LEMMA FifoSubmits ==
  ASSUME RunInv, QueueOrder, UNCHANGED trainVars, ProcessorSubmits
  PROVE  QueueOrder'
<1>1. UNCHANGED pipeVars /\ held \in Samples /\ held # NoSample
  BY TotalAssumption DEF ProcessorSubmits, trainVars, queueVars, pipeVars, RunInv, PlaceInv,
     PlaceTypes, HeldInv, NoSample, Samples
<1>2. UNCHANGED <<trained, batch, mq, inflight, resultq>> /\ Rolled' = Rolled
  BY <1>1 DEF pipeVars, Rolled
<1>3. \A s \in trained \cup Range(batch) \cup Rolled : s \in Samples /\ s # held
  <2> SUFFICES ASSUME NEW s \in trained \cup Range(batch) \cup Rolled
               PROVE  s \in Samples /\ s # held
    OBVIOUS
  <2>1. PICK p \in {"trained", "batch", "resultq", "inflight", "mq"} : s \in Places[p]
    BY PlaceFields DEF Rolled
  <2>2. p \in Names /\ "held" \in Names /\ p # "held" BY DEF Names
  <2>3. s \notin Places["held"] /\ s \in Samples BY <2>1, <2>2, Apart DEF RunInv
  <2> QED BY <1>1, <2>3, PlaceFields
<1>4. \A s \in trained \cup Range(batch) \cup Rolled : born'[s] = born[s]
  BY <1>3 DEF ProcessorSubmits, RunInv, ProcTypes
<1>5. /\ mq \in Seq(1 .. End) /\ resultq \in Seq(Samples)
      /\ Range(mq) \ {End} \subseteq Rolled /\ Range(resultq) \ {End} \subseteq Rolled
  BY DEF RunInv, PlaceInv, PlaceTypes, Rolled
<1>6. Sorted(born', mq)
  <2>1. Sorted(born, mq) /\ \A x \in Range(mq) \ {End} : born'[x] = born[x]
    BY <1>4, <1>5 DEF QueueOrder
  <2> QED BY <1>5, <2>1, SortedOf
<1>7. Sorted(born', resultq)
  <2>1. Sorted(born, resultq) /\ \A x \in Range(resultq) \ {End} : born'[x] = born[x]
    BY <1>4, <1>5 DEF QueueOrder
  <2> QED BY <1>5, <2>1, SortedOf
<1>8. /\ \A x \in trained, y \in Range(batch) \cup Rolled : Near(born', x, y)
      /\ \A x \in Range(batch), y \in Rolled : Near(born', x, y)
  BY <1>4 DEF QueueOrder, Near
<1>9. /\ \A x \in Range(mq) \ {End}, y \in ({inflight} \ {NoSample}) \cup Range(resultq) :
           Near(born', x, y)
      /\ \A x \in {inflight} \ {NoSample}, y \in Range(resultq) : Near(born', x, y)
  BY <1>4 DEF QueueOrder, Near, Rolled
<1> QED BY <1>2, <1>6, <1>7, <1>8, <1>9 DEF QueueOrder

\* What ends its generation is as new as anything, but for one version.
LEMMA FifoCompletes ==
  ASSUME RunInv, BornInv, ~conf.partial, RecentInv, QueueOrder, UNCHANGED trainVars,
         NEW s \in Samples, TaskCompletes(s)
  PROVE  QueueOrder'
<1>1. /\ s \in Running /\ resultq' = Append(resultq, s)
      /\ UNCHANGED <<trained, batch, mq, inflight, born>>
  BY DEF TaskCompletes, Running, trainVars, queueVars
<1>2. /\ resultq \in Seq(Samples) /\ IsInjective(resultq) /\ weights \in Nat
      /\ born \in [Samples -> Nat \cup {None}]
  BY DEF RunInv, PlaceInv, PlaceTypes, InjectiveInv, WeightsInv, ProcTypes
<1>3. s \notin Range(resultq)
  <2>1. s \in Places["task"] BY <1>1, PlaceFields
  <2> QED BY <2>1, Apart, PlaceFields DEF RunInv, Names
<1>4. Range(resultq') = Range(resultq) \cup {s} BY <1>1, <1>2, <1>3, NewPut
<1>5. Rolled' = Rolled \cup {s} BY <1>1, <1>4 DEF Rolled
<1>6. ASSUME NEW x \in Started PROVE Near(born, x, s)
  <2>1. x \in Samples
    <3>1. Taken \in 0 .. Total BY TotalAssumption DEF RunInv, PlaceInv, PlaceTypes, Taken, End
    <3>2. x \in 1 .. Taken BY StartedIsRest DEF RunInv, StartedSplit
    <3> QED BY <3>1, <3>2, TotalAssumption DEF Samples
  <2>2. born[x] \in 0 .. weights BY <1>6, <2>1 DEF BornInv
  <2>3. born[s] \in weights - 1 .. weights BY <1>1 DEF RecentInv
  <2> QED BY <1>2, <2>2, <2>3 DEF Near
<1>7. Sorted(born, resultq')
  <2>1. \A x \in Range(resultq) \ {End} : Near(born, x, s) BY <1>6 DEF Started, Rolled
  <2>2. Sorted(born, resultq) BY DEF QueueOrder
  <2>3. Sorted(born, Append(resultq, s)) BY <1>2, <2>1, <2>2, SortedAppend
  <2> QED BY <1>1, <2>3
<1>8. /\ \A x \in trained, y \in Range(batch) \cup Rolled' : Near(born, x, y)
      /\ \A x \in Range(batch), y \in Rolled' : Near(born, x, y)
  BY <1>5, <1>6 DEF QueueOrder, Started
<1>9. /\ \A x \in Range(mq) \ {End}, y \in ({inflight} \ {NoSample}) \cup Range(resultq') :
           Near(born, x, y)
      /\ \A x \in {inflight} \ {NoSample}, y \in Range(resultq') : Near(born, x, y)
  BY <1>4, <1>6 DEF QueueOrder, Started, Rolled
<1> QED BY <1>1, <1>7, <1>8, <1>9 DEF QueueOrder

LEMMA FifoConsumerTakes ==
  ASSUME RunInv, QueueOrder, UNCHANGED trainVars, ConsumerTakes
  PROVE  QueueOrder'
<1>1. /\ inflight = NoSample /\ resultq # <<>>
      /\ inflight' = Head(resultq) /\ resultq' = Tail(resultq)
      /\ UNCHANGED <<trained, batch, mq, born>>
  BY DEF ConsumerTakes, trainVars, queueVars
<1>2. /\ resultq \in Seq(Samples) /\ IsInjective(resultq) /\ Sorted(born, resultq)
  BY DEF RunInv, PlaceInv, PlaceTypes, InjectiveInv, QueueOrder
<1>3. /\ inflight' \in Samples /\ inflight' \in Range(resultq)
      /\ Range(resultq') = Range(resultq) \ {inflight'}
  BY <1>1, <1>2, HeadTaken
<1>4. /\ Sorted(born, resultq')
      /\ inflight' # End => \A y \in Range(resultq') \ {End} : Near(born, inflight', y)
  BY <1>1, <1>2, SortedTail
<1>5. inflight' # NoSample /\ inflight' # End /\ End \notin Range(resultq')
  <2>1. Range(resultq) \subseteq Samples BY <1>2 DEF Range
  <2>2. NoSample \notin Samples /\ End \notin Samples
    BY TotalAssumption DEF NoSample, End, Samples
  <2> QED BY <1>3, <2>1, <2>2
<1>6. Rolled' = Rolled BY <1>1, <1>3, <1>5 DEF Rolled
<1>7. /\ \A x \in Range(mq) \ {End}, y \in {inflight'} \cup Range(resultq') : Near(born, x, y)
      /\ \A x \in {inflight'} \ {NoSample}, y \in Range(resultq') : Near(born, x, y)
  BY <1>3, <1>4, <1>5 DEF QueueOrder
<1> QED BY <1>1, <1>4, <1>6, <1>7 DEF QueueOrder

\* put_sample takes a new entry in that is behind those in the queue
LEMMA FifoPut ==
  ASSUME RunInv, QueueOrder, NEW e \in 1 .. End, e \notin Range(mq), PutSample(e),
         e # End => \A x \in Range(mq) \ {End} : Near(born, x, e)
  PROVE  Sorted(born, mq') /\ Range(mq') \subseteq Range(mq) \cup {e}
<1>1. mq \in Seq(1 .. End) /\ IsInjective(mq) /\ Sorted(born, mq) /\ conf.max \in Nat \ {0}
  BY SettingFacts DEF RunInv, PlaceInv, PlaceTypes, InjectiveInv, QueueOrder
<1>2. CASE Len(mq) >= conf.max
  <2> DEFINE q == Tail(mq)
  <2>1. mq # <<>> /\ mq' = Append(q, e) BY <1>1, <1>2 DEF PutSample
  <2>2. /\ q \in Seq(1 .. End) /\ IsInjective(q) /\ Range(q) = Range(mq) \ {Head(mq)}
        /\ Sorted(born, q)
    BY <1>1, <2>1, HeadTaken, SortedTail
  <2> HIDE DEF q
  <2>3. Sorted(born, Append(q, e)) BY <2>2, SortedAppend
  <2>4. e \notin Range(q) BY <2>2
  <2>5. Range(Append(q, e)) = Range(q) \cup {e} BY <2>2, <2>4, EntryPut
  <2> QED BY <2>1, <2>2, <2>3, <2>5
<1>3. CASE ~(Len(mq) >= conf.max)
  <2>1. mq' = Append(mq, e) BY <1>3 DEF PutSample
  <2>2. Sorted(born, Append(mq, e)) BY <1>1, SortedAppend
  <2>3. Range(Append(mq, e)) = Range(mq) \cup {e} BY <1>1, EntryPut
  <2> QED BY <2>1, <2>2, <2>3
<1> QED BY <1>2, <1>3

LEMMA FifoQueue ==
  ASSUME RunInv, QueueOrder, UNCHANGED trainVars, QueueReceives \/ MainPutsEnd
  PROVE  QueueOrder'
<1>1. UNCHANGED <<trained, batch, resultq, born>>
  BY DEF QueueReceives, MainPutsEnd, mainRest, trainVars
<1>2. CASE QueueReceives
  <2>1. PutSample(inflight) /\ inflight # NoSample /\ inflight' = NoSample
    BY <1>2 DEF QueueReceives
  <2>2. inflight \in Samples /\ inflight \in 1 .. End /\ inflight # End
    BY <2>1, TotalAssumption DEF RunInv, PlaceInv, PlaceTypes, NoSample, Samples, End
  <2>3. inflight \in Places["inflight"] BY <2>1, PlaceFields
  <2>4. inflight \notin Range(mq)
    BY <2>2, <2>3, Apart, PlaceFields DEF RunInv, Names
  <2>5. \A x \in Range(mq) \ {End} : Near(born, x, inflight)
    BY <2>1 DEF QueueOrder
  <2>6. Sorted(born, mq') /\ Range(mq') \subseteq Range(mq) \cup {inflight}
    BY <2>1, <2>2, <2>4, <2>5, FifoPut
  <2>7. Rolled' \subseteq Rolled BY <1>1, <2>1, <2>6 DEF Rolled
  <2>8. \A x \in Range(mq') \ {End}, y \in Range(resultq) : Near(born, x, y)
    BY <2>1, <2>6 DEF QueueOrder
  <2> QED BY <1>1, <2>1, <2>6, <2>7, <2>8 DEF QueueOrder
<1>3. CASE MainPutsEnd
  <2>1. PutSample(End) /\ inflight' = inflight BY <1>3 DEF MainPutsEnd, mainRest
  <2>2. End \in 1 .. End /\ End \notin Range(mq)
    BY <1>3, TotalAssumption DEF RunInv, PlaceInv, EndInv, MainPutsEnd, End
  <2>3. Sorted(born, mq') /\ Range(mq') \subseteq Range(mq) \cup {End}
    BY <2>1, <2>2, FifoPut
  <2>4. Rolled' \subseteq Rolled /\ Range(mq') \ {End} \subseteq Range(mq) \ {End}
    BY <1>1, <2>1, <2>3 DEF Rolled
  <2> QED BY <1>1, <2>1, <2>3, <2>4 DEF QueueOrder
<1> QED BY <1>2, <1>3

LEMMA FifoTrainer ==
  ASSUME RunInv, QueueOrder, TrainerGets \/ TrainerTrains
  PROVE  QueueOrder'
<1>1. UNCHANGED <<inflight, resultq, born>>
  BY DEF TrainerGets, TrainerTrains, queueOnly, rollVars
<1>2. CASE TrainerGets
  <2>1. mq # <<>> /\ mq' = Tail(mq) /\ trained' = trained BY <1>2 DEF TrainerGets
  <2>2. mq \in Seq(1 .. End) /\ IsInjective(mq) /\ Sorted(born, mq)
    BY DEF RunInv, PlaceInv, PlaceTypes, InjectiveInv, QueueOrder
  <2>3. Head(mq) \in Range(mq) /\ Range(mq') = Range(mq) \ {Head(mq)}
    BY <2>1, <2>2, HeadTaken
  <2>4. /\ Sorted(born, mq')
        /\ Head(mq) # End => \A y \in Range(mq') \ {End} : Near(born, Head(mq), y)
    BY <2>1, <2>2, SortedTail
  <2>5. Rolled' \subseteq Rolled BY <1>1, <2>3 DEF Rolled
  <2>6. CASE Head(mq) = End
    <3>1. batch' = <<>> BY <1>2, <2>6 DEF TrainerGets
    <3>2. Range(batch') = {} BY <3>1, EmptyRange
    <3> QED BY <1>1, <2>1, <2>3, <2>4, <2>5, <3>2 DEF QueueOrder
  <2>7. CASE Head(mq) # End
    <3>1. batch' = Append(batch, Head(mq)) BY <1>2, <2>7 DEF TrainerGets
    <3>2. Head(mq) \in Places["mq"] /\ Head(mq) \in Rolled BY <2>3, <2>7, PlaceFields DEF Rolled
    <3>3. Head(mq) \notin Range(batch) /\ Head(mq) \in Samples
      BY <3>2, Apart, PlaceFields DEF RunInv, Names
    <3>4. Range(batch') = Range(batch) \cup {Head(mq)}
      BY <3>1, <3>3, NewPut DEF RunInv, PlaceInv, PlaceTypes, InjectiveInv
    <3>5. \A y \in Rolled' : Near(born, Head(mq), y)
      BY <1>1, <2>3, <2>4, <2>7 DEF Rolled, QueueOrder
    <3>6. /\ \A x \in trained, y \in Range(batch') \cup Rolled' : Near(born, x, y)
          /\ \A x \in Range(batch'), y \in Rolled' : Near(born, x, y)
      BY <2>5, <3>2, <3>4, <3>5 DEF QueueOrder
    <3>7. \A x \in Range(mq') \ {End}, y \in ({inflight} \ {NoSample}) \cup Range(resultq) :
            Near(born, x, y)
      BY <2>3 DEF QueueOrder
    <3>8. /\ \A x \in {inflight} \ {NoSample}, y \in Range(resultq) : Near(born, x, y)
          /\ Sorted(born, resultq)
      BY DEF QueueOrder
    <3> QED BY <1>1, <2>1, <2>4, <3>6, <3>7, <3>8 DEF QueueOrder
  <2> QED BY <2>6, <2>7
<1>3. CASE TrainerTrains
  <2>1. batch' = <<>> /\ trained' = trained \cup Range(batch) /\ mq' = mq
    BY <1>3 DEF TrainerTrains, rollVars, queueVars
  <2>2. Range(batch') = {} /\ Rolled' = Rolled BY <1>1, <2>1, EmptyRange DEF Rolled
  <2> QED BY <1>1, <2>1, <2>2 DEF QueueOrder
<1> QED BY <1>2, <1>3

\* the steps that move nothing that has been rolled out
streamVars == <<pipeVars, dropped, left, tversion, born>>

LEMMA PipeMoves ==
  ASSUME [Next]_vars
  PROVE  \/ UNCHANGED streamVars
         \/ TrainerGets \/ TrainerTrains \/ TrainerFinishes
         \/ /\ UNCHANGED trainVars
            /\ \/ ProcessorSubmits \/ ConsumerTakes \/ QueueReceives \/ MainPutsEnd
               \/ \E s \in Samples : TaskCompletes(s)
<1> USE DEF procRest, procVars, queueVars, mainRest, monRest, syncRest, rollVars, queueOnly,
            trainVars, pipeVars, streamVars
<1>1. CASE UNCHANGED vars BY <1>1 DEF vars
<1>2. CASE Trainer
  BY <1>2 DEF Trainer, TrainerWaitsLast, Transfer, TrainerGetsValidation
<1>3. CASE Processor /\ UNCHANGED trainVars
  BY <1>3
     DEF Processor, ProcessorSeesPause, ProcessorTakesCancelled, ProcessorTakesPending,
         ProcessorWaitsForPending, ProcessorLocks, ProcessorGetsLock, ProcessorPauses,
         ProcessorLeavesLoop, ProcessorWaitsForTask, ProcessorSeesTaskDone,
         ProcessorFindsNoTask, ProcessorParks, ProcessorUnparks
<1>4. CASE (\E s \in Samples : TaskCancelled(s)) /\ UNCHANGED trainVars
  BY <1>4 DEF TaskCancelled
<1>5. CASE /\ \/ FeedSamples \/ MainStreamEnds \/ MainStops
              \/ MonitorQueues \/ MonitorUnpauses \/ MonitorEnds
           /\ UNCHANGED trainVars
  BY <1>5 DEF FeedSamples, MainStreamEnds, MainStops, MonitorQueues, MonitorUnpauses, MonitorEnds
<1>6. CASE /\ \/ SyncQueues \/ PauseBegins \/ PauseCancels \/ PauseEnds
              \/ UpdateBegins(weights) \/ UpdateEnds(tpc = "waitFinal")
              \/ ResumeBegins \/ ResumeEnds
           /\ UNCHANGED trainVars
  BY <1>6 DEF SyncQueues, PauseBegins, PauseCancels, PauseEnds, UpdateBegins, UpdateEnds,
     ResumeBegins, ResumeEnds
<1> QED BY <1>1, <1>2, <1>3, <1>4, <1>5, <1>6 DEF Next, RolloutStep, Rollouter

LEMMA FifoStep == RunInv /\ BornInv /\ WholeInv /\ FifoInv /\ [Next]_vars => FifoInv'
<1> SUFFICES ASSUME RunInv, BornInv, WholeInv, FifoInv, [Next]_vars, ~conf'.partial
             PROVE  QueueOrder'
  BY DEF FifoInv
<1>1. ~conf.partial /\ RecentInv /\ QueueOrder BY ConfFixed DEF WholeInv, FifoInv
<1>2. CASE UNCHANGED streamVars \/ TrainerFinishes
  <2>1. UNCHANGED pipeVars /\ born' = born
    BY <1>2 DEF streamVars, pipeVars, TrainerFinishes, rollVars, queueVars
  <2> QED BY <1>1, <2>1 DEF pipeVars, QueueOrder, Rolled
<1>3. CASE TrainerGets \/ TrainerTrains BY <1>1, <1>3, FifoTrainer
<1>4. CASE /\ UNCHANGED trainVars
           /\ \/ ProcessorSubmits \/ ConsumerTakes \/ QueueReceives \/ MainPutsEnd
              \/ \E s \in Samples : TaskCompletes(s)
  BY <1>1, <1>4, FifoSubmits, FifoCompletes, FifoConsumerTakes, FifoQueue
<1> QED BY <1>2, <1>3, <1>4, PipeMoves

LEMMA FifoInit == Init => FifoInv
<1> SUFFICES ASSUME Init PROVE QueueOrder BY DEF FifoInv
<1>1. /\ trained = {} /\ batch = <<>> /\ mq = <<>> /\ inflight = NoSample /\ resultq = <<>>
  BY DEF Init, RollInit
<1>2. Range(<<>>) = {} BY EmptyRange
<1>3. Len(<<>>) = 0 OBVIOUS
<1>4. Sorted(born, <<>>) BY <1>3 DEF Sorted
<1> QED BY <1>1, <1>2, <1>4 DEF QueueOrder, Rolled

---------------------------------------------------------------------------
(* How many samples can have been started by a version                     *)

\* the samples started with the version b or an earlier one, and not lost
StartedBy(b) == {s \in Samples : born[s] # None /\ born[s] <= b} \ Lost

AgeInv ==
  \A b \in 0 .. weights :
    /\ IsFiniteSet(StartedBy(b)) /\ Cardinality(StartedBy(b)) \in Nat
    /\ Cardinality(StartedBy(b)) <= (b + 1) * PerVersion + conf.max + 2

\* All that were started are trained on, collected or under way.
StartedSoFar ==
  /\ IsFiniteSet(StartedBy(weights)) /\ Cardinality(StartedBy(weights)) \in Nat
  /\ Cardinality(StartedBy(weights)) <= (weights + 1) * PerVersion + conf.max + 2

LEMMA AgeNow == RunInv /\ CountInv /\ CollectInv /\ BornInv => StartedSoFar
<1> SUFFICES ASSUME RunInv, CountInv, CollectInv, BornInv PROVE StartedSoFar OBVIOUS
<1> DEFINE B == Range(batch)
           S == StartedBy(weights)
<1>1. CollectFacts BY CollectKnown
<1>2. weights \in Nat /\ conf.max \in Nat BY <1>1 DEF RunInv, WeightsInv, CollectFacts
<1>3. S \subseteq (trained \cup B) \cup Outs
  <2>1. Outs = (1 .. Taken) \ Gone BY OutsAndWork DEF RunInv, OutsSplit
  <2>2. \A s \in S : s \in 1 .. Taken /\ s \notin Lost BY DEF BornInv, StartedBy
  <2> QED BY <2>1, <2>2 DEF Gone, Lost
<1>4. IsFiniteSet(B) /\ Cardinality(B) \in Nat /\ Cardinality(B) <= Len(batch)
  BY <1>1, RangeAtMost DEF CollectFacts
<1>5. IsFiniteSet(Outs) /\ Cardinality(Outs) \in Nat /\ Cardinality(Outs) <= conf.max + 2
  BY CountsFinite DEF RunInv, CountInv
<1>6. IsFiniteSet(trained) /\ Cardinality(trained) \in Nat /\ Cardinality(trained) <= Steps
  BY <1>1 DEF CollectFacts, CollectInv
<1>7. Steps + Len(batch) <= (weights + 1) * PerVersion
  <2>1. CASE tpc \in {"waitLast", "syncing"}
    <3>1. local = 1 /\ batch = <<>> /\ tversion = weights + 1
      BY <2>1 DEF CollectInv, RunInv, WeightsInv
    <3>2. Steps = (weights + 1) * PerVersion + (1 - 1) * conf.required BY <3>1 DEF Steps
    <3>3. (weights + 1) * PerVersion \in Nat /\ Len(batch) = 0 /\ (1 - 1) * conf.required = 0
      BY <1>1, <3>1 DEF CollectFacts
    <3> QED BY <3>2, <3>3
  <2>2. CASE tpc \notin {"waitLast", "syncing"}
    <3>1. tversion = weights /\ Len(batch) <= conf.required
      BY <2>2 DEF CollectInv, RunInv, WeightsInv
    <3>2. Steps = tversion * PerVersion + (local - 1) * conf.required BY DEF Steps
    <3> DEFINE done == tversion * PerVersion
               next == (tversion + 1) * PerVersion
               part == (local - 1) * conf.required
               l == Len(batch)
    <3>3. /\ done \in Nat /\ part \in Nat /\ l \in Nat /\ PerVersion \in Nat /\ conf.required \in Nat
          /\ part <= PerVersion - conf.required /\ next = done + PerVersion
      BY <1>1 DEF CollectFacts
    <3>4. Steps = done + part /\ l <= conf.required BY <3>1, <3>2
    <3> HIDE DEF done, next, part, l
    <3>5. Steps + l <= next BY <3>3, <3>4
    <3> QED BY <3>1, <3>5 DEF next, l
  <2> QED BY <2>1, <2>2
<1>8. (weights + 1) * PerVersion \in Nat
  BY <1>1, <1>2, SMT DEF CollectFacts
<1>9. Steps \in Nat /\ Len(batch) \in Nat BY <1>1 DEF CollectFacts
<1> HIDE DEF B, S
<1>10. /\ IsFiniteSet(trained \cup B) /\ Cardinality(trained \cup B) \in Nat
       /\ Cardinality(trained \cup B) <= Cardinality(trained) + Cardinality(B)
  BY <1>4, <1>6, UnionAtMost
<1> DEFINE T == trained \cup B
<1>11. IsFiniteSet(T) /\ Cardinality(T) \in Nat
       /\ Cardinality(T) <= Cardinality(trained) + Cardinality(B)
  BY <1>10
<1>12. S \subseteq T \cup Outs BY <1>3
<1> HIDE DEF T
<1>13. /\ IsFiniteSet(T \cup Outs) /\ Cardinality(T \cup Outs) \in Nat
       /\ Cardinality(T \cup Outs) <= Cardinality(T) + Cardinality(Outs)
  BY <1>5, <1>11, UnionAtMost
<1>14. IsFiniteSet(S) /\ Cardinality(S) \in Nat /\ Cardinality(S) <= Cardinality(T \cup Outs)
  BY <1>12, <1>13, AtMost
<1>15. Cardinality(S) <= (weights + 1) * PerVersion + conf.max + 2
  <2> DEFINE l == Len(batch)
             n == (weights + 1) * PerVersion
             t == Cardinality(T)
             o == Cardinality(Outs)
             d == Cardinality(trained)
             b == Cardinality(B)
             s == Cardinality(S)
             u == Cardinality(T \cup Outs)
  <2>1. /\ l \in Nat /\ n \in Nat /\ t \in Nat /\ o \in Nat /\ d \in Nat /\ b \in Nat
        /\ s \in Nat /\ u \in Nat /\ Steps \in Nat /\ conf.max \in Nat
    BY <1>2, <1>4, <1>5, <1>6, <1>8, <1>9, <1>11, <1>13, <1>14
  <2>2. b <= l /\ o <= conf.max + 2 /\ d <= Steps /\ Steps + l <= n
    BY <1>4, <1>5, <1>6, <1>7
  <2>3. t <= d + b /\ u <= t + o /\ s <= u BY <1>11, <1>13, <1>14
  <2> HIDE DEF l, n, t, o, d, b, s, u
  <2>4. s <= n + conf.max + 2 BY <2>1, <2>2, <2>3
  <2> QED BY <2>4 DEF s, n
<1> QED BY <1>14, <1>15 DEF StartedSoFar, S

LEMMA AgeNowNext ==
  RunInv' /\ CountInv' /\ CollectInv' /\ BornInv' => StartedSoFar'
BY AgeNow, PTL

LEMMA AgeStep ==
  RunInv /\ CountInv /\ CollectInv /\ BornInv /\ AgeInv /\ [Next]_vars => AgeInv'
<1> SUFFICES ASSUME RunInv, CountInv, CollectInv, BornInv, AgeInv, [Next]_vars
             PROVE  AgeInv'
  OBVIOUS
<1>1. RunInv' /\ CountInv' /\ CollectInv' /\ BornInv'
  BY RunStep, CountStep, CollectStep, BornStep
<1>2. StartedSoFar' BY <1>1, AgeNowNext
<1>3. /\ weights \in Nat /\ weights' \in Nat /\ born \in [Samples -> Nat \cup {None}]
      /\ born' \in [Samples -> Nat \cup {None}]
  BY <1>1 DEF RunInv, WeightsInv, ProcTypes
<1>4. conf' = conf /\ PerVersion' = PerVersion BY ConfFixed DEF PerVersion
<1>5. Lost \subseteq Lost' BY FewMove DEF Lost
<1> SUFFICES ASSUME NEW b \in 0 .. weights'
             PROVE  /\ IsFiniteSet(StartedBy(b)') /\ Cardinality(StartedBy(b)') \in Nat
                    /\ Cardinality(StartedBy(b)')
                         <= (b + 1) * PerVersion' + conf'.max + 2
  BY DEF AgeInv
<1>6. CASE b = weights'
  <2>1. StartedBy(b)' = {s \in Samples : born'[s] # None /\ born'[s] <= b} \ Lost'
    BY DEF StartedBy
  <2>2. StartedBy(weights)' = {s \in Samples : born'[s] # None /\ born'[s] <= weights'} \ Lost'
    BY DEF StartedBy
  <2>3. StartedBy(b)' = StartedBy(weights)' BY <1>6, <2>1, <2>2
  <2> QED BY <1>2, <1>6, <2>3 DEF StartedSoFar
<1>7. CASE b # weights'
  <2>1. b \in 0 .. weights /\ (ProcessorSubmits => b < weights)
    <3>1. CASE Transfer
      <4>1. tpc = "syncing" /\ weights' = tversion BY <3>1 DEF Transfer
      <4>2. weights' = weights + 1 BY <4>1 DEF RunInv, WeightsInv
      <4>3. ~ProcessorSubmits BY <4>1, <4>2, <1>3 DEF ProcessorSubmits
      <4> QED BY <1>3, <1>7, <4>2, <4>3
    <3>2. CASE ~Transfer
      <4>1. weights' = weights BY <3>2, FewMove
      <4> QED BY <1>3, <1>7, <4>1
    <3> QED BY <3>1, <3>2
  <2>2. \A s \in Samples : born'[s] # None /\ born'[s] <= b => born'[s] = born[s]
    <3>1. CASE ProcessorSubmits
      <4>1. born' = [born EXCEPT ![held] = IF @ = None THEN weights ELSE @]
        BY <3>1 DEF ProcessorSubmits
      <4> QED BY <1>3, <2>1, <3>1, <4>1
    <3>2. CASE ~ProcessorSubmits BY <3>2, FewMove
    <3> QED BY <3>1, <3>2
  <2>3. StartedBy(b)' = {s \in Samples : born'[s] # None /\ born'[s] <= b} \ Lost'
    BY DEF StartedBy
  <2>4. StartedBy(b)' \subseteq StartedBy(b) BY <1>5, <2>2, <2>3 DEF StartedBy
  <2>5. /\ IsFiniteSet(StartedBy(b)) /\ Cardinality(StartedBy(b)) \in Nat
        /\ Cardinality(StartedBy(b)) <= (b + 1) * PerVersion + conf.max + 2
    BY <2>1 DEF AgeInv
  <2> DEFINE S == StartedBy(b)
             T == StartedBy(b)'
  <2>6. T \subseteq S /\ IsFiniteSet(S) BY <2>4, <2>5
  <2> HIDE DEF S, T
  <2>7. IsFiniteSet(T) /\ Cardinality(T) \in Nat /\ Cardinality(T) <= Cardinality(S)
    BY <2>6, AtMost
  <2>8. CollectFacts BY CollectKnown
  <2>9. (b + 1) * PerVersion \in Nat /\ conf.max \in Nat
    <3>1. PerVersion \in Nat /\ conf.max \in Nat /\ b + 1 \in Nat
      BY <2>1, <2>8 DEF CollectFacts
    <3> QED BY <3>1, SMT
  <2>10. Cardinality(T) <= (b + 1) * PerVersion + conf.max + 2
    BY <2>5, <2>7, <2>9 DEF S
  <2> QED BY <1>4, <2>7, <2>10 DEF T
<1> QED BY <1>6, <1>7

LEMMA AgeInit == Init => AgeInv
<1> SUFFICES ASSUME Init PROVE AgeInv OBVIOUS
<1>1. RunInv BY RunInit
<1>2. CollectFacts BY <1>1, CollectKnown
<1>3. weights = 0 /\ \A s \in Samples : born[s] = None BY DEF Init, RollInit
<1> SUFFICES ASSUME NEW b \in 0 .. 0
             PROVE  /\ IsFiniteSet(StartedBy(b)) /\ Cardinality(StartedBy(b)) \in Nat
                    /\ Cardinality(StartedBy(b)) <= (b + 1) * PerVersion + conf.max + 2
  BY <1>3 DEF AgeInv
<1>4. StartedBy(b) = {} BY <1>3 DEF StartedBy
<1>5. IsFiniteSet(StartedBy(b)) /\ Cardinality(StartedBy(b)) = 0 BY <1>4, FS_EmptySet
<1>6. (b + 1) * PerVersion \in Nat /\ conf.max \in Nat
  <2>1. PerVersion \in Nat /\ conf.max \in Nat /\ b + 1 = 1 BY <1>2 DEF CollectFacts
  <2> QED BY <2>1
<1> QED BY <1>5, <1>6

---------------------------------------------------------------------------
(* The age of what is trained on                                           *)

LEMMA DivBound ==
  ASSUME NEW a \in Int, NEW p \in Nat \ {0}, NEW n \in Nat, a * p <= n
  PROVE  a <= n \div p
BY SMT

LEMMA DivTyped ==
  ASSUME NEW p \in Nat \ {0}, NEW n \in Nat PROVE n \div p \in Nat
BY SMT

StreamInv ==
  /\ RunInv /\ CountInv /\ (Synchronous => SyncInv)
  /\ CollectInv /\ BornInv /\ WholeInv /\ FifoInv /\ AgeInv

LEMMA StreamStep == StreamInv /\ [Next]_vars => StreamInv'
BY RunStep, CountStep, SyncStep, CollectStep, BornStep, WholeStep, FifoStep, AgeStep
   DEF StreamInv

LEMMA StreamInit == Init => StreamInv
BY RunInit, CountInit, SyncInit, CollectInit, BornInit, WholeInit, FifoInit, AgeInit
   DEF StreamInv

\* In synchronous mode a batch is of the current version.
LEMMA SynchronousAge ==
  ASSUME RunInv, SyncInv, NEW s \in Range(batch)
  PROVE  born[s] = tversion
<1>1. batch # <<>> BY EmptyRange
<1>2. ~Syncing BY <1>1 DEF SyncInv, SyncingInv, Idle
<1>3. tversion = weights BY <1>2 DEF Syncing, RunInv, WeightsInv
<1> QED BY <1>3 DEF SyncInv, AgesInv

\* While the loop runs there are no more versions than samples.
LEMMA VersionsFew == ASSUME RunInv, CollectInv, ~last PROVE tversion <= Total
<1> DEFINE P == PerVersion
<1>1. CollectFacts BY CollectKnown
<1>2. /\ tversion \in Nat /\ P \in Nat \ {0} /\ tversion * P \in Nat
      /\ (local - 1) * conf.required \in Nat
  BY <1>1 DEF CollectFacts
<1>3. Cardinality(trained) = tversion * P + (local - 1) * conf.required
  BY DEF CollectInv, Steps
<1>4. Cardinality(trained) <= Total /\ Total \in Nat
  BY SamplesFinite, AtMost DEF RunInv, PlaceInv, PlaceTypes
<1> HIDE DEF P
<1>5. tversion <= tversion * P BY <1>2, SMT
<1> QED BY <1>2, <1>3, <1>4, <1>5

\* What was trained on before s was started at most one version after it.
LEMMA WholeAge ==
  ASSUME StreamInv, ~conf.partial, tpc = "train", NEW s \in Range(batch)
  PROVE  tversion - born[s] <= (conf.max + 1) \div PerVersion + 2
<1> DEFINE P == PerVersion
           n == conf.max + 1
           c == born[s]
           b == c + 1
           S == StartedBy(b)
           T == trained \cup {s}
           K == (local - 1) * conf.required
<1>1. CollectFacts BY CollectKnown DEF StreamInv
<1>2. /\ tversion \in Nat /\ P \in Nat \ {0} /\ tversion * P \in Nat
      /\ K \in Nat /\ n \in Nat /\ n = conf.max + 1 /\ conf.max \in Nat
  BY <1>1 DEF CollectFacts
<1>3. tversion = weights /\ ~last
  BY DEF StreamInv, RunInv, WeightsInv, CollectInv
<1>4. c \in 0 .. weights /\ s \in Samples
  <2>1. s \in Places["batch"] BY PlaceFields
  <2>2. s \in Samples BY <2>1, Apart DEF StreamInv, RunInv, Names
  <2>3. s \in Started BY DEF Started
  <2> QED BY <2>2, <2>3 DEF StreamInv, BornInv
<1>5. n \div P \in Nat BY <1>2, DivTyped
<1>6. CASE b > weights BY <1>2, <1>3, <1>4, <1>5, <1>6
<1>7. CASE b <= weights
  <2>1. b \in 0 .. weights BY <1>2, <1>3, <1>4, <1>7
  <2>2. /\ IsFiniteSet(S) /\ Cardinality(S) \in Nat
        /\ Cardinality(S) <= (b + 1) * P + conf.max + 2
    BY <2>1 DEF StreamInv, AgeInv
  <2>3. T \subseteq S
    <3>1. ASSUME NEW x \in trained PROVE x \in S
      <4>1. x \in Places["trained"] BY PlaceFields
      <4>2. x \in Samples /\ x \notin Places["dropped"] /\ x \notin Places["left"]
        BY <4>1, Apart DEF StreamInv, RunInv, Names
      <4>3. x \notin Lost BY <4>2, PlaceFields DEF Lost
      <4>4. born[x] # None BY DEF StreamInv, BornInv, Started
      <4>5. born[x] <= b BY DEF StreamInv, FifoInv, QueueOrder, Near
      <4> QED BY <4>2, <4>3, <4>4, <4>5 DEF StartedBy
    <3>2. s \in S
      <4>1. s \in Places["batch"] BY PlaceFields
      <4>2. s \notin Places["dropped"] /\ s \notin Places["left"]
        BY <4>1, Apart DEF StreamInv, RunInv, Names
      <4>3. s \notin Lost BY <4>2, PlaceFields DEF Lost
      <4>4. born[s] # None BY DEF StreamInv, BornInv, Started
      <4>5. born[s] <= b BY <1>3, <1>4, <1>2
      <4> QED BY <1>4, <4>3, <4>4, <4>5 DEF StartedBy
    <3> QED BY <3>1, <3>2
  <2>4. s \notin trained
    <3>1. s \in Places["batch"] BY PlaceFields
    <3> QED BY <3>1, Apart, PlaceFields DEF StreamInv, RunInv, Names
  <2>5. IsFiniteSet(trained) /\ Cardinality(trained) = tversion * P + K
    BY <1>1, <1>3 DEF CollectFacts, StreamInv, CollectInv, Steps
  <2>6. Cardinality(T) = Cardinality(trained) + 1
    BY <2>4, <2>5, FS_AddElement
  <2> HIDE DEF P, n, c, b, S, T, K
  <2>7. Cardinality(T) <= Cardinality(S) BY <2>2, <2>3, AtMost
  <2>8. tversion * P + K + 1 <= (b + 1) * P + conf.max + 2
    <3>1. (b + 1) * P \in Nat
      <4>1. b + 1 \in Nat BY <2>1
      <4> QED BY <1>2, <4>1, SMT
    <3> QED BY <1>2, <2>2, <2>5, <2>6, <2>7, <3>1
  <2>9. (tversion - (b + 1)) * P <= n
    <3>1. b + 1 \in Nat BY <2>1
    <3>2. (tversion - (b + 1)) * P = tversion * P - (b + 1) * P /\ (b + 1) * P \in Nat
      BY <1>2, <3>1, SMT
    <3> QED BY <1>2, <2>8, <3>2
  <2>10. tversion - (b + 1) \in Int BY <1>2, <2>1
  <2>11. tversion - (b + 1) <= n \div P BY <1>2, <2>9, <2>10, DivBound
  <2>12. tversion - c <= n \div P + 2
    <3>1. b = c + 1 /\ c \in Nat BY <1>4 DEF b, c
    <3> QED BY <1>2, <1>5, <2>11, <3>1 DEF c
  <2> QED BY <2>12 DEF n, P, c
<1> QED BY <1>2, <1>3, <1>4, <1>6, <1>7

LEMMA TrainedAge ==
  ASSUME StreamInv, tpc = "train", NEW s \in Range(batch)
  PROVE  tversion - born[s] <= MaxGap(conf)
<1>1. ~last BY DEF StreamInv, CollectInv
<1>2. CASE Synchronous
  <2>1. born[s] = tversion /\ tversion \in Nat
    BY <1>2, SynchronousAge DEF StreamInv, RunInv, WeightsInv
  <2> QED BY <1>2, <2>1 DEF MaxGap, Synchronous
<1>3. CASE ~Synchronous /\ conf.partial
  <2>1. tversion <= Total /\ tversion \in Nat /\ Total \in Nat
    BY <1>1, VersionsFew, SamplesFinite DEF StreamInv, RunInv, WeightsInv
  <2>2. born[s] \in Nat
    <3>1. s \in Places["batch"] BY PlaceFields
    <3>2. s \in Samples BY <3>1, Apart DEF StreamInv, RunInv, Names
    <3>3. born[s] # None BY DEF StreamInv, BornInv, Started
    <3> QED BY <3>2, <3>3 DEF StreamInv, BornInv
  <2> QED BY <1>3, <2>1, <2>2 DEF MaxGap, Synchronous
<1>4. CASE ~Synchronous /\ ~conf.partial
  <2>1. tversion - born[s] <= (conf.max + 1) \div PerVersion + 2 BY <1>4, WholeAge
  <2> QED BY <1>4, <2>1 DEF MaxGap, Synchronous, PerVersion
<1> QED BY <1>2, <1>3, <1>4

---------------------------------------------------------------------------
(* The stages of SampleStream                                              *)

\* SampleStream's own copy of FiniteSets
LEMMA StreamCardinality == ASSUME NEW S PROVE Stream!Cardinality(S) = Cardinality(S)
BY DEF Stream!Cardinality, Cardinality

\* The sets that give the stages do not meet.
LEMMA StageSets ==
  ASSUME PlaceInv, NEW s \in Samples
  PROVE  /\ s \in trained => StageOf(s) = "trained" /\ s \notin Lost \cup Range(batch) \cup Rolled
         /\ s \in Lost => StageOf(s) = "gone" /\ s \notin trained \cup Range(batch) \cup Rolled
         /\ s \in Range(batch) => StageOf(s) = "picked" /\ s \notin trained \cup Lost \cup Rolled
         /\ s \in Rolled => StageOf(s) = "ready" /\ s \notin trained \cup Lost \cup Range(batch)
         /\ s \notin trained \cup Lost \cup Range(batch) \cup Rolled
              => StageOf(s) = IF born[s] = None THEN "waiting" ELSE "rolling"
<1>1. s # End BY TotalAssumption DEF Samples, End
<1>2. ASSUME NEW p \in Names, NEW q \in Names, p # q, s \in Places[p] PROVE s \notin Places[q]
  BY <1>2, Apart
<1>3. /\ \A p \in {"trained", "dropped", "left", "batch", "resultq", "inflight", "mq"} : p \in Names
      /\ s \in Lost <=> s \in Places["dropped"] \/ s \in Places["left"]
      /\ s \in Rolled <=> \/ s \in Places["resultq"] \/ s \in Places["inflight"]
                          \/ s \in Places["mq"]
      /\ s \in trained <=> s \in Places["trained"]
      /\ s \in Range(batch) <=> s \in Places["batch"]
  BY PlaceFields DEF Names, Lost, Rolled
<1>4. s \in trained => s \notin Lost \cup Range(batch) \cup Rolled BY <1>2, <1>3
<1>5. s \in Lost => s \notin Range(batch) \cup Rolled BY <1>2, <1>3
<1>6. s \in Range(batch) => s \notin Rolled BY <1>2, <1>3
<1>7. s \in dropped \cup left <=> s \in Lost BY <1>1 DEF Lost
<1> QED BY <1>4, <1>5, <1>6, <1>7 DEF StageOf

\* A sample keeps its stage when it stays where it is.
LEMMA SameStage ==
  ASSUME NEW s \in Samples,
         s \in trained' <=> s \in trained, s \in Lost' <=> s \in Lost,
         s \in Range(batch') <=> s \in Range(batch), s \in Rolled' <=> s \in Rolled,
         born'[s] = None <=> born[s] = None
  PROVE  StageOf(s)' = StageOf(s)
<1>1. s # End BY TotalAssumption DEF Samples, End
<1>2. (s \in dropped \cup left <=> s \in Lost) /\ (s \in dropped' \cup left' <=> s \in Lost')
  BY <1>1 DEF Lost
<1> QED BY <1>2 DEF StageOf

LEMMA Stutters ==
  ASSUME UNCHANGED <<conf, tversion, born>>, trained' = trained, Lost' = Lost,
         Range(batch') = Range(batch), Rolled' = Rolled
  PROVE  UNCHANGED Stream!vars
<1>1. \A s \in Samples : StageOf(s)' = StageOf(s) BY SameStage
<1> QED BY <1>1 DEF Stream!vars

LEMMA StartsOrStutters ==
  ASSUME StreamInv, UNCHANGED trainVars, ProcessorSubmits
  PROVE  [Stream!Next]_(Stream!vars)
<1>1. held \in Samples /\ held \in Places["held"]
  BY TotalAssumption, PlaceFields
     DEF ProcessorSubmits, StreamInv, RunInv, PlaceInv, PlaceTypes, HeldInv, NoSample, Samples
<1>2. PICK x \in Samples : x = held BY <1>1
<1>3. /\ UNCHANGED <<conf, tversion, trained, dropped, left, batch, resultq, inflight, mq>>
      /\ born' = [born EXCEPT ![x] = IF @ = None THEN weights ELSE @]
  BY <1>2 DEF ProcessorSubmits, trainVars, queueVars
<1>4. Rolled' = Rolled /\ Lost' = Lost BY <1>3 DEF Rolled, Lost
<1>5. /\ born \in [Samples -> Nat \cup {None}] /\ weights \in Nat
      /\ weights \in {tversion - 1, tversion}
  BY DEF StreamInv, RunInv, ProcTypes, WeightsInv
<1>6. CASE born[x] # None
  <2>1. born' = born BY <1>3, <1>5, <1>6
  <2> QED BY <1>3, <1>4, <2>1, Stutters
<1>7. CASE born[x] = None
  <2>1. born' = [born EXCEPT ![x] = weights] /\ born'[x] # None
    BY <1>3, <1>5, <1>7, NoneAssumption
  <2>2. x \notin trained \cup Lost \cup Range(batch) \cup Rolled
    <3> DEFINE Q == {"trained", "dropped", "left", "batch", "resultq", "inflight", "mq"}
    <3>1. \A q \in Q : q \in Names /\ "held" \in Names /\ q # "held" BY DEF Names
    <3>2. \A q \in Q : x \notin Places[q]
      BY <1>1, <1>2, <3>1, Apart DEF StreamInv, RunInv
    <3> QED BY <3>2, PlaceFields DEF Lost, Rolled
  <2>3. StageOf(x) = "waiting" BY <1>7, <2>2, StageSets DEF StreamInv, RunInv
  <2>4. StageOf(x)' = "rolling"
    <3>1. x # End BY TotalAssumption DEF Samples, End
    <3>2. x \notin trained' /\ x \notin dropped' \cup left' /\ x \notin Range(batch')
          /\ x \notin Rolled'
      BY <1>3, <1>4, <2>2, <3>1 DEF Lost
    <3> QED BY <2>1, <3>2 DEF StageOf
  <2>5. ASSUME NEW s \in Samples, s # x PROVE StageOf(s)' = StageOf(s)
    <3>1. born'[s] = born[s] BY <1>5, <2>1, <2>5
    <3> QED BY <1>3, <1>4, <3>1, SameStage
  <2>6. weights \in {tversion - 1, tversion} \cap Nat BY <1>5
  <2>7. Stream!Start(x)
    <3>1. [s \in Samples |-> StageOf(s)]'
            = [[s \in Samples |-> StageOf(s)] EXCEPT ![x] = "rolling"]
      BY <2>4, <2>5
    <3> QED BY <1>3, <2>1, <2>3, <2>6, <3>1 DEF Stream!Start
  <2> QED BY <2>7 DEF Stream!Next
<1> QED BY <1>6, <1>7

LEMMA Finishes ==
  ASSUME StreamInv, UNCHANGED trainVars, NEW x \in Samples, TaskCompletes(x)
  PROVE  [Stream!Next]_(Stream!vars)
<1>1. /\ UNCHANGED <<conf, tversion, born, trained, dropped, left, batch, inflight, mq>>
      /\ resultq' = Append(resultq, x) /\ x \in Running
  BY DEF TaskCompletes, trainVars, queueVars, Running
<1>2. x \in Places["task"] BY <1>1, PlaceFields
<1>3. x \notin trained \cup Lost \cup Range(batch) \cup Rolled
  <2>1. \A q \in {"trained", "dropped", "left", "batch", "resultq", "inflight", "mq"} :
          q \in Names /\ "task" \in Names /\ q # "task"
    BY DEF Names
  <2>2. \A q \in {"trained", "dropped", "left", "batch", "resultq", "inflight", "mq"} :
          x \notin Places[q]
    BY <1>2, <2>1, Apart DEF StreamInv, RunInv
  <2> QED BY <2>2, PlaceFields DEF Lost, Rolled
<1>4. born[x] # None BY <1>1 DEF StreamInv, BornInv, Started
<1>5. Range(resultq') = Range(resultq) \cup {x}
  <2>1. resultq \in Seq(Samples) /\ IsInjective(resultq) /\ x \notin Range(resultq)
    BY <1>3 DEF StreamInv, RunInv, PlaceInv, PlaceTypes, InjectiveInv, Rolled
  <2> QED BY <1>1, <2>1, NewPut
<1>6. Rolled' = Rolled \cup {x} /\ Lost' = Lost BY <1>1, <1>5 DEF Rolled, Lost
<1>7. StageOf(x) = "rolling" BY <1>3, <1>4, StageSets DEF StreamInv, RunInv
<1>8. StageOf(x)' = "ready"
  <2>1. x # End BY TotalAssumption DEF Samples, End
  <2>2. x \notin trained' /\ x \notin dropped' \cup left' /\ x \notin Range(batch')
        /\ x \in Rolled'
    BY <1>1, <1>3, <1>6, <2>1 DEF Lost
  <2> QED BY <2>2 DEF StageOf
<1>9. \A s \in Samples : s # x => StageOf(s)' = StageOf(s)
  BY <1>1, <1>6, SameStage
<1>10. Stream!Finish(x) BY <1>1, <1>7, <1>8, <1>9 DEF Stream!Finish
<1> QED BY <1>10 DEF Stream!Next

\* put_sample passes on what is put and, when the queue is full, drops its head.
LEMMA Puts ==
  ASSUME StreamInv, NEW e \in 1 .. End, e \notin Range(mq), PutSample(e),
         UNCHANGED <<conf, tversion, born, trained, left, batch, resultq>>,
         ({inflight'} \ {NoSample}) \cup ({e} \ {End}) = {inflight} \ {NoSample}
  PROVE  [Stream!Next]_(Stream!vars)
<1>1. mq \in Seq(1 .. End) /\ IsInjective(mq) /\ conf.max \in Nat \ {0}
  BY SettingFacts DEF StreamInv, RunInv, PlaceInv, PlaceTypes, InjectiveInv
<1>2. CASE ~(Len(mq) >= conf.max)
  <2>1. mq' = Append(mq, e) /\ dropped' = dropped BY <1>2 DEF PutSample
  <2>2. Range(mq') = Range(mq) \cup {e} BY <1>1, <2>1, EntryPut
  <2>3. Rolled' = Rolled /\ Lost' = Lost BY <2>1, <2>2 DEF Rolled, Lost
  <2> QED BY <2>3, Stutters
<1>3. CASE Len(mq) >= conf.max
  <2>1. mq # <<>> BY <1>1, <1>3
  <2>2. PICK x : x = Head(mq) OBVIOUS
  <2>3. /\ Range(mq') = (Range(mq) \ {x}) \cup {e} /\ x \in Range(mq) /\ x # e
        /\ dropped' = dropped \cup {x}
    <3> DEFINE S == 1 .. End
               q == Tail(mq)
    <3>1. mq \in Seq(S) /\ e \in S BY <1>1
    <3>2. mq' = Append(q, e) /\ dropped' = dropped \cup {x} BY <1>3, <2>2 DEF PutSample
    <3> HIDE DEF S
    <3>3. /\ q \in Seq(S) /\ Range(q) = Range(mq) \ {x} /\ IsInjective(q) /\ x \in Range(mq)
      BY <1>1, <2>1, <2>2, <3>1, HeadTaken
    <3> HIDE DEF q
    <3>4. e \notin Range(q) /\ x # e BY <3>3
    <3>5. Range(Append(q, e)) = Range(q) \cup {e} BY <3>1, <3>3, <3>4, NewPut
    <3> QED BY <3>2, <3>3, <3>4, <3>5
  <2>4. CASE x = End
    <3>1. Rolled' = Rolled /\ Lost' = Lost BY <2>3, <2>4 DEF Rolled, Lost
    <3> QED BY <3>1, Stutters
  <2>5. CASE x # End
    <3>1. x \in Places["mq"] BY <2>3, <2>5, PlaceFields
    <3>2. x \in Samples /\ x \notin Range(resultq) /\ x \notin {inflight} \ {NoSample}
      BY <3>1, Apart, PlaceFields DEF StreamInv, RunInv, Names
    <3>3. Rolled' = Rolled \ {x} /\ x \in Rolled /\ Lost' = Lost \cup {x}
      BY <2>3, <2>5, <3>2 DEF Rolled, Lost
    <3>4. StageOf(x) = "ready" /\ x \notin trained \cup Range(batch)
      BY <3>2, <3>3, StageSets DEF StreamInv, RunInv
    <3>5. StageOf(x)' = "gone"
      <4>1. x \notin trained' \cup Range(batch') \cup Rolled' /\ x \in dropped' \cup left'
        BY <2>3, <3>3, <3>4
      <4> QED BY <4>1 DEF StageOf
    <3>6. ASSUME NEW s \in Samples, s # x PROVE StageOf(s)' = StageOf(s)
      BY <3>3, <3>6, SameStage
    <3>7. Stream!Drop(x) BY <3>2, <3>4, <3>5, <3>6 DEF Stream!Drop
    <3> QED BY <3>2, <3>7 DEF Stream!Next
  <2> QED BY <2>4, <2>5
<1> QED BY <1>2, <1>3

LEMMA QueueImplements ==
  ASSUME StreamInv, UNCHANGED trainVars, QueueReceives \/ MainPutsEnd
  PROVE  [Stream!Next]_(Stream!vars)
<1>1. UNCHANGED <<conf, tversion, born, trained, left, batch, resultq>>
  BY DEF QueueReceives, MainPutsEnd, mainRest, trainVars
<1>2. CASE QueueReceives
  <2>1. PutSample(inflight) /\ inflight # NoSample /\ inflight' = NoSample
    BY <1>2 DEF QueueReceives
  <2>2. inflight \in Samples /\ inflight \in 1 .. End /\ inflight # End
    BY <2>1, TotalAssumption
       DEF StreamInv, RunInv, PlaceInv, PlaceTypes, NoSample, Samples, End
  <2>3. inflight \in Places["inflight"] BY <2>1, PlaceFields
  <2>4. inflight \notin Range(mq)
    BY <2>2, <2>3, Apart, PlaceFields DEF StreamInv, RunInv, Names
  <2>5. ({inflight'} \ {NoSample}) \cup ({inflight} \ {End}) = {inflight} \ {NoSample}
    BY <2>1, <2>2
  <2> QED BY <1>1, <2>1, <2>2, <2>4, <2>5, Puts
<1>3. CASE MainPutsEnd
  <2>1. PutSample(End) /\ inflight' = inflight BY <1>3 DEF MainPutsEnd, mainRest
  <2>2. End \in 1 .. End /\ End \notin Range(mq)
    BY <1>3, TotalAssumption DEF StreamInv, RunInv, PlaceInv, EndInv, MainPutsEnd, End
  <2>3. ({inflight'} \ {NoSample}) \cup ({End} \ {End}) = {inflight} \ {NoSample} BY <2>1
  <2> QED BY <1>1, <2>1, <2>2, <2>3, Puts
<1> QED BY <1>2, <1>3

LEMMA ConsumerStutters ==
  ASSUME StreamInv, UNCHANGED trainVars, ConsumerTakes PROVE UNCHANGED Stream!vars
<1>1. /\ inflight = NoSample /\ resultq # <<>> /\ inflight' = Head(resultq)
      /\ resultq' = Tail(resultq)
      /\ UNCHANGED <<conf, tversion, born, trained, dropped, left, batch, mq>>
  BY DEF ConsumerTakes, trainVars, queueVars
<1>2. resultq \in Seq(Samples) /\ IsInjective(resultq)
  BY DEF StreamInv, RunInv, PlaceInv, PlaceTypes, InjectiveInv
<1>3. inflight' \in Samples /\ Range(resultq') \cup {inflight'} = Range(resultq)
  BY <1>1, <1>2, HeadTaken
<1>4. inflight' # NoSample BY <1>3 DEF Samples, NoSample
<1>5. Rolled' = Rolled /\ Lost' = Lost BY <1>1, <1>3, <1>4 DEF Rolled, Lost
<1> QED BY <1>1, <1>5, Stutters

LEMMA GetsImplements ==
  ASSUME StreamInv, TrainerGets PROVE [Stream!Next]_(Stream!vars)
<1>1. /\ mq # <<>> /\ mq' = Tail(mq)
      /\ UNCHANGED <<conf, tversion, born, trained, dropped, resultq, inflight>>
  BY DEF TrainerGets, queueOnly
<1>2. /\ mq \in Seq(1 .. End) /\ IsInjective(mq) /\ batch \in Seq(Samples) /\ IsInjective(batch)
  BY DEF StreamInv, RunInv, PlaceInv, PlaceTypes, InjectiveInv
<1>3. PICK x : x = Head(mq) OBVIOUS
<1>4. x \in Range(mq) /\ Range(mq') = Range(mq) \ {x} BY <1>1, <1>2, <1>3, HeadTaken
<1>5. CASE x # End
  <2>1. batch' = Append(batch, x) /\ left' = left BY <1>3, <1>5 DEF TrainerGets
  <2>2. x \in Places["mq"] BY <1>4, <1>5, PlaceFields
  <2>3. /\ x \in Samples /\ x \notin Range(resultq) /\ x \notin {inflight} \ {NoSample}
        /\ x \notin Range(batch)
    BY <2>2, Apart, PlaceFields DEF StreamInv, RunInv, Names
  <2>4. Range(batch') = Range(batch) \cup {x} BY <1>2, <2>1, <2>3, NewPut
  <2>5. Rolled' = Rolled \ {x} /\ x \in Rolled /\ Lost' = Lost
    BY <1>1, <1>4, <1>5, <2>1, <2>3 DEF Rolled, Lost
  <2>6. StageOf(x) = "ready" /\ x \notin trained /\ x \notin Lost
    BY <2>3, <2>5, StageSets DEF StreamInv, RunInv
  <2>7. StageOf(x)' = "picked"
    <3>1. x \notin dropped' \cup left' BY <1>1, <1>5, <2>1, <2>6 DEF Lost
    <3>2. x \notin trained' /\ x \in Range(batch') /\ x \notin Rolled'
      BY <1>1, <2>4, <2>5, <2>6
    <3> QED BY <3>1, <3>2 DEF StageOf
  <2>8. ASSUME NEW s \in Samples, s # x PROVE StageOf(s)' = StageOf(s)
    BY <1>1, <2>4, <2>5, <2>8, SameStage
  <2>9. Stream!Pick(x) BY <1>1, <2>3, <2>6, <2>7, <2>8 DEF Stream!Pick
  <2> QED BY <2>3, <2>9 DEF Stream!Next
<1>6. CASE x = End
  <2>1. batch' = <<>> /\ left' = left \cup Range(batch) BY <1>3, <1>6 DEF TrainerGets
  <2>2. Range(batch') = {} BY <2>1, EmptyRange
  <2>3. Rolled' = Rolled /\ Lost' = Lost \cup Range(batch)
    BY <1>1, <1>4, <1>6, <2>1 DEF Rolled, Lost
  <2>4. CASE Range(batch) = {} BY <1>1, <2>2, <2>3, <2>4, Stutters
  <2>5. CASE Range(batch) # {}
    <3>1. PICK y : y \in Range(batch) BY <2>5
    <3>2. y \in Samples /\ StageOf(y) = "picked"
      <4>1. y \in Samples BY <1>2, <3>1 DEF Range
      <4> QED BY <3>1, <4>1, StageSets DEF StreamInv, RunInv
    <3>3. ASSUME NEW s \in Samples
          PROVE  StageOf(s)' = IF StageOf(s) = "picked" THEN "gone" ELSE StageOf(s)
      <4>1. CASE s \in Range(batch)
        <5>1. StageOf(s) = "picked" /\ s \notin trained \cup Rolled
          BY <4>1, StageSets DEF StreamInv, RunInv
        <5>2. s \notin trained' \cup Range(batch') \cup Rolled' /\ s \in dropped' \cup left'
          BY <1>1, <2>1, <2>2, <2>3, <4>1, <5>1
        <5>3. StageOf(s)' = "gone" BY <5>2 DEF StageOf
        <5> QED BY <5>1, <5>3
      <4>2. CASE s \notin Range(batch)
        <5>1. StageOf(s)' = StageOf(s) BY <1>1, <2>2, <2>3, <4>2, SameStage
        <5>2. StageOf(s) # "picked" BY <4>2 DEF StageOf
        <5> QED BY <5>1, <5>2
      <4> QED BY <4>1, <4>2
    <3>4. Stream!Discard BY <1>1, <3>2, <3>3 DEF Stream!Discard
    <3> QED BY <3>4 DEF Stream!Next
  <2> QED BY <2>4, <2>5
<1> QED BY <1>5, <1>6

LEMMA TrainsImplements ==
  ASSUME StreamInv, TrainerTrains PROVE [Stream!Next]_(Stream!vars)
<1>1. /\ tpc = "train" /\ trained' = trained \cup Range(batch) /\ batch' = <<>>
      /\ tversion' \in {tversion, tversion + 1}
      /\ UNCHANGED <<conf, born, dropped, left, resultq, inflight, mq>>
  BY DEF TrainerTrains, rollVars, queueVars
<1>2. batch \in Seq(Samples) /\ IsInjective(batch) /\ Len(batch) = conf.required
  BY <1>1 DEF StreamInv, RunInv, PlaceInv, PlaceTypes, InjectiveInv, CollectInv
<1> DEFINE B == Range(batch)
<1>3. B \subseteq Samples /\ Range(batch') = {} BY <1>1, <1>2, EmptyRange DEF Range
<1>4. Rolled' = Rolled /\ Lost' = Lost BY <1>1 DEF Rolled, Lost
<1>5. \A s \in Samples : StageOf(s) = "picked" <=> s \in B
  <2> SUFFICES ASSUME NEW s \in Samples PROVE StageOf(s) = "picked" <=> s \in B
    OBVIOUS
  <2>1. s \in B => StageOf(s) = "picked" BY StageSets DEF StreamInv, RunInv
  <2>2. StageOf(s) = "picked" => s \in B BY DEF StageOf
  <2> QED BY <2>1, <2>2
<1>6. {s \in Samples : [x \in Samples |-> StageOf(x)][s] = "picked"} = B BY <1>3, <1>5
<1>7. Stream!Cardinality(B) = conf.required
  BY <1>2, RangeExactly, StreamCardinality
<1>8. \A s \in B : tversion - born[s] <= MaxGap(conf) BY <1>1, TrainedAge
<1>9. ASSUME NEW s \in Samples
      PROVE  StageOf(s)' = IF s \in B THEN "trained" ELSE StageOf(s)
  <2>1. CASE s \in B
    <3>1. s \notin Lost \cup Rolled BY <2>1, StageSets DEF StreamInv, RunInv
    <3>2. s # End BY TotalAssumption DEF Samples, End
    <3>3. /\ s \notin dropped' \cup left' /\ s \notin Range(batch') \cup Rolled'
          /\ s \in trained'
      BY <1>1, <1>3, <1>4, <2>1, <3>1, <3>2 DEF Lost
    <3> QED BY <2>1, <3>3 DEF StageOf
  <2>2. CASE s \notin B
    <3>1. s \in trained' <=> s \in trained BY <1>1, <2>2
    <3> QED BY <1>1, <1>3, <1>4, <2>2, <3>1, SameStage
  <2> QED BY <2>1, <2>2
<1> HIDE DEF B
<1>10. Stream!Train BY <1>1, <1>6, <1>7, <1>8, <1>9 DEF Stream!Train
<1> QED BY <1>10 DEF Stream!Next

LEMMA StreamNext ==
  ASSUME StreamInv, [Next]_vars PROVE [Stream!Next]_(Stream!vars)
<1>1. conf' = conf BY ConfFixed
<1>2. CASE UNCHANGED streamVars
  <2>1. Rolled' = Rolled /\ Lost' = Lost BY <1>2 DEF streamVars, pipeVars, Rolled, Lost
  <2> QED BY <1>1, <1>2, <2>1, Stutters DEF streamVars, pipeVars
<1>3. CASE TrainerFinishes
  <2>1. /\ UNCHANGED <<born, trained, dropped, left, batch, resultq, inflight, mq>>
        /\ tversion' = tversion \/ tversion' = tversion + 1
    BY <1>3 DEF TrainerFinishes, rollVars, queueVars
  <2>2. Rolled' = Rolled /\ Lost' = Lost BY <2>1 DEF Rolled, Lost
  <2>3. \A s \in Samples : StageOf(s)' = StageOf(s) BY <2>1, <2>2, SameStage
  <2>4. UNCHANGED Stream!vars \/ Stream!FinalVersion
    BY <1>1, <2>1, <2>3 DEF Stream!vars, Stream!FinalVersion
  <2> QED BY <2>4 DEF Stream!Next
<1>4. CASE TrainerGets \/ TrainerTrains BY <1>4, GetsImplements, TrainsImplements
<1>5. CASE /\ UNCHANGED trainVars
           /\ \/ ProcessorSubmits \/ ConsumerTakes \/ QueueReceives \/ MainPutsEnd
              \/ \E s \in Samples : TaskCompletes(s)
  BY <1>5, StartsOrStutters, ConsumerStutters, QueueImplements, Finishes
<1> QED BY <1>2, <1>3, <1>4, <1>5, PipeMoves

LEMMA StreamStart == Init => Stream!Init
<1> SUFFICES ASSUME Init PROVE Stream!Init OBVIOUS
<1>1. /\ conf \in Configs /\ tversion = 0 /\ born = [s \in Samples |-> None]
      /\ trained = {} /\ dropped = {} /\ left = {} /\ batch = <<>> /\ mq = <<>>
      /\ inflight = NoSample /\ resultq = <<>>
  BY DEF Init, RollInit
<1>2. Rolled = {} /\ Range(batch) = {} BY <1>1, EmptyRange DEF Rolled
<1>3. \A s \in Samples : StageOf(s) = "waiting" BY <1>1, <1>2 DEF StageOf
<1> QED BY <1>1, <1>3 DEF Stream!Init

(* Whatever the settings and the interleaving, the pipeline is a stream     *)
(* that hands each sample on at most once and trains on batches of exactly  *)
(* required_samples, none older than MaxGap: of the current version with    *)
(* staleness_threshold = 0, and without partial rollout of no more than     *)
(* (max_required_samples + 1) versions' worth of samples, and two versions, *)
(* before (fully_async_rollouter.py, message_queue.py and                   *)
(* fully_async_trainer.py together).                                        *)
THEOREM PipelineIsStream == Spec => ImplementsStream
<1>1. Spec => []StreamInv BY StreamInit, StreamStep, PTL DEF Spec
<1> QED BY <1>1, StreamStart, StreamNext, PTL DEF Spec, ImplementsStream, Stream!Spec

---------------------------------------------------------------------------
(* That the count leaves room for what the trainer waits for: the safety   *)
(* part of TrainingEnds                                                    *)

\* samples of the current version that are under way or collected, seen from
\* what the processor took
Fresh == Taken - tversion * PerVersion - Cardinality(dropped)

Holding == IF held = NoSample THEN 0 ELSE 1

\* update_param_version has counted for the current version
Recounted == {"none", "resumeCall", "resumeLock", "resuming"}

\* While the stream runs the trainer's loop does.
StreamingInv ==
  main = "stream" => ~last /\ left = {} /\ tpc \notin {"final", "waitFinal", "ended"}

\* the trainer has, or finds in the queue, all it needs for its version
Enough == Collected + Len(mq) >= PerVersion

\* A sample is counted at most three times: as an ended task, in the result
\* queue or on its way, and in the message queue.
TimesCounted ==
  /\ sync \in {"quiet", "updateCall", "updateLock"} => ActiveTasks + Holding <= Fresh
  /\ sync = "counting" => counted <= 2 * Fresh
  /\ sync \in Recounted => staleness <= 3 * Fresh

Streaming == main = "stream" /\ got < End /\ tpc # "waitLast"

TimesInv == ~conf.partial /\ Streaming => Enough \/ TimesCounted

\* In synchronous mode once.
OnceInv == Synchronous /\ Streaming /\ sync \in Recounted => staleness <= Fresh

\* What has ended does not start again.
LEMMA StreamingBefore == ASSUME [Next]_vars, main' = "stream" PROVE main = "stream"
<1> USE DEF procRest, procVars, queueVars, monRest, syncRest, rollVars, queueOnly, trainVars
<1>1. CASE UNCHANGED vars BY <1>1 DEF vars
<1>2. CASE Trainer
  BY <1>2 DEF Trainer, TrainerGets, TrainerTrains, TrainerWaitsLast, Transfer,
     TrainerGetsValidation, TrainerFinishes
<1>3. CASE Processor
  BY <1>3
     DEF Processor, ProcessorSeesPause, ProcessorTakesCancelled, ProcessorTakesPending,
         ProcessorWaitsForPending, ProcessorLocks, ProcessorGetsLock, ProcessorPauses,
         ProcessorLeavesLoop, ProcessorWaitsForTask, ProcessorSeesTaskDone,
         ProcessorFindsNoTask, ProcessorParks, ProcessorUnparks, ProcessorSubmits
<1>4. CASE \/ FeedSamples \/ ConsumerTakes \/ QueueReceives
           \/ \E s \in Samples : TaskCancelled(s) \/ TaskCompletes(s)
           \/ MonitorQueues \/ MonitorUnpauses \/ MonitorEnds
  BY <1>4
     DEF FeedSamples, ConsumerTakes, QueueReceives, TaskCancelled, TaskCompletes,
         MonitorQueues, MonitorUnpauses, MonitorEnds
<1>5. CASE \/ SyncQueues \/ PauseBegins \/ PauseCancels \/ PauseEnds
           \/ UpdateBegins(weights) \/ UpdateEnds(tpc = "waitFinal")
           \/ ResumeBegins \/ ResumeEnds
  BY <1>5 DEF SyncQueues, PauseBegins, PauseCancels, PauseEnds, UpdateBegins, UpdateEnds,
     ResumeBegins, ResumeEnds
<1>6. ~MainStreamEnds /\ ~MainPutsEnd /\ ~MainStops
  BY DEF MainStreamEnds, MainPutsEnd, MainStops
<1> QED BY <1>1, <1>2, <1>3, <1>4, <1>5, <1>6 DEF Next, RolloutStep, Rollouter

LEMMA StreamingStep == RunInv /\ StreamingInv /\ [Next]_vars => StreamingInv'
<1> SUFFICES ASSUME RunInv, StreamingInv, [Next]_vars, main' = "stream" PROVE StreamingInv'
  BY DEF StreamingInv
<1> USE DEF rollVars, trainVars
<1>1. main = "stream" BY StreamingBefore
<1>2. ~last /\ left = {} /\ tpc \notin {"final", "waitFinal", "ended"} BY <1>1 DEF StreamingInv
<1>3. CASE TrainerGets
  <2>1. mq # <<>> /\ mq \in Seq(1 .. End) /\ IsInjective(mq)
    BY <1>3 DEF TrainerGets, RunInv, PlaceInv, PlaceTypes, InjectiveInv
  <2>2. Head(mq) # End BY <1>1, <2>1, HeadTaken DEF RunInv, PlaceInv, EndInv
  <2> QED BY <1>2, <1>3, <2>2 DEF TrainerGets, StreamingInv
<1>4. CASE TrainerTrains \/ TrainerWaitsLast \/ Transfer \/ TrainerGetsValidation \/ TrainerFinishes
  BY <1>2, <1>4 DEF TrainerTrains, NextPlace, TrainerWaitsLast, Transfer, TrainerGetsValidation,
     TrainerFinishes, StreamingInv
<1>5. CASE RolloutStep \/ UNCHANGED vars
  BY <1>2, <1>5 DEF RolloutStep, vars, StreamingInv
<1> QED BY <1>3, <1>4, <1>5 DEF Next, Trainer

LEMMA DisjointUnion ==
  ASSUME NEW S, NEW T, IsFiniteSet(S), IsFiniteSet(T), S \cap T = {}
  PROVE  /\ IsFiniteSet(S \cup T) /\ Cardinality(S \cup T) = Cardinality(S) + Cardinality(T)
         /\ Cardinality(S \cup T) \in Nat /\ Cardinality(S) \in Nat /\ Cardinality(T) \in Nat
<1>1. /\ IsFiniteSet(S \cup T)
      /\ Cardinality(S \cup T) = Cardinality(S) + Cardinality(T) - Cardinality(S \cap T)
  BY FS_Union
<1>2. Cardinality(S \cap T) = 0 BY FS_EmptySet
<1>3. Cardinality(S) \in Nat /\ Cardinality(T) \in Nat /\ Cardinality(S \cup T) \in Nat
  BY <1>1, FS_CardinalityType
<1> QED BY <1>1, <1>2, <1>3

\* what a version's samples are, while the stream runs
FreshFacts == main = "stream" =>
  /\ Fresh = Cardinality(Outs) + Collected
  /\ Fresh \in Nat /\ Cardinality(Outs) \in Nat /\ Collected \in Nat
  /\ Cardinality(dropped) \in Nat /\ Taken \in Nat

LEMMA FreshKnown == RunInv /\ CollectInv /\ StreamingInv => FreshFacts
<1> SUFFICES ASSUME RunInv, CollectInv, StreamingInv, main = "stream" PROVE FreshFacts
  BY DEF FreshFacts
<1> DEFINE B == Range(batch)
           D == dropped
           R == trained
           N == 1 .. Taken
<1>0. CollectFacts /\ ~last /\ left = {} /\ End \notin dropped
  BY CollectKnown DEF StreamingInv, RunInv, PlaceInv, EndInv
<1>1. Outs = N \ Gone /\ Taken \in 0 .. Total BY OutsAndWork DEF RunInv, OutsSplit
<1>2. Gone = (B \cup R) \cup D BY <1>0 DEF Gone
<1>3. B \subseteq N /\ R \subseteq N /\ D \subseteq N
  <2>1. \A p \in Names : Places[p] \subseteq N BY DEF RunInv, PlaceInv, PartitionInv, Partition
  <2>2. dropped \ {End} = dropped BY <1>0
  <2> QED BY <2>1, <2>2, PlaceFields DEF Names
<1>4. B \cap R = {} /\ (B \cup R) \cap D = {}
  <2>1. \A a, b \in {"batch", "trained", "dropped"} : a # b => Places[a] \cap Places[b] = {}
    BY DEF RunInv, PlaceInv, PartitionInv, Partition, Names
  <2>2. dropped \ {End} = dropped BY <1>0
  <2> QED BY <2>1, <2>2, PlaceFields
<1>5. IsFiniteSet(N) /\ Cardinality(N) = Taken /\ Taken \in Nat
  <2>1. Taken \in Nat BY <1>1, TotalAssumption
  <2> QED BY <2>1, FS_Interval
<1>6. IsFiniteSet(B) /\ Cardinality(B) = Len(batch)
  BY RangeExactly DEF RunInv, PlaceInv, PlaceTypes, InjectiveInv
<1>7. IsFiniteSet(R) /\ Cardinality(R) = Steps BY <1>0 DEF CollectInv, CollectFacts
<1>8. IsFiniteSet(D) /\ Cardinality(D) \in Nat BY <1>3, <1>5, AtMost
<1> HIDE DEF B, D, R, N
<1>9. IsFiniteSet(B \cup R) /\ Cardinality(B \cup R) = Cardinality(B) + Cardinality(R)
  BY <1>4, <1>6, <1>7, DisjointUnion
<1> DEFINE G == (B \cup R) \cup D
<1>10. IsFiniteSet(G) /\ Cardinality(G) = Cardinality(B \cup R) + Cardinality(D)
  BY <1>4, <1>8, <1>9, DisjointUnion
<1>11. G \subseteq N /\ Outs = N \ G BY <1>1, <1>2, <1>3
<1> HIDE DEF G
<1>12. IsFiniteSet(Outs) /\ Outs \cap G = {} /\ Outs \cup G = N
  BY <1>11, CountsFinite DEF RunInv
<1>13. Cardinality(N) = Cardinality(Outs) + Cardinality(G) /\ Cardinality(Outs) \in Nat
  BY <1>10, <1>12, DisjointUnion
<1> DEFINE o == Cardinality(Outs)
           d == Cardinality(dropped)
           l == Len(batch)
           v == tversion * PerVersion
           p == (local - 1) * conf.required
<1>14. Taken = o + (l + (v + p) + d)
  BY <1>5, <1>6, <1>7, <1>9, <1>10, <1>13 DEF Steps, D
<1>15. o \in Nat /\ d \in Nat /\ l \in Nat /\ v \in Nat /\ p \in Nat /\ Taken \in Nat
  BY <1>0, <1>5, <1>8, <1>13 DEF CollectFacts, D
<1>16. Collected = p + l /\ Fresh = Taken - v - d BY DEF Collected, Fresh
<1> HIDE DEF o, d, l, v, p
<1>17. Fresh = o + Collected /\ Fresh \in Nat /\ Collected \in Nat BY <1>14, <1>15, <1>16
<1> QED BY <1>15, <1>17 DEF FreshFacts, o, d

LEMMA FreshKnownNext == RunInv' /\ CollectInv' /\ StreamingInv' => FreshFacts'
BY FreshKnown, PTL

\* Within a version, and as long as nothing is dropped, its samples only
\* become more.
LEMMA FreshGrows ==
  ASSUME RunInv, [Next]_vars, UNCHANGED <<tversion, dropped>>,
         Fresh \in Nat
  PROVE  /\ Fresh' \in Int /\ Fresh' >= Fresh /\ (got' < End => got < End)
         /\ ProcessorTakesPending /\ got' < End => Fresh' = Fresh + 1
<1> DEFINE v == tversion * PerVersion
           d == Cardinality(dropped)
<1>1. RunInv' /\ conf' = conf BY RunStep, ConfFixed
<1>2. /\ got \in Nat /\ got' \in Nat /\ got <= End /\ got' <= End /\ End = Total + 1 /\ Total \in Nat
  BY <1>1, TotalAssumption DEF RunInv, PlaceInv, PlaceTypes, End
<1>3. got' = got \/ (ProcessorTakesPending /\ got' = got + 1)
  BY GoneGrows DEF RunInv, ProcessorTakesPending
<1>4. v \in Nat /\ d \in Int
  <2>1. CollectFacts BY CollectKnown
  <2>2. dropped \subseteq 1 .. End /\ End \in Nat BY <1>2 DEF RunInv, PlaceInv, PlaceTypes
  <2>3. IsFiniteSet(1 .. End) BY <2>2, FS_Interval
  <2>4. Cardinality(dropped) \in Nat BY <2>2, <2>3, AtMost
  <2> QED BY <2>1, <2>4 DEF CollectFacts
<1>5. Fresh = Taken - v - d /\ Fresh' = Taken' - v - d BY <1>1 DEF Fresh, PerVersion
<1>6. /\ Taken = IF got < End THEN got ELSE Total
      /\ Taken' = IF got' < End THEN got' ELSE Total
  BY DEF Taken
<1> HIDE DEF v, d
<1>7. /\ Taken \in Nat /\ Taken' \in Nat /\ Taken' >= Taken /\ (got' < End => got < End)
      /\ ProcessorTakesPending /\ got' < End => Taken' = Taken + 1
  <2>1. ProcessorTakesPending => got' = got + 1 BY DEF ProcessorTakesPending
  <2> QED BY <1>2, <1>3, <1>6, <2>1
<1>8. Fresh' \in Int /\ Fresh' >= Fresh /\ (Taken' = Taken + 1 => Fresh' = Fresh + 1)
  <2> DEFINE t == Taken
             u == Taken'
  <2>1. t \in Int /\ u \in Int /\ v \in Int /\ d \in Int /\ u >= t BY <1>4, <1>7
  <2>2. Fresh = t - v - d /\ Fresh' = u - v - d BY <1>5
  <2> HIDE DEF t, u
  <2>3. Fresh' \in Int /\ Fresh' >= Fresh /\ (u = t + 1 => Fresh' = Fresh + 1) BY <2>1, <2>2
  <2> QED BY <2>3 DEF t, u
<1> QED BY <1>7, <1>8

\* Tasks, the sample the processor holds, the results and the queue are all
\* under way.
LEMMA PartsOfOuts ==
  ASSUME RunInv, main = "stream"
  PROVE  /\ Holding \in {0, 1} /\ Holding <= Cardinality(Outs)
         /\ Len(resultq) \in Nat /\ Len(resultq) <= Cardinality(Outs)
         /\ Len(mq) \in Nat /\ Len(mq) <= Cardinality(Outs)
<1>1. IsFiniteSet(Outs) /\ Cardinality(Outs) \in Nat BY CountsFinite DEF RunInv
<1>2. /\ resultq \in Seq(Samples) /\ IsInjective(resultq)
      /\ mq \in Seq(1 .. End) /\ IsInjective(mq) /\ End \notin Range(mq)
  BY DEF RunInv, PlaceInv, PlaceTypes, InjectiveInv, EndInv
<1>3. Len(resultq) \in Nat /\ Cardinality(Range(resultq)) = Len(resultq) BY <1>2, RangeExactly
<1>4. Len(mq) \in Nat /\ Cardinality(Range(mq)) = Len(mq) BY <1>2, RangeExactly
<1>5. Range(resultq) \subseteq Outs /\ Range(mq) \subseteq Outs BY <1>2 DEF Outs, Rolled
<1>6. Holding \in {0, 1} /\ Holding <= Cardinality(Outs)
  <2>1. CASE held = NoSample BY <1>1, <2>1 DEF Holding
  <2>2. CASE held # NoSample
    <3>1. {held} \subseteq Outs BY <2>2 DEF Outs
    <3>2. Cardinality({held}) = 1 BY FS_Singleton
    <3>3. Cardinality({held}) <= Cardinality(Outs) BY <1>1, <3>1, AtMost
    <3> QED BY <2>2, <3>2, <3>3 DEF Holding
  <2> QED BY <2>1, <2>2
<1>7. Cardinality(Range(resultq)) <= Cardinality(Outs) BY <1>1, <1>5, AtMost
<1>8. Cardinality(Range(mq)) <= Cardinality(Outs) BY <1>1, <1>5, AtMost
<1> QED BY <1>3, <1>4, <1>6, <1>7, <1>8

\* What the tasks may do to the count of the settled ones.
LEMMA TasksCounted ==
  ASSUME RunInv, ~conf.partial, UncutInv, UNCHANGED trainVars,
         \/ ProcessorSubmits \/ ProcessorSeesTaskDone
         \/ \E s \in Samples : TaskCompletes(s)
  PROVE  ActiveTasks' + Holding' <= ActiveTasks + Holding
<1> USE DEF procRest, procVars
<1> DEFINE r == Cardinality(Running)
           u == Cardinality(Running')
<1>1. RunInv /\ task \in [Samples -> {"none", "gen", "cut", "out"}] /\ settled \in Nat
  BY DEF RunInv, ProcTypes
<1>2. IsFiniteSet(Running) /\ r \in Nat /\ ActiveTasks = r + settled BY ActiveTyped
<1>3. u \in Nat /\ ActiveTasks' = u + settled'
  <2>1. (IsFiniteSet(Running) /\ Cardinality(Running) \in Nat
          /\ ActiveTasks = Cardinality(Running) + settled)'
    BY ActiveTyped, PTL
  <2> QED BY <2>1
<1>4. Holding \in {0, 1} BY DEF Holding
<1>5. CASE ProcessorSubmits
  <2>1. /\ held # NoSample /\ held' = NoSample /\ settled' = settled /\ held \in Samples
        /\ task' = [task EXCEPT ![held] = "gen"]
    BY <1>5, TotalAssumption
       DEF ProcessorSubmits, RunInv, PlaceInv, PlaceTypes, HeldInv, NoSample, Samples
  <2>2. Running' \subseteq Running \cup {held} BY <1>1, <2>1 DEF Running
  <2>3. /\ IsFiniteSet(Running \cup {held})
        /\ Cardinality(Running \cup {held}) \in {r, r + 1}
    BY <1>2, FS_AddElement
  <2>4. u <= Cardinality(Running \cup {held}) BY <2>2, <2>3, AtMost
  <2>5. Holding = 1 /\ Holding' = 0 BY <2>1 DEF Holding
  <2> HIDE DEF r, u
  <2> QED BY <1>1, <1>2, <1>3, <2>1, <2>3, <2>4, <2>5
<1>6. CASE ProcessorSeesTaskDone
  <2>1. settled' = 0 /\ task' = task /\ held' = held BY <1>6 DEF ProcessorSeesTaskDone
  <2>2. u = r /\ Holding' = Holding BY <2>1 DEF Running, Holding
  <2> HIDE DEF r, u
  <2> QED BY <1>1, <1>2, <1>3, <1>4, <2>1, <2>2
<1>7. CASE \E s \in Samples : TaskCompletes(s)
  <2>1. PICK s \in Samples : TaskCompletes(s) BY <1>7
  <2>2. /\ settled' = settled + 1 /\ held' = held /\ task' = [task EXCEPT ![s] = "none"]
        /\ task[s] # "none"
    BY <2>1 DEF TaskCompletes
  <2>3. Running' = Running \ {s} /\ s \in Running BY <1>1, <2>2 DEF Running
  <2>4. u = r - 1
    <3>1. Cardinality(Running \ {s}) = r - 1 BY <1>2, <2>3, FS_RemoveElement
    <3> QED BY <2>3, <3>1
  <2>5. Holding' = Holding BY <2>2 DEF Holding
  <2> HIDE DEF r, u
  <2> QED BY <1>1, <1>2, <1>3, <1>4, <2>2, <2>4, <2>5
<1> QED BY <1>5, <1>6, <1>7

\* a step that counts nothing and moves no task
CountsRest ==
  /\ UNCHANGED <<task, settled, held, staleness, counted>>
  /\ sync' \in {"quiet", "updateCall", "updateLock"}
       => sync \in {"quiet", "updateCall", "updateLock"}
  /\ sync' = "counting" => sync = "counting"
  /\ sync' \in Recounted => sync \in Recounted

LEMMA CountsRestOthers ==
  ASSUME ~conf.partial, UncutInv, RolloutStep
  PROVE  \/ CountsRest
         \/ ProcessorTakesPending \/ ProcessorSubmits \/ ProcessorSeesTaskDone
         \/ \E s \in Samples : TaskCompletes(s)
         \/ PauseEnds \/ UpdateBegins(weights) \/ UpdateEnds(tpc = "waitFinal")
<1> USE DEF procRest, procVars, mainRest, monRest, syncRest, CountsRest
<1>1. ASSUME Processor
      PROVE  CountsRest \/ ProcessorTakesPending \/ ProcessorSubmits \/ ProcessorSeesTaskDone
  <2>1. ~ProcessorTakesCancelled BY DEF ProcessorTakesCancelled, UncutInv
  <2> QED
    BY <1>1, <2>1
       DEF Processor, ProcessorSeesPause, ProcessorWaitsForPending, ProcessorLocks,
           ProcessorGetsLock, ProcessorPauses, ProcessorLeavesLoop, ProcessorWaitsForTask,
           ProcessorFindsNoTask, ProcessorParks, ProcessorUnparks
<1>2. ASSUME \/ FeedSamples \/ ConsumerTakes \/ QueueReceives
             \/ MainStreamEnds \/ MainPutsEnd \/ MainStops
             \/ MonitorQueues \/ MonitorUnpauses \/ MonitorEnds
      PROVE  CountsRest
  BY <1>2 DEF FeedSamples, ConsumerTakes, QueueReceives, MainStreamEnds, MainPutsEnd, MainStops,
     MonitorQueues, MonitorUnpauses, MonitorEnds
<1>3. ASSUME NEW s \in Samples, TaskCancelled(s) PROVE FALSE
  BY <1>3 DEF TaskCancelled, UncutInv
<1>4. ~PauseCancels BY DEF PauseCancels, UncutInv
<1>5. ASSUME SyncQueues \/ PauseBegins \/ ResumeBegins \/ ResumeEnds PROVE CountsRest
  BY <1>5 DEF SyncQueues, Queued, PauseBegins, ResumeBegins, ResumeEnds, SyncEnters, Enters,
     Recounted
<1> QED BY <1>1, <1>2, <1>3, <1>4, <1>5 DEF RolloutStep, Rollouter

\* As long as nothing is dropped each count stays within its bound.
LEMMA TimesRollout ==
  ASSUME RunInv, ~conf.partial, UncutInv, RolloutStep, [Next]_vars, dropped' = dropped,
         main = "stream", FreshFacts, FreshFacts', main' = "stream", got' < End,
         TimesCounted
  PROVE  TimesCounted'
<1> USE DEF procRest, procVars, syncRest
<1>1. UNCHANGED trainVars BY DEF RolloutStep
<1>2. /\ Fresh \in Nat /\ Fresh' \in Nat /\ Fresh = Cardinality(Outs) + Collected
      /\ Cardinality(Outs) \in Nat /\ Collected \in Nat
      /\ Fresh' = Cardinality(Outs') + Collected' /\ Cardinality(Outs') \in Nat
      /\ Collected' \in Nat
  BY DEF FreshFacts
<1>a. Fresh' >= Fresh /\ (ProcessorTakesPending => Fresh' = Fresh + 1)
  BY <1>1, <1>2, FreshGrows DEF trainVars
<1>3. Fresh' >= Fresh BY <1>a
<1>4. RunInv' BY RunStep
<1>5. staleness \in Nat /\ counted \in Nat /\ settled \in Nat /\ Holding \in {0, 1}
      /\ Holding' \in {0, 1} /\ ActiveTasks \in Nat /\ ActiveTasks' \in Nat
  <2>1. ActiveTasks = Cardinality(Running) + settled /\ Cardinality(Running) \in Nat
    BY ActiveTyped
  <2>2. (ActiveTasks = Cardinality(Running) + settled /\ Cardinality(Running) \in Nat)'
    BY ActiveTyped, PTL
  <2> QED BY <1>4, <2>1, <2>2 DEF RunInv, CountTypes, ProcTypes, Holding
<1> DEFINE f == Fresh
           g == Fresh'
           a == ActiveTasks + Holding
           b == ActiveTasks' + Holding'
<1>12. f \in Nat /\ g \in Nat /\ g >= f /\ a \in Nat /\ b \in Nat
  <2>1. Holding \in Nat /\ Holding' \in Nat BY <1>5
  <2>2. ActiveTasks \in Nat /\ ActiveTasks' \in Nat BY <1>5
  <2>4. a \in Nat /\ b \in Nat
    <3> DEFINE x == ActiveTasks
               y == ActiveTasks'
               h == Holding
               k == Holding'
    <3>1. x \in Nat /\ y \in Nat /\ h \in Nat /\ k \in Nat BY <2>1, <2>2
    <3>2. a = x + h /\ b = y + k OBVIOUS
    <3> HIDE DEF a, b, x, y, h, k
    <3> QED BY <3>1, <3>2
  <2>3. f \in Nat /\ g \in Nat /\ g >= f BY <1>2, <1>3
  <2> QED BY <2>3, <2>4
<1> HIDE DEF f, g, a, b
<1>6. CASE CountsRest
  <2>1. Running' = Running /\ settled' = settled /\ held' = held BY <1>6 DEF CountsRest, Running
  <2>2. ActiveTasks' = ActiveTasks /\ Holding' = Holding
    BY <1>6 DEF ActiveTasks, Holding, CountsRest
  <2>3. /\ staleness' = staleness /\ counted' = counted
        /\ sync' \in {"quiet", "updateCall", "updateLock"} => ActiveTasks + Holding <= Fresh
        /\ sync' = "counting" => counted <= 2 * Fresh
        /\ sync' \in Recounted => staleness <= 3 * Fresh
    BY <1>6 DEF CountsRest, TimesCounted
  <2>4. ActiveTasks + Holding <= Fresh => ActiveTasks' + Holding' <= Fresh'
    BY <1>2, <1>3, <1>5, <2>2
  <2>5. counted <= 2 * Fresh => counted <= 2 * Fresh' BY <1>2, <1>3, <1>5
  <2>6. staleness <= 3 * Fresh => staleness <= 3 * Fresh' BY <1>2, <1>3, <1>5
  <2> QED BY <2>3, <2>4, <2>5, <2>6 DEF TimesCounted
<1>7. CASE ProcessorTakesPending
  <2>1. /\ staleness' = staleness + 1 /\ UNCHANGED <<sync, counted, task, settled>>
        /\ held = NoSample
    BY <1>7 DEF ProcessorTakesPending, RunInv, PlaceInv, HeldInv
  <2>2. ActiveTasks' = ActiveTasks /\ Holding = 0 BY <2>1 DEF ActiveTasks, Holding
  <2>3. /\ sync' \in {"quiet", "updateCall", "updateLock"} => ActiveTasks + Holding <= Fresh
        /\ sync' = "counting" => counted <= 2 * Fresh
        /\ sync' \in Recounted => staleness <= 3 * Fresh
    BY <2>1 DEF TimesCounted
  <2>0. Fresh' = Fresh + 1 BY <1>7, <1>a
  <2>4. ActiveTasks + Holding <= Fresh => ActiveTasks' + Holding' <= Fresh'
    BY <1>2, <1>5, <2>0, <2>2
  <2>5. counted <= 2 * Fresh => counted <= 2 * Fresh' BY <1>2, <1>5, <2>0
  <2>6. staleness <= 3 * Fresh => staleness' <= 3 * Fresh' BY <1>2, <1>5, <2>0, <2>1
  <2> QED BY <2>1, <2>3, <2>4, <2>5, <2>6 DEF TimesCounted
<1>8. CASE ProcessorSubmits \/ ProcessorSeesTaskDone \/ \E s \in Samples : TaskCompletes(s)
  <2>1. UNCHANGED <<sync, counted, staleness>>
    BY <1>8 DEF ProcessorSubmits, ProcessorSeesTaskDone, TaskCompletes
  <2>2. ActiveTasks' + Holding' <= ActiveTasks + Holding BY <1>1, <1>8, TasksCounted
  <2>3. /\ sync' \in {"quiet", "updateCall", "updateLock"} => ActiveTasks + Holding <= Fresh
        /\ sync' = "counting" => counted <= 2 * Fresh
        /\ sync' \in Recounted => staleness <= 3 * Fresh
    BY <2>1 DEF TimesCounted
  <2>4. ActiveTasks + Holding <= Fresh => ActiveTasks' + Holding' <= Fresh'
    <3>1. b <= a BY <2>2 DEF a, b
    <3>2. a <= f => b <= g BY <1>12, <3>1
    <3> QED BY <3>2 DEF a, b, f, g
  <2>5. counted <= 2 * Fresh => counted <= 2 * Fresh' BY <1>2, <1>3, <1>5
  <2>6. staleness <= 3 * Fresh => staleness <= 3 * Fresh' BY <1>2, <1>3, <1>5
  <2> QED BY <2>1, <2>3, <2>4, <2>5, <2>6 DEF TimesCounted
<1>9. CASE PauseEnds
  <2>1. /\ sync' = "quiet" /\ settled' = 0 /\ \A s \in Samples : task'[s] = "none"
    BY <1>9 DEF PauseEnds
  <2>2. ActiveTasks' = 0
    <3>1. ActiveTasks' = Cardinality(Running') + settled' /\ Running' = {}
      BY <2>1 DEF ActiveTasks, Running
    <3>2. Cardinality(Running') = 0 BY <3>1, FS_EmptySet
    <3> QED BY <2>1, <3>1, <3>2
  <2>3. Holding' <= Cardinality(Outs')
    <3>1. Holding <= Cardinality(Outs) BY PartsOfOuts
    <3>2. UNCHANGED <<held, cancelq, resultq, inflight, mq>> /\ Running' = Running
      BY <1>9, <2>1 DEF PauseEnds, Running
    <3>3. Holding' = Holding /\ Outs' = Outs BY <3>2 DEF Holding, Outs, Rolled
    <3> QED BY <3>1, <3>3
  <2>4. ActiveTasks' + Holding' <= Fresh' BY <1>2, <1>5, <2>2, <2>3
  <2> QED BY <2>1, <2>4 DEF TimesCounted, Recounted
<1>10. CASE UpdateBegins(weights)
  <2>1. /\ sync \in {"updateCall", "updateLock"} /\ sync' = "counting"
        /\ counted' = ActiveTasks + Len(resultq) + Len(cancelq)
    BY <1>10 DEF UpdateBegins, SyncEnters, Enters, Queued, Counted
  <2>2. ActiveTasks + Holding <= Fresh BY <2>1 DEF TimesCounted
  <2>3. Len(resultq) \in Nat /\ Len(resultq) <= Cardinality(Outs) BY PartsOfOuts
  <2>4. Len(cancelq) = 0 BY DEF UncutInv
  <2>5. counted' <= 2 * Fresh'
    <3> DEFINE q == Len(resultq)
    <3>1. q \in Nat /\ q <= Fresh
      <4> DEFINE o == Cardinality(Outs)
      <4>1. q \in Nat /\ o \in Nat /\ Collected \in Nat /\ q <= o /\ Fresh = o + Collected
        BY <1>2, <2>3
      <4> HIDE DEF q, o
      <4> QED BY <4>1
    <3>2. q <= f BY <3>1 DEF f
    <3>3. ActiveTasks \in Nat /\ ActiveTasks <= f
      <4>1. a <= f /\ ActiveTasks \in Nat /\ Holding \in Nat BY <1>5, <2>2 DEF a, f
      <4>2. a = ActiveTasks + Holding BY DEF a
      <4> QED BY <1>12, <4>1, <4>2
    <3>4. counted' = ActiveTasks + q + 0 BY <2>1, <2>4
    <3> HIDE DEF q
    <3>5. counted' <= 2 * g BY <1>12, <3>1, <3>2, <3>3, <3>4
    <3> QED BY <3>5 DEF g
  <2> QED BY <2>1, <2>5 DEF TimesCounted, Recounted
<1>11. CASE UpdateEnds(tpc = "waitFinal")
  <2>1. sync = "counting" /\ sync' = "resumeCall" /\ staleness' = counted + Len(mq)
    BY <1>11 DEF UpdateEnds
  <2>2. counted <= 2 * Fresh BY <2>1 DEF TimesCounted
  <2>3. Len(mq) \in Nat /\ Len(mq) <= Cardinality(Outs) BY PartsOfOuts
  <2>4. staleness' <= 3 * Fresh'
    <3> DEFINE m == Len(mq)
    <3>1. m \in Nat /\ m <= Fresh
      <4> DEFINE o == Cardinality(Outs)
      <4>1. m \in Nat /\ o \in Nat /\ Collected \in Nat /\ m <= o /\ Fresh = o + Collected
        BY <1>2, <2>3
      <4> HIDE DEF m, o
      <4> QED BY <4>1
    <3>2. staleness' = counted + m /\ counted \in Nat /\ counted <= 2 * f /\ m <= f
      BY <1>5, <2>1, <2>2, <3>1 DEF f
    <3> HIDE DEF m
    <3>3. staleness' <= 3 * g BY <1>12, <3>1, <3>2
    <3> QED BY <3>3 DEF g
  <2> QED BY <2>1, <2>4 DEF TimesCounted, Recounted
<1> QED BY <1>6, <1>7, <1>8, <1>9, <1>10, <1>11, CountsRestOthers

\* Once the version has all it needs it keeps it.
LEMMA EnoughStays ==
  ASSUME RunInv, CollectInv, [Next]_vars, main = "stream", tpc' # "waitLast",
         Enough \/ dropped' # dropped, tpc # "waitLast", tpc # "final"
  PROVE  Enough'
<1> USE DEF procRest, procVars, queueVars, mainRest, monRest, syncRest, rollVars, queueOnly,
            trainVars
<1> DEFINE m == Len(mq)
           n == Len(mq')
<1>0. CollectFacts /\ mq \in Seq(1 .. End) /\ IsInjective(mq) /\ conf' = conf
  BY CollectKnown, ConfFixed DEF RunInv, PlaceInv, PlaceTypes, InjectiveInv
<1>1. PerVersion' = PerVersion /\ m \in Nat BY <1>0 DEF PerVersion
<1>2. CASE QueueReceives /\ UNCHANGED trainVars
  <2>1. /\ inflight \in 1 .. End /\ PutSample(inflight)
    BY <1>2, TotalAssumption
       DEF QueueReceives, RunInv, PlaceInv, PlaceTypes, NoSample, End
  <2>2. Collected' = Collected /\ Collected \in Nat
    BY <1>0, <1>2 DEF Collected, CollectFacts
  <2>3. CASE Len(mq) >= conf.max
    <3>1. n = m
      <4>1. mq' = Append(Tail(mq), inflight) BY <2>1, <2>3 DEF PutSample
      <4>2. mq # <<>> BY <1>0, <2>3 DEF CollectFacts
      <4>3. Tail(mq) \in Seq(1 .. End) /\ Len(Tail(mq)) = m - 1 BY <1>0, <4>2, HeadTailProperties
      <4>4. n = Len(Tail(mq)) + 1 BY <2>1, <4>1, <4>3, AppendProperties
      <4> QED BY <1>1, <4>3, <4>4
    <3> HIDE DEF m, n
    <3>2. m >= conf.max BY <2>3 DEF m
    <3>3. Collected' + n >= PerVersion' BY <1>0, <1>1, <2>2, <3>1, <3>2 DEF CollectFacts
    <3> QED BY <3>3 DEF Enough, n
  <2>4. CASE ~(Len(mq) >= conf.max)
    <3>1. mq' = Append(mq, inflight) /\ dropped' = dropped BY <2>1, <2>4 DEF PutSample
    <3>2. n = m + 1 BY <1>0, <2>1, <3>1, AppendProperties
    <3>3. Collected + m >= PerVersion BY <3>1 DEF Enough
    <3> HIDE DEF m, n
    <3>4. Collected' + n >= PerVersion' BY <1>0, <1>1, <2>2, <3>2, <3>3 DEF CollectFacts
    <3> QED BY <3>4 DEF Enough, n
  <2> QED BY <2>3, <2>4
<1>3. CASE TrainerGets
  <2>1. mq # <<>> /\ mq' = Tail(mq) /\ dropped' = dropped /\ local' = local
    BY <1>3 DEF TrainerGets
  <2>2. Head(mq) # End BY <1>0, <2>1, HeadTaken DEF RunInv, PlaceInv, EndInv
  <2>3. n = m - 1 BY <1>0, <2>1, HeadTailProperties
  <2>4. batch' = Append(batch, Head(mq)) BY <1>3, <2>2 DEF TrainerGets
  <2>5. Len(batch') = Len(batch) + 1 BY <1>0, <2>4 DEF CollectFacts
  <2> DEFINE p == (local - 1) * conf.required
             l == Len(batch)
  <2>6. Collected = p + l /\ Collected' = p + (l + 1) BY <1>0, <2>1, <2>5 DEF Collected
  <2>7. p \in Nat /\ l \in Nat /\ PerVersion \in Nat BY <1>0 DEF CollectFacts
  <2>8. Collected + m >= PerVersion BY <2>1 DEF Enough
  <2> HIDE DEF m, n, p, l
  <2>9. Collected' + n >= PerVersion' BY <1>1, <2>3, <2>6, <2>7, <2>8
  <2> QED BY <2>9 DEF Enough, n
<1>4. CASE TrainerTrains
  <2>1. local < conf.trigger BY <1>4 DEF TrainerTrains, NextPlace
  <2>2. /\ local' = local + 1 /\ batch' = <<>> /\ UNCHANGED <<mq, dropped>> /\ tpc = "train"
    BY <1>4, <2>1 DEF TrainerTrains
  <2>3. Len(batch) = conf.required /\ Len(batch') = 0 BY <2>2 DEF CollectInv
  <2> DEFINE p == (local - 1) * conf.required
             q == (local + 1 - 1) * conf.required
  <2>4. p \in Nat /\ q = p + conf.required /\ conf.required \in Nat BY <1>0 DEF CollectFacts
  <2>5. Collected = p + conf.required /\ Collected' = q + 0
    <3>1. (local' - 1) * conf'.required = q
      <4>1. conf'.required = conf.required BY <1>0
      <4>2. local \in Int /\ local' = local + 1 BY <1>0, <2>2 DEF CollectFacts
      <4> QED BY <4>1, <4>2
    <3> QED BY <2>3, <3>1 DEF Collected
  <2>6. Collected' = Collected
    <3> HIDE DEF p, q
    <3> QED BY <2>4, <2>5
  <2> QED BY <1>1, <2>2, <2>6 DEF Enough
<1>5. CASE UNCHANGED <<mq, dropped, batch, local>>
  BY <1>0, <1>1, <1>5 DEF Enough, Collected
<1>6. \/ QueueReceives /\ UNCHANGED trainVars
      \/ TrainerGets \/ TrainerTrains \/ UNCHANGED <<mq, dropped, batch, local>>
  <2>1. CASE UNCHANGED vars BY <2>1 DEF vars
  <2>2. CASE Trainer
    BY <2>2 DEF Trainer, TrainerWaitsLast, Transfer, TrainerGetsValidation, TrainerFinishes
  <2>3. CASE Processor /\ UNCHANGED trainVars
    BY <2>3
       DEF Processor, ProcessorSeesPause, ProcessorTakesCancelled, ProcessorTakesPending,
           ProcessorWaitsForPending, ProcessorLocks, ProcessorGetsLock, ProcessorPauses,
           ProcessorLeavesLoop, ProcessorWaitsForTask, ProcessorSeesTaskDone,
           ProcessorFindsNoTask, ProcessorParks, ProcessorUnparks, ProcessorSubmits
  <2>4. CASE /\ UNCHANGED trainVars
             /\ \/ FeedSamples \/ ConsumerTakes \/ MainStreamEnds \/ MainStops
                \/ \E s \in Samples : TaskCancelled(s) \/ TaskCompletes(s)
                \/ MonitorQueues \/ MonitorUnpauses \/ MonitorEnds
    BY <2>4
       DEF FeedSamples, ConsumerTakes, MainStreamEnds, MainStops, TaskCancelled, TaskCompletes,
           MonitorQueues, MonitorUnpauses, MonitorEnds
  <2>5. CASE /\ UNCHANGED trainVars
             /\ \/ SyncQueues \/ PauseBegins \/ PauseCancels \/ PauseEnds
                \/ UpdateBegins(weights) \/ UpdateEnds(tpc = "waitFinal")
                \/ ResumeBegins \/ ResumeEnds
    BY <2>5 DEF SyncQueues, PauseBegins, PauseCancels, PauseEnds, UpdateBegins, UpdateEnds,
       ResumeBegins, ResumeEnds
  <2>6. ~MainPutsEnd BY DEF MainPutsEnd
  <2> QED BY <2>1, <2>2, <2>3, <2>4, <2>5, <2>6 DEF Next, RolloutStep, Rollouter
<1> QED BY <1>2, <1>3, <1>4, <1>5, <1>6

LEMMA TimesStep ==
  RunInv /\ CollectInv /\ StreamingInv /\ WholeInv /\ BornInv /\ TimesInv /\ [Next]_vars
    => TimesInv'
<1> SUFFICES ASSUME RunInv, CollectInv, StreamingInv, WholeInv, BornInv, TimesInv, [Next]_vars,
                    ~conf'.partial, Streaming'
             PROVE  Enough' \/ TimesCounted'
  BY DEF TimesInv
<1>1. conf' = conf /\ ~conf.partial /\ UncutInv BY ConfFixed DEF WholeInv
<1>2. RunInv' /\ CollectInv' /\ StreamingInv' BY RunStep, CollectStep, StreamingStep
<1>3. FreshFacts /\ FreshFacts' BY <1>2, FreshKnown, FreshKnownNext
<1>4. /\ main = "stream" /\ main' = "stream" /\ got' < End /\ tpc' # "waitLast"
      /\ tpc # "final"
  BY StreamingBefore DEF Streaming, StreamingInv
<1>5. got < End
  <2>1. got' = got \/ got' = got + 1
    BY GoneGrows DEF RunInv, ProcessorTakesPending
  <2>2. got \in Nat /\ End \in Nat
    BY TotalAssumption DEF RunInv, PlaceInv, PlaceTypes, End
  <2> QED BY <1>4, <2>1, <2>2
<1>6. CASE TrainerWaitsLast
  <2>1. sync' = "pauseCall" BY <1>6 DEF TrainerWaitsLast
  <2> QED BY <2>1 DEF TimesCounted, Recounted
<1>7. CASE ~TrainerWaitsLast
  <2>1. tpc # "waitLast"
    <3>1. tpc = "waitLast" => tpc' = "waitLast"
      BY <1>7 DEF Next, RolloutStep, Trainer, TrainerGets, TrainerTrains, Transfer,
         TrainerGetsValidation, TrainerFinishes, vars, trainVars
    <3> QED BY <1>4, <3>1
  <2>2. Enough \/ TimesCounted BY <1>1, <1>4, <1>5, <2>1 DEF TimesInv, Streaming
  <2>3. CASE Enough \/ dropped' # dropped BY <1>4, <2>1, <2>3, EnoughStays
  <2>4. CASE dropped' = dropped /\ TimesCounted
    <3>1. CASE RolloutStep BY <1>1, <1>3, <1>4, <2>4, <3>1, TimesRollout
    <3>2. CASE Trainer \/ UNCHANGED vars
      <4>1. UNCHANGED <<task, settled, held, staleness, counted, got, tversion, conf, dropped>>
        <5>1. CASE UNCHANGED vars BY <5>1 DEF vars, rollVars, procVars, queueVars, trainVars
        <5>2. CASE TrainerTrains
          <6>1. local < conf.trigger BY <1>4, <5>2 DEF TrainerTrains, NextPlace
          <6> QED BY <5>2, <6>1 DEF TrainerTrains, rollVars, procVars, queueVars
        <5>3. ~TrainerFinishes BY <1>4 DEF TrainerFinishes
        <5> QED
          BY <1>7, <3>2, <5>1, <5>2, <5>3
             DEF Trainer, TrainerGets, Transfer, TrainerGetsValidation, queueOnly, procVars, queueVars
      <4>2. sync' = sync \/ (sync = "quiet" /\ sync' = "updateCall")
        BY <1>7, <3>2
           DEF Trainer, TrainerGets, TrainerTrains, Transfer, TrainerGetsValidation,
               TrainerFinishes, queueOnly, rollVars, vars
      <4>3. Fresh' = Fresh /\ ActiveTasks' = ActiveTasks /\ Holding' = Holding
        BY <4>1 DEF Fresh, Taken, PerVersion, ActiveTasks, Holding
      <4> QED BY <2>4, <4>1, <4>2, <4>3 DEF TimesCounted, Recounted
    <3> QED BY <3>1, <3>2 DEF Next
  <2> QED BY <2>2, <2>3, <2>4
<1> QED BY <1>6, <1>7

LEMMA OnceStep ==
  RunInv /\ CollectInv /\ StreamingInv /\ (Synchronous => SyncInv) /\ OnceInv /\ [Next]_vars
    => OnceInv'
<1> SUFFICES ASSUME RunInv, CollectInv, StreamingInv, Synchronous => SyncInv, OnceInv,
                    [Next]_vars, Synchronous', Streaming', sync' \in Recounted
             PROVE  staleness' <= Fresh'
  BY DEF OnceInv
<1>1. conf' = conf /\ Synchronous /\ SyncInv BY ConfFixed DEF Synchronous
<1>2. RunInv' /\ CollectInv' /\ StreamingInv' BY RunStep, CollectStep, StreamingStep
<1>3. FreshFacts /\ FreshFacts' BY <1>2, FreshKnown, FreshKnownNext
<1>4. /\ main = "stream" /\ main' = "stream" /\ got' < End /\ tpc' # "waitLast"
      /\ tpc # "final"
  BY StreamingBefore DEF Streaming, StreamingInv
<1>5. got < End
  <2>1. got' = got \/ got' = got + 1
    BY GoneGrows DEF RunInv, ProcessorTakesPending
  <2>2. got \in Nat /\ End \in Nat
    BY TotalAssumption DEF RunInv, PlaceInv, PlaceTypes, End
  <2> QED BY <1>4, <2>1, <2>2
<1>6. Fresh \in Nat /\ Fresh' \in Nat /\ staleness \in Nat
  BY <1>3, <1>4 DEF FreshFacts, RunInv, CountTypes
<1>7. dropped' = dropped
  <2>1. SyncInv' BY <1>1, <1>2, SyncStep DEF Synchronous
  <2> QED BY <1>1, <2>1 DEF SyncInv
<1>8. CASE UpdateEnds(tpc = "waitFinal") /\ UNCHANGED trainVars
  <2>1. sync = "counting" /\ staleness' = counted + Len(mq) BY <1>8 DEF UpdateEnds
  <2>2. Idle BY <1>1, <2>1 DEF Syncing, SyncInv, SyncingInv
  <2>3. at # "done" BY <1>1, <1>5, TotalAssumption DEF SyncInv, EndingInv, End
  <2>4. counted = 0 BY <1>1, <2>1, <2>3 DEF SyncInv, CountingInv
  <2>5. mq = <<>>
    <3>1. Range(mq) = {} BY <1>4, <2>2 DEF Idle, Rolled, RunInv, PlaceInv, EndInv
    <3> QED BY <3>1, RangeEmpty DEF RunInv, PlaceInv, PlaceTypes
  <2>6. staleness' = 0 BY <2>1, <2>4, <2>5
  <2> QED BY <1>6, <2>6
<1>9. CASE ~(UpdateEnds(tpc = "waitFinal") /\ UNCHANGED trainVars)
  <2>1. /\ sync \in Recounted /\ tpc # "waitLast" /\ tversion' = tversion
        /\ staleness' = staleness \/ (ProcessorTakesPending /\ staleness' = staleness + 1)
    <3> USE DEF procRest, procVars, queueVars, mainRest, monRest, syncRest, rollVars, queueOnly,
                trainVars, Recounted
    <3>1. CASE UNCHANGED vars BY <1>4, <3>1 DEF vars
    <3>2. CASE Trainer
      BY <1>4, <3>2 DEF Trainer, TrainerGets, TrainerTrains, NextPlace, TrainerWaitsLast,
         Transfer, TrainerGetsValidation, TrainerFinishes
    <3>3. CASE UNCHANGED trainVars /\ Processor
      BY <1>4, <3>3
         DEF Processor, ProcessorSeesPause, ProcessorTakesCancelled, ProcessorTakesPending,
             ProcessorWaitsForPending, ProcessorLocks, ProcessorGetsLock, ProcessorPauses,
             ProcessorLeavesLoop, ProcessorWaitsForTask, ProcessorSeesTaskDone,
             ProcessorFindsNoTask, ProcessorParks, ProcessorUnparks, ProcessorSubmits
    <3>4. CASE /\ UNCHANGED trainVars
               /\ \/ FeedSamples \/ ConsumerTakes \/ QueueReceives
                  \/ MainStreamEnds \/ MainPutsEnd \/ MainStops
                  \/ \E s \in Samples : TaskCancelled(s) \/ TaskCompletes(s)
                  \/ MonitorQueues \/ MonitorUnpauses \/ MonitorEnds
      BY <1>4, <3>4
         DEF FeedSamples, ConsumerTakes, QueueReceives, MainStreamEnds, MainPutsEnd, MainStops,
             TaskCancelled, TaskCompletes, MonitorQueues, MonitorUnpauses, MonitorEnds
    <3>5. CASE /\ UNCHANGED trainVars
               /\ \/ SyncQueues \/ PauseBegins \/ PauseCancels \/ PauseEnds
                  \/ UpdateBegins(weights) \/ ResumeBegins \/ ResumeEnds
      BY <1>4, <3>5 DEF SyncQueues, Queued, PauseBegins, PauseCancels, PauseEnds, UpdateBegins,
         ResumeBegins, ResumeEnds, SyncEnters, Enters
    <3> QED BY <1>9, <3>1, <3>2, <3>3, <3>4, <3>5 DEF Next, RolloutStep, Rollouter
  <2>2. staleness <= Fresh BY <1>1, <1>4, <1>5, <2>1 DEF OnceInv, Streaming
  <2>3. Fresh' >= Fresh /\ (ProcessorTakesPending => Fresh' = Fresh + 1)
    BY <1>4, <1>6, <1>7, <2>1, FreshGrows
  <2>4. CASE staleness' = staleness
    <3>1. Fresh' >= Fresh BY <2>3
    <3> QED BY <1>6, <2>2, <2>4, <3>1
  <2>5. CASE ProcessorTakesPending /\ staleness' = staleness + 1
    <3>1. Fresh' = Fresh + 1 BY <2>3, <2>5
    <3> QED BY <1>6, <2>2, <2>5, <3>1
  <2> QED BY <2>1, <2>4, <2>5
<1> QED BY <1>8, <1>9

PaceInv == StreamingInv /\ TimesInv /\ OnceInv

LEMMA PaceInit == Init => PaceInv
<1> SUFFICES ASSUME Init PROVE PaceInv OBVIOUS
<1>1. RunInv /\ CollectInv BY RunInit, CollectInit
<1>2. /\ main = "stream" /\ ~last /\ left = {} /\ tpc = "validate" /\ sync = "none"
      /\ staleness = 0
  BY DEF Init, RollInit
<1>3. StreamingInv BY <1>2 DEF StreamingInv
<1>4. Fresh \in Nat BY <1>1, <1>2, <1>3, FreshKnown DEF FreshFacts
<1>5. staleness <= Fresh /\ staleness <= 3 * Fresh BY <1>2, <1>4
<1> QED BY <1>2, <1>3, <1>5 DEF PaceInv, TimesInv, OnceInv, TimesCounted, Recounted

(* When Paced, a trainer that asks for a sample while none is under way     *)
(* finds a rollouter whose limits let it generate one                       *)
(* (fully_async_rollouter.py, _should_pause_generation), once               *)
(* update_param_version has counted for the trainer's version.              *)
NeverStarved ==
  Paced /\ main = "stream" /\ got < End /\ sync \in Recounted /\ tpc = "collect" /\ Outs = {}
    => ~ShouldPause

LEMMA PaceLeavesRoom ==
  RunInv /\ CollectInv /\ WholeInv /\ PaceInv => NeverStarved
<1> SUFFICES ASSUME RunInv, CollectInv, WholeInv, PaceInv, Paced, main = "stream", got < End,
                    sync \in Recounted, tpc = "collect", Outs = {}
             PROVE  ~ShouldPause
  BY DEF NeverStarved
<1>1. CollectFacts BY CollectKnown
<1>2. FreshFacts /\ Cardinality(Outs) = 0 BY FreshKnown, FS_EmptySet DEF PaceInv
<1>3. Fresh = Collected /\ Collected \in Nat BY <1>2 DEF FreshFacts
<1>4. Collected <= PerVersion - 1
  <2> DEFINE p == (local - 1) * conf.required
             l == Len(batch)
  <2>1. l < conf.required BY DEF CollectInv
  <2>2. Collected = p + l BY DEF Collected
  <2>3. /\ p \in Nat /\ l \in Nat /\ PerVersion \in Nat /\ conf.required \in Nat
        /\ p <= PerVersion - conf.required
    BY <1>1 DEF CollectFacts
  <2> HIDE DEF p, l
  <2> QED BY <2>1, <2>2, <2>3
<1>5. Len(mq) = 0
  <2>1. Len(mq) \in Nat /\ Len(mq) <= Cardinality(Outs) BY PartsOfOuts
  <2> QED BY <1>2, <2>1
<1>6. conf.max \in Nat \ {0} /\ PerVersion \in Nat \ {0} /\ staleness \in Nat
  BY <1>1 DEF CollectFacts, RunInv, CountTypes
<1>7. Streaming BY DEF Streaming
<1>8. staleness < conf.max
  <2>1. CASE Synchronous
    <3>1. staleness <= Fresh BY <1>7, <2>1 DEF PaceInv, OnceInv
    <3>2. conf.max = PerVersion BY <2>1 DEF Synchronous, PerVersion
    <3> QED BY <1>3, <1>4, <1>6, <3>1, <3>2
  <2>2. CASE ~Synchronous
    <3>1. ~conf.partial /\ conf.max > 3 * (PerVersion - 1) BY <2>2 DEF Paced, PerVersion
    <3>2. ~Enough BY <1>3, <1>4, <1>5, <1>6 DEF Enough
    <3>3. staleness <= 3 * Fresh BY <1>7, <3>1, <3>2 DEF PaceInv, TimesInv, TimesCounted
    <3> QED BY <1>3, <1>4, <1>6, <3>1, <3>3
  <2> QED BY <2>1, <2>2
<1> QED BY <1>5, <1>6, <1>8 DEF ShouldPause

(* Whatever the settings with which staleness_samples is said to leave room *)
(* for them, and however the calls overtake each other, the rollouter's     *)
(* limits never keep back the samples the trainer waits for                 *)
(* (fully_async_rollouter.py: update_param_version counts one sample up to  *)
(* three times, _should_pause_generation compares that with                 *)
(* max_required_samples).                                                   *)
THEOREM TrainerNeverStarved == Spec => []NeverStarved
<1>1. /\ RunInv /\ CollectInv /\ BornInv /\ WholeInv /\ (Synchronous => SyncInv) /\ PaceInv
      /\ [Next]_vars
      => PaceInv'
  BY StreamingStep, TimesStep, OnceStep DEF PaceInv
<1> QED BY RunInit, RunStep, CollectInit, CollectStep, BornInit, BornStep, WholeInit, WholeStep,
           SyncInit, SyncStep, PaceInit, PaceLeavesRoom, <1>1, PTL DEF Spec
=============================================================================
