---------------------------- MODULE SampleStream ----------------------------
(***************************************************************************)
(* What asynchronous training promises the trainer, without coroutines,    *)
(* queues or locks: every sample moves forward through its stages, at most *)
(* once through each, and a training step uses exactly conf.required       *)
(* samples whose generation started at most Gap versions ago.              *)
(***************************************************************************)
EXTENDS Integers, FiniteSets

CONSTANTS Configs, Samples, None, Gap(_)

VARIABLES
  conf,   \* the settings of the run
  stage,  \* waiting, rolling, ready, picked, trained or gone
  birth,  \* the version of the weights a generation started with
  ver     \* the trainer's version

vars == <<conf, stage, birth, ver>>

Init ==
  /\ conf \in Configs
  /\ stage = [s \in Samples |-> "waiting"]
  /\ birth = [s \in Samples |-> None]
  /\ ver = 0

\* the rollout may still have the weights of the version before
Start(s) ==
  /\ stage[s] = "waiting"
  /\ stage' = [stage EXCEPT ![s] = "rolling"]
  /\ \E b \in {ver - 1, ver} \cap Nat : birth' = [birth EXCEPT ![s] = b]
  /\ UNCHANGED <<conf, ver>>

Finish(s) ==
  /\ stage[s] = "rolling"
  /\ stage' = [stage EXCEPT ![s] = "ready"]
  /\ UNCHANGED <<conf, birth, ver>>

Pick(s) ==
  /\ stage[s] = "ready"
  /\ stage' = [stage EXCEPT ![s] = "picked"]
  /\ UNCHANGED <<conf, birth, ver>>

\* a full queue drops a sample
Drop(s) ==
  /\ stage[s] = "ready"
  /\ stage' = [stage EXCEPT ![s] = "gone"]
  /\ UNCHANGED <<conf, birth, ver>>

Train ==
  LET batch == {s \in Samples : stage[s] = "picked"}
  IN  /\ Cardinality(batch) = conf.required
      /\ \A s \in batch : ver - birth[s] <= Gap(conf)
      /\ stage' = [s \in Samples |-> IF s \in batch THEN "trained" ELSE stage[s]]
      /\ ver' \in {ver, ver + 1}
      /\ UNCHANGED <<conf, birth>>

\* what was picked when the samples ended
Discard ==
  /\ \E s \in Samples : stage[s] = "picked"
  /\ stage' = [s \in Samples |-> IF stage[s] = "picked" THEN "gone" ELSE stage[s]]
  /\ UNCHANGED <<conf, birth, ver>>

FinalVersion == ver' = ver + 1 /\ UNCHANGED <<conf, stage, birth>>

Next ==
  \/ \E s \in Samples : Start(s) \/ Finish(s) \/ Pick(s) \/ Drop(s)
  \/ Train \/ Discard \/ FinalVersion

Spec == Init /\ [][Next]_vars
=============================================================================
