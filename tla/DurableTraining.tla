--------------------------- MODULE DurableTraining ---------------------------
(***************************************************************************)
(* What training with checkpoints promises: the model is trained on one    *)
(* batch after the other; a checkpoint makes all of it durable at once;    *)
(* a crash takes it back to what is durable, or to nothing when the run    *)
(* does not resume.                                                        *)
(***************************************************************************)
EXTENDS Integers, Sequences

CONSTANT Batches

VARIABLES
  model,   \* the batches the model was trained on, in this order
  durable  \* those in the last whole checkpoint

vars == <<model, durable>>

Init == model = <<>> /\ durable = <<>>

Train ==
  /\ \E b \in Batches : model' = Append(model, b)
  /\ UNCHANGED durable

Checkpoint == durable' = model /\ UNCHANGED model

Crash == model' = durable /\ UNCHANGED durable

FromScratch == model' = <<>> /\ UNCHANGED durable

Next == Train \/ Checkpoint \/ Crash \/ FromScratch

Spec == Init /\ [][Next]_vars
=============================================================================
