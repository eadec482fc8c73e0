---------------------------- MODULE MCPPOTrainer ----------------------------
EXTENDS PPOTrainer

Config(critic, keep, freq, warmup, total, size, epochs, modes, esi) ==
  [critic |-> critic, keep |-> keep, freq |-> freq,
   warmup |-> warmup, total |-> total, size |-> size, epochs |-> epochs,
   modes |-> modes, esi |-> esi]
Keep(actor, critic) ==
  [o \in Roles |-> IF o = "actor" THEN actor ELSE critic]
Auto == {"auto"}

\* the launcher's settings on four steps; a critic with warm-up; one kept
\* checkpoint; no resuming; both; an instance that expires; a total beyond
\* the epochs
MCConfigs == {
  Config(FALSE, Keep(3, 0), 1, 0, 4, 2, 2, Auto, FALSE),
  Config(TRUE, Keep(3, 2), 1, 2, 4, 2, 2, Auto, FALSE),
  Config(FALSE, Keep(1, 0), 1, 0, 3, 3, 1, Auto, FALSE),
  Config(FALSE, Keep(2, 0), 1, 0, 3, 2, 2, {"disable"}, FALSE),
  Config(FALSE, Keep(2, 0), 1, 0, 3, 2, 2, {"auto", "disable"}, FALSE),
  Config(FALSE, Keep(2, 0), 3, 0, 4, 4, 1, Auto, TRUE),
  Config(FALSE, Keep(2, 0), 1, 0, 4, 2, 1, Auto, FALSE)}
=============================================================================
