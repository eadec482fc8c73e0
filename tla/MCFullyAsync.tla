---------------------------- MODULE MCFullyAsync ----------------------------
EXTENDS FullyAsync

Config(r, t, m, c, room, partial, freq) ==
  [required |-> r, trigger |-> t, max |-> m, conc |-> c, room |-> room,
   partial |-> partial, testFreq |-> freq, valFirst |-> FALSE]
MCConfigs == {
  Config(1, 1, 1, 1, 2, FALSE, 1), Config(1, 1, 1, 1, 128, TRUE, 0),
  Config(2, 1, 2, 2, 128, FALSE, 0), Config(2, 1, 3, 2, 128, FALSE, 0),
  Config(1, 2, 3, 2, 128, FALSE, 0), Config(2, 1, 4, 2, 128, FALSE, 0),
  Config(1, 1, 2, 2, 128, FALSE, 2),
  Config(1, 1, 2, 2, 128, TRUE, 0)}
=============================================================================
