--------------------------- MODULE MCSharedExams ---------------------------
(* Two sets of the size asked for, one of another size and a placeholder. *)
EXTENDS SharedExams

MCExams == {[id |-> 1, size |-> 2, real |-> TRUE], [id |-> 2, size |-> 2, real |-> TRUE],
            [id |-> 3, size |-> 3, real |-> TRUE], [id |-> 4, size |-> 2, real |-> FALSE]}
============================================================================
