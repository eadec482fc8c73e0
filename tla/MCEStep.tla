------------------------------ MODULE MCEStep ------------------------------
(* All forests of four concepts, each concept numbered after its parent. *)
EXTENDS EStep

MCNodes == 1..4
MCTrees == {t \in [MCNodes -> 0..3] : \A n \in MCNodes : t[n] < n}
============================================================================
