----------------------------- MODULE MCKTCaller -----------------------------
(* Two students; s1 has a second, larger dataset graph, so that its practice *)
(* size does not start at the burn-in size.  A root with one leaf, and a raw *)
(* name that maps to nothing in the graph.                                   *)
EXTENDS KTCaller, TLC

CONSTANTS s1, s2, root, a, x

MCBase == (s1 :> <<a, root, a>>) @@ (s2 :> <<a, a>>)
MCDatasetSizes == (s1 :> {1, 3}) @@ (s2 :> {1})
MCDatasetParams == {<<NoStudent, 1>>, <<s1, 3>>}
MCMapping == (a :> a) @@ (x :> x)
MCPath == (root :> {root}) @@ (a :> {a, root})
===========================================================================
