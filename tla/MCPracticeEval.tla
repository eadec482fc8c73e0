--------------------------- MODULE MCPracticeEval ---------------------------
(* Three students in the dataset, of whom two are served; s1 has dataset     *)
(* files of a second size, which its first answer reaches again.  A root     *)
(* with two leaf concepts, and more dataset records than the burn-in size.   *)
EXTENDS PracticeEval, TLC

CONSTANTS s1, s2, s3, root, a, b

MCOrder == <<s1, s2>>
MCBase == (s1 :> <<a, root, b>>) @@ (s2 :> <<b, a, a>>) @@ (s3 :> <<a, b>>)
MCDatasetSizes == (s1 :> {1, 2}) @@ (s2 :> {1}) @@ (s3 :> {1, 3})
MCDatasetParams == {<<NoStudent, 1>>, <<s1, 2>>}
MCMapping == (a :> a) @@ (b :> b)
MCPath == (root :> {root}) @@ (a :> {a, root}) @@ (b :> {b, root})
===========================================================================
