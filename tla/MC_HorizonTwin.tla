--------------------------- MODULE MC_HorizonTwin ---------------------------
(* HorizonTwin on small trees. *)
EXTENDS HorizonTwin

R(kind, obj, pre, lp) ==
    [kind |-> kind, obj |-> obj, pre |-> pre, lp |-> lp, up |-> FALSE, dive |-> 9]
F(o) == R("frac", o, 0, 1)
I(o) == R("int", o, 0, 1)
X == R("infeasible", 8, 0, 1)
Z == R("none", 8, 0, 1)

(* Solutions of the producer arrive while the workers find their own. *)
Fed == <<F(0), R("frac", 1, 0, 3), F(0), I(3), I(2), I(1), X>>
(* Two workers find equally good solutions; dives and balancing. *)
Tied == <<F(0), F(0), R("conflict", 8, 1, 1), F(1), [F(1) EXCEPT !.dive = 3], Z, Z, F(1),
          I(3), I(3), X, Z, Z, Z, Z, X, I(3)>>

(* Worker 1 solves nodes 6 and 7 and has nothing left; the memory of 7 may *)
(* be given to node 4, whose child 9 the worker is given later.            *)
Again == <<F(0), R("frac", 0, 2, 1), F(0), F(1), X, X, X, F(1), I(2), Z, Z, Z, Z, Z, Z, X, X>>

TwinTrees == {Fed, Tied, Again}
TwinHeuristics == [t \in TwinTrees |-> IF t = Fed THEN << <<1, 4>>, <<2, 3>> >> ELSE <<>>]
TwinWorkLimit == [t \in TwinTrees |-> 99]
TwinTimeLimit == [t \in TwinTrees |-> FALSE]
TwinUpper == [t \in TwinTrees |-> IF t = Fed THEN 4 ELSE Infinity]

(* Only that tree. *)
AgainTrees == {Again}
AgainNone == [t \in AgainTrees |-> <<>>]
AgainNoLimit == [t \in AgainTrees |-> 99]
AgainNever == [t \in AgainTrees |-> FALSE]
AgainUpper == [t \in AgainTrees |-> Infinity]
=============================================================================
