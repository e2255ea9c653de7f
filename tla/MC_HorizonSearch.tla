-------------------------- MODULE MC_HorizonSearch --------------------------
(* HorizonSearch on small trees. *)
EXTENDS HorizonSearch

At0(kind, obj) == [kind |-> kind, obj |-> obj, pre |-> 0, lp |-> 1, up |-> FALSE, dive |-> 9]
F(o) == At0("frac", o)
I(o) == At0("int", o)
X == At0("infeasible", 8)
C == At0("conflict", 8)
N(o) == At0("numerical", o)
Z == At0("none", 8)
Pre(r, k) == [r EXCEPT !.pre = k]
Long(r, k) == [r EXCEPT !.lp = k]
Up(r) == [r EXCEPT !.up = TRUE]
Finds0(r, o) == [r EXCEPT !.dive = o]

(* Worker 1 runs out of nodes and is given some of worker 0's. *)
Uneven == <<F(0), F(0), Pre(C, 1), F(1), Finds0(F(1), 5), Z, Z, F(1), Finds0(I(3), 3), I(4), X,
            Z, Z, Z, Z, X, I(2)>>
(* An LP that spans several horizons, and solutions found meanwhile. *)
Slow == <<F(0), Long(Up(F(1)), 3), F(0), I(3), I(2), I(1), X>>
(* The solution of one worker, known after the barrier, cuts off the rest. *)
Pruned == <<F(0), F(5), F(0), Long(F(6), 3), I(7), I(3), I(4), X, I(8)>>
(* No integer point. *)
Empty == <<F(0), F(1), X, Pre(C, 2), X>>
(* The LP solver fails on a node. *)
Failing == <<F(0), F(1), I(3), N(2), X>>
(* A dive whose entry is no longer worth it when its turn comes. *)
Dives == <<F(0), F(0), Long(X, 2), F(4), Finds0(Long(F(2), 3), 3), Z, Z, F(4), Finds0(F(4), 7), X,
           I(3), Z, Z, Z, Z, Long(I(5), 2), X, I(6), X>>

(* The work limit is reached while the LP of node 2 is still to be solved. *)
Limited == <<F(0), Pre(Long(F(1), 2), 2), I(3), X, I(2)>>

(* Worker 1 solves nodes 6 and 7 and has nothing left; the memory of 7 may *)
(* be given to node 4, whose child 9 the worker is given later.            *)
Again == <<F(0), Pre(F(0), 2), F(0), F(1), X, X, X, F(1), I(2), Z, Z, Z, Z, Z, Z, X, X>>

SmallTrees == {Uneven, Slow, Pruned, Empty, Failing, Dives, Limited, Again}
SmallHeuristics == [t \in SmallTrees |-> CASE t = Slow -> << <<1, 4>>, <<2, 3>> >>
                                           [] t = Pruned -> << <<4, 4>> >>
                                           [] t = Failing -> << <<3, 4>> >>
                                           [] OTHER -> <<>>]
SmallWorkLimit == [t \in SmallTrees |-> IF t \in {Empty, Limited} THEN 3 ELSE 99]
SmallTimeLimit == [t \in SmallTrees |-> t \in {Empty, Failing, Dives}]
(* What the early heuristics found. *)
SmallUpper == [t \in SmallTrees |-> CASE t = Dives -> 8 [] t = Pruned -> 4 [] OTHER -> Infinity]

(* The first horizon ends after bounds strengthening at node 2; the second *)
(* would exceed the work limit.                                            *)
LimitTrees == {<<F(0), Pre(I(2), 3), I(3)>>}
LimitNone == [t \in LimitTrees |-> <<>>]
LimitWork == [t \in LimitTrees |-> 5]
LimitNever == [t \in LimitTrees |-> FALSE]
LimitUpper == [t \in LimitTrees |-> Infinity]

(* Only that tree. *)
AgainTrees == {Again}
AgainNone == [t \in AgainTrees |-> <<>>]
AgainNoLimit == [t \in AgainTrees |-> 99]
AgainNever == [t \in AgainTrees |-> FALSE]
AgainUpper == [t \in AgainTrees |-> Infinity]
=============================================================================
