--------------------------- MODULE MC_TreeSearch ---------------------------
(* TreeSearch on small trees. *)
EXTENDS TreeSearch

F(o) == [kind |-> "frac", obj |-> o]
I(o) == [kind |-> "int", obj |-> o]
X == [kind |-> "infeasible", obj |-> 4]
N(o) == [kind |-> "numerical", obj |-> o]
Z == [kind |-> "none", obj |-> 4]

(* Three levels, the optimum at the bottom, with a long and a short queue. *)
Deep == <<F(0), F(0), I(3), F(1), I(2), Z, Z, X, I(1)>>
Thin == <<F(0), F(0), X, F(1), I(2), Z, Z, X, I(1)>>
(* The solution of one worker cuts off the nodes of the other. *)
Pruned == <<F(0), F(2), F(0), X, I(3), I(1), X>>
(* No integer point. *)
Empty == <<F(0), F(1), X, X, X>>
(* The LP solver fails on the node that holds the optimum. *)
Failing == <<F(0), F(1), I(3), N(2), X>>
(* One level, for the solutions that come from elsewhere. *)
Flat == <<F(0), I(2), I(1)>>

SmallTrees == {Deep, Thin, Pruned, Empty, Failing, Flat}
SmallQueue == [t \in SmallTrees |-> IF t \in {Deep, Pruned} THEN 2 ELSE 0]
SmallSolutions == [t \in SmallTrees |-> IF t = Flat THEN 1 ELSE 0]
SmallLimits ==
    [t \in SmallTrees |-> CASE t \in {Empty, Thin} -> {"TIME_LIMIT"}
                            [] t = Failing -> {"HALT", "NODE_LIMIT"}
                            [] OTHER -> {}]

(* What the early heuristics found. *)
SmallUpper == [t \in SmallTrees |-> CASE t = Flat -> 2 [] t = Pruned -> 3 [] OTHER -> Infinity]

(* A node with a good bound is taken from the queue while another, with a  *)
(* bound as bad as the incumbent, stays there.                             *)
RacingTrees == {<<F(0), F(1), F(3), I(4), I(2), I(3), I(4)>>}
(* The LP solver fails on the only node with a solution. *)
FailingTrees == {<<F(0), N(2), X>>}
RacingOne == [t \in RacingTrees |-> 1]
FailingOne == [t \in FailingTrees |-> 1]
RacingUpper == [t \in RacingTrees |-> Infinity]
FailingUpper == [t \in FailingTrees |-> Infinity]
RacingNone == [t \in RacingTrees |-> {}]
FailingNone == [t \in FailingTrees |-> {}]
=============================================================================
