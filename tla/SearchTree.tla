----------------------------- MODULE SearchTree -----------------------------
(***************************************************************************)
(* The tree of branch and bound (mip_node.hpp), shared by the workers of   *)
(* both modes of the search.  A node is a number of the binary heap: the   *)
(* children of n are 2n and 2n+1.  What the LP solver will find at each    *)
(* node is a constant of the behaviour (`tree').  A step that closes a     *)
(* node includes the climb of set_status, whose atomic counters give every *)
(* ancestor to one climb only; TreeClimb takes the climb apart and shows   *)
(* that it comes to the same.                                              *)
(***************************************************************************)
EXTENDS Integers, FiniteSets, FiniteSetsExt

CONSTANTS
    Trees,      \* the search trees: node -> what its LP relaxation is
    Infinity    \* above every objective

ASSUME SearchTreeAssumption ==
    /\ Infinity \in Nat
    /\ \A t \in Trees :
         /\ 1 \in DOMAIN t /\ t[1].kind = "frac"
         /\ \E last \in DOMAIN t : DOMAIN t \subseteq 1..last
         /\ \A n \in DOMAIN t : t[n].obj \in 0..(Infinity - 1)
         /\ \A n \in DOMAIN t : t[n].kind = "frac" =>
              \A c \in {2 * n, 2 * n + 1} : c \in DOMAIN t /\ t[c].obj >= t[n].obj
         \* only fractional nodes have anything below them
         /\ \A n \in DOMAIN t \ {1} : t[n].kind \in {"frac", "int", "numerical"} =>
              n \div 2 \in DOMAIN t /\ t[n \div 2].kind = "frac"

VARIABLES
    tree,       \* the tree of this behaviour
    node        \* search_tree_: status, lower_bound and num_children of each node

Nodes == UNION {DOMAIN t : t \in Trees}
NoNode == 0
Bounds == 0..Infinity
Pending == {n \in Nodes : node[n].status = "pending"}

(* The value of the problem: the best integer point of the tree.  The     *)
(* value of a node the LP solver fails on is that of the best point below. *)
Opt == Min({tree[n].obj : n \in {m \in DOMAIN tree : tree[m].kind \in {"int", "numerical"}}}
           \cup {Infinity})

-----------------------------------------------------------------------------
(* The way up from n: n, its parent and so on, and 0 above the root. *)
WayUp(n) == LET up[k \in 0..n] == IF k = 0 THEN n ELSE up[k - 1] \div 2 IN up
Ancestors(n) == LET up == WayUp(n) IN {up[k] : k \in 1..n} \ {0}
Sibling(n) == IF n % 2 = 0 THEN n + 1 ELSE n - 1
Children(n) == {2 * n, 2 * n + 1}

(* A climb that does not look at num_children. *)
FinishedAlways(n) == Ancestors(n)

(* The ancestors whose last open child is being closed with n. *)
Finished(n) ==
    LET up == Ancestors(n) IN {a \in up : \A b \in up : b >= a => node[b].kids = 1}

(* The ancestor at which the climb ends, if any: its other child is open. *)
LosesChild(n) ==
    LET rest == Ancestors(n) \ Finished(n) IN {a \in rest : \A b \in rest : b <= a}

(* set_status with an inactive status: n leaves the tree with lower bound  *)
(* b, an ancestor without open children is fathomed with the bound of its  *)
(* best child and its children are freed, the next one loses a child.      *)
Closed(n, b) ==
    LET up    == Finished(n)
        chain == {n} \cup up
        loses == LosesChild(n)
    IN  [m \in Nodes |->
            CASE m = n /\ n \notin UNION {Children(a) : a \in up} ->
                   [status |-> "closed", lb |-> b, kids |-> 0]
              [] m \in UNION {Children(a) : a \in up} ->
                   [status |-> "freed", lb |-> 0, kids |-> 0]
              [] m \in up /\ \A a \in up : m <= a ->
                   [status |-> "closed",
                    lb |-> Min({b} \cup {node[Sibling(x)].lb : x \in {y \in chain : y > m}}),
                    kids |-> 0]
              [] m \in loses -> [node[m] EXCEPT !.kids = @ - 1]
              [] OTHER -> node[m]]

(* search_tree_t::branch: two children with the bound of their parent. *)
Branched(n, b) ==
    [m \in Nodes |->
        CASE m = n -> [status |-> "branched", lb |-> b, kids |-> 2]
          [] m \in Children(n) -> [status |-> "pending", lb |-> b, kids |-> 0]
          [] OTHER -> node[m]]

(* The tree when the root has been branched on and the search starts. *)
TreeInit ==
    /\ tree \in Trees
    /\ node = [n \in Nodes |->
                 CASE n = 1 -> [status |-> "branched", lb |-> tree[1].obj, kids |-> 2]
                   [] n \in {2, 3} -> [status |-> "pending", lb |-> tree[1].obj, kids |-> 0]
                   [] OTHER -> [status |-> "none", lb |-> 0, kids |-> 0]]
=============================================================================
