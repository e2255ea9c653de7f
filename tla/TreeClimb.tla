------------------------------ MODULE TreeClimb ------------------------------
(***************************************************************************)
(* The climb of set_status (mip_node.hpp:186-202) in its own steps, taken  *)
(* by several workers at once on one tree.  SearchTree makes the climb     *)
(* part of the step that closes the node (Closed); this module keeps that  *)
(* one-step tree beside the real one, in `whole', and compares them.       *)
(***************************************************************************)
EXTENDS SearchTree

CONSTANT
    Workers

VARIABLES
    whole,      \* the tree with every climb done at once
    climb       \* per worker: where its climb is, and what it does there

vars == <<tree, node, whole, climb>>

Whole == INSTANCE SearchTree WITH node <- whole

Parent(n) == n \div 2
Down == [at |-> NoNode, step |-> "none"]
At(w, n, step) == climb' = [climb EXCEPT ![w] = [at |-> n, step |-> step]]
Idle(w) == climb[w] = Down

Init ==
    /\ TreeInit
    /\ whole = node
    /\ climb = [w \in Workers |-> Down]

-----------------------------------------------------------------------------
(* A worker branches on the node it holds. *)
Branch(w, n) ==
    /\ Idle(w) /\ n \in Pending /\ tree[n].kind = "frac"
    /\ node' = Branched(n, tree[n].obj)
    /\ whole' = Whole!Branched(n, tree[n].obj)
    /\ UNCHANGED <<tree, climb>>

(* The store of an inactive status, after that of the lower bound. *)
Close(w, n) ==
    /\ Idle(w) /\ n \in Pending
    /\ node' = [node EXCEPT ![n].status = "closed", ![n].lb = tree[n].obj]
    /\ whole' = Whole!Closed(n, tree[n].obj)
    /\ At(w, n, "count")
    /\ UNCHANGED tree

(* num_children.fetch_sub(1) on the parent: the climb goes on only for the *)
(* worker that takes the last one.                                         *)
FetchSub(w) ==
    /\ climb[w].step = "count"
    /\ LET p == Parent(climb[w].at) IN
         IF p = NoNode
         THEN /\ climb' = [climb EXCEPT ![w] = Down]
              /\ UNCHANGED node
         ELSE /\ node' = [node EXCEPT ![p].kids = @ - 1]
              /\ IF node[p].kids = 1 THEN At(w, p, "bound") ELSE climb' = [climb EXCEPT ![w] = Down]
    /\ UNCHANGED <<tree, whole>>

(* The status, and the best bound of the children. *)
Fathom(w) ==
    /\ climb[w].step = "bound"
    /\ LET p == climb[w].at IN
         /\ node' = [node EXCEPT ![p].status = "closed",
                                 ![p].lb = Min({node[c].lb : c \in Children(p)})]
         /\ At(w, p, "free")
    /\ UNCHANGED <<tree, whole>>

(* The children are freed, and the climb goes on from the parent. *)
Free(w) ==
    /\ climb[w].step = "free"
    /\ LET p == climb[w].at IN
         /\ node' = [m \in Nodes |-> IF m \in Children(p)
                                     THEN [status |-> "freed", lb |-> 0, kids |-> 0] ELSE node[m]]
         /\ At(w, p, "count")
    /\ UNCHANGED <<tree, whole>>

Next == \E w \in Workers :
    \/ \E n \in Nodes : Branch(w, n) \/ Close(w, n)
    \/ FetchSub(w)
    \/ Fathom(w)
    \/ Free(w)

Spec == Init /\ [][Next]_vars

-----------------------------------------------------------------------------
(* When no climb is under way, the tree is what SearchTree says it is: no  *)
(* order of the climbs of two siblings or cousins changes it.              *)
ClimbsAddUp == (\A w \in Workers : Idle(w)) => node = whole

(* During a climb too, the open nodes and all that is above them are what  *)
(* SearchTree says, so that what the other workers read does not depend on *)
(* how far a climb is.                                                     *)
OpenPartAgrees ==
    /\ Pending = Whole!Pending
    /\ \A n \in Pending : node[n] = whole[n]
    /\ \A n \in Pending : \A a \in Ancestors(n) :
         node[a].status = "branched" /\ whole[a].status = "branched"

(* A climb touches only nodes that are still there, and no two climbs are  *)
(* at work on one node.                                                    *)
ClimbsAreApart ==
    /\ \A w \in Workers : climb[w].step \in {"bound", "free"} =>
         \A n \in {climb[w].at} \cup Children(climb[w].at) : node[n].status # "freed"
    /\ \A w \in Workers : climb[w].step = "count" /\ climb[w].at # 1 =>
         node[climb[w].at].status # "freed" /\ node[Parent(climb[w].at)].status # "freed"
    /\ \A w, v \in Workers : w # v /\ ~Idle(w) => climb[w].at # climb[v].at

(* Two trees with two closings meeting at different heights. *)
F(o) == [kind |-> "frac", obj |-> o]
I(o) == [kind |-> "int", obj |-> o]
Z == [kind |-> "none", obj |-> 8]
ClimbTrees == {<<F(0), F(1), F(2), F(2), I(4), I(3), I(5), I(3), I(6)>>,
               <<F(0), F(1), F(1), I(2), F(3), F(2), I(4), Z, Z, I(3), I(5), I(2), I(6)>>}
=============================================================================
