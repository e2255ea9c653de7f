------------------------- MODULE TreeSearch_proofs -------------------------
(* Theorems about the opportunistic search, for any trees, number of       *)
(* workers, queue lengths, limits and solutions.                           *)
EXTENDS TreeSearch, SearchTree_proofs

-----------------------------------------------------------------------------
(* The invariant.  First what keeps the tree and the queues together.      *)

(* A worker with a node in hand, and a worker in plunge_with. *)
Leafing(w) == pc[w] \in {"accept", "close"} \/ (pc[w] = "scan" /\ scan[w].ret = "accepted")
Busy(w) == pc[w] \in {"lp", "solve"} \/ Leafing(w)
Plunging(w) ==
    \/ Busy(w)
    \/ pc[w] \in {"launch", "handover", "take", "flush"}
    \/ pc[w] = "scan" /\ scan[w].ret = "plunge"

ThreadInv ==
    /\ pc[0] \in {"search", "accept", "close", "scan"}
    /\ pc[0] = "scan" => scan[0].ret = "accepted"

WorkerInv(w) ==
    /\ hand[w] # NoNode <=> Busy(w)
    /\ Busy(w) => Len(stack[w]) <= 1
    /\ ~Plunging(w) => stack[w] = << >>
    /\ pc[w] \in {"launch", "handover", "take"} => stack[w] # << >>
    /\ pc[w] = "return" => queue[w] = {}
    /\ pc[w] = "stealing" => other[w] \in Workers \ {w}

(* A worker of the pool, or on its way out of it, is off and has no nodes. *)
PoolInv ==
    /\ \A k \in 1..Len(idle) : pc[idle[k]] = "off" /\ queue[idle[k]] = {}
    /\ \A j, k \in 1..Len(idle) : idle[j] = idle[k] => j = k
    /\ \A w \in Workers : pc[w] = "handover" =>
         /\ other[w] \in Workers /\ pc[other[w]] = "off" /\ queue[other[w]] = {}
         /\ \A k \in 1..Len(idle) : idle[k] # other[w]
    /\ \A v, w \in Workers :
         pc[v] = "handover" /\ pc[w] = "handover" /\ other[v] = other[w] => v = w

Mine(w) == queue[w] \cup ToSet(stack[w]) \cup ({hand[w]} \ {NoNode})

(* No node is twice with one worker. *)
Sorted(w) ==
    /\ queue[w] \cap ToSet(stack[w]) = {}
    /\ hand[w] \notin queue[w] /\ hand[w] \notin ToSet(stack[w])
    /\ \A i, j \in 1..Len(stack[w]) : stack[w][i] = stack[w][j] => i = j

HeldInv ==
    /\ Pending = UNION {Mine(w) : w \in Workers}
    /\ \A v, w \in Workers : v # w => Mine(v) \cap Mine(w) = {}
    /\ \A w \in Workers : Sorted(w)

HoldInv ==
    /\ TypeOK /\ TreeShape /\ ThreadInv /\ (\A w \in Workers : WorkerInv(w)) /\ PoolInv
    /\ HeldInv

(* A closed node is no better than the incumbent or a node that failed. *)
ClosedInv ==
    \A p \in Nodes : node[p].status = "closed" =>
      upper <= node[p].lb \/ lb_numerical <= node[p].lb

(* A point of the tree is no worse than v. *)
IsPoint(v) == \E n \in DOMAIN tree : tree[n].kind \in {"int", "numerical"} /\ tree[n].obj <= v

UpperInv ==
    /\ upper = Infinity \/ IsPoint(upper)
    /\ pc[0] = "accept" => IsPoint(sol[0])

SolveInv(w) ==
    /\ pc[w] = "solve" => upper <= cutoff[w] + (IF Integral THEN 1 ELSE 0)
    /\ Leafing(w) => tree[hand[w]].kind = "int" /\ node[hand[w]].lb = tree[hand[w]].obj
    /\ Leafing(w) /\ pc[w] # "close" => sol[w] = tree[hand[w]].obj
    /\ Leafing(w) /\ pc[w] # "accept" => upper <= tree[hand[w]].obj

BoundInv == Settled /\ ClosedInv /\ UpperInv /\ \A w \in Workers : SolveInv(w)

(* Last, why the search stops. *)
NoBetterQueued(w) == \A n \in queue[w] : upper <= node[n].lb

GapInv(w) ==
    /\ pc[w] \in {"pop", "steal", "stealing"} => ~closed[w]
    /\ pc[w] = "scan" /\ scan[w].ret = "bfs" /\ scan[w].i > w =>
         \A n \in queue[w] : scan[w].lb <= node[n].lb
    /\ pc[w] = "bfs" /\ closed[w] => NoBetterQueued(w)
    /\ pc[w] \in {"exit", "return", "off"} /\ status = "UNSET" => NoBetterQueued(w)

Finding == {hand[w] : w \in {v \in Workers : Leafing(v)}}
Unsolved == Pending \ Finding

StopInv ==
    /\ halt /\ status = "UNSET" => ~running
    /\ ~running /\ final = -1 => Pending = {}
    /\ final = -1 => verdict = "none"
    /\ final # -1 => TasksDone
    /\ verdict = "none" => status # "INFEASIBLE"
    /\ status = "UNSET" => unexplored = Cardinality(Unsolved)
    /\ ~explored => upper < Infinity \/ Pending # {}
    /\ Known(1)

(* What holds while the search runs, and what holds of its answer. *)
EarlyInv == (\A w \in Workers : GapInv(w)) /\ StopInv

FinalInv ==
    final # -1 /\ lb_numerical = Infinity =>
      /\ status = "UNSET" /\ verdict = "none" => final = Opt /\ upper = Opt
                                                /\ (upper = Infinity => Pending = {})
      /\ Pending = {} => upper = Opt /\ final = Opt

EndInv == EarlyInv /\ FinalInv /\ FinalBoundIsValid /\ VerdictIsSound

-----------------------------------------------------------------------------
(* Lemmas about the parts of the invariant.                                *)

(* Closed nodes stay no better than the incumbent or a node that failed. *)
LEMMA ClosedKeepsBounds ==
  ASSUME tree \in Trees, tree' = tree, NodeType, TreeShape, ClosedInv,
         NEW n \in Nodes, node[n].status = "pending", NEW b \in Bounds, node' = Closed(n, b),
         {upper, upper', lb_numerical, lb_numerical'} \subseteq Nat,
         upper' <= upper, lb_numerical' <= lb_numerical,
         upper' <= b \/ lb_numerical' <= b
  PROVE  ClosedInv'
<1>1. \A q \in Nodes : node[q].lb \in Nat
  BY TreeFacts DEF NodeType, Bounds
<1>2. ASSUME NEW q \in Nodes, node[q].status = "closed"
      PROVE  upper' <= node[q].lb \/ lb_numerical' <= node[q].lb
  BY <1>1, <1>2 DEF ClosedInv
<1>3. ASSUME NEW p \in Nodes, node'[p].status = "closed"
      PROVE  upper' <= node'[p].lb \/ lb_numerical' <= node'[p].lb
  <2>1. \/ node'[p].lb = b
        \/ \E q \in Nodes : node[q].status = "closed" /\ node'[p].lb = node[q].lb
    BY <1>3, ClosedNodesBounds
  <2> QED BY <2>1, <1>2
<1>4. Nodes' = Nodes
  BY DEF Nodes
<1> QED BY <1>3, <1>4 DEF ClosedInv

-----------------------------------------------------------------------------
(* Bounds, stacks and the nodes a worker holds.                            *)

Scans ==
    [Threads -> [i : 1..(NumWorkers + 1), part : {1, 2}, lb : Bounds,
                 ret : {"enter", "bfs", "plunge", "bfs_gap", "accepted"}]]

(* Constants and the types of what is not in the tree. *)
CoreType ==
    /\ tree \in Trees
    /\ queue \in [Workers -> SUBSET Nodes] /\ wlb \in [Workers -> Bounds]
    /\ active \in [Workers -> BOOLEAN] /\ idle \in Seq(Workers)
    /\ upper \in Bounds /\ incumbent \in upper..Infinity
    /\ status \in Statuses /\ {running, halt} \subseteq BOOLEAN
    /\ lb_numerical \in Bounds /\ explored \in BOOLEAN /\ leaving \in Nat
    /\ unexplored \in Int
    /\ pc \in [Threads -> Points]
    /\ stack \in [Workers -> Seq(Nodes)] /\ \A w \in Workers : Len(stack[w]) <= 2
    /\ hand \in [Workers -> Nodes \cup {NoNode}]
    /\ cutoff \in [Workers -> -1..Infinity] /\ closed \in [Workers -> BOOLEAN]
    /\ other \in [Workers -> Threads]
    /\ scan \in Scans
    /\ sol \in [Threads -> Bounds] /\ solutions \in 0..MaxSolutions[tree]
    /\ limit \in Limits[tree] \cup {"none"} /\ final \in {-1} \cup Bounds
    /\ verdict \in Statuses \cup {"none"}

(* The type of the tree and the types of the rest. *)
LEMMA TypeSplit == TypeOK <=> NodeType /\ CoreType
  BY DEF TypeOK, NodeType, CoreType, Scans

(* The sets of the types are constant. *)
LEMMA SetsStay ==
  /\ Workers' = Workers /\ Threads' = Threads /\ Bounds' = Bounds /\ Nodes' = Nodes
  /\ NoNode' = NoNode /\ Statuses' = Statuses /\ Points' = Points /\ Scans' = Scans
  BY DEF Workers, Threads, Bounds, Nodes, NoNode, Statuses, Points, Scans

(* Facts about the constants. *)
LEMMA ConstantFacts ==
  /\ NumWorkers \in Nat \ {0} /\ Infinity \in Nat /\ Bounds \subseteq Nat
  /\ 0 \in Bounds /\ Infinity \in Bounds
  /\ Workers \subseteq Threads /\ 0 \in Threads /\ 0 \notin Workers /\ 1 \in Workers
  /\ \A t \in Threads : t = 0 \/ t \in Workers
  /\ Workers \subseteq Nat
  BY TreeAssumption, SearchTreeAssumption DEF Bounds, Workers, Threads

(* The bound of a queue is a bound of each of its nodes. *)
LEMMA QueueBoundFacts ==
  ASSUME tree \in Trees, NodeType, NEW q \in SUBSET Nodes
  PROVE  /\ QueueBound(q) \in Bounds
         /\ \A n \in q : QueueBound(q) <= node[n].lb /\ node[n].lb \in Bounds
         /\ QueueBound(q) = Infinity \/ \E n \in q : QueueBound(q) = node[n].lb
<1> DEFINE S == {node[n].lb : n \in q} \cup {Infinity}
<1>1. \A n \in q : node[n].lb \in Bounds
  BY DEF NodeType
<1>2. S \in SUBSET Bounds /\ S # {}
  BY <1>1, ConstantFacts
<1>3. QueueBound(q) = Min(S)
  BY DEF QueueBound
<1> HIDE DEF S
<1>4. Min(S) \in Bounds /\ Min(S) \in S /\ \A y \in S : Min(S) <= y
  BY <1>2, MinBounds
<1> QED BY <1>1, <1>3, <1>4 DEF S

(* The nodes on a stack. *)
LEMMA StackFacts ==
  /\ ToSet(<< >>) = {}
  /\ \A x : ToSet(<<x>>) = {x}
  /\ \A x, y : ToSet(<<x, y>>) = {x, y}
<1>1. ASSUME NEW x PROVE ToSet(<<x>>) = {x}
  <2>1. DOMAIN <<x>> = {1}
    OBVIOUS
  <2> QED BY <2>1 DEF ToSet
<1>2. ASSUME NEW x, NEW y PROVE ToSet(<<x, y>>) = {x, y}
  <2>1. DOMAIN <<x, y>> = {1, 2}
    OBVIOUS
  <2> QED BY <2>1 DEF ToSet
<1> QED BY <1>1, <1>2 DEF ToSet

(* The first node of a stack without repetitions leaves it, or comes on it. *)
LEMMA StackPop ==
  ASSUME NEW X, NEW s \in Seq(X), s # << >>,
         \A i, j \in 1..Len(s) : s[i] = s[j] => i = j
  PROVE  /\ Head(s) \in X /\ Head(s) \in ToSet(s)
         /\ ToSet(Tail(s)) = ToSet(s) \ {Head(s)}
         /\ Tail(s) \in Seq(X) /\ Len(Tail(s)) = Len(s) - 1
         /\ \A i, j \in 1..Len(Tail(s)) : Tail(s)[i] = Tail(s)[j] => i = j
<1> DEFINE t == Tail(s)
<1>1. Len(s) \in Nat /\ Len(s) >= 1 /\ t \in Seq(X) /\ Len(t) = Len(s) - 1
  OBVIOUS
<1>2. \A i \in 1..Len(t) : t[i] = s[i + 1] /\ i + 1 \in 1..Len(s)
  BY <1>1
<1>3. Head(s) = s[1] /\ 1 \in 1..Len(s)
  BY <1>1
<1>4. ToSet(s) = {s[i] : i \in 1..Len(s)} /\ ToSet(t) = {t[i] : i \in 1..Len(t)}
  <2>1. DOMAIN s = 1..Len(s) /\ DOMAIN t = 1..Len(t)
    BY <1>1
  <2> HIDE DEF t
  <2> QED BY <2>1 DEF ToSet
<1> HIDE DEF t
<1>5. ASSUME NEW x PROVE x \in ToSet(t) <=> x \in ToSet(s) /\ x # Head(s)
  <2>1. ASSUME x \in ToSet(t) PROVE x \in ToSet(s) /\ x # Head(s)
    <3>1. PICK i \in 1..Len(t) : x = t[i]
      BY <1>4, <2>1
    <3>2. x = s[i + 1] /\ i + 1 \in 1..Len(s) /\ i + 1 # 1
      BY <1>2, <3>1
    <3> QED BY <3>2, <1>3, <1>4
  <2>2. ASSUME x \in ToSet(s), x # Head(s) PROVE x \in ToSet(t)
    <3>1. PICK i \in 1..Len(s) : x = s[i]
      BY <1>4, <2>2
    <3>2. i - 1 \in 1..Len(t) /\ (i - 1) + 1 = i
      BY <1>1, <1>3, <2>2, <3>1
    <3>3. t[i - 1] = s[i]
      BY <1>2, <3>2
    <3> QED BY <1>4, <3>1, <3>2, <3>3
  <2> QED BY <2>1, <2>2
<1>6. ASSUME NEW i \in 1..Len(t), NEW j \in 1..Len(t), t[i] = t[j] PROVE i = j
  <2>1. s[i + 1] = s[j + 1] /\ i + 1 \in 1..Len(s) /\ j + 1 \in 1..Len(s)
    BY <1>2, <1>6
  <2>2. i + 1 = j + 1
    BY <2>1
  <2> QED BY <2>2, <1>1
<1>7. Head(s) \in X /\ Head(s) \in ToSet(s)
  BY <1>3, <1>4
<1> QED BY <1>1, <1>5, <1>6, <1>7 DEF t

(* A node put back on a stack it is not on. *)
LEMMA StackPush ==
  ASSUME NEW X, NEW s \in Seq(X), NEW x \in X, x \notin ToSet(s), Len(s) <= 1,
         \A i, j \in 1..Len(s) : s[i] = s[j] => i = j
  PROVE  LET u == <<x>> \o s
         IN  /\ u \in Seq(X) /\ ToSet(u) = {x} \cup ToSet(s) /\ Len(u) <= 2
             /\ \A i, j \in 1..Len(u) : u[i] = u[j] => i = j
<1> DEFINE u == <<x>> \o s
<1>1. u \in Seq(X) /\ Len(u) = Len(s) + 1 /\ Len(s) \in Nat
  OBVIOUS
<1>2. CASE Len(s) = 0
  <2>1. s = << >>
    BY <1>2
  <2>2. u = <<x>>
    BY <2>1
  <2>3. Len(u) = 1
    BY <2>2
  <2> QED BY <1>1, <2>1, <2>2, <2>3, StackFacts
<1>3. CASE Len(s) = 1
  <2>1. s = <<s[1]>>
    BY <1>3
  <2>2. u[1] = x /\ u[2] = s[1] /\ Len(u) = 2
    BY <1>1, <1>3
  <2>3. ToSet(s) = {s[1]}
    BY <2>1, StackFacts
  <2>4. ToSet(u) = {u[1], u[2]}
    <3>1. DOMAIN u = {1, 2}
      BY <1>1, <2>2
    <3> QED BY <3>1 DEF ToSet
  <2>5. \A i \in 1..Len(u) : i = 1 \/ i = 2
    BY <2>2
  <2> QED BY <1>1, <2>2, <2>3, <2>4, <2>5
<1> QED BY <1>1, <1>2, <1>3

(* One worker's nodes change: some pending ones go, new ones come. *)
LEMMA HeldByOne ==
  ASSUME HeldInv, NEW w \in Workers, NEW gone, NEW new,
         \A v \in Workers \ {w} :
           queue'[v] = queue[v] /\ stack'[v] = stack[v] /\ hand'[v] = hand[v],
         Pending' = (Pending \ gone) \cup new,
         gone \subseteq Mine(w), new \cap Pending = {},
         Mine(w)' = (Mine(w) \ gone) \cup new,
         Sorted(w)'
  PROVE  HeldInv'
<1>1. \A v \in Workers \ {w} : Mine(v)' = Mine(v) /\ Sorted(v)'
  BY DEF HeldInv, Mine, Sorted, NoNode
<1>2. \A v \in Workers : Mine(v) \subseteq Pending
  BY DEF HeldInv
<1>3. \A u, v \in Workers : u # v => Mine(u)' \cap Mine(v)' = {}
  <2>1. ASSUME NEW u \in Workers, NEW v \in Workers, u # v, NEW x, x \in Mine(u)', x \in Mine(v)'
        PROVE  FALSE
    <3>1. CASE u # w /\ v # w
      BY <2>1, <3>1, <1>1 DEF HeldInv
    <3>2. CASE u = w
      BY <2>1, <3>2, <1>1, <1>2 DEF HeldInv
    <3>3. CASE v = w
      BY <2>1, <3>3, <1>1, <1>2 DEF HeldInv
    <3> QED BY <3>1, <3>2, <3>3
  <2> QED BY <2>1
<1>4. Pending' = UNION {Mine(v)' : v \in Workers}
  <2>1. ASSUME NEW x PROVE x \in Pending' <=> \E v \in Workers : x \in Mine(v)'
    <3>1. x \in Pending <=> \E v \in Workers : x \in Mine(v)
      BY DEF HeldInv
    <3>2. ASSUME x \in Pending' PROVE \E v \in Workers : x \in Mine(v)'
      BY <3>1, <3>2, <1>1
    <3>3. ASSUME NEW v \in Workers, x \in Mine(v)' PROVE x \in Pending'
      <4>1. CASE v = w
        BY <4>1, <3>3, <1>2
      <4>2. CASE v # w
        BY <4>2, <3>3, <3>1, <1>1 DEF HeldInv
      <4> QED BY <4>1, <4>2
    <3> QED BY <3>2, <3>3
  <2> QED BY <2>1
<1>5. Workers' = Workers
  BY DEF Workers
<1> QED BY <1>1, <1>3, <1>4, <1>5 DEF HeldInv

(* One worker's nodes change places. *)
LEMMA HeldSame ==
  ASSUME HeldInv, NEW w \in Workers,
         \A v \in Workers \ {w} :
           queue'[v] = queue[v] /\ stack'[v] = stack[v] /\ hand'[v] = hand[v],
         Pending' = Pending, Mine(w)' = Mine(w), Sorted(w)'
  PROVE  HeldInv'
<1> DEFINE gone == {}
           new == {}
<1>1. /\ Pending' = (Pending \ gone) \cup new /\ gone \subseteq Mine(w) /\ new \cap Pending = {}
      /\ Mine(w)' = (Mine(w) \ gone) \cup new
  OBVIOUS
<1> HIDE DEF gone, new
<1> QED BY <1>1, HeldByOne

(* One worker gives up a node. *)
LEMMA HeldLess ==
  ASSUME HeldInv, NEW w \in Workers, NEW n \in Mine(w),
         \A v \in Workers \ {w} :
           queue'[v] = queue[v] /\ stack'[v] = stack[v] /\ hand'[v] = hand[v],
         Pending' = Pending \ {n}, Mine(w)' = Mine(w) \ {n}, Sorted(w)'
  PROVE  HeldInv'
<1> DEFINE gone == {n}
           new == {}
<1>1. /\ Pending' = (Pending \ gone) \cup new /\ gone \subseteq Mine(w) /\ new \cap Pending = {}
      /\ Mine(w)' = (Mine(w) \ gone) \cup new
  OBVIOUS
<1> HIDE DEF gone, new
<1> QED BY <1>1, HeldByOne

(* Nodes move from the queue of one worker to the queue of another. *)
LEMMA HeldByTwo ==
  ASSUME tree \in Trees, HeldInv, NEW v \in Workers, NEW w \in Workers, v # w, NEW S \in SUBSET queue[v],
         stack' = stack, hand' = hand, Pending' = Pending,
         queue'[v] = queue[v] \ S, queue'[w] = queue[w] \cup S,
         \A u \in Workers \ {v, w} : queue'[u] = queue[u]
  PROVE  HeldInv'
<1>1. \A u \in Workers \ {v, w} : Mine(u)' = Mine(u) /\ Sorted(u)'
  BY DEF HeldInv, Mine, Sorted, NoNode
<1>2. /\ queue[v] \cap ToSet(stack[v]) = {} /\ hand[v] \notin queue[v]
      /\ S \cap ToSet(stack[v]) = {} /\ hand[v] \notin S
  BY DEF HeldInv, Sorted
<1>3. Mine(v)' = Mine(v) \ S
  BY <1>2 DEF Mine, NoNode
<1>4. Mine(w)' = Mine(w) \cup S
  BY DEF Mine, NoNode
<1>5. S \subseteq Mine(v) /\ S \cap Mine(w) = {}
  <2>1. S \subseteq Mine(v)
    BY DEF Mine
  <2> QED BY <2>1 DEF HeldInv
<1>6. Sorted(v)' /\ Sorted(w)'
  <2>1. Sorted(v)'
    BY <1>2 DEF HeldInv, Sorted
  <2>2. hand[w] \notin S \/ hand[w] = NoNode
    BY <1>5 DEF Mine
  <2>3. hand[w] \notin queue[w] /\ queue[w] \cap ToSet(stack[w]) = {} /\ hand[w] \notin ToSet(stack[w])
    BY DEF HeldInv, Sorted
  <2>4. NoNode \notin S
    <3>1. S \subseteq Pending
      BY <1>5 DEF HeldInv
    <3> QED BY <3>1, TreeFacts DEF Pending, NoNode
  <2>5. ToSet(stack[w]) \cap S = {}
    BY <1>5 DEF Mine
  <2>6. Sorted(w)'
    BY <2>2, <2>3, <2>4, <2>5 DEF HeldInv, Sorted
  <2> QED BY <2>1, <2>6
<1>7. \A a, b \in Workers : a # b => Mine(a)' \cap Mine(b)' = {}
  <2>1. ASSUME NEW a \in Workers, NEW b \in Workers, a # b, NEW x, x \in Mine(a)', x \in Mine(b)'
        PROVE  FALSE
    <3>1. \A u \in Workers : x \in Mine(u)' => x \in Mine(u) \/ (u = w /\ x \in S)
      BY <1>1, <1>3, <1>4
    <3>2. \A u \in Workers : x \in S /\ x \in Mine(u)' => u = w
      BY <1>1, <1>3, <1>5 DEF HeldInv
    <3> QED BY <2>1, <3>1, <3>2 DEF HeldInv
  <2> QED BY <2>1
<1>8. UNION {Mine(u)' : u \in Workers} = UNION {Mine(u) : u \in Workers}
  <2>1. ASSUME NEW x, NEW u \in Workers, x \in Mine(u)' PROVE \E z \in Workers : x \in Mine(z)
    BY <2>1, <1>1, <1>3, <1>4, <1>5
  <2>2. ASSUME NEW x, NEW u \in Workers, x \in Mine(u) PROVE \E z \in Workers : x \in Mine(z)'
    BY <2>2, <1>1, <1>3, <1>4
  <2> QED BY <2>1, <2>2
<1>9. Workers' = Workers
  BY DEF Workers
<1> QED BY <1>1, <1>6, <1>7, <1>8, <1>9 DEF HeldInv

(* The control of a worker depends on what is its own. *)
LEMMA WorkerFrame ==
  ASSUME NEW v \in Workers, WorkerInv(v), pc'[v] = pc[v], scan'[v].ret = scan[v].ret,
         hand'[v] = hand[v], stack'[v] = stack[v], other'[v] = other[v],
         queue[v] = {} => queue'[v] = {} \/ pc[v] # "return"
  PROVE  WorkerInv(v)'
<1>1. (Leafing(v)' <=> Leafing(v)) /\ (Busy(v)' <=> Busy(v)) /\ (Plunging(v)' <=> Plunging(v))
  BY DEF Leafing, Busy, Plunging
<1> QED BY <1>1 DEF WorkerInv, Workers, NoNode

(* The pool is not touched by a worker that is neither off nor launching. *)
LEMMA PoolFrame ==
  ASSUME PoolInv, CoreType, idle' = idle,
         \A v \in Workers : pc[v] = "off" =>
           pc'[v] = "off" /\ (queue[v] = {} => queue'[v] = {}),
         \A v \in Workers : pc'[v] = "handover" => pc[v] = "handover" /\ other'[v] = other[v]
  PROVE  PoolInv'
<1>1. \A k \in 1..Len(idle) : idle[k] \in Workers
  BY DEF CoreType
<1>2. \A k \in 1..Len(idle) : pc'[idle[k]] = "off" /\ queue'[idle[k]] = {}
  BY <1>1 DEF PoolInv
<1>3. \A w \in Workers : pc'[w] = "handover" =>
        /\ other'[w] \in Workers /\ pc'[other'[w]] = "off" /\ queue'[other'[w]] = {}
        /\ \A k \in 1..Len(idle) : idle[k] # other'[w]
  BY DEF PoolInv
<1>4. \A v, w \in Workers :
        pc'[v] = "handover" /\ pc'[w] = "handover" /\ other'[v] = other'[w] => v = w
  BY DEF PoolInv
<1>5. Workers' = Workers
  BY DEF Workers
<1> QED BY <1>2, <1>3, <1>4, <1>5 DEF PoolInv

(* A step of one worker that is not about the pool. *)
LEMMA OneWorkerStep ==
  ASSUME HoldInv, NEW w \in Workers, CoreType', NodeType', TreeShape', HeldInv',
         idle' = idle, pc'[w] # "handover", WorkerInv(w)',
         pc[w] = "off" => pc'[w] = "off" /\ (queue[w] = {} => queue'[w] = {}),
         \A t \in Threads \ {w} : pc'[t] = pc[t] /\ scan'[t] = scan[t],
         \A v \in Workers \ {w} : /\ queue[v] = {} => queue'[v] = {}
                                  /\ stack'[v] = stack[v]
                                  /\ hand'[v] = hand[v] /\ other'[v] = other[v]
  PROVE  HoldInv'
<1>1. TypeOK'
  BY TypeSplit DEF TypeOK, NodeType, CoreType, Scans
<1>2. \A v \in Workers \ {w} : v \in Threads /\ pc'[v] = pc[v] /\ scan'[v] = scan[v]
  BY ConstantFacts
<1>3. \A v \in Workers : WorkerInv(v)'
  BY <1>2, WorkerFrame DEF HoldInv
<1>4. PoolInv'
  <2>1. CoreType
    BY TypeSplit DEF HoldInv
  <2>2. \A v \in Workers : pc[v] = "off" =>
          pc'[v] = "off" /\ (queue[v] = {} => queue'[v] = {})
    BY <1>2
  <2>3. \A v \in Workers : pc'[v] = "handover" => pc[v] = "handover" /\ other'[v] = other[v]
    BY <1>2
  <2> QED BY <2>1, <2>2, <2>3, PoolFrame DEF HoldInv
<1>5. ThreadInv'
  BY ConstantFacts DEF HoldInv, ThreadInv
<1>6. Workers' = Workers
  BY DEF Workers
<1> QED BY <1>1, <1>3, <1>4, <1>5, <1>6 DEF HoldInv

(* What depends on the tree only. *)
LEMMA TreeFrame ==
  ASSUME tree' = tree, node' = node
  PROVE  /\ NodeType => NodeType'
         /\ TreeShape => TreeShape'
         /\ Pending' = Pending
         /\ Settled => Settled'
  BY DEF NodeType, TreeShape, Pending, Settled, Nodes, Bounds, Known, Open, OpenKids, Leaves, Path

(* A step of one worker that leaves every node where it is. *)
LEMMA QuietStep ==
  ASSUME HoldInv, NEW w \in Workers, CoreType',
         tree' = tree, node' = node, queue' = queue, stack' = stack, hand' = hand, idle' = idle,
         pc[w] # "off", pc'[w] # "handover", WorkerInv(w)',
         \A t \in Threads \ {w} : pc'[t] = pc[t] /\ scan'[t] = scan[t],
         \A v \in Workers \ {w} : other'[v] = other[v]
  PROVE  HoldInv'
<1>1. NodeType' /\ TreeShape' /\ Pending' = Pending
  BY TreeFrame, TypeSplit DEF HoldInv
<1>2. HeldInv'
  BY <1>1 DEF HoldInv, HeldInv, Mine, Sorted, Workers, NoNode
<1> QED BY <1>1, <1>2, OneWorkerStep

-----------------------------------------------------------------------------
(* Each step keeps the nodes and the workers together.                     *)

(* A call of get_lower_bound. *)
LEMMA ScanThenFacts ==
  ASSUME CoreType, NEW t \in Threads, NEW p \in {"bfs", "plunge", "bfs_gap", "accepted"},
         ScanThen(t, p)
  PROVE  /\ scan' \in Scans /\ pc' \in [Threads -> Points]
         /\ pc'[t] = "scan" /\ scan'[t].ret = p /\ scan'[t].i = 1
         /\ \A u \in Threads \ {t} : pc'[u] = pc[u] /\ scan'[u] = scan[u]
<1>1. [i |-> 1, part |-> 1, lb |-> lb_numerical, ret |-> p] \in
        [i : 1..(NumWorkers + 1), part : {1, 2}, lb : Bounds,
         ret : {"enter", "bfs", "plunge", "bfs_gap", "accepted"}]
  BY ConstantFacts DEF CoreType
<1>2. "scan" \in Points
  BY DEF Points
<1> QED BY <1>1, <1>2 DEF CoreType, ScanThen, Goto, Scans

(* Its end. *)
LEMMA ScanOverFacts ==
  ASSUME CoreType, NEW t \in Threads, ScanOver(t)
  PROVE  scan' \in Scans /\ \A u \in Threads \ {t} : scan'[u] = scan[u]
<1>1. NoScan \in [i : 1..(NumWorkers + 1), part : {1, 2}, lb : Bounds,
                  ret : {"enter", "bfs", "plunge", "bfs_gap", "accepted"}]
  BY ConstantFacts DEF NoScan
<1> QED BY <1>1 DEF CoreType, ScanOver, Scans

(* Setting the program point of one thread. *)
LEMMA GotoFacts ==
  ASSUME CoreType, NEW t \in Threads, NEW p \in Points, Goto(t, p)
  PROVE  /\ pc' \in [Threads -> Points] /\ pc'[t] = p
         /\ \A u \in Threads \ {t} : pc'[u] = pc[u]
  BY DEF CoreType, Goto

(* A limit that is reached says why the search stops. *)
LEMMA LimitFacts ==
  ASSUME CoreType
  PROVE  limit \in {"HALT", "TIME_LIMIT", "NODE_LIMIT", "none"}
<1>1. Limits[tree] \subseteq {"HALT", "TIME_LIMIT", "NODE_LIMIT"}
  BY TreeAssumption DEF CoreType
<1> QED BY <1>1 DEF CoreType

(* Entering best_first_search_with. *)
LEMMA EnterHolds ==
  ASSUME HoldInv, NEW w \in Workers, Enter(w)
  PROVE  HoldInv'
<1> USE DEF workerVars, statusVars, countVars, localVars, envVars
<1>1. CoreType /\ w \in Threads /\ pc[w] = "enter" /\ WorkerInv(w)
  BY TypeSplit, ConstantFacts DEF HoldInv, Enter
<1>2. /\ scan' \in Scans /\ pc' \in [Threads -> Points]
      /\ pc'[w] = "scan" /\ scan'[w].ret = "bfs"
      /\ \A u \in Threads \ {w} : pc'[u] = pc[u] /\ scan'[u] = scan[u]
  BY <1>1, ScanThenFacts DEF Enter
<1>3. CoreType'
  BY <1>1, <1>2, SetsStay DEF CoreType, Enter
<1>4. WorkerInv(w)'
  BY <1>1, <1>2 DEF WorkerInv, Enter, Leafing, Busy, Plunging
<1> QED BY <1>1, <1>2, <1>3, <1>4, QuietStep DEF Enter

(* The head of its loop. *)
LEMMA BfsLoopHolds ==
  ASSUME HoldInv, NEW w \in Workers, BfsLoop(w)
  PROVE  HoldInv'
<1> USE DEF workerVars, statusVars, countVars, localVars, envVars
<1>1. CoreType /\ NodeType /\ w \in Threads /\ pc[w] = "bfs" /\ WorkerInv(w)
  BY TypeSplit, ConstantFacts DEF HoldInv, BfsLoop
<1>2. QueueBound(queue[w]) \in Bounds
  BY <1>1, QueueBoundFacts DEF CoreType
<1>3. /\ pc' \in [Threads -> Points] /\ pc'[w] \in {"pop", "exit"}
      /\ \A u \in Threads \ {w} : pc'[u] = pc[u]
  <2>1. \/ Goto(w, "pop")
        \/ Goto(w, "exit")
    BY DEF BfsLoop
  <2>2. {"pop", "exit"} \subseteq Points
    BY DEF Points
  <2> QED BY <1>1, <2>1, <2>2, GotoFacts
<1>4. wlb' \in [Workers -> Bounds]
  BY <1>1, <1>2 DEF BfsLoop, CoreType
<1>5. status' \in Statuses /\ halt' \in BOOLEAN
  BY <1>1, LimitFacts DEF BfsLoop, CoreType, Statuses
<1>6. CoreType'
  BY <1>1, <1>3, <1>4, <1>5, SetsStay
  DEF CoreType, BfsLoop
<1>7. WorkerInv(w)'
  BY <1>1, <1>3 DEF WorkerInv, BfsLoop, Leafing, Busy, Plunging
<1> QED BY <1>1, <1>3, <1>6, <1>7, QuietStep DEF BfsLoop

(* The end of a plunge. *)
LEMMA BfsGapHolds ==
  ASSUME HoldInv, NEW w \in Workers, BfsGap(w)
  PROVE  HoldInv'
<1> USE DEF workerVars, statusVars, countVars, localVars, envVars
<1>1. CoreType /\ w \in Threads /\ pc[w] = "bfs_gap" /\ WorkerInv(w)
  BY TypeSplit, ConstantFacts DEF HoldInv, BfsGap
<1>2. /\ pc' \in [Threads -> Points] /\ pc'[w] \in {"exit", "steal", "bfs"}
      /\ \A u \in Threads \ {w} : pc'[u] = pc[u]
  <2>1. \/ Goto(w, "exit")
        \/ Goto(w, "steal")
        \/ Goto(w, "bfs")
    BY DEF BfsGap
  <2>2. {"exit", "steal", "bfs"} \subseteq Points
    BY DEF Points
  <2> QED BY <1>1, <2>1, <2>2, GotoFacts
<1>3. status' \in Statuses
  BY <1>1 DEF BfsGap, CoreType, Statuses
<1>4. CoreType'
  BY <1>1, <1>2, <1>3, SetsStay
  DEF CoreType, BfsGap
<1>5. WorkerInv(w)'
  BY <1>1, <1>2 DEF WorkerInv, BfsGap, Leafing, Busy, Plunging
<1> QED BY <1>1, <1>2, <1>4, <1>5, QuietStep DEF BfsGap

(* Looking for a victim. *)
LEMMA ChooseVictimHolds ==
  ASSUME HoldInv, NEW w \in Workers, ChooseVictim(w)
  PROVE  HoldInv'
<1> USE DEF workerVars, statusVars, countVars, localVars, envVars
<1>1. CoreType /\ w \in Threads /\ pc[w] = "steal" /\ WorkerInv(w) /\ Workers \subseteq Threads
  BY TypeSplit, ConstantFacts DEF HoldInv, ChooseVictim
<1>2. /\ pc' \in [Threads -> Points] /\ pc'[w] \in {"stealing", "bfs"}
      /\ \A u \in Threads \ {w} : pc'[u] = pc[u]
  <2>1. \/ Goto(w, "stealing")
        \/ Goto(w, "bfs")
    BY DEF ChooseVictim
  <2>2. {"stealing", "bfs"} \subseteq Points
    BY DEF Points
  <2> QED BY <1>1, <2>1, <2>2, GotoFacts
<1>3. /\ other' \in [Workers -> Threads]
      /\ \A v \in Workers \ {w} : other'[v] = other[v]
      /\ pc'[w] = "stealing" => other'[w] \in Workers \ {w}
  <2>1. CASE Goto(w, "bfs") /\ UNCHANGED other
    <3>1. pc'[w] = "bfs"
      BY <1>1, <2>1 DEF Goto, CoreType
    <3> QED BY <1>1, <2>1, <3>1 DEF CoreType
  <2>2. CASE \E v \in Workers \ {w} : other' = [other EXCEPT ![w] = v]
    BY <1>1, <2>2 DEF CoreType
  <2> QED BY <2>1, <2>2 DEF ChooseVictim
<1>4. CoreType'
  BY <1>1, <1>2, <1>3, SetsStay
  DEF CoreType, ChooseVictim
<1>5. WorkerInv(w)'
  BY <1>1, <1>2, <1>3 DEF WorkerInv, ChooseVictim, Leafing, Busy, Plunging, Workers
<1> QED BY <1>1, <1>2, <1>3, <1>4, <1>5, QuietStep DEF ChooseVictim

(* Leaving best_first_search_with. *)
LEMMA ExitHolds ==
  ASSUME HoldInv, NEW w \in Workers, Exit(w)
  PROVE  HoldInv'
<1> USE DEF workerVars, statusVars, countVars, localVars, envVars
<1>1. CoreType /\ w \in Threads /\ pc[w] = "exit" /\ WorkerInv(w)
  BY TypeSplit, ConstantFacts DEF HoldInv, Exit
<1>2. /\ pc' \in [Threads -> Points] /\ pc'[w] \in {"return", "off"}
      /\ pc'[w] = "return" => queue[w] = {}
      /\ \A u \in Threads \ {w} : pc'[u] = pc[u]
  <2>1. \/ Goto(w, "return") /\ queue[w] = {}
        \/ Goto(w, "off")
    BY DEF Exit
  <2>2. {"return", "off"} \subseteq Points
    BY DEF Points
  <2> QED BY <1>1, <2>1, <2>2, GotoFacts
<1>3. active' \in [Workers -> BOOLEAN] /\ halt' \in BOOLEAN /\ leaving' \in Nat
  <2>1. halt' \in BOOLEAN
    BY DEF Exit
  <2>2. active \in [Workers -> BOOLEAN] /\ leaving \in Nat
    BY <1>1 DEF CoreType
  <2>3. \/ active' = [active EXCEPT ![w] = FALSE] /\ leaving' = leaving
        \/ active' = active /\ leaving' = leaving + 1
    BY DEF Exit
  <2>4. active' \in [Workers -> BOOLEAN]
    BY <2>2, <2>3
  <2>5. leaving' \in Nat
    BY <2>2, <2>3
  <2> QED BY <2>1, <2>4, <2>5, Zenon
<1>4. CoreType'
  BY <1>1, <1>2, <1>3, SetsStay
  DEF CoreType, Exit
<1>5. WorkerInv(w)'
  BY <1>1, <1>2 DEF WorkerInv, Exit, Leafing, Busy, Plunging
<1> QED BY <1>1, <1>2, <1>4, <1>5, QuietStep DEF Exit

(* The head of the loop of plunge_with. *)
LEMMA PlungeNextFacts ==
  ASSUME NEW w \in Workers, NEW s, NEW g
  PROVE  /\ PlungeNext(w, s, g) \in {"flush", "launch", "take"}
         /\ PlungeNext(w, s, g) # "flush" => s # << >>
  BY DEF PlungeNext

(* A worker has computed the gap. *)
LEMMA ComputeGapHolds ==
  ASSUME HoldInv, NEW w \in Workers, ComputeGap(w)
  PROVE  HoldInv'
<1> USE DEF workerVars, statusVars, countVars, localVars, envVars
<1> DEFINE p == IF scan[w].ret = "plunge"
                THEN PlungeNext(w, stack[w], GapClosed(upper, ScannedBound(w))) ELSE scan[w].ret
<1>1. /\ CoreType /\ w \in Threads /\ pc[w] = "scan" /\ WorkerInv(w)
      /\ scan[w].ret \in {"bfs", "plunge", "bfs_gap"}
      /\ Goto(w, p) /\ ScanOver(w)
  BY TypeSplit, ConstantFacts DEF HoldInv, ComputeGap, ScanDone
<1>2. /\ p \in {"flush", "launch", "take", "bfs", "bfs_gap"}
      /\ p \in {"launch", "take"} => stack[w] # << >>
      /\ p \in {"bfs", "bfs_gap"} => scan[w].ret # "plunge"
  BY <1>1, PlungeNextFacts
<1> HIDE DEF p
<1>3. /\ pc' \in [Threads -> Points] /\ pc'[w] = p
      /\ \A u \in Threads \ {w} : pc'[u] = pc[u]
  <2>1. p \in Points
    BY <1>2 DEF Points
  <2> QED BY <1>1, <2>1, GotoFacts
<1>4. scan' \in Scans /\ \A u \in Threads \ {w} : scan'[u] = scan[u]
  BY <1>1, ScanOverFacts
<1>5. closed' \in [Workers -> BOOLEAN]
  BY <1>1 DEF ComputeGap, GapClosed, CoreType
<1>6. CoreType'
  BY <1>1, <1>3, <1>4, <1>5, SetsStay
  DEF CoreType, ComputeGap
<1>7. WorkerInv(w)'
  BY <1>1, <1>2, <1>3 DEF WorkerInv, ComputeGap, Leafing, Busy, Plunging
<1> QED BY <1>1, <1>2, <1>3, <1>4, <1>6, <1>7, QuietStep DEF ComputeGap

(* A step that moves no thread and no node. *)
LEMMA PassiveStep ==
  ASSUME HoldInv, CoreType',
         tree' = tree, node' = node, queue' = queue, stack' = stack, hand' = hand, idle' = idle,
         other' = other, \A v \in Workers : pc'[v] = pc[v] /\ scan'[v].ret = scan[v].ret,
         ThreadInv'
  PROVE  HoldInv'
<1>1. NodeType' /\ TreeShape' /\ Pending' = Pending
  BY TreeFrame, TypeSplit DEF HoldInv
<1>2. HeldInv'
  BY <1>1 DEF HoldInv, HeldInv, Mine, Sorted, Workers, NoNode
<1>3. TypeOK'
  BY <1>1, TypeSplit DEF TypeOK, NodeType, CoreType, Scans
<1>4. \A v \in Workers : WorkerInv(v)'
  BY WorkerFrame DEF HoldInv
<1>5. PoolInv'
  <2>1. CoreType
    BY TypeSplit DEF HoldInv
  <2> QED BY <2>1, PoolFrame DEF HoldInv
<1>6. Workers' = Workers
  BY DEF Workers
<1> QED BY <1>1, <1>2, <1>3, <1>4, <1>5, <1>6 DEF HoldInv

(* A thread in get_lower_bound has read one more bound. *)
LEMMA ScanFacts ==
  ASSUME CoreType, NodeType, NEW t \in Threads,
         ReadWorkerBound(t) \/ ReadQueueBound(t)
  PROVE  /\ scan' \in Scans /\ scan[t].i \in Workers
         /\ \A u \in Threads \ {t} : scan'[u] = scan[u]
         /\ scan'[t].ret = scan[t].ret
         /\ scan'[t].lb <= scan[t].lb
         /\ scan'[t].i > t => \/ scan[t].i > t
                              \/ t \in Workers =>
                                   \A n \in queue[t] : scan'[t].lb <= node[n].lb
<1> DEFINE R == [i : 1..(NumWorkers + 1), part : {1, 2}, lb : Bounds,
                 ret : {"enter", "bfs", "plunge", "bfs_gap", "accepted"}]
           s == scan[t]
<1>1. s \in R /\ s.lb \in Bounds /\ s.i \in Workers /\ s.i \in Nat /\ scan \in [Threads -> R]
  BY ConstantFacts DEF CoreType, Scans, ReadWorkerBound, ReadQueueBound
<1>2. s.i + 1 \in 1..(NumWorkers + 1) /\ s.lb \in Nat /\ t \in Nat /\ Bounds \subseteq Nat
  <2>1. NumWorkers \in Nat /\ Bounds \subseteq Nat
    BY ConstantFacts
  <2>2. s.i \in 1..NumWorkers /\ t \in 0..NumWorkers
    BY <1>1 DEF Workers, Threads
  <2>3. s.lb \in Nat
    BY <1>1, <2>1
  <2> HIDE DEF s
  <2> QED BY <2>1, <2>2, <2>3
<1>3. CASE ReadWorkerBound(t)
  <2>1. s.i # t /\ wlb[s.i] \in Bounds
    BY <1>1, <1>3 DEF ReadWorkerBound, CoreType
  <2> DEFINE m == Min({s.lb, wlb[s.i]})
  <2>2. m \in Bounds /\ m <= s.lb
    BY <1>1, <2>1, MinBounds
  <2>3. \/ scan' = [scan EXCEPT ![t] = [s EXCEPT !.lb = m, !.part = 2]]
        \/ scan' = [scan EXCEPT ![t] = [s EXCEPT !.i = s.i + 1]]
    BY <1>1, <1>3 DEF ReadWorkerBound
  <2> HIDE DEF m
  <2>4. CASE scan' = [scan EXCEPT ![t] = [s EXCEPT !.lb = m, !.part = 2]]
    BY <1>1, <1>2, <2>2, <2>4 DEF Scans
  <2>5. CASE scan' = [scan EXCEPT ![t] = [s EXCEPT !.i = s.i + 1]]
    BY <1>1, <1>2, <2>1, <2>5 DEF Scans
  <2> QED BY <2>3, <2>4, <2>5
<1>4. CASE ReadQueueBound(t)
  <2> DEFINE S == {s.lb, QueueBound(queue[s.i])} \cup (IF s.i = t THEN {wlb[t]} ELSE {})
             m == Min(S)
  <2>1. queue[s.i] \in SUBSET Nodes /\ wlb[s.i] \in Bounds /\ tree \in Trees
    BY <1>1 DEF CoreType
  <2>2. /\ QueueBound(queue[s.i]) \in Bounds
        /\ \A n \in queue[s.i] : QueueBound(queue[s.i]) <= node[n].lb /\ node[n].lb \in Bounds
    BY <2>1, QueueBoundFacts
  <2>3. S \in SUBSET Bounds /\ S # {}
    BY <1>1, <2>1, <2>2
  <2>4. m \in Bounds /\ m <= s.lb /\ m <= QueueBound(queue[s.i])
    BY <2>3, MinBounds
  <2>5. ASSUME NEW n \in queue[s.i] PROVE m <= node[n].lb
    <3> DEFINE k == QueueBound(queue[s.i])
    <3>1. m \in Nat /\ k \in Nat /\ node[n].lb \in Nat /\ m <= k /\ k <= node[n].lb
      BY <1>2, <2>2, <2>4
    <3> HIDE DEF k, m
    <3> QED BY <3>1
  <2>6. scan' = [scan EXCEPT ![t] = [s EXCEPT !.lb = m, !.part = 1, !.i = s.i + 1]]
    BY <1>1, <1>4 DEF ReadQueueBound
  <2> HIDE DEF m
  <2>7. scan'[t].lb = m /\ scan'[t].i = s.i + 1 /\ scan'[t].ret = s.ret
    BY <1>1, <2>6
  <2>8. scan' \in Scans /\ \A u \in Threads \ {t} : scan'[u] = scan[u]
    BY <1>1, <1>2, <2>4, <2>6 DEF Scans
  <2>9. s.i + 1 > t => s.i > t \/ s.i = t
    BY <1>1, <1>2
  <2> QED BY <1>1, <2>4, <2>5, <2>7, <2>8, <2>9
<1> QED BY <1>3, <1>4

(* The scan moves nothing. *)
LEMMA ScanHolds ==
  ASSUME HoldInv, NEW t \in Threads, ReadWorkerBound(t) \/ ReadQueueBound(t)
  PROVE  HoldInv'
<1> USE DEF workerVars, statusVars, countVars, localVars, envVars
<1>1. CoreType /\ NodeType
  BY TypeSplit DEF HoldInv
<1>2. scan' \in Scans /\ \A u \in Threads : scan'[u].ret = scan[u].ret
  BY <1>1, ScanFacts
<1>3. UNCHANGED <<tree, node, queue, wlb, active, idle, upper, incumbent, status, running, halt,
                  lb_numerical, explored, unexplored, leaving, pc, stack, hand, cutoff, closed,
                  other, sol, solutions, limit, final, verdict>>
  BY DEF ReadWorkerBound, ReadQueueBound
<1>4. CoreType'
  BY <1>1, <1>2, <1>3 DEF CoreType
<1>5. ThreadInv'
  BY <1>2, <1>3, ConstantFacts DEF HoldInv, ThreadInv
<1> QED BY <1>2, <1>3, <1>4, <1>5, PassiveStep, ConstantFacts

(* The upper bound and the incumbent after a solution has been offered. *)
LEMMA AcceptedBound ==
  ASSUME CoreType, NEW t \in Threads, AcceptNewIncumbent(t)
  PROVE  /\ upper' \in Bounds /\ incumbent' \in upper'..Infinity
         /\ upper' <= upper /\ upper' <= sol[t] /\ upper' \in {upper, sol[t]}
<1>1. /\ upper \in Nat /\ sol[t] \in Nat /\ Infinity \in Nat /\ incumbent \in upper..Infinity
      /\ upper <= Infinity /\ sol[t] <= Infinity
  BY ConstantFacts DEF CoreType, Bounds
<1>2. /\ Min({upper, sol[t]}) \in {upper, sol[t]}
      /\ Min({upper, sol[t]}) <= upper /\ Min({upper, sol[t]}) <= sol[t]
  BY <1>1, MinOfNaturals
<1>3. CASE sol[t] < incumbent
  <2>1. incumbent' = sol[t] /\ upper' = Min({upper, sol[t]})
    BY <1>3 DEF AcceptNewIncumbent
  <2> QED BY <1>1, <1>2, <2>1 DEF Bounds
<1>4. CASE ~(sol[t] < incumbent)
  <2>1. incumbent' = incumbent /\ upper' = upper
    BY <1>4 DEF AcceptNewIncumbent
  <2> QED BY <1>1, <1>4, <2>1 DEF Bounds
<1> QED BY <1>3, <1>4

(* A solution is accepted or not. *)
LEMMA AcceptHolds ==
  ASSUME HoldInv, NEW t \in Threads, AcceptNewIncumbent(t)
  PROVE  HoldInv'
<1> USE DEF workerVars, statusVars, countVars, localVars, envVars
<1>1. CoreType /\ NodeType /\ pc[t] = "accept"
  BY TypeSplit DEF HoldInv, AcceptNewIncumbent
<1>2. /\ scan' \in Scans /\ pc' \in [Threads -> Points]
      /\ \/ pc'[t] = "scan" /\ scan'[t].ret = "accepted"
         \/ pc'[t] = "close"
      /\ \A u \in Threads \ {t} : pc'[u] = pc[u] /\ scan'[u] = scan[u]
      /\ upper' \in Bounds /\ incumbent' \in upper'..Infinity /\ sol' \in [Threads -> Bounds]
  <2>1. CASE ScanThen(t, "accepted") /\ sol' = sol
    BY <1>1, <2>1, AcceptedBound, ScanThenFacts DEF CoreType
  <2>2. CASE Goto(t, "close") /\ sol' = [sol EXCEPT ![t] = 0] /\ scan' = scan
    <3>1. "close" \in Points
      BY DEF Points
    <3> QED BY <1>1, <2>2, <3>1, AcceptedBound, GotoFacts, ConstantFacts DEF CoreType
  <2> QED BY <2>1, <2>2 DEF AcceptNewIncumbent
<1>3. UNCHANGED <<tree, node, queue, wlb, active, idle, status, running, halt,
                  lb_numerical, explored, unexplored, leaving, stack, hand, cutoff, closed,
                  other, solutions, limit, final, verdict>>
  BY DEF AcceptNewIncumbent
<1>4. CoreType'
  BY <1>1, <1>2, <1>3 DEF CoreType
<1>5. CASE t = 0
  <2>1. ThreadInv'
    BY <1>2, <1>5 DEF ThreadInv
  <2>2. \A v \in Workers : v \in Threads \ {t}
    BY <1>5, ConstantFacts
  <2> QED BY <1>2, <1>3, <1>4, <2>1, <2>2, PassiveStep
<1>6. CASE t \in Workers
  <2>1. WorkerInv(t)'
    BY <1>1, <1>2, <1>3, <1>6 DEF HoldInv, WorkerInv, Leafing, Busy, Plunging, NoNode
  <2> QED BY <1>1, <1>2, <1>3, <1>4, <1>6, <2>1, QuietStep
<1> QED BY <1>5, <1>6, ConstantFacts

(* The gap is checked after a solution has been accepted. *)
LEMMA CheckIncumbentHolds ==
  ASSUME HoldInv, NEW t \in Threads, CheckIncumbentGap(t)
  PROVE  HoldInv'
<1> USE DEF workerVars, statusVars, countVars, localVars, envVars
<1>1. CoreType /\ NodeType /\ pc[t] = "scan" /\ scan[t].ret = "accepted"
      /\ Goto(t, "close") /\ ScanOver(t) /\ "close" \in Points
  BY TypeSplit DEF HoldInv, CheckIncumbentGap, ScanDone, Points
<1>2. /\ scan' \in Scans /\ pc' \in [Threads -> Points] /\ pc'[t] = "close"
      /\ \A u \in Threads \ {t} : pc'[u] = pc[u] /\ scan'[u] = scan[u]
  BY <1>1, GotoFacts, ScanOverFacts
<1>3. UNCHANGED <<tree, node, queue, wlb, active, idle, upper, incumbent, running,
                  lb_numerical, explored, unexplored, leaving, stack, hand, cutoff, closed,
                  other, solutions, limit, final, verdict>>
  BY DEF CheckIncumbentGap
<1>4. status' \in Statuses /\ halt' \in BOOLEAN /\ sol' \in [Threads -> Bounds]
  <2>1. status' \in Statuses /\ halt' \in BOOLEAN
    BY <1>1 DEF CheckIncumbentGap, CoreType, Statuses
  <2>2. sol' \in [Threads -> Bounds]
    BY <1>1, ConstantFacts DEF CheckIncumbentGap, CoreType
  <2> QED BY <2>1, <2>2, Zenon
<1>5. CoreType'
  BY <1>1, <1>2, <1>3, <1>4 DEF CoreType
<1>6. CASE t = 0
  <2>1. ThreadInv'
    BY <1>2, <1>6 DEF ThreadInv
  <2>2. \A v \in Workers : v \in Threads \ {t}
    BY <1>6, ConstantFacts
  <2> QED BY <1>2, <1>3, <1>5, <2>1, <2>2, PassiveStep
<1>7. CASE t \in Workers
  <2>1. WorkerInv(t)'
    BY <1>1, <1>2, <1>3, <1>7 DEF HoldInv, WorkerInv, Leafing, Busy, Plunging, NoNode
  <2> QED BY <1>1, <1>2, <1>3, <1>5, <1>7, <2>1, QuietStep
<1> QED BY <1>6, <1>7, ConstantFacts

(* Thread 0 finds a solution or is done with it, a limit is reached, the   *)
(* last task looks at the pool, the search ends.                           *)
LEMMA OutsideHolds ==
  ASSUME HoldInv,
         FindSolution \/ SolutionDone \/ ReachLimit \/ CheckLast \/ FinalBound \/ SetFinalSolution
  PROVE  HoldInv'
<1> USE DEF workerVars, statusVars, countVars, localVars, envVars
<1>1. CoreType /\ NodeType /\ 0 \in Threads /\ {"accept", "search"} \subseteq Points
  BY TypeSplit, ConstantFacts DEF HoldInv, Points
<1>2. UNCHANGED <<tree, node, queue, wlb, active, idle, upper, incumbent, lb_numerical, explored,
                  unexplored, stack, hand, cutoff, closed, other, scan>>
  BY DEF FindSolution, SolutionDone, ReachLimit, CheckLast, FinalBound, SetFinalSolution
<1>3. /\ pc' \in [Threads -> Points]
      /\ \A u \in Threads \ {0} : pc'[u] = pc[u]
      /\ pc'[0] = pc[0] \/ pc'[0] \in {"accept", "search"}
  <2>1. pc' = pc \/ Goto(0, "accept") \/ Goto(0, "search")
    BY DEF FindSolution, SolutionDone, ReachLimit, CheckLast, FinalBound, SetFinalSolution
  <2>2. CASE pc' = pc
    BY <1>1, <2>2 DEF CoreType
  <2> QED BY <1>1, <2>1, <2>2, GotoFacts
<1>4. sol' \in [Threads -> Bounds] /\ solutions' \in 0..MaxSolutions[tree]
  <2>1. MaxSolutions[tree] \in Nat
    BY <1>1, TreeAssumption DEF CoreType
  <2>2. CASE FindSolution
    <3>1. PICK n \in DOMAIN tree : sol' = [sol EXCEPT ![0] = tree[n].obj]
      BY <2>2 DEF FindSolution
    <3>2. tree[n].obj \in Bounds
      BY <1>1, TreeFacts DEF CoreType, Bounds
    <3> QED BY <1>1, <2>1, <2>2, <3>1, <3>2 DEF FindSolution, CoreType
  <2>3. CASE ~FindSolution
    <3>1. sol' = sol /\ solutions' = solutions
      BY <2>3 DEF SolutionDone, ReachLimit, CheckLast, FinalBound, SetFinalSolution
    <3> QED BY <1>1, <3>1 DEF CoreType
  <2> QED BY <2>2, <2>3
<1>5. limit' \in Limits[tree] \cup {"none"} /\ leaving' \in Nat
  <2>1. \/ limit' = limit
        \/ limit' \in Limits[tree]
    BY DEF FindSolution, SolutionDone, ReachLimit, CheckLast, FinalBound, SetFinalSolution
  <2>2. \/ leaving' = leaving
        \/ leaving > 0 /\ leaving' = leaving - 1
    BY DEF FindSolution, SolutionDone, ReachLimit, CheckLast, FinalBound, SetFinalSolution
  <2> QED BY <1>1, <2>1, <2>2 DEF CoreType
<1>6. running' \in BOOLEAN /\ halt' \in BOOLEAN
  <2>1. running' = running \/ running' = FALSE
    BY DEF FindSolution, SolutionDone, ReachLimit, CheckLast, FinalBound, SetFinalSolution
  <2>2. halt' = halt \/ halt' = TRUE
    BY DEF FindSolution, SolutionDone, ReachLimit, CheckLast, FinalBound, SetFinalSolution
  <2>3. running \in BOOLEAN /\ halt \in BOOLEAN
    BY <1>1 DEF CoreType
  <2> QED BY <2>1, <2>2, <2>3, Zenon
<1>7. status' \in Statuses /\ verdict' \in Statuses \cup {"none"}
  <2>1. FinalStatus \in Statuses
    BY <1>1 DEF FinalStatus, CoreType, Statuses
  <2>2. \/ status' = status /\ verdict' = verdict
        \/ status' = FinalStatus /\ verdict' = FinalStatus
    BY DEF FindSolution, SolutionDone, ReachLimit, CheckLast, FinalBound, SetFinalSolution
  <2> QED BY <1>1, <2>1, <2>2 DEF CoreType
<1>8. final' \in {-1} \cup Bounds
  <2>1. CASE FinalBound
    <3> DEFINE S == {lb_numerical} \cup {QueueBound(queue[w]) : w \in Workers}
    <3>1. \A w \in Workers : QueueBound(queue[w]) \in Bounds
      BY <1>1, QueueBoundFacts DEF CoreType
    <3>2. S \in SUBSET Bounds /\ S # {}
      BY <1>1, <3>1 DEF CoreType
    <3>3. Min(S) \in Bounds
      BY <3>2, MinBounds
    <3>4. node[1].lb \in Bounds
      BY <1>1, TreeFacts DEF NodeType, CoreType
    <3>5. final' = IF Min(S) < Infinity THEN Min(S) ELSE node[1].lb
      BY <2>1 DEF FinalBound
    <3> QED BY <3>3, <3>4, <3>5
  <2>2. CASE ~FinalBound
    BY <1>1, <2>2 DEF FindSolution, SolutionDone, ReachLimit, CheckLast, SetFinalSolution, CoreType
  <2> QED BY <2>1, <2>2
<1>9. CoreType'
  BY <1>1, <1>2, <1>3, <1>4, <1>5, <1>6, <1>7, <1>8, SetsStay
  DEF CoreType
<1>10. ThreadInv'
  BY <1>2, <1>3 DEF HoldInv, ThreadInv
<1>11. \A v \in Workers : v \in Threads \ {0}
  BY ConstantFacts
<1> QED BY <1>2, <1>3, <1>9, <1>10, <1>11, PassiveStep

(* The nodes a worker holds are pending, and so on. *)
LEMMA MineFacts ==
  ASSUME HoldInv, NEW w \in Workers
  PROVE  /\ queue[w] \subseteq Pending /\ ToSet(stack[w]) \subseteq Pending
         /\ hand[w] # NoNode => hand[w] \in Pending
         /\ NoNode \notin Pending
         /\ \A n \in Pending : /\ n \in Nodes /\ n \in DOMAIN tree /\ node[n].status = "pending"
                               /\ node[n].lb \in Bounds /\ node[n].lb < Infinity
         /\ Sorted(w)
<1>1. Mine(w) \subseteq Pending /\ Sorted(w)
  BY DEF HoldInv, HeldInv
<1>2. tree \in Trees /\ NodeType /\ TreeShape
  BY TypeSplit DEF HoldInv, CoreType
<1>3. NoNode \notin Pending
  BY <1>2, TreeFacts DEF Pending, NoNode
<1>4. \A n \in Pending : /\ n \in Nodes /\ n \in DOMAIN tree /\ node[n].status = "pending"
                         /\ node[n].lb \in Bounds /\ node[n].lb < Infinity
  BY <1>2 DEF Pending, TreeShape, NodeType
<1> QED BY <1>1, <1>3, <1>4 DEF Mine

(* What can be stolen is in the queue. *)
LEMMA StealableFacts ==
  ASSUME NEW q, NEW k, NEW S \in Stealable(q, k)
  PROVE  S \in SUBSET q
  BY DEF Stealable, kSubset

(* A worker steals from the queue of another. *)
LEMMA StealFromHolds ==
  ASSUME HoldInv, NEW w \in Workers, StealFrom(w)
  PROVE  HoldInv'
<1> USE DEF workerVars, statusVars, countVars, localVars, envVars
<1>1. /\ CoreType /\ NodeType /\ TreeShape /\ w \in Threads /\ pc[w] = "stealing" /\ WorkerInv(w)
      /\ Goto(w, "bfs") /\ "bfs" \in Points /\ tree' = tree /\ node' = node
  BY TypeSplit, ConstantFacts DEF HoldInv, StealFrom, Points
<1> DEFINE v == other[w]
<1>2. v \in Workers /\ v # w
  BY <1>1 DEF WorkerInv
<1>3. PICK S \in Stealable(queue[v], NodesPerSteal) :
        queue' = [queue EXCEPT ![w] = @ \cup S, ![v] = @ \ S]
  BY DEF StealFrom
<1>4. S \in SUBSET queue[v]
  BY StealableFacts
<1> HIDE DEF v
<1>5. /\ queue'[v] = queue[v] \ S /\ queue'[w] = queue[w] \cup S
      /\ \A u \in Workers \ {v, w} : queue'[u] = queue[u]
      /\ queue' \in [Workers -> SUBSET Nodes]
  <2>1. queue \in [Workers -> SUBSET Nodes]
    BY <1>1 DEF CoreType
  <2> QED BY <2>1, <1>2, <1>3, <1>4
<1>6. NodeType' /\ TreeShape' /\ Pending' = Pending
  BY <1>1, TreeFrame
<1>7. HeldInv'
  <2>1. stack' = stack /\ hand' = hand /\ tree \in Trees /\ HeldInv
    BY <1>1 DEF StealFrom, HoldInv, CoreType
  <2> QED BY <1>2, <1>4, <1>5, <1>6, <2>1, HeldByTwo
<1>8. /\ pc' \in [Threads -> Points] /\ pc'[w] = "bfs"
      /\ \A u \in Threads \ {w} : pc'[u] = pc[u]
  BY <1>1, GotoFacts
<1>9. other' \in [Workers -> Threads] /\ \A u \in Workers \ {w} : other'[u] = other[u]
  BY <1>1, ConstantFacts DEF StealFrom, CoreType
<1>10. CoreType'
  BY <1>1, <1>5, <1>8, <1>9, SetsStay
  DEF CoreType, StealFrom
<1>11. WorkerInv(w)'
  BY <1>1, <1>8 DEF WorkerInv, StealFrom, Leafing, Busy, Plunging
<1>12. \A u \in Workers \ {w} : queue[u] = {} => queue'[u] = {}
  BY <1>2, <1>4, <1>5
<1>13. scan' = scan /\ stack' = stack /\ hand' = hand /\ idle' = idle
  BY DEF StealFrom
<1> QED BY <1>1, <1>6, <1>7, <1>8, <1>9, <1>10, <1>11, <1>12, <1>13, OneWorkerStep

(* The entries of a sequence with one appended. *)
LEMMA AppendFacts ==
  ASSUME NEW X, NEW s \in Seq(X), NEW x \in X
  PROVE  /\ Append(s, x) \in Seq(X) /\ Len(Append(s, x)) = Len(s) + 1 /\ Len(s) \in Nat
         /\ \A k \in 1..Len(s) : Append(s, x)[k] = s[k]
         /\ Append(s, x)[Len(s) + 1] = x
  OBVIOUS

(* The entries of the tail of a sequence. *)
LEMMA TailFacts ==
  ASSUME NEW X, NEW s \in Seq(X), s # << >>
  PROVE  /\ Tail(s) \in Seq(X) /\ Len(Tail(s)) = Len(s) - 1 /\ Len(s) \in Nat \ {0}
         /\ \A k \in 1..(Len(s) - 1) : Tail(s)[k] = s[k + 1]
         /\ Head(s) = s[1] /\ Head(s) \in X
  OBVIOUS

(* A worker goes back to the pool. *)
LEMMA ReturnHolds ==
  ASSUME HoldInv, NEW w \in Workers, ReturnWorkerToPool(w)
  PROVE  HoldInv'
<1> USE DEF workerVars, statusVars, countVars, localVars, envVars
<1>1. /\ CoreType /\ NodeType /\ TreeShape /\ w \in Threads /\ pc[w] = "return" /\ WorkerInv(w)
      /\ PoolInv /\ Goto(w, "off") /\ "off" \in Points /\ idle' = Append(idle, w)
      /\ idle \in Seq(Workers) /\ leaving' = leaving + 1
  BY TypeSplit, ConstantFacts DEF HoldInv, ReturnWorkerToPool, Points, CoreType
<1>2. UNCHANGED <<tree, node, queue, wlb, active, upper, incumbent, status, running, halt,
                  lb_numerical, explored, unexplored, stack, hand, cutoff, closed, other, scan,
                  sol, solutions, limit, final, verdict>>
  BY DEF ReturnWorkerToPool
<1>3. /\ pc' \in [Threads -> Points] /\ pc'[w] = "off"
      /\ \A u \in Threads \ {w} : pc'[u] = pc[u]
  BY <1>1, GotoFacts
<1>4. \A v \in Workers \ {w} : pc'[v] = pc[v]
  BY <1>3, ConstantFacts
<1>5. /\ idle' \in Seq(Workers) /\ Len(idle') = Len(idle) + 1 /\ Len(idle) \in Nat
      /\ \A k \in 1..Len(idle) : idle'[k] = idle[k] /\ idle[k] \in Workers
      /\ idle'[Len(idle) + 1] = w
  BY <1>1, AppendFacts
<1>6. CoreType'
  <2>1. leaving' \in Nat
    BY <1>1 DEF CoreType
  <2> QED BY <1>1, <1>2, <1>3, <1>5, <2>1, SetsStay
      DEF CoreType
<1>7. NodeType' /\ TreeShape' /\ Pending' = Pending
  BY <1>1, <1>2, TreeFrame
<1>8. HeldInv'
  BY <1>2, <1>7 DEF HoldInv, HeldInv, Mine, Sorted, Workers, NoNode
<1>9. \A v \in Workers : WorkerInv(v)'
  <2>1. WorkerInv(w)'
    BY <1>1, <1>2, <1>3 DEF WorkerInv, Leafing, Busy, Plunging
  <2>2. ASSUME NEW v \in Workers \ {w} PROVE WorkerInv(v)'
    BY <1>2, <1>4, WorkerFrame DEF HoldInv
  <2> QED BY <2>1, <2>2
<1>10. ThreadInv'
  BY <1>2, <1>3, ConstantFacts DEF HoldInv, ThreadInv
<1>11. \A k \in 1..Len(idle) : idle[k] # w /\ pc[idle[k]] = "off" /\ queue[idle[k]] = {}
  BY <1>1 DEF PoolInv
<1>12. \A k \in 1..Len(idle') : k \in 1..Len(idle) \/ k = Len(idle) + 1
  BY <1>5
<1>13. PoolInv'
  <2>1. \A k \in 1..Len(idle') : pc'[idle'[k]] = "off" /\ queue'[idle'[k]] = {}
    <3>1. queue[w] = {}
      BY <1>1 DEF WorkerInv
    <3>2. ASSUME NEW k \in 1..Len(idle) PROVE pc'[idle'[k]] = "off" /\ queue'[idle'[k]] = {}
      <4>1. /\ idle'[k] = idle[k] /\ idle[k] \in Workers \ {w}
            /\ pc[idle[k]] = "off" /\ queue[idle[k]] = {}
        BY <1>5, <1>11
      <4> QED BY <1>2, <1>4, <4>1
    <3>3. pc'[idle'[Len(idle) + 1]] = "off" /\ queue'[idle'[Len(idle) + 1]] = {}
      BY <1>2, <1>3, <1>5, <3>1
    <3> QED BY <1>12, <3>2, <3>3
  <2>2. \A j, k \in 1..Len(idle') : idle'[j] = idle'[k] => j = k
    BY <1>1, <1>5, <1>11, <1>12 DEF PoolInv
  <2>3. \A v \in Workers : pc'[v] = "handover" =>
          /\ other'[v] \in Workers /\ pc'[other'[v]] = "off" /\ queue'[other'[v]] = {}
          /\ \A k \in 1..Len(idle') : idle'[k] # other'[v]
    <3>1. ASSUME NEW v \in Workers, pc'[v] = "handover"
          PROVE  /\ other[v] \in Workers /\ pc[other[v]] = "off" /\ queue[other[v]] = {}
                 /\ other[v] # w /\ \A k \in 1..Len(idle) : idle[k] # other[v]
      BY <1>1, <1>3, <1>4, <3>1 DEF PoolInv
    <3> QED BY <3>1, <1>2, <1>4, <1>5, <1>12
  <2>4. \A u, v \in Workers :
          pc'[u] = "handover" /\ pc'[v] = "handover" /\ other'[u] = other'[v] => u = v
    BY <1>1, <1>2, <1>3, <1>4 DEF PoolInv
  <2>5. Workers' = Workers
    BY DEF Workers
  <2> QED BY <2>1, <2>2, <2>3, <2>4, <2>5 DEF PoolInv
<1>14. TypeOK' /\ Workers' = Workers
  BY <1>6, <1>7, TypeSplit DEF TypeOK, NodeType, CoreType, Scans, Workers
<1> QED BY <1>7, <1>8, <1>9, <1>10, <1>13, <1>14 DEF HoldInv

(* A worker takes another from the pool. *)
LEMMA LaunchHolds ==
  ASSUME HoldInv, NEW w \in Workers, LaunchBfsWorker(w)
  PROVE  HoldInv'
<1> USE DEF workerVars, statusVars, countVars, localVars, envVars
<1>1. /\ CoreType /\ NodeType /\ TreeShape /\ w \in Threads /\ pc[w] = "launch" /\ WorkerInv(w)
      /\ PoolInv /\ idle \in Seq(Workers) /\ {"take", "handover"} \subseteq Points
  BY TypeSplit, ConstantFacts DEF HoldInv, LaunchBfsWorker, Points, CoreType
<1>2. UNCHANGED <<tree, node, queue, upper, incumbent, status, running, halt, lb_numerical,
                  explored, unexplored, leaving, stack, hand, cutoff, closed, scan, sol,
                  solutions, limit, final, verdict>>
  BY DEF LaunchBfsWorker
<1>3. CASE status # "UNSET" \/ idle = << >>
  <2>1. Goto(w, "take") /\ UNCHANGED <<wlb, active, idle, other>>
    BY <1>3 DEF LaunchBfsWorker
  <2>2. /\ pc' \in [Threads -> Points] /\ pc'[w] = "take"
        /\ \A u \in Threads \ {w} : pc'[u] = pc[u]
    BY <1>1, <2>1, GotoFacts
  <2>3. CoreType'
    BY <1>1, <1>2, <2>1, <2>2, SetsStay
    DEF CoreType
  <2>4. WorkerInv(w)'
    BY <1>1, <1>2, <2>1, <2>2 DEF WorkerInv, Leafing, Busy, Plunging
  <2> QED BY <1>1, <1>2, <2>1, <2>2, <2>3, <2>4, QuietStep
<1>4. CASE ~(status # "UNSET" \/ idle = << >>)
  <2> DEFINE o == Head(idle)
  <2>1. /\ idle' = Tail(idle) /\ other' = [other EXCEPT ![w] = o] /\ Goto(w, "handover")
        /\ wlb' = [wlb EXCEPT ![o] = QueueBound(queue[w])]
        /\ active' = [active EXCEPT ![o] = TRUE]
        /\ idle # << >>
    BY <1>4 DEF LaunchBfsWorker
  <2>2. /\ pc' \in [Threads -> Points] /\ pc'[w] = "handover"
        /\ \A u \in Threads \ {w} : pc'[u] = pc[u]
    BY <1>1, <2>1, GotoFacts
  <2>3. \A v \in Workers \ {w} : pc'[v] = pc[v]
    BY <2>2, ConstantFacts
  <2>4. /\ idle' \in Seq(Workers) /\ Len(idle') = Len(idle) - 1 /\ Len(idle) \in Nat \ {0}
        /\ \A k \in 1..(Len(idle) - 1) : idle'[k] = idle[k + 1]
        /\ o = idle[1] /\ o \in Workers
    BY <1>1, <2>1, TailFacts
  <2> HIDE DEF o
  <2>5. /\ other' \in [Workers -> Threads] /\ other'[w] = o
        /\ \A v \in Workers \ {w} : other'[v] = other[v]
    BY <1>1, <2>1, <2>4, ConstantFacts DEF CoreType
  <2>6. wlb' \in [Workers -> Bounds] /\ active' \in [Workers -> BOOLEAN]
    <3>1. QueueBound(queue[w]) \in Bounds
      BY <1>1, QueueBoundFacts DEF CoreType
    <3>2. wlb' \in [Workers -> Bounds]
      BY <1>1, <2>1, <3>1 DEF CoreType
    <3>3. active' \in [Workers -> BOOLEAN]
      BY <1>1, <2>1 DEF CoreType
    <3> QED BY <3>2, <3>3
  <2>7. CoreType'
    BY <1>1, <1>2, <2>2, <2>4, <2>5, <2>6, SetsStay
    DEF CoreType
  <2>8. NodeType' /\ TreeShape' /\ Pending' = Pending
    BY <1>1, <1>2, TreeFrame
  <2>9. HeldInv'
    BY <1>2, <2>8 DEF HoldInv, HeldInv, Mine, Sorted, Workers, NoNode
  <2>10. \A v \in Workers : WorkerInv(v)'
    <3>1. WorkerInv(w)'
      BY <1>1, <1>2, <2>2 DEF WorkerInv, Leafing, Busy, Plunging
    <3>2. ASSUME NEW v \in Workers \ {w} PROVE WorkerInv(v)'
      BY <1>2, <2>3, <2>5, WorkerFrame DEF HoldInv
    <3> QED BY <3>1, <3>2
  <2>11. ThreadInv'
    BY <1>2, <2>2, ConstantFacts DEF HoldInv, ThreadInv
  <2>12. \A k \in 1..Len(idle) : /\ idle[k] \in Workers /\ idle[k] # w /\ pc[idle[k]] = "off"
                                 /\ queue[idle[k]] = {}
    BY <1>1 DEF PoolInv
  <2>13. \A k \in 1..Len(idle') : /\ k + 1 \in 1..Len(idle) /\ idle'[k] = idle[k + 1]
                                  /\ k \in Nat /\ k + 1 # 1
    BY <2>4
  <2>14. 1 \in 1..Len(idle)
    BY <2>4
  <2>15. PoolInv'
    <3>1. ASSUME NEW k \in 1..Len(idle') PROVE pc'[idle'[k]] = "off" /\ queue'[idle'[k]] = {}
      <4> DEFINE v == idle'[k]
      <4>0. PICK j \in 1..Len(idle) : v = idle[j]
        BY <2>13
      <4>1. v \in Workers \ {w} /\ pc[v] = "off" /\ queue[v] = {}
        BY <2>12, <4>0
      <4> HIDE DEF v
      <4>2. pc'[v] = "off" /\ queue'[v] = {}
        BY <4>1, <1>2, <2>3
      <4> QED BY <4>2 DEF v
    <3>2. ASSUME NEW j \in 1..Len(idle'), NEW k \in 1..Len(idle'), idle'[j] = idle'[k]
          PROVE  j = k
      <4>1. j + 1 = k + 1 /\ j \in Nat /\ k \in Nat
        BY <1>1, <2>13, <3>2 DEF PoolInv
      <4> QED BY <4>1
    <3>3. ASSUME NEW v \in Workers, pc'[v] = "handover"
          PROVE  /\ other'[v] \in Workers /\ pc'[other'[v]] = "off" /\ queue'[other'[v]] = {}
                 /\ \A k \in 1..Len(idle') : idle'[k] # other'[v]
      <4>1. CASE v = w
        <5>1. \A k \in 1..Len(idle') : idle'[k] # o
          BY <1>1, <2>4, <2>13, <2>14 DEF PoolInv
        <5> QED BY <4>1, <5>1, <1>2, <2>3, <2>4, <2>5, <2>12, <2>14
      <4>2. CASE v # w
        <5>1. /\ other[v] \in Workers /\ pc[other[v]] = "off" /\ queue[other[v]] = {}
              /\ other[v] # w /\ \A k \in 1..Len(idle) : idle[k] # other[v]
          BY <1>1, <2>3, <3>3, <4>2 DEF PoolInv
        <5> QED BY <4>2, <5>1, <1>2, <2>3, <2>5, <2>13
      <4> QED BY <4>1, <4>2
    <3>4. ASSUME NEW u \in Workers, NEW v \in Workers, pc'[u] = "handover", pc'[v] = "handover",
                 other'[u] = other'[v]
          PROVE  u = v
      <4>1. \A x \in Workers \ {w} : pc'[x] = "handover" => other'[x] # o
        BY <1>1, <2>3, <2>4, <2>5, <2>14 DEF PoolInv
      <4>2. CASE u # w /\ v # w
        BY <1>1, <2>3, <2>5, <3>4, <4>2 DEF PoolInv
      <4>3. CASE u = w \/ v = w
        BY <2>5, <3>4, <4>1, <4>3
      <4> QED BY <4>2, <4>3
    <3>5. Workers' = Workers
      BY DEF Workers
    <3> QED BY <3>1, <3>2, <3>3, <3>4, <3>5 DEF PoolInv
  <2>16. TypeOK' /\ Workers' = Workers
    BY <2>7, <2>8, TypeSplit DEF TypeOK, NodeType, CoreType, Scans, Workers
  <2> QED BY <2>8, <2>9, <2>10, <2>11, <2>15, <2>16 DEF HoldInv
<1> QED BY <1>3, <1>4

(* The worker taken from the pool is given a node, or goes back. *)
LEMMA HandoverHolds ==
  ASSUME HoldInv, NEW w \in Workers, Handover(w)
  PROVE  HoldInv'
<1> USE DEF workerVars, statusVars, countVars, localVars, envVars
<1>1. /\ CoreType /\ NodeType /\ TreeShape /\ w \in Threads /\ pc[w] = "handover" /\ WorkerInv(w)
      /\ PoolInv /\ HeldInv /\ idle \in Seq(Workers) /\ {"take", "enter"} \subseteq Points
  BY TypeSplit, ConstantFacts DEF HoldInv, Handover, Points, CoreType
<1>2. UNCHANGED <<tree, node, upper, incumbent, status, running, halt, lb_numerical, explored,
                  unexplored, leaving, stack, hand, cutoff, closed, scan, sol, solutions,
                  limit, final, verdict>>
  BY DEF Handover
<1>0. PICK o \in Workers : o = other[w]
  BY <1>1 DEF PoolInv
<1>3. PICK S \in Stealable(queue[w], 1) :
         /\ queue' = [queue EXCEPT ![w] = @ \ S, ![o] = S]
         /\ wlb' = [wlb EXCEPT ![o] = QueueBound(S)]
         /\ \/ /\ S # {} /\ pc' = [pc EXCEPT ![w] = "take", ![o] = "enter"]
               /\ active' = active /\ idle' = idle
            \/ /\ S = {} /\ pc' = [pc EXCEPT ![w] = "take"]
               /\ active' = [active EXCEPT ![o] = FALSE] /\ idle' = Append(idle, o)
  BY <1>0 DEF Handover, Goto
<1>4. /\ o \in Workers /\ o \in Threads /\ pc[o] = "off" /\ queue[o] = {} /\ o # w
      /\ \A k \in 1..Len(idle) : idle[k] # o
  BY <1>0, <1>1, ConstantFacts DEF PoolInv
<1>5. S \in SUBSET queue[w] /\ S \in SUBSET Nodes
  BY <1>1, StealableFacts DEF CoreType
<1>6. other' = [other EXCEPT ![w] = 0]
  BY DEF Handover
<1>7. /\ other' \in [Workers -> Threads]
      /\ \A v \in Workers \ {w} : other'[v] = other[v]
  BY <1>1, <1>6, ConstantFacts DEF CoreType
<1>8. /\ queue'[w] = queue[w] \ S /\ queue'[o] = S
      /\ \A u \in Workers \ {w, o} : queue'[u] = queue[u]
      /\ queue' \in [Workers -> SUBSET Nodes]
  <2>1. queue \in [Workers -> SUBSET Nodes]
    BY <1>1 DEF CoreType
  <2> QED BY <2>1, <1>3, <1>4, <1>5
<1>9. wlb' \in [Workers -> Bounds]
  <2>1. QueueBound(S) \in Bounds
    BY <1>1, <1>5, QueueBoundFacts DEF CoreType
  <2> QED BY <2>1, <1>1, <1>3 DEF CoreType
<1>10. active' \in [Workers -> BOOLEAN]
  BY <1>1, <1>3 DEF CoreType
<1>11. /\ pc' \in [Threads -> Points] /\ pc'[w] = "take"
       /\ pc'[o] = IF S = {} THEN "off" ELSE "enter"
       /\ \A u \in Threads \ {w, o} : pc'[u] = pc[u]
  <2>1. pc \in [Threads -> Points]
    BY <1>1 DEF CoreType
  <2> QED BY <2>1, <1>1, <1>3, <1>4
<1>12. \A v \in Workers \ {w, o} : pc'[v] = pc[v]
  BY <1>11, ConstantFacts
<1>13. /\ Append(idle, o) \in Seq(Workers) /\ Len(Append(idle, o)) = Len(idle) + 1
       /\ Len(idle) \in Nat
       /\ \A k \in 1..Len(idle) : Append(idle, o)[k] = idle[k]
       /\ Append(idle, o)[Len(idle) + 1] = o
  BY <1>1, <1>4, AppendFacts
<1>14. idle' \in Seq(Workers)
  BY <1>1, <1>3, <1>13
<1>15. CoreType'
  BY <1>1, <1>2, <1>7, <1>8, <1>9, <1>10, <1>11, <1>14, SetsStay
  DEF CoreType
<1>16. NodeType' /\ TreeShape' /\ Pending' = Pending
  BY <1>1, <1>2, TreeFrame
<1>17. HeldInv'
  <2>1. tree \in Trees /\ queue'[o] = queue[o] \cup S
    BY <1>1, <1>4, <1>8 DEF CoreType
  <2> QED BY <1>1, <1>2, <1>4, <1>5, <1>8, <1>16, <2>1, HeldByTwo
<1>18. \A v \in Workers : WorkerInv(v)'
  <2>1. WorkerInv(w)'
    BY <1>1, <1>2, <1>11 DEF WorkerInv, Leafing, Busy, Plunging
  <2>2. WorkerInv(o)'
    <3>1. WorkerInv(o)
      BY <1>4 DEF HoldInv
    <3>2. pc'[o] \in {"off", "enter"}
      BY <1>11
    <3>3. ~Plunging(o) /\ ~Busy(o) /\ ~Plunging(o)' /\ ~Busy(o)'
      BY <3>2, <1>4 DEF Plunging, Busy, Leafing
    <3>4. hand'[o] = NoNode /\ stack'[o] = << >>
      BY <3>1, <3>3, <1>2 DEF WorkerInv
    <3>5. NoNode' = NoNode /\ Workers' = Workers
      BY DEF NoNode, Workers
    <3> QED BY <3>2, <3>3, <3>4, <3>5 DEF WorkerInv
  <2>3. ASSUME NEW v \in Workers \ {w, o} PROVE WorkerInv(v)'
    BY <1>2, <1>7, <1>8, <1>12, WorkerFrame DEF HoldInv
  <2>4. \A v \in Workers : v = w \/ v = o \/ v \in Workers \ {w, o}
    OBVIOUS
  <2> QED BY <2>1, <2>2, <2>3, <2>4
<1>19. ThreadInv'
  BY <1>2, <1>4, <1>11, ConstantFacts DEF HoldInv, ThreadInv
<1>20. ASSUME NEW k \in 1..Len(idle)
       PROVE  idle[k] \in Workers \ {w, o} /\ pc[idle[k]] = "off" /\ queue[idle[k]] = {}
  <2>1. pc[idle[k]] = "off" /\ queue[idle[k]] = {}
    BY <1>1 DEF PoolInv
  <2>2. idle[k] \in Workers
    BY <1>1
  <2>3. idle[k] # w
    BY <1>1, <2>1
  <2> QED BY <1>4, <2>1, <2>2, <2>3
<1>21. \A k \in 1..Len(idle') : \/ k \in 1..Len(idle) /\ idle'[k] = idle[k]
                                \/ k = Len(idle) + 1 /\ idle'[k] = o /\ S = {}
  <2>1. CASE idle' = idle
    BY <2>1
  <2>2. CASE S = {} /\ idle' = Append(idle, o)
    <3>1. Len(idle') = Len(idle) + 1 /\ idle'[Len(idle) + 1] = o
      BY <1>13, <2>2
    <3>2. \A k \in 1..Len(idle) : idle'[k] = idle[k]
      BY <1>13, <2>2
    <3>3. \A k \in 1..(Len(idle) + 1) : k \in 1..Len(idle) \/ k = Len(idle) + 1
      BY <1>13
    <3> QED BY <3>1, <3>2, <3>3, <2>2
  <2> QED BY <1>3, <2>1, <2>2
<1>22. ASSUME NEW v \in Workers, pc'[v] = "handover"
       PROVE  /\ v # w /\ v # o /\ pc[v] = "handover" /\ other'[v] = other[v]
              /\ other[v] \in Workers \ {w, o} /\ pc[other[v]] = "off" /\ queue[other[v]] = {}
              /\ \A k \in 1..Len(idle) : idle[k] # other[v]
  <2>1. v # w /\ v # o
    BY <1>11, <1>22
  <2>2. pc[v] = "handover"
    BY <1>12, <1>22, <2>1
  <2>3. other[v] # o
    BY <1>0, <1>1, <2>1, <2>2 DEF PoolInv
  <2> QED BY <1>1, <1>7, <2>1, <2>2, <2>3 DEF PoolInv
<1>23. PoolInv'
  <2>1. ASSUME NEW k \in 1..Len(idle') PROVE pc'[idle'[k]] = "off" /\ queue'[idle'[k]] = {}
    <3> DEFINE v == idle'[k]
    <3>1. \/ v \in Workers \ {w, o} /\ pc[v] = "off" /\ queue[v] = {}
          \/ v = o /\ S = {}
      BY <1>20, <1>21
    <3> HIDE DEF v
    <3>2. pc'[v] = "off" /\ queue'[v] = {}
      BY <3>1, <1>8, <1>11, <1>12
    <3> QED BY <3>2 DEF v
  <2>2. \A j, k \in 1..Len(idle') : idle'[j] = idle'[k] => j = k
    BY <1>1, <1>4, <1>21 DEF PoolInv
  <2>3. ASSUME NEW v \in Workers, pc'[v] = "handover"
        PROVE  /\ other'[v] \in Workers /\ pc'[other'[v]] = "off" /\ queue'[other'[v]] = {}
               /\ \A k \in 1..Len(idle') : idle'[k] # other'[v]
    <3> DEFINE x == other'[v]
    <3>1. /\ x \in Workers \ {w, o} /\ pc[x] = "off" /\ queue[x] = {}
          /\ \A k \in 1..Len(idle) : idle[k] # x
      <4>1. other'[v] = other[v]
        BY <1>22, <2>3
      <4>2. /\ other[v] \in Workers \ {w, o} /\ pc[other[v]] = "off" /\ queue[other[v]] = {}
            /\ \A k \in 1..Len(idle) : idle[k] # other[v]
        BY <1>22, <2>3
      <4> QED BY <4>1, <4>2
    <3> HIDE DEF x
    <3>2. pc'[x] = "off" /\ queue'[x] = {}
      BY <3>1, <1>8, <1>12
    <3>3. \A k \in 1..Len(idle') : idle'[k] # x
      BY <3>1, <1>21
    <3> QED BY <3>1, <3>2, <3>3 DEF x
  <2>4. \A u, v \in Workers :
          pc'[u] = "handover" /\ pc'[v] = "handover" /\ other'[u] = other'[v] => u = v
    BY <1>1, <1>22 DEF PoolInv
  <2>5. Workers' = Workers
    BY DEF Workers
  <2> QED BY <2>1, <2>2, <2>3, <2>4, <2>5 DEF PoolInv
<1>24. TypeOK' /\ Workers' = Workers
  BY <1>15, <1>16, TypeSplit DEF TypeOK, NodeType, CoreType, Scans, Workers
<1> QED BY <1>16, <1>17, <1>18, <1>19, <1>23, <1>24 DEF HoldInv

(* The best node of a queue. *)
LEMMA BestFacts ==
  ASSUME HoldInv, NEW w \in Workers, NEW n \in Best(queue[w])
  PROVE  /\ n \in queue[w] /\ n \in Pending /\ n \in Nodes /\ node[n].status = "pending"
         /\ node[n].lb \in Bounds /\ n # hand[w] /\ n \notin ToSet(stack[w])
         /\ node[n].lb = QueueBound(queue[w])
<1>1. n \in queue[w] /\ node[n].lb = QueueBound(queue[w])
  BY DEF Best
<1> QED BY <1>1, MineFacts DEF Sorted

(* A worker takes the best node of its queue, or finds it stolen. *)
LEMMA PopHolds ==
  ASSUME HoldInv, NEW w \in Workers, Pop(w)
  PROVE  HoldInv'
<1> USE DEF workerVars, statusVars, countVars, localVars, envVars
<1>1. /\ CoreType /\ NodeType /\ TreeShape /\ HeldInv /\ tree \in Trees
      /\ w \in Threads /\ pc[w] = "pop" /\ WorkerInv(w) /\ "bfs" \in Points
  BY TypeSplit, ConstantFacts DEF HoldInv, Pop, Points, CoreType
<1>2. UNCHANGED <<tree, active, idle, upper, incumbent, status, running, halt, lb_numerical,
                  explored, leaving, hand, cutoff, closed, other, sol, solutions, limit, final,
                  verdict>>
  BY DEF Pop
<1>3. /\ stack[w] = << >> /\ hand[w] = NoNode /\ ToSet(stack[w]) = {}
  BY <1>1, StackFacts DEF WorkerInv, Plunging, Busy, Leafing
<1>4. /\ queue \in [Workers -> SUBSET Nodes] /\ stack \in [Workers -> Seq(Nodes)]
      /\ wlb \in [Workers -> Bounds] /\ unexplored \in Int
      /\ \A v \in Workers : Len(stack[v]) <= 2
  BY <1>1 DEF CoreType
<1>5. CASE /\ Goto(w, "bfs")
           /\ UNCHANGED <<node, queue, wlb, unexplored, stack, scan>>
  <2>1. /\ pc' \in [Threads -> Points] /\ pc'[w] = "bfs"
        /\ \A u \in Threads \ {w} : pc'[u] = pc[u]
    BY <1>1, <1>5, GotoFacts
  <2>2. CoreType'
    BY <1>1, <1>2, <1>5, <2>1, SetsStay
    DEF CoreType
  <2>3. WorkerInv(w)'
    BY <1>1, <1>2, <1>5, <2>1 DEF WorkerInv, Leafing, Busy, Plunging
  <2> QED BY <1>1, <1>2, <1>5, <2>1, <2>2, <2>3, QuietStep
<1>6. ASSUME NEW n \in Best(queue[w]),
             queue' = [queue EXCEPT ![w] = @ \ {n}],
             wlb' = [wlb EXCEPT ![w] = node[n].lb],
             upper < node[n].lb,
             node' = Closed(n, node[n].lb),
             unexplored' = unexplored - 1,
             Goto(w, "bfs"), UNCHANGED <<stack, scan>>
      PROVE  HoldInv'
  <2>1. /\ n \in queue[w] /\ n \in Pending /\ n \in Nodes /\ node[n].status = "pending"
        /\ node[n].lb \in Bounds
    BY BestFacts
  <2>2. /\ NodeType' /\ TreeShape' /\ Pending' = Pending \ {n}
    BY <1>1, <1>2, <1>6, <2>1, ClosedKeepsShape
  <2>3. /\ pc' \in [Threads -> Points] /\ pc'[w] = "bfs"
        /\ \A u \in Threads \ {w} : pc'[u] = pc[u]
    BY <1>1, <1>6, GotoFacts
  <2>4. /\ queue' \in [Workers -> SUBSET Nodes] /\ queue'[w] = queue[w] \ {n}
        /\ \A v \in Workers \ {w} : queue'[v] = queue[v]
    BY <1>4, <1>6
  <2>5. wlb' \in [Workers -> Bounds] /\ unexplored' \in Int
    BY <1>4, <1>6, <2>1
  <2>6. CoreType'
    BY <1>1, <1>2, <1>6, <2>3, <2>4, <2>5, SetsStay
    DEF CoreType
  <2>7. HeldInv'
    <3>1. Mine(w) = queue[w] /\ Mine(w)' = queue'[w]
      BY <1>2, <1>3, <1>6 DEF Mine, NoNode
    <3>2. Sorted(w)'
      BY <1>2, <1>3, <1>6, <2>4, MineFacts DEF Sorted
    <3> QED BY <1>1, <1>2, <1>6, <2>1, <2>2, <2>4, <3>1, <3>2, HeldLess
  <2>8. WorkerInv(w)'
    BY <1>1, <1>2, <1>6, <2>3 DEF WorkerInv, Leafing, Busy, Plunging
  <2> QED BY <1>1, <1>2, <1>6, <2>2, <2>3, <2>4, <2>6, <2>7, <2>8, OneWorkerStep
<1>7. ASSUME NEW n \in Best(queue[w]),
             queue' = [queue EXCEPT ![w] = @ \ {n}],
             wlb' = [wlb EXCEPT ![w] = node[n].lb],
             stack' = [stack EXCEPT ![w] = <<n>>],
             ScanThen(w, "plunge"), UNCHANGED <<node, unexplored>>
      PROVE  HoldInv'
  <2>1. /\ n \in queue[w] /\ n \in Pending /\ n \in Nodes /\ node[n].lb \in Bounds
    BY BestFacts
  <2>2. NodeType' /\ TreeShape' /\ Pending' = Pending
    BY <1>1, <1>2, <1>7, TreeFrame
  <2>3. /\ scan' \in Scans /\ pc' \in [Threads -> Points]
        /\ pc'[w] = "scan" /\ scan'[w].ret = "plunge"
        /\ \A u \in Threads \ {w} : pc'[u] = pc[u] /\ scan'[u] = scan[u]
    BY <1>1, <1>7, ScanThenFacts
  <2>4. /\ queue' \in [Workers -> SUBSET Nodes] /\ queue'[w] = queue[w] \ {n}
        /\ \A v \in Workers \ {w} : queue'[v] = queue[v] /\ stack'[v] = stack[v]
        /\ stack' \in [Workers -> Seq(Nodes)] /\ stack'[w] = <<n>>
    BY <1>4, <1>7, <2>1
  <2>5. \A v \in Workers : Len(stack'[v]) <= 2
    <3>1. Len(<<n>>) = 1
      OBVIOUS
    <3>2. Len(stack'[w]) <= 2
      BY <2>4, <3>1
    <3>3. \A v \in Workers \ {w} : Len(stack'[v]) <= 2
      BY <1>4, <2>4
    <3> QED BY <3>2, <3>3
  <2>6. wlb' \in [Workers -> Bounds]
    BY <1>4, <1>7, <2>1
  <2>7. CoreType'
    BY <1>1, <1>2, <1>7, <2>3, <2>4, <2>5, <2>6, SetsStay
    DEF CoreType
  <2>8. ToSet(stack'[w]) = {n}
    BY <2>4, StackFacts
  <2>9. HeldInv'
    <3>1. Mine(w) = queue[w] /\ Mine(w)' = queue'[w] \cup {n}
      BY <1>2, <1>3, <2>8 DEF Mine, NoNode
    <3>2. Sorted(w)'
      <4>1. hand'[w] = NoNode /\ NoNode \notin queue[w]
        BY <1>2, <1>3, MineFacts
      <4>2. \A i, j \in 1..Len(stack'[w]) : i = j
        BY <2>4
      <4> QED BY <4>1, <4>2, <2>1, <2>4, <2>8 DEF Sorted
    <3>3. Mine(w)' = Mine(w)
      BY <3>1, <2>1, <2>4
    <3> QED BY <1>1, <1>2, <2>2, <2>4, <3>2, <3>3, HeldSame
  <2>10. WorkerInv(w)'
    <3>1. Plunging(w)' /\ ~Busy(w)'
      BY <2>3 DEF Leafing, Busy, Plunging
    <3> QED BY <3>1, <1>2, <1>3, <2>3 DEF WorkerInv, NoNode
  <2> QED BY <1>1, <1>2, <2>2, <2>3, <2>4, <2>7, <2>9, <2>10, OneWorkerStep
<1>8. \/ Goto(w, "bfs") /\ UNCHANGED <<node, queue, wlb, unexplored, stack, scan>>
      \/ \E n \in Best(queue[w]) :
            /\ queue' = [queue EXCEPT ![w] = @ \ {n}]
            /\ wlb' = [wlb EXCEPT ![w] = node[n].lb]
            /\ \/ /\ upper < node[n].lb
                  /\ node' = Closed(n, node[n].lb)
                  /\ unexplored' = unexplored - 1
                  /\ Goto(w, "bfs") /\ UNCHANGED <<stack, scan>>
               \/ /\ stack' = [stack EXCEPT ![w] = <<n>>]
                  /\ ScanThen(w, "plunge") /\ UNCHANGED <<node, unexplored>>
  BY DEF Pop
<1> QED BY <1>5, <1>6, <1>7, <1>8

(* The node on top of a worker's stack, and the stack without it. *)
LEMMA TopFacts ==
  ASSUME HoldInv, NEW w \in Workers, stack[w] # << >>
  PROVE  /\ Head(stack[w]) \in Pending /\ Head(stack[w]) \in Nodes /\ Head(stack[w]) # NoNode
         /\ node[Head(stack[w])].status = "pending" /\ node[Head(stack[w])].lb \in Bounds
         /\ Head(stack[w]) \in ToSet(stack[w]) /\ Head(stack[w]) \notin queue[w]
         /\ ToSet(Tail(stack[w])) = ToSet(stack[w]) \ {Head(stack[w])}
         /\ Tail(stack[w]) \in Seq(Nodes) /\ Len(Tail(stack[w])) <= 1
         /\ \A i, j \in 1..Len(Tail(stack[w])) : Tail(stack[w])[i] = Tail(stack[w])[j] => i = j
<1>1. stack[w] \in Seq(Nodes) /\ Len(stack[w]) <= 2
  BY TypeSplit DEF HoldInv, CoreType
<1>2. Sorted(w) /\ ToSet(stack[w]) \subseteq Pending
  BY MineFacts
<1>3. /\ Head(stack[w]) \in ToSet(stack[w])
      /\ ToSet(Tail(stack[w])) = ToSet(stack[w]) \ {Head(stack[w])}
      /\ Tail(stack[w]) \in Seq(Nodes) /\ Len(Tail(stack[w])) = Len(stack[w]) - 1
      /\ \A i, j \in 1..Len(Tail(stack[w])) : Tail(stack[w])[i] = Tail(stack[w])[j] => i = j
  BY <1>1, <1>2, StackPop DEF Sorted
<1>4. Head(stack[w]) \in Pending
  BY <1>2, <1>3
<1>5. /\ Head(stack[w]) \in Nodes /\ Head(stack[w]) # NoNode
      /\ node[Head(stack[w])].status = "pending" /\ node[Head(stack[w])].lb \in Bounds
  BY <1>4, MineFacts
<1>6. Head(stack[w]) \notin queue[w]
  BY <1>2, <1>3 DEF Sorted
<1>7. Len(Tail(stack[w])) <= 1
  BY <1>1, <1>3
<1> QED BY <1>3, <1>4, <1>5, <1>6, <1>7

(* A worker takes the node on top of its stack. *)
LEMMA TakeHolds ==
  ASSUME HoldInv, NEW w \in Workers, Take(w)
  PROVE  HoldInv'
<1> USE DEF workerVars, statusVars, countVars, localVars, envVars
<1>1. /\ CoreType /\ NodeType /\ TreeShape /\ HeldInv /\ tree \in Trees
      /\ w \in Threads /\ pc[w] = "take" /\ WorkerInv(w) /\ {"flush", "lp"} \subseteq Points
  BY TypeSplit, ConstantFacts DEF HoldInv, Take, Points, CoreType
<1>2. UNCHANGED <<tree, queue, active, idle, upper, incumbent, running, lb_numerical, explored,
                  leaving, cutoff, closed, other, scan, sol, solutions, limit, final, verdict>>
  BY DEF Take
<1>3. hand[w] = NoNode /\ stack[w] # << >>
  BY <1>1 DEF WorkerInv, Busy, Leafing
<1>4. PICK n \in Nodes : n = Head(stack[w])
  BY <1>3, TopFacts
<1>5. /\ n \in Pending /\ n # NoNode /\ node[n].status = "pending" /\ node[n].lb \in Bounds
      /\ n \in ToSet(stack[w]) /\ n \notin queue[w]
      /\ ToSet(Tail(stack[w])) = ToSet(stack[w]) \ {n}
      /\ Tail(stack[w]) \in Seq(Nodes) /\ Len(Tail(stack[w])) <= 1
      /\ \A i, j \in 1..Len(Tail(stack[w])) : Tail(stack[w])[i] = Tail(stack[w])[j] => i = j
  BY <1>3, <1>4, TopFacts
<1>6. /\ stack \in [Workers -> Seq(Nodes)] /\ wlb \in [Workers -> Bounds] /\ unexplored \in Int
      /\ \A v \in Workers : Len(stack[v]) <= 2
      /\ hand \in [Workers -> Nodes \cup {NoNode}] /\ cutoff \in [Workers -> -1..Infinity]
      /\ upper \in Bounds
  BY <1>1 DEF CoreType
<1>7. wlb' \in [Workers -> Bounds]
  BY <1>4, <1>5, <1>6 DEF Take
<1>8. /\ queue[w] \cap ToSet(stack[w]) = {} /\ NoNode \notin queue[w] /\ NoNode \notin ToSet(stack[w])
  BY MineFacts DEF Sorted
<1>9. ASSUME stack' = [stack EXCEPT ![w] = Tail(@)]
      PROVE  /\ stack' \in [Workers -> Seq(Nodes)] /\ stack'[w] = Tail(stack[w])
             /\ \A v \in Workers \ {w} : stack'[v] = stack[v]
             /\ \A v \in Workers : Len(stack'[v]) <= 2
             /\ Len(stack'[w]) <= 1
             /\ ToSet(stack'[w]) = ToSet(stack[w]) \ {n}
             /\ \A i, j \in 1..Len(stack'[w]) : stack'[w][i] = stack'[w][j] => i = j
  <2>1. /\ stack' \in [Workers -> Seq(Nodes)] /\ stack'[w] = Tail(stack[w])
        /\ \A v \in Workers \ {w} : stack'[v] = stack[v]
    BY <1>5, <1>6, <1>9
  <2>2. Len(stack'[w]) <= 1 /\ Len(stack'[w]) \in Nat
    BY <1>5, <2>1
  <2>3. \A v \in Workers : Len(stack'[v]) <= 2
    <3>1. \A v \in Workers \ {w} : Len(stack'[v]) <= 2
      BY <1>6, <2>1
    <3> QED BY <2>2, <3>1
  <2> QED BY <1>5, <2>1, <2>2, <2>3
<1>10. ASSUME node' = Closed(n, node[n].lb), unexplored' = unexplored - 1,
              stack' = [stack EXCEPT ![w] = Tail(@)],
              Goto(w, PlungeNext(w, Tail(stack[w]), closed[w])),
              UNCHANGED <<status, halt, hand>>
       PROVE  HoldInv'
  <2>1. PICK p \in {"flush", "launch", "take"} :
           Goto(w, p) /\ (p # "flush" => Tail(stack[w]) # << >>)
    BY <1>10, PlungeNextFacts
  <2>2. p \in Points
    BY DEF Points
  <2>3. /\ pc' \in [Threads -> Points] /\ pc'[w] = p
        /\ \A u \in Threads \ {w} : pc'[u] = pc[u]
    BY <1>1, <2>1, <2>2, GotoFacts
  <2>4. NodeType' /\ TreeShape' /\ Pending' = Pending \ {n}
    BY <1>1, <1>2, <1>5, <1>10, ClosedKeepsShape
  <2>5. CoreType'
    <3>1. unexplored' \in Int
      BY <1>6, <1>10
    <3> QED BY <1>1, <1>2, <1>7, <1>9, <1>10, <2>3, <3>1, SetsStay
        DEF CoreType
  <2>6. HeldInv'
    <3>1. /\ Mine(w) = queue[w] \cup ToSet(stack[w])
          /\ Mine(w)' = queue[w] \cup ToSet(stack'[w])
      BY <1>2, <1>3, <1>10 DEF Mine, NoNode
    <3>2. Sorted(w)'
      BY <1>2, <1>3, <1>8, <1>9, <1>10 DEF Sorted
    <3>3. n \in Mine(w) /\ Mine(w)' = Mine(w) \ {n}
      BY <3>1, <1>5, <1>9, <1>10
    <3> QED BY <1>1, <1>2, <1>9, <1>10, <2>4, <3>2, <3>3, HeldLess
  <2>7. WorkerInv(w)'
    <3>1. Plunging(w)' /\ ~Busy(w)'
      BY <2>3 DEF Leafing, Busy, Plunging
    <3> QED BY <3>1, <1>3, <1>9, <1>10, <2>1, <2>3 DEF WorkerInv, NoNode
  <2> QED BY <1>1, <1>2, <1>9, <1>10, <2>1, <2>3, <2>4, <2>5, <2>6, <2>7, OneWorkerStep
<1>11. ASSUME status' = limit, limit # "none", halt' = (halt \/ limit = "HALT"),
              Goto(w, "flush"), UNCHANGED <<node, unexplored, stack, hand>>
       PROVE  HoldInv'
  <2>1. /\ pc' \in [Threads -> Points] /\ pc'[w] = "flush"
        /\ \A u \in Threads \ {w} : pc'[u] = pc[u]
    BY <1>1, <1>11, GotoFacts
  <2>2. status' \in Statuses
    BY <1>1, <1>11, LimitFacts DEF Statuses
  <2>3. halt' \in BOOLEAN
    BY <1>11
  <2>4. CoreType'
    BY <1>1, <1>2, <1>7, <1>11, <2>1, <2>2, <2>3, SetsStay
    DEF CoreType
  <2>5. WorkerInv(w)'
    BY <1>1, <1>2, <1>11, <2>1 DEF WorkerInv, Leafing, Busy, Plunging
  <2> QED BY <1>1, <1>2, <1>11, <2>1, <2>4, <2>5, QuietStep
<1>12. ASSUME stack' = [stack EXCEPT ![w] = Tail(@)], hand' = [hand EXCEPT ![w] = n],
              Goto(w, "lp"), UNCHANGED <<node, unexplored, status, halt>>
       PROVE  HoldInv'
  <2>1. /\ pc' \in [Threads -> Points] /\ pc'[w] = "lp"
        /\ \A u \in Threads \ {w} : pc'[u] = pc[u]
    BY <1>1, <1>12, GotoFacts
  <2>2. /\ hand' \in [Workers -> Nodes \cup {NoNode}] /\ hand'[w] = n
        /\ \A v \in Workers \ {w} : hand'[v] = hand[v]
    BY <1>6, <1>12
  <2>4. NodeType' /\ TreeShape' /\ Pending' = Pending
    BY <1>1, <1>2, <1>12, TreeFrame
  <2>5. CoreType'
    BY <1>1, <1>2, <1>7, <1>9, <1>12, <2>1, <2>2, SetsStay
    DEF CoreType
  <2>6. HeldInv'
    <3>1. /\ Mine(w) = queue[w] \cup ToSet(stack[w])
          /\ Mine(w)' = queue[w] \cup ToSet(stack'[w]) \cup {n}
      BY <1>2, <1>3, <1>5, <2>2 DEF Mine, NoNode
    <3>2. Sorted(w)'
      BY <1>2, <1>5, <1>8, <1>9, <1>12, <2>2 DEF Sorted
    <3>3. Mine(w)' = Mine(w)
      BY <3>1, <1>5, <1>9, <1>12
    <3> QED BY <1>1, <1>2, <1>9, <1>12, <2>2, <2>4, <3>2, <3>3, HeldSame
  <2>7. WorkerInv(w)'
    <3>1. Plunging(w)' /\ Busy(w)'
      BY <2>1 DEF Leafing, Busy, Plunging
    <3> QED BY <3>1, <1>5, <1>9, <1>12, <2>1, <2>2 DEF WorkerInv, NoNode
  <2> QED BY <1>1, <1>2, <1>9, <1>12, <2>1, <2>2, <2>4, <2>5, <2>6, <2>7, OneWorkerStep
<1> QED BY <1>4, <1>10, <1>11, <1>12 DEF Take

(* solve_node_lp begins. *)
LEMMA SolveNodeLpHolds ==
  ASSUME HoldInv, NEW w \in Workers, SolveNodeLp(w)
  PROVE  HoldInv'
<1> USE DEF workerVars, statusVars, countVars, localVars, envVars
<1>1. /\ CoreType /\ w \in Threads /\ pc[w] = "lp" /\ WorkerInv(w) /\ "solve" \in Points
      /\ upper \in Bounds /\ cutoff \in [Workers -> -1..Infinity]
  BY TypeSplit, ConstantFacts DEF HoldInv, SolveNodeLp, Points, CoreType
<1>2. /\ pc' \in [Threads -> Points] /\ pc'[w] = "solve"
      /\ \A u \in Threads \ {w} : pc'[u] = pc[u]
  BY <1>1, GotoFacts DEF SolveNodeLp
<1>3. cutoff' \in [Workers -> -1..Infinity]
  <2>1. NodeCutoff(upper) \in -1..Infinity
    BY <1>1, ConstantFacts DEF NodeCutoff, Bounds
  <2> QED BY <1>1, <2>1 DEF SolveNodeLp
<1>4. CoreType'
  BY <1>1, <1>2, <1>3, SetsStay DEF CoreType, SolveNodeLp
<1>5. WorkerInv(w)'
  BY <1>1, <1>2 DEF WorkerInv, SolveNodeLp, Leafing, Busy, Plunging
<1> QED BY <1>1, <1>2, <1>4, <1>5, QuietStep DEF SolveNodeLp

(* The flush at the end of a plunge. *)
LEMMA FlushHolds ==
  ASSUME HoldInv, NEW w \in Workers, Flush(w)
  PROVE  HoldInv'
<1> USE DEF workerVars, statusVars, countVars, localVars, envVars
<1>1. /\ CoreType /\ NodeType /\ TreeShape /\ HeldInv /\ tree \in Trees
      /\ w \in Threads /\ pc[w] = "flush" /\ WorkerInv(w) /\ ScanThen(w, "bfs_gap")
  BY TypeSplit, ConstantFacts DEF HoldInv, Flush, CoreType
<1>2. UNCHANGED <<tree, node, active, idle, upper, incumbent, status, running, lb_numerical,
                  explored, unexplored, leaving, hand, cutoff, closed, other, sol, solutions,
                  limit, final, verdict>>
  BY DEF Flush
<1>3. hand[w] = NoNode
  BY <1>1 DEF WorkerInv, Busy, Leafing
<1>4. /\ ToSet(stack[w]) \subseteq Nodes /\ NoNode \notin queue[w] /\ NoNode \notin ToSet(stack[w])
  BY MineFacts
<1>5. /\ queue \in [Workers -> SUBSET Nodes] /\ stack \in [Workers -> Seq(Nodes)]
      /\ wlb \in [Workers -> Bounds] /\ \A v \in Workers : Len(stack[v]) <= 2
  BY <1>1 DEF CoreType
<1>6. /\ scan' \in Scans /\ pc' \in [Threads -> Points]
      /\ pc'[w] = "scan" /\ scan'[w].ret = "bfs_gap"
      /\ \A u \in Threads \ {w} : pc'[u] = pc[u] /\ scan'[u] = scan[u]
  BY <1>1, ScanThenFacts
<1>7. /\ queue' \in [Workers -> SUBSET Nodes] /\ queue'[w] = queue[w] \cup ToSet(stack[w])
      /\ \A v \in Workers \ {w} : queue'[v] = queue[v]
  BY <1>4, <1>5 DEF Flush
<1>8. /\ stack' \in [Workers -> Seq(Nodes)] /\ stack'[w] = << >>
      /\ \A v \in Workers \ {w} : stack'[v] = stack[v]
  BY <1>5 DEF Flush
<1>9. \A v \in Workers : Len(stack'[v]) <= 2
  <2>1. Len(stack'[w]) = 0
    BY <1>8
  <2> QED BY <2>1, <1>5, <1>8
<1>10. wlb' \in [Workers -> Bounds] /\ halt' \in BOOLEAN
  <2>1. wlb' \in [Workers -> Bounds]
    BY <1>5, ConstantFacts DEF Flush
  <2>2. halt' \in BOOLEAN
    BY DEF Flush
  <2> QED BY <2>1, <2>2
<1>11. CoreType'
  BY <1>1, <1>2, <1>6, <1>7, <1>8, <1>9, <1>10, SetsStay
  DEF CoreType
<1>12. NodeType' /\ TreeShape' /\ Pending' = Pending
  BY <1>1, <1>2, TreeFrame
<1>13. ToSet(stack'[w]) = {}
  BY <1>8, StackFacts
<1>14. HeldInv'
  <2>1. Mine(w)' = Mine(w)
    BY <1>2, <1>3, <1>7, <1>13 DEF Mine, NoNode
  <2>2. Sorted(w)'
    BY <1>2, <1>3, <1>4, <1>7, <1>8, <1>13 DEF Sorted
  <2> QED BY <1>1, <1>2, <1>7, <1>8, <1>12, <2>1, <2>2, HeldSame
<1>15. WorkerInv(w)'
  <2>1. ~Plunging(w)' /\ ~Busy(w)'
    BY <1>6 DEF Leafing, Busy, Plunging
  <2> QED BY <2>1, <1>2, <1>3, <1>6, <1>8 DEF WorkerInv, NoNode
<1> QED BY <1>1, <1>2, <1>6, <1>7, <1>8, <1>11, <1>12, <1>14, <1>15, OneWorkerStep

(* The node in the hands of a worker. *)
LEMMA HandFacts ==
  ASSUME HoldInv, NEW w \in Workers, Busy(w)
  PROVE  /\ hand[w] \in Pending /\ hand[w] \in Nodes /\ hand[w] # NoNode
         /\ hand[w] \in DOMAIN tree /\ node[hand[w]].status = "pending"
         /\ node[hand[w]].lb \in Bounds /\ node[hand[w]].lb < Infinity
         /\ hand[w] \notin queue[w] /\ hand[w] \notin ToSet(stack[w]) /\ Len(stack[w]) <= 1
         /\ tree[hand[w]].obj \in Bounds
<1>1. hand[w] # NoNode /\ Len(stack[w]) <= 1
  BY DEF HoldInv, WorkerInv
<1>2. hand[w] \in Pending
  BY <1>1, MineFacts
<1>3. /\ hand[w] \in Nodes /\ hand[w] \in DOMAIN tree /\ node[hand[w]].status = "pending"
      /\ node[hand[w]].lb \in Bounds /\ node[hand[w]].lb < Infinity
  BY <1>2, MineFacts
<1>4. hand[w] \notin queue[w] /\ hand[w] \notin ToSet(stack[w])
  BY MineFacts DEF Sorted
<1>5. tree[hand[w]].obj \in Bounds
  <2>1. tree \in Trees
    BY TypeSplit DEF HoldInv, CoreType
  <2> QED BY <1>3, <2>1, TreeFacts DEF Bounds
<1> QED BY <1>1, <1>2, <1>3, <1>4, <1>5

(* The node in the hands of a worker closes. *)
LEMMA HandCloses ==
  ASSUME HoldInv, NEW w \in Workers, Busy(w), NEW b \in Bounds, node' = Closed(hand[w], b),
         hand' = [hand EXCEPT ![w] = NoNode], UNCHANGED <<tree, queue, stack>>
  PROVE  /\ NodeType' /\ TreeShape' /\ HeldInv'
         /\ hand' \in [Workers -> Nodes \cup {NoNode}] /\ hand'[w] = NoNode
         /\ \A v \in Workers \ {w} : hand'[v] = hand[v]
<1>1. CoreType /\ NodeType /\ TreeShape /\ HeldInv /\ tree \in Trees
  BY TypeSplit DEF HoldInv, CoreType
<1>2. PICK n \in Nodes : n = hand[w]
  BY HandFacts
<1>3. /\ n \in Pending /\ n # NoNode /\ node[n].status = "pending"
      /\ n \notin queue[w] /\ n \notin ToSet(stack[w])
  BY <1>2, HandFacts
<1>4. NodeType' /\ TreeShape' /\ Pending' = Pending \ {n}
  BY <1>1, <1>2, <1>3, ClosedKeepsShape
<1>5. /\ hand' \in [Workers -> Nodes \cup {NoNode}] /\ hand'[w] = NoNode
      /\ \A v \in Workers \ {w} : hand'[v] = hand[v]
  BY <1>1 DEF CoreType
<1>6. HeldInv'
  <2>1. /\ Mine(w) = queue[w] \cup ToSet(stack[w]) \cup {n}
        /\ Mine(w)' = queue[w] \cup ToSet(stack[w])
    BY <1>2, <1>3, <1>5 DEF Mine, NoNode
  <2>2. Sorted(w) /\ NoNode \notin queue[w] /\ NoNode \notin ToSet(stack[w])
    BY MineFacts
  <2>3. Sorted(w)'
    BY <1>5, <2>2 DEF Sorted
  <2>4. n \in Mine(w) /\ Mine(w)' = Mine(w) \ {n}
    BY <2>1, <1>3
  <2> QED BY <1>1, <1>4, <1>5, <2>3, <2>4, HeldLess
<1> QED BY <1>4, <1>5, <1>6

(* The LP solve of a worker is interrupted. *)
LEMMA LpInterruptedHolds ==
  ASSUME HoldInv, NEW w \in Workers, LpInterrupted(w)
  PROVE  HoldInv'
<1> USE DEF workerVars, statusVars, countVars, localVars, envVars
<1>1. /\ CoreType /\ NodeType /\ TreeShape /\ HeldInv /\ tree \in Trees
      /\ w \in Threads /\ pc[w] = "solve" /\ WorkerInv(w) /\ Busy(w)
      /\ Goto(w, "flush") /\ "flush" \in Points
  BY TypeSplit, ConstantFacts DEF HoldInv, LpInterrupted, Solving, Busy, CoreType, Points
<1>2. UNCHANGED <<tree, node, queue, wlb, active, idle, upper, incumbent, running, halt,
                  lb_numerical, leaving, closed, other, scan, sol, solutions, limit, final,
                  verdict>>
  BY DEF LpInterrupted
<1>3. PICK n \in Nodes : n = hand[w]
  BY <1>1, HandFacts
<1>4. /\ n \in Pending /\ n # NoNode /\ n \notin queue[w] /\ n \notin ToSet(stack[w])
      /\ Len(stack[w]) <= 1
  BY <1>1, <1>3, HandFacts
<1>5. /\ stack \in [Workers -> Seq(Nodes)] /\ \A v \in Workers : Len(stack[v]) <= 2
      /\ hand \in [Workers -> Nodes \cup {NoNode}] /\ cutoff \in [Workers -> -1..Infinity]
      /\ unexplored \in Int
  BY <1>1 DEF CoreType
<1>6. Sorted(w) /\ NoNode \notin queue[w] /\ NoNode \notin ToSet(stack[w])
  BY MineFacts
<1> DEFINE u == <<n>> \o stack[w]
<1>7. /\ u \in Seq(Nodes) /\ ToSet(u) = {n} \cup ToSet(stack[w]) /\ Len(u) <= 2
      /\ \A i, j \in 1..Len(u) : u[i] = u[j] => i = j
  <2>1. stack[w] \in Seq(Nodes) /\ \A i, j \in 1..Len(stack[w]) : stack[w][i] = stack[w][j] => i = j
    BY <1>5, <1>6 DEF Sorted
  <2> QED BY <1>4, <2>1, StackPush
<1>8. stack' = [stack EXCEPT ![w] = u] /\ hand' = [hand EXCEPT ![w] = NoNode]
  BY <1>3 DEF LpInterrupted
<1> HIDE DEF u
<1>9. /\ stack' \in [Workers -> Seq(Nodes)] /\ stack'[w] = u
      /\ hand' \in [Workers -> Nodes \cup {NoNode}] /\ hand'[w] = NoNode
      /\ \A v \in Workers \ {w} : hand'[v] = hand[v] /\ stack'[v] = stack[v]
  BY <1>5, <1>7, <1>8
<1>10. \A v \in Workers : Len(stack'[v]) <= 2
  <2>1. \A v \in Workers \ {w} : Len(stack'[v]) <= 2
    BY <1>5, <1>9
  <2> QED BY <1>7, <1>9, <2>1
<1>11. /\ pc' \in [Threads -> Points] /\ pc'[w] = "flush"
       /\ \A t \in Threads \ {w} : pc'[t] = pc[t]
  BY <1>1, GotoFacts
<1>12. status' \in Statuses
  BY <1>1 DEF LpInterrupted, Statuses, CoreType
<1>13. cutoff' \in [Workers -> -1..Infinity] /\ unexplored' \in Int /\ explored' = TRUE
  BY <1>5, ConstantFacts DEF LpInterrupted, Solved
<1>14. CoreType'
  BY <1>1, <1>2, <1>9, <1>10, <1>11, <1>12, <1>13, SetsStay
  DEF CoreType
<1>15. NodeType' /\ TreeShape' /\ Pending' = Pending
  BY <1>1, <1>2, TreeFrame
<1>16. HeldInv'
  <2>1. Mine(w)' = Mine(w)
    BY <1>2, <1>3, <1>4, <1>7, <1>9 DEF Mine, NoNode
  <2>2. Sorted(w)'
    BY <1>2, <1>4, <1>6, <1>7, <1>9 DEF Sorted
  <2> QED BY <1>1, <1>2, <1>9, <1>15, <2>1, <2>2, HeldSame
<1>17. WorkerInv(w)'
  <2>1. Plunging(w)' /\ ~Busy(w)'
    BY <1>11 DEF Leafing, Busy, Plunging
  <2> QED BY <2>1, <1>9, <1>11 DEF WorkerInv, NoNode
<1> QED BY <1>1, <1>2, <1>9, <1>11, <1>14, <1>15, <1>16, <1>17, OneWorkerStep

(* The bounds a solved node may close with are bounds. *)
LEMMA ClosingBoundsFacts ==
  ASSUME HoldInv, NEW w \in Workers, pc[w] = "solve"
  PROVE  ClosingBounds(w) \subseteq Bounds
<1>1. Busy(w) /\ upper \in Bounds
  BY TypeSplit DEF HoldInv, CoreType, Busy
<1>2. node[hand[w]].lb \in Bounds /\ tree[hand[w]].obj \in Bounds
  BY <1>1, HandFacts
<1> QED BY <1>1, <1>2, ConstantFacts DEF ClosingBounds, CutoffBound, Lp

(* A solved node needs no children. *)
LEMMA LpClosesHolds ==
  ASSUME HoldInv, NEW w \in Workers, LpCloses(w)
  PROVE  HoldInv'
<1> USE DEF workerVars, statusVars, countVars, localVars, envVars
<1>1. /\ CoreType /\ NodeType /\ TreeShape /\ HeldInv /\ tree \in Trees
      /\ w \in Threads /\ pc[w] = "solve" /\ WorkerInv(w) /\ Busy(w)
      /\ Goto(w, "scan") /\ "scan" \in Points
  BY TypeSplit, ConstantFacts DEF HoldInv, LpCloses, Solving, Busy, CoreType, Points
<1>2. UNCHANGED <<tree, queue, wlb, active, idle, upper, incumbent, status, running, halt,
                  leaving, stack, closed, other, sol, solutions, limit, final, verdict>>
  BY DEF LpCloses
<1>3. PICK b \in Bounds : node' = Closed(hand[w], b)
  BY <1>1, ClosingBoundsFacts DEF LpCloses
<1>4. /\ NodeType' /\ TreeShape' /\ HeldInv'
      /\ hand' \in [Workers -> Nodes \cup {NoNode}] /\ hand'[w] = NoNode
      /\ \A v \in Workers \ {w} : hand'[v] = hand[v]
  <2>1. hand' = [hand EXCEPT ![w] = NoNode]
    BY DEF LpCloses
  <2> QED BY <1>1, <1>2, <1>3, <2>1, HandCloses
<1>5. lb_numerical' \in Bounds
  <2>1. lb_numerical \in Bounds /\ node[hand[w]].lb \in Bounds
    BY <1>1, HandFacts DEF CoreType
  <2>2. Min({lb_numerical, node[hand[w]].lb}) \in Bounds
    BY <2>1, MinBounds
  <2> QED BY <2>1, <2>2 DEF LpCloses
<1>6. /\ scan' \in Scans /\ scan'[w].ret = "plunge"
      /\ \A t \in Threads \ {w} : scan'[t] = scan[t]
  <2>1. scan' = [scan EXCEPT ![w] = [i |-> 1, part |-> 1, lb |-> lb_numerical', ret |-> "plunge"]]
    BY DEF LpCloses
  <2>2. [i |-> 1, part |-> 1, lb |-> lb_numerical', ret |-> "plunge"] \in
          [i : 1..(NumWorkers + 1), part : {1, 2}, lb : Bounds,
           ret : {"enter", "bfs", "plunge", "bfs_gap", "accepted"}]
    BY <1>5, ConstantFacts
  <2> QED BY <1>1, <2>1, <2>2 DEF CoreType, Scans
<1>7. /\ pc' \in [Threads -> Points] /\ pc'[w] = "scan"
      /\ \A t \in Threads \ {w} : pc'[t] = pc[t]
  BY <1>1, GotoFacts
<1>8. cutoff' \in [Workers -> -1..Infinity] /\ unexplored' \in Int /\ explored' = TRUE
  BY <1>1, ConstantFacts DEF LpCloses, Solved, CoreType
<1>9. CoreType'
  BY <1>1, <1>2, <1>4, <1>5, <1>6, <1>7, <1>8, SetsStay
  DEF CoreType
<1>10. WorkerInv(w)'
  <2>1. Plunging(w)' /\ ~Busy(w)'
    BY <1>6, <1>7 DEF Leafing, Busy, Plunging
  <2> QED BY <2>1, <1>4, <1>7 DEF WorkerInv, NoNode
<1> QED BY <1>1, <1>2, <1>4, <1>6, <1>7, <1>9, <1>10, OneWorkerStep

(* The node of an integer solution closes. *)
LEMMA CloseLeafHolds ==
  ASSUME HoldInv, NEW w \in Workers, CloseLeaf(w)
  PROVE  HoldInv'
<1> USE DEF workerVars, statusVars, countVars, localVars, envVars
<1>1. /\ CoreType /\ NodeType /\ TreeShape /\ HeldInv /\ tree \in Trees
      /\ w \in Threads /\ pc[w] = "close" /\ WorkerInv(w) /\ Busy(w) /\ ScanThen(w, "plunge")
  BY TypeSplit, ConstantFacts DEF HoldInv, CloseLeaf, Busy, Leafing, CoreType
<1>2. UNCHANGED <<tree, queue, wlb, active, idle, upper, incumbent, status, running, halt,
                  lb_numerical, explored, unexplored, leaving, stack, cutoff, closed, other, sol,
                  solutions, limit, final, verdict>>
  BY DEF CloseLeaf
<1>3. PICK b \in Bounds : node' = Closed(hand[w], b)
  BY <1>1, HandFacts DEF CloseLeaf
<1>4. /\ NodeType' /\ TreeShape' /\ HeldInv'
      /\ hand' \in [Workers -> Nodes \cup {NoNode}] /\ hand'[w] = NoNode
      /\ \A v \in Workers \ {w} : hand'[v] = hand[v]
  <2>1. hand' = [hand EXCEPT ![w] = NoNode]
    BY DEF CloseLeaf
  <2> QED BY <1>1, <1>2, <1>3, <2>1, HandCloses
<1>5. /\ scan' \in Scans /\ pc' \in [Threads -> Points]
      /\ pc'[w] = "scan" /\ scan'[w].ret = "plunge"
      /\ \A u \in Threads \ {w} : pc'[u] = pc[u] /\ scan'[u] = scan[u]
  BY <1>1, ScanThenFacts
<1>6. CoreType'
  BY <1>1, <1>2, <1>4, <1>5, SetsStay
  DEF CoreType
<1>7. WorkerInv(w)'
  <2>1. Plunging(w)' /\ ~Busy(w)'
    BY <1>5 DEF Leafing, Busy, Plunging
  <2> QED BY <2>1, <1>4, <1>5 DEF WorkerInv, NoNode
<1> QED BY <1>1, <1>2, <1>4, <1>5, <1>6, <1>7, OneWorkerStep

(* A solved node is an integer point. *)
LEMMA LpIsIntegerHolds ==
  ASSUME HoldInv, NEW w \in Workers, LpIsInteger(w)
  PROVE  HoldInv'
<1> USE DEF workerVars, statusVars, countVars, localVars, envVars
<1>1. /\ CoreType /\ NodeType /\ TreeShape /\ HeldInv /\ tree \in Trees
      /\ w \in Threads /\ pc[w] = "solve" /\ WorkerInv(w) /\ Busy(w)
      /\ Goto(w, "accept") /\ "accept" \in Points
  BY TypeSplit, ConstantFacts DEF HoldInv, LpIsInteger, Solving, Busy, CoreType, Points
<1>2. UNCHANGED <<tree, queue, wlb, active, idle, upper, incumbent, status, running, halt,
                  lb_numerical, leaving, stack, hand, closed, other, scan, solutions, limit,
                  final, verdict>>
  BY DEF LpIsInteger
<1>3. PICK n \in Nodes : n = hand[w]
  BY <1>1, HandFacts
<1>4. node[n].status = "pending" /\ tree[n].obj \in Bounds
  BY <1>1, <1>3, HandFacts
<1>5. NodeType' /\ TreeShape' /\ Pending' = Pending
  <2>1. tree[n].kind = "int" /\ node' = [node EXCEPT ![n].lb = tree[n].obj]
    BY <1>3 DEF LpIsInteger, Lp
  <2> QED BY <1>1, <1>2, <1>4, <2>1, PointKeepsShape
<1>6. /\ pc' \in [Threads -> Points] /\ pc'[w] = "accept"
      /\ \A t \in Threads \ {w} : pc'[t] = pc[t]
  BY <1>1, GotoFacts
<1>7. cutoff' \in [Workers -> -1..Infinity] /\ unexplored' \in Int /\ explored' = TRUE
  <2>1. Solved(w)
    BY DEF LpIsInteger
  <2> QED BY <1>1, <2>1, ConstantFacts DEF Solved, CoreType
<1>8. sol' \in [Threads -> Bounds]
  BY <1>1, <1>3, <1>4 DEF LpIsInteger, Lp, CoreType
<1>9. CoreType'
  BY <1>1, <1>2, <1>6, <1>7, <1>8, SetsStay
  DEF CoreType
<1>10. HeldInv'
  <2>1. \A v \in Workers : Mine(v)' = Mine(v)
    BY <1>2 DEF Mine, NoNode
  <2>2. \A v \in Workers : Sorted(v)' <=> Sorted(v)
    BY <1>2 DEF Sorted
  <2>3. UNION {Mine(v)' : v \in Workers} = UNION {Mine(v) : v \in Workers}
    BY <2>1
  <2>4. Pending' = UNION {Mine(v)' : v \in Workers}
    BY <1>1, <1>5, <2>3 DEF HeldInv
  <2>5. \A u, v \in Workers : u # v => Mine(u)' \cap Mine(v)' = {}
    BY <1>1, <2>1 DEF HeldInv
  <2>6. \A v \in Workers : Sorted(v)'
    BY <1>1, <2>2 DEF HeldInv
  <2> QED BY <2>4, <2>5, <2>6, SetsStay DEF HeldInv
<1>11. WorkerInv(w)'
  <2>1. Plunging(w)' /\ Busy(w)'
    BY <1>6 DEF Leafing, Busy, Plunging
  <2> QED BY <2>1, <1>1, <1>2, <1>6 DEF WorkerInv, NoNode
<1> QED BY <1>1, <1>2, <1>5, <1>6, <1>9, <1>10, <1>11, OneWorkerStep

(* A node has two children, each other's siblings. *)
LEMMA ChildrenFacts ==
  ASSUME NEW n \in Nat, NEW c \in Children(n)
  PROVE  {c, Sibling(c)} = {2 * n, 2 * n + 1} /\ c # Sibling(c)
  BY DEF Children, Sibling

(* Where a worker puts the children of the node it has branched on. *)
LEMMA LpBranchesFacts ==
  ASSUME HoldInv, NEW w \in Workers, LpBranches(w), NEW n, n = hand[w]
  PROVE  /\ \E c, d \in {2 * n, 2 * n + 1} :
              /\ c # d /\ {c, d} = {2 * n, 2 * n + 1}
              /\ \/ /\ queue'[w] = queue[w] \cup ToSet(stack[w]) \cup {d}
                    /\ stack'[w] = <<c>>
                 \/ /\ queue'[w] = queue[w] \cup ToSet(stack[w])
                    /\ stack'[w] = <<c, d>>
         /\ tree[n].kind = "frac" /\ node' = Branched(n, tree[n].obj)
         /\ \A v \in Workers \ {w} : queue'[v] = queue[v] /\ stack'[v] = stack[v]
         /\ DOMAIN queue' = Workers /\ DOMAIN stack' = Workers
<1>1. n \in Nodes
  <2>1. Busy(w)
    BY DEF LpBranches, Solving, Busy
  <2> QED BY <2>1, HandFacts
<1>2. /\ queue \in [Workers -> SUBSET Nodes] /\ stack \in [Workers -> Seq(Nodes)]
      /\ tree \in Trees
  BY TypeSplit DEF HoldInv, CoreType
<1>3. n \in Nat
  BY <1>1, <1>2, TreeFacts
<1>4. PICK c \in Children(n) :
         \/ /\ queue' = [queue EXCEPT ![w] = queue[w] \cup ToSet(stack[w]) \cup {Sibling(c)}]
            /\ stack' = [stack EXCEPT ![w] = <<c>>]
         \/ /\ queue' = [queue EXCEPT ![w] = queue[w] \cup ToSet(stack[w])]
            /\ stack' = [stack EXCEPT ![w] = <<c, Sibling(c)>>]
  BY <1>1 DEF LpBranches
<1>5. c # Sibling(c) /\ {c, Sibling(c)} = {2 * n, 2 * n + 1}
  BY <1>3, ChildrenFacts
<1>6. tree[n].kind = "frac" /\ node' = Branched(n, tree[n].obj)
  BY <1>1 DEF LpBranches, Lp
<1>7. /\ \/ /\ queue'[w] = queue[w] \cup ToSet(stack[w]) \cup {Sibling(c)}
            /\ stack'[w] = <<c>>
         \/ /\ queue'[w] = queue[w] \cup ToSet(stack[w])
            /\ stack'[w] = <<c, Sibling(c)>>
      /\ \A v \in Workers \ {w} : queue'[v] = queue[v] /\ stack'[v] = stack[v]
      /\ DOMAIN queue' = Workers /\ DOMAIN stack' = Workers
  BY <1>2, <1>4
<1> QED BY <1>1, <1>5, <1>6, <1>7

(* A solved node is branched on. *)
LEMMA LpBranchesHolds ==
  ASSUME HoldInv, NEW w \in Workers, LpBranches(w)
  PROVE  HoldInv'
<1> USE DEF workerVars, statusVars, countVars, localVars, envVars
<1>1. /\ CoreType /\ NodeType /\ TreeShape /\ HeldInv /\ tree \in Trees
      /\ w \in Threads /\ pc[w] = "solve" /\ WorkerInv(w) /\ Busy(w) /\ ScanThen(w, "plunge")
  BY TypeSplit, ConstantFacts DEF HoldInv, LpBranches, Solving, Busy, CoreType
<1>2. UNCHANGED <<tree, wlb, active, idle, upper, incumbent, status, running, halt, lb_numerical,
                  leaving, closed, other, sol, solutions, limit, final, verdict>>
  BY DEF LpBranches
<1>3. PICK n \in Nodes : n = hand[w]
  BY <1>1, HandFacts
<1>4. /\ n \in Pending /\ n # NoNode /\ n \notin queue[w] /\ n \notin ToSet(stack[w])
      /\ node[n].status = "pending"
  BY <1>1, <1>3, HandFacts
<1>5. PICK c \in {2 * n, 2 * n + 1}, d \in {2 * n, 2 * n + 1} :
         /\ c # d /\ {c, d} = {2 * n, 2 * n + 1}
         /\ \/ /\ queue'[w] = queue[w] \cup ToSet(stack[w]) \cup {d}
               /\ stack'[w] = <<c>>
            \/ /\ queue'[w] = queue[w] \cup ToSet(stack[w])
               /\ stack'[w] = <<c, d>>
  BY <1>3, LpBranchesFacts
<1>6. /\ tree[n].kind = "frac" /\ node' = Branched(n, tree[n].obj)
      /\ \A v \in Workers \ {w} : queue'[v] = queue[v] /\ stack'[v] = stack[v]
      /\ DOMAIN queue' = Workers /\ DOMAIN stack' = Workers
  BY <1>3, LpBranchesFacts
<1>7. /\ NodeType' /\ TreeShape'
      /\ {2 * n, 2 * n + 1} \subseteq Nodes /\ {2 * n, 2 * n + 1} \cap Pending = {}
      /\ Pending' = (Pending \ {n}) \cup {2 * n, 2 * n + 1}
  BY <1>1, <1>2, <1>4, <1>6, BranchedKeepsShape
<1>8. /\ c \in Nodes /\ d \in Nodes /\ c \notin Pending /\ d \notin Pending
      /\ Pending' = (Pending \ {n}) \cup {c, d}
  BY <1>5, <1>7
<1>9. /\ queue \in [Workers -> SUBSET Nodes] /\ stack \in [Workers -> Seq(Nodes)]
      /\ hand \in [Workers -> Nodes \cup {NoNode}] /\ \A v \in Workers : Len(stack[v]) <= 2
      /\ cutoff \in [Workers -> -1..Infinity] /\ unexplored \in Int
  BY <1>1 DEF CoreType
<1>10. /\ queue[w] \subseteq Pending /\ ToSet(stack[w]) \subseteq Pending /\ NoNode \notin Pending
       /\ Pending \subseteq Nodes
  BY MineFacts
<1>11. hand' = [hand EXCEPT ![w] = NoNode]
  BY DEF LpBranches
<1>12. /\ hand' \in [Workers -> Nodes \cup {NoNode}] /\ hand'[w] = NoNode
       /\ \A v \in Workers \ {w} : hand'[v] = hand[v]
  BY <1>9, <1>11
<1>13. /\ stack'[w] \in Seq(Nodes) /\ stack'[w] # << >> /\ Len(stack'[w]) <= 2
       /\ \A i, j \in 1..Len(stack'[w]) : stack'[w][i] = stack'[w][j] => i = j
       /\ queue'[w] \cap ToSet(stack'[w]) = {}
       /\ queue'[w] \cup ToSet(stack'[w]) = queue[w] \cup ToSet(stack[w]) \cup {c, d}
  <2>1. CASE /\ queue'[w] = queue[w] \cup ToSet(stack[w]) \cup {d}
             /\ stack'[w] = <<c>>
    <3>1. ToSet(stack'[w]) = {c}
      BY <2>1, StackFacts
    <3>2. Len(<<c>>) = 1 /\ <<c>> \in Seq(Nodes) /\ <<c>> # << >>
      BY <1>8
    <3>3. \A i, j \in 1..Len(stack'[w]) : i = j
      BY <2>1, <3>2
    <3> QED BY <2>1, <3>1, <3>2, <3>3, <1>5, <1>8, <1>10
  <2>2. CASE /\ queue'[w] = queue[w] \cup ToSet(stack[w])
             /\ stack'[w] = <<c, d>>
    <3>1. ToSet(stack'[w]) = {c, d}
      BY <2>2, StackFacts
    <3>2. Len(<<c, d>>) = 2 /\ <<c, d>> \in Seq(Nodes) /\ <<c, d>> # << >>
      BY <1>8
    <3>3. \A i, j \in 1..Len(stack'[w]) : stack'[w][i] = stack'[w][j] => i = j
      BY <1>5, <2>2, <3>2
    <3> QED BY <2>2, <3>1, <3>2, <3>3, <1>5, <1>8, <1>10
  <2> QED BY <1>5, <2>1, <2>2
<1>14. queue' \in [Workers -> SUBSET Nodes]
  <2>1. queue'[w] \in SUBSET Nodes
    BY <1>13, <1>8, <1>10
  <2>2. queue' = [v \in Workers |-> queue'[v]]
    BY <1>6 DEF LpBranches
  <2> QED BY <1>6, <1>9, <2>1, <2>2
<1>15. stack' \in [Workers -> Seq(Nodes)] /\ \A v \in Workers : Len(stack'[v]) <= 2
  <2>1. stack' = [v \in Workers |-> stack'[v]]
    BY <1>6 DEF LpBranches
  <2>2. \A v \in Workers \ {w} : Len(stack'[v]) <= 2 /\ stack'[v] \in Seq(Nodes)
    BY <1>6, <1>9
  <2> QED BY <1>13, <2>1, <2>2
<1>16. /\ scan' \in Scans /\ pc' \in [Threads -> Points]
       /\ pc'[w] = "scan" /\ scan'[w].ret = "plunge"
       /\ \A u \in Threads \ {w} : pc'[u] = pc[u] /\ scan'[u] = scan[u]
  BY <1>1, ScanThenFacts
<1>17. cutoff' \in [Workers -> -1..Infinity] /\ unexplored' \in Int /\ explored' = TRUE
  BY <1>9, ConstantFacts DEF LpBranches
<1>18. CoreType'
  BY <1>1, <1>2, <1>12, <1>14, <1>15, <1>16, <1>17, SetsStay
  DEF CoreType
<1>19. HeldInv'
  <2> DEFINE gone == {n}
             new == {c, d}
  <2>1. /\ Mine(w) = queue[w] \cup ToSet(stack[w]) \cup {n}
        /\ Mine(w)' = queue'[w] \cup ToSet(stack'[w])
    BY <1>3, <1>4, <1>12 DEF Mine, NoNode
  <2>2. NoNode \notin queue'[w] /\ NoNode \notin ToSet(stack'[w])
    <3>1. 0 \notin Nodes
      BY <1>1, TreeFacts
    <3> QED BY <3>1, <1>8, <1>10, <1>13 DEF NoNode
  <2>3. Sorted(w)'
    BY <1>12, <1>13, <2>2 DEF Sorted
  <2>4. /\ gone \subseteq Mine(w) /\ new \cap Pending = {} /\ Mine(w)' = (Mine(w) \ gone) \cup new
        /\ Pending' = (Pending \ gone) \cup new
    BY <1>4, <1>8, <1>13, <2>1
  <2> HIDE DEF gone, new
  <2> QED BY <1>1, <1>6, <1>12, <2>3, <2>4, HeldByOne
<1>20. WorkerInv(w)'
  <2>1. Plunging(w)' /\ ~Busy(w)'
    BY <1>16 DEF Leafing, Busy, Plunging
  <2> QED BY <2>1, <1>12, <1>13, <1>16 DEF WorkerInv, NoNode
<1> QED BY <1>1, <1>2, <1>6, <1>7, <1>12, <1>16, <1>18, <1>19, <1>20, OneWorkerStep

(* At the end a queued node above the incumbent is cut off. *)
LEMMA ClearCutoffHolds ==
  ASSUME HoldInv, NEW w \in Workers, ClearCutoff(w)
  PROVE  HoldInv'
<1> USE DEF workerVars, statusVars, countVars, localVars, envVars
<1>1. /\ CoreType /\ NodeType /\ TreeShape /\ HeldInv /\ tree \in Trees
      /\ w \in Threads /\ pc[w] = "off" /\ WorkerInv(w)
  BY TypeSplit, ConstantFacts DEF HoldInv, ClearCutoff, TasksDone, CoreType
<1>2. UNCHANGED <<tree, wlb, active, idle, upper, incumbent, status, running, halt, lb_numerical,
                  explored, leaving, pc, stack, hand, cutoff, closed, other, scan, sol,
                  solutions, limit, final, verdict>>
  BY DEF ClearCutoff
<1>3. PICK n \in Best(queue[w]) :
        queue' = [queue EXCEPT ![w] = @ \ {n}] /\ node' = Closed(n, node[n].lb)
  BY DEF ClearCutoff
<1>4. /\ n \in queue[w] /\ n \in Pending /\ n \in Nodes /\ node[n].status = "pending"
      /\ node[n].lb \in Bounds
  BY BestFacts
<1>5. NodeType' /\ TreeShape' /\ Pending' = Pending \ {n}
  BY <1>1, <1>2, <1>3, <1>4, ClosedKeepsShape
<1>6. /\ queue' \in [Workers -> SUBSET Nodes] /\ queue'[w] = queue[w] \ {n}
      /\ \A v \in Workers \ {w} : queue'[v] = queue[v]
  BY <1>1, <1>3 DEF CoreType
<1>7. unexplored' \in Int
  BY <1>1 DEF ClearCutoff, CoreType
<1>8. CoreType'
  BY <1>1, <1>2, <1>6, <1>7, SetsStay
  DEF CoreType
<1>9. stack[w] = << >> /\ hand[w] = NoNode /\ ToSet(stack[w]) = {}
  BY <1>1, StackFacts DEF WorkerInv, Plunging, Busy, Leafing
<1>10. HeldInv'
  <2>1. Mine(w) = queue[w] /\ Mine(w)' = queue'[w]
    BY <1>2, <1>9 DEF Mine, NoNode
  <2>2. Sorted(w)'
    BY <1>2, <1>6, <1>9, MineFacts DEF Sorted
  <2> QED BY <1>1, <1>2, <1>4, <1>5, <1>6, <2>1, <2>2, HeldLess
<1>11. WorkerInv(w)'
  BY <1>1, <1>2 DEF WorkerInv, Leafing, Busy, Plunging
<1> QED BY <1>1, <1>2, <1>5, <1>6, <1>8, <1>10, <1>11, OneWorkerStep

-----------------------------------------------------------------------------
(* The nodes and the workers, in every reachable state.                    *)

(* The invariant holds when the search starts. *)
LEMMA InitHolds ==
  ASSUME Init
  PROVE  HoldInv
<1>1. /\ tree \in Trees /\ {2, 3} \subseteq Nodes /\ NodeType /\ TreeShape /\ Pending = {2, 3}
      /\ tree[1].obj \in Bounds
  BY InitTree DEF Init
<1>2. CoreType
  <2>1. queue \in [Workers -> SUBSET Nodes]
    BY <1>1 DEF Init
  <2>2. wlb \in [Workers -> Bounds] /\ lb_numerical \in Bounds
    BY <1>1, ConstantFacts DEF Init
  <2>13. upper \in Bounds /\ incumbent \in upper..Infinity
    <3>1. upper \in Bounds /\ incumbent = Infinity
      BY <1>1, TreeAssumption DEF Init
    <3> QED BY <3>1, ConstantFacts DEF Bounds
  <2>3. active \in [Workers -> BOOLEAN]
    BY DEF Init
  <2>4. idle \in Seq(Workers)
    <3>1. NumWorkers - 1 \in Nat /\ \A k \in 1..(NumWorkers - 1) : k + 1 \in Workers
      BY ConstantFacts DEF Workers
    <3>2. idle = [k \in 1..(NumWorkers - 1) |-> k + 1]
      BY DEF Init
    <3> QED BY <3>1, <3>2
  <2>5. /\ status \in Statuses /\ {running, halt} \subseteq BOOLEAN /\ explored \in BOOLEAN
        /\ leaving \in Nat /\ unexplored \in Int
    <3>1. status \in Statuses /\ leaving \in Nat /\ unexplored \in Int
      BY DEF Init, Statuses
    <3>2. running = TRUE /\ halt = FALSE /\ explored = FALSE
      BY DEF Init
    <3> QED BY <3>1, <3>2
  <2>12. pc \in [Threads -> Points]
    BY DEF Init, Points
  <2>6. stack \in [Workers -> Seq(Nodes)] /\ \A w \in Workers : Len(stack[w]) <= 2
    BY DEF Init
  <2>7. hand \in [Workers -> Nodes \cup {NoNode}] /\ closed \in [Workers -> BOOLEAN]
    BY DEF Init
  <2>8. cutoff \in [Workers -> -1..Infinity] /\ other \in [Workers -> Threads]
    BY ConstantFacts DEF Init
  <2>9. scan \in Scans /\ sol \in [Threads -> Bounds]
    BY ConstantFacts DEF Init, NoScan, Scans
  <2>10. solutions \in 0..MaxSolutions[tree]
    BY <1>1, TreeAssumption DEF Init
  <2>11. /\ limit \in Limits[tree] \cup {"none"} /\ final \in {-1} \cup Bounds
         /\ verdict \in Statuses \cup {"none"}
    BY DEF Init
  <2> QED BY <1>1, <2>1, <2>2, <2>3, <2>4, <2>5, <2>6, <2>7, <2>8, <2>9, <2>10, <2>11,
          <2>12, <2>13 DEF CoreType
<1>3. /\ pc[0] = "search" /\ pc[1] = "enter" /\ \A w \in Workers \ {1} : pc[w] = "off"
      /\ queue[1] = {2, 3} /\ \A w \in Workers \ {1} : queue[w] = {}
      /\ \A w \in Workers : stack[w] = << >> /\ hand[w] = NoNode
  BY ConstantFacts DEF Init
<1>4. ThreadInv
  BY <1>3 DEF ThreadInv
<1>5. ASSUME NEW w \in Workers PROVE WorkerInv(w)
  <2>1. pc[w] \in {"enter", "off"}
    BY <1>3
  <2> QED BY <1>3, <2>1 DEF WorkerInv, Plunging, Busy, Leafing
<1>6. PoolInv
  <2>1. /\ Len(idle) = NumWorkers - 1
        /\ \A k \in 1..Len(idle) : idle[k] = k + 1 /\ k + 1 \in Workers \ {1}
    BY ConstantFacts DEF Init, Workers
  <2>2. \A w \in Workers : pc[w] # "handover"
    BY <1>3
  <2>3. \A k \in 1..Len(idle) : pc[idle[k]] = "off" /\ queue[idle[k]] = {}
    BY <1>3, <2>1
  <2>4. \A j, k \in 1..Len(idle) : idle[j] = idle[k] => j = k
    BY <2>1
  <2> QED BY <2>2, <2>3, <2>4 DEF PoolInv
<1>7. HeldInv
  <2>1. \A w \in Workers : ToSet(stack[w]) = {}
    BY <1>3, StackFacts
  <2>2. /\ Mine(1) = {2, 3} /\ \A w \in Workers \ {1} : Mine(w) = {}
    BY <1>3, <2>1, ConstantFacts DEF Mine
  <2>3. \A w \in Workers : Sorted(w)
    <3>1. \A w \in Workers : NoNode \notin queue[w] /\ 1..Len(stack[w]) = {}
      <4>1. 1..Len(<< >>) = {}
        OBVIOUS
      <4> QED BY <4>1, <1>3 DEF NoNode
    <3> QED BY <3>1, <2>1, <1>3 DEF Sorted
  <2>4. Pending = UNION {Mine(w) : w \in Workers}
    BY <1>1, <2>2, ConstantFacts
  <2> QED BY <2>2, <2>3, <2>4 DEF HeldInv
<1>8. TypeOK
  BY <1>1, <1>2, TypeSplit
<1> QED BY <1>1, <1>4, <1>5, <1>6, <1>7, <1>8 DEF HoldInv

(* It is kept by every step. *)
LEMMA HoldStep ==
  ASSUME HoldInv, [Next]_vars
  PROVE  HoldInv'
<1>1. CASE UNCHANGED vars
  <2>1. CoreType /\ NodeType /\ TreeShape
    BY TypeSplit DEF HoldInv
  <2>2. NodeType' /\ TreeShape' /\ Pending' = Pending
    BY <1>1, <2>1, TreeFrame DEF vars
  <2>3. CoreType'
    BY <1>1, <2>1, SetsStay
    DEF vars, CoreType
  <2> QED BY <1>1, <2>3, PassiveStep, ConstantFacts DEF vars, HoldInv, ThreadInv
<1>2. ASSUME NEW w \in Workers, WorkerStep(w) PROVE HoldInv'
  <2>1. w \in Threads
    BY ConstantFacts
  <2> QED BY <1>2, <2>1, EnterHolds, BfsLoopHolds, PopHolds, BfsGapHolds, ChooseVictimHolds,
             StealFromHolds, ExitHolds, ReturnHolds, LaunchHolds, HandoverHolds, TakeHolds,
             SolveNodeLpHolds,
             LpInterruptedHolds, LpClosesHolds, LpIsIntegerHolds, CloseLeafHolds,
             LpBranchesHolds, FlushHolds, ComputeGapHolds, ScanHolds, AcceptHolds,
             CheckIncumbentHolds DEF WorkerStep
<1>3. CASE CheckLast \/ ReachLimit \/ HeuristicStep
  <2>1. 0 \in Threads
    BY ConstantFacts
  <2> QED BY <1>3, <2>1, OutsideHolds, ScanHolds, AcceptHolds, CheckIncumbentHolds
      DEF HeuristicStep
<1>4. CASE FinishStep
  BY <1>4, ClearCutoffHolds, OutsideHolds DEF FinishStep
<1> QED BY <1>1, <1>2, <1>3, <1>4 DEF Next

(* The invariant of the nodes and the workers. *)
THEOREM HoldInvariant == Spec => []HoldInv
  BY InitHolds, HoldStep, PTL DEF Spec

(* Type correctness of the search, for any trees and any number of workers. *)
THEOREM TypeCorrect == Spec => []TypeOK
<1>1. HoldInv => TypeOK
  BY DEF HoldInv
<1> QED BY <1>1, HoldInvariant, PTL

(* A node that is not open is held by no worker and an open one in one place. *)
LEMMA HeldInOnePlace ==
  ASSUME HoldInv, NEW n \in Nodes
  PROVE  Cardinality(Holders(n)) = IF n \in Pending THEN 1 ELSE 0
<1>1. n # NoNode
  <2>1. tree \in Trees
    BY TypeSplit DEF HoldInv, CoreType
  <2> QED BY <2>1, TreeFacts DEF NoNode
<1>2. \A w \in Workers : n \in Mine(w) <=> (n \in queue[w] \/ n \in ToSet(stack[w]) \/ n = hand[w])
  BY <1>1 DEF Mine
<1>3. CASE n \notin Pending
  <2>1. \A w \in Workers : n \notin Mine(w)
    BY <1>3 DEF HoldInv, HeldInv
  <2>2. Holders(n) = {}
    BY <1>2, <2>1 DEF Holders
  <2> QED BY <1>3, <2>2, FS_EmptySet
<1>4. CASE n \in Pending
  <2>1. PICK w \in Workers : n \in Mine(w)
    BY <1>4 DEF HoldInv, HeldInv
  <2>2. \A v \in Workers \ {w} : n \notin Mine(v)
    BY <2>1 DEF HoldInv, HeldInv
  <2>3. \A v \in Workers \ {w} : n \notin queue[v] /\ n \notin ToSet(stack[v]) /\ n # hand[v]
    BY <1>2, <2>2
  <2>4. Sorted(w)
    BY MineFacts
  <2>5. \/ n \in queue[w] /\ n \notin ToSet(stack[w]) /\ n # hand[w]
        \/ n \notin queue[w] /\ n \in ToSet(stack[w]) /\ n # hand[w]
        \/ n \notin queue[w] /\ n \notin ToSet(stack[w]) /\ n = hand[w]
    BY <1>2, <2>1, <2>4 DEF Sorted
  <2>6. \E x \in {"queue", "stack", "hand"} : Holders(n) = {<<w, x>>}
    <3>1. ASSUME n \in queue[w], n \notin ToSet(stack[w]), n # hand[w]
          PROVE  Holders(n) = {<<w, "queue">>}
      <4>1. /\ {v \in Workers : n \in queue[v]} = {w} /\ {v \in Workers : n \in ToSet(stack[v])} = {}
            /\ {v \in Workers : n = hand[v]} = {}
        BY <2>3, <3>1
      <4> QED BY <4>1 DEF Holders
    <3>2. ASSUME n \notin queue[w], n \in ToSet(stack[w]), n # hand[w]
          PROVE  Holders(n) = {<<w, "stack">>}
      <4>1. /\ {v \in Workers : n \in queue[v]} = {} /\ {v \in Workers : n \in ToSet(stack[v])} = {w}
            /\ {v \in Workers : n = hand[v]} = {}
        BY <2>3, <3>2
      <4> QED BY <4>1 DEF Holders
    <3>3. ASSUME n \notin queue[w], n \notin ToSet(stack[w]), n = hand[w]
          PROVE  Holders(n) = {<<w, "hand">>}
      <4>1. /\ {v \in Workers : n \in queue[v]} = {} /\ {v \in Workers : n \in ToSet(stack[v])} = {}
            /\ {v \in Workers : n = hand[v]} = {w}
        BY <2>3, <3>3
      <4> QED BY <4>1 DEF Holders
    <3> QED BY <2>5, <3>1, <3>2, <3>3
  <2> QED BY <1>4, <2>6, FS_Singleton
<1> QED BY <1>3, <1>4

(* An open node is in one place, whatever the number of workers and the    *)
(* order in which they push, pop, steal, hand over and put back nodes: no  *)
(* node is lost and none is solved twice.                                  *)
THEOREM NodesHeldOnce == Spec => []EveryNodeHeldOnce
<1>1. HoldInv => EveryNodeHeldOnce
  BY HeldInOnePlace DEF EveryNodeHeldOnce
<1> QED BY <1>1, HoldInvariant, PTL

(* num_children is the number of open children. *)
LEMMA OpenKidsCounted ==
  ASSUME NEW n \in Nat
  PROVE  OpenKids(n) =
           Cardinality({c \in Children(n) : node[c].status \in {"pending", "branched"}})
<1> DEFINE S == {c \in Children(n) : node[c].status \in {"pending", "branched"}}
<1>1. S = (IF Open(2 * n) THEN {2 * n} ELSE {}) \cup (IF Open(2 * n + 1) THEN {2 * n + 1} ELSE {})
  BY DEF Open, Children
<1>2. 2 * n # 2 * n + 1
  OBVIOUS
<1>3. Cardinality({2 * n} \cup {2 * n + 1}) = 2
  <2>1. IsFiniteSet({2 * n}) /\ Cardinality({2 * n}) = 1 /\ 2 * n + 1 \notin {2 * n}
    BY <1>2, FS_Singleton
  <2>2. Cardinality({2 * n} \cup {2 * n + 1}) =
          IF 2 * n + 1 \in {2 * n} THEN Cardinality({2 * n}) ELSE Cardinality({2 * n}) + 1
    BY <2>1, FS_AddElement
  <2> QED BY <2>1, <2>2
<1> HIDE DEF S
<1>4. OpenKids(n) = Cardinality(S)
  <2>1. CASE Open(2 * n) /\ Open(2 * n + 1)
    <3>1. S = {2 * n} \cup {2 * n + 1}
      BY <1>1, <2>1
    <3> QED BY <2>1, <3>1, <1>3 DEF OpenKids
  <2>2. CASE Open(2 * n) /\ ~Open(2 * n + 1)
    <3>1. S = {2 * n}
      BY <1>1, <2>2
    <3>2. Cardinality(S) = 1
      BY <3>1, FS_Singleton
    <3> QED BY <2>2, <3>2 DEF OpenKids
  <2>3. CASE ~Open(2 * n) /\ Open(2 * n + 1)
    <3>1. S = {2 * n + 1}
      BY <1>1, <2>3
    <3>2. Cardinality(S) = 1
      BY <3>1, FS_Singleton
    <3> QED BY <2>3, <3>2 DEF OpenKids
  <2>4. CASE ~Open(2 * n) /\ ~Open(2 * n + 1)
    <3>1. S = {}
      BY <1>1, <2>4
    <3> QED BY <2>4, <3>1, FS_EmptySet DEF OpenKids
  <2> QED BY <2>1, <2>2, <2>3, <2>4
<1> QED BY <1>4 DEF S

(* No ancestor of an open node is freed and num_children is exact, in      *)
(* whichever order the workers close and branch on nodes.                  *)
THEOREM NothingFreedTooEarly == Spec => []NoUseAfterFree
<1>1. ASSUME HoldInv PROVE NoUseAfterFree
  <2>1. tree \in Trees /\ TreeShape
    BY <1>1, TypeSplit DEF HoldInv, CoreType
  <2>2. ASSUME NEW n \in Pending, NEW a \in Ancestors(n) PROVE node[a].status = "branched"
    BY <2>1, AboveIsBranched DEF Pending, Known
  <2>3. ASSUME NEW n \in Nodes, node[n].status = "branched"
        PROVE  node[n].kids =
                 Cardinality({c \in Children(n) : node[c].status \in {"pending", "branched"}})
    <3>1. n \in Nat
      BY <2>1, TreeFacts
    <3> QED BY <2>1, <2>3, <3>1, OpenKidsCounted DEF TreeShape
  <2> QED BY <2>2, <2>3 DEF NoUseAfterFree
<1> QED BY <1>1, HoldInvariant, PTL

-----------------------------------------------------------------------------
(* No point better than the incumbent is discarded.                        *)

(* The solution a worker has in hand depends on what is its own. *)
LEMMA SolveFrame ==
  ASSUME HoldInv, NEW v \in Workers, SolveInv(v), tree' = tree,
         {upper, upper'} \subseteq Nat, upper' <= upper,
         pc'[v] = pc[v], scan'[v].ret = scan[v].ret, hand'[v] = hand[v],
         cutoff'[v] = cutoff[v], sol'[v] = sol[v],
         Leafing(v) => node'[hand[v]] = node[hand[v]]
  PROVE  SolveInv(v)'
<1>1. Leafing(v)' <=> Leafing(v)
  BY DEF Leafing
<1>2. pc[v] = "solve" => upper' <= cutoff[v] + (IF Integral THEN 1 ELSE 0)
  <2>1. cutoff[v] \in Int
    BY TypeSplit, ConstantFacts DEF HoldInv, CoreType
  <2> QED BY <2>1 DEF SolveInv
<1>3. Leafing(v) /\ pc[v] # "accept" => upper' <= tree[hand[v]].obj
  <2>1. Leafing(v) => tree[hand[v]].obj \in Nat
    BY HandFacts, ConstantFacts DEF Busy
  <2> QED BY <2>1 DEF SolveInv
<1> QED BY <1>1, <1>2, <1>3 DEF SolveInv

(* A worker whose solve is not concerned by a step. *)
StaysPut(v) ==
    /\ pc'[v] = pc[v] /\ scan'[v].ret = scan[v].ret /\ hand'[v] = hand[v]
    /\ cutoff'[v] = cutoff[v] /\ sol'[v] = sol[v]

(* Steps that change neither the tree nor the incumbent. *)
LEMMA BoundQuiet ==
  ASSUME HoldInv, BoundInv, UNCHANGED <<tree, node, upper, lb_numerical>>,
         pc'[0] = "accept" => pc[0] = "accept" /\ sol'[0] = sol[0],
         \A v \in Workers : ~Busy(v)' \/ pc'[v] = "lp" \/ StaysPut(v)
  PROVE  BoundInv'
<1>1. {upper, upper'} \subseteq Nat /\ upper' <= upper
  <2>1. upper \in Nat
    BY TypeSplit, ConstantFacts DEF HoldInv, CoreType
  <2> QED BY <2>1
<1>2. Settled'
  BY TreeFrame DEF BoundInv
<1>3. ClosedInv'
  BY DEF BoundInv, ClosedInv, Nodes
<1>4. UpperInv'
  BY DEF BoundInv, UpperInv, IsPoint
<1>5. ASSUME NEW v \in Workers PROVE SolveInv(v)'
  <2>1. CASE ~Busy(v)'
    BY <2>1 DEF SolveInv, Busy
  <2>2. CASE pc'[v] = "lp"
    BY <2>2 DEF SolveInv, Leafing
  <2>3. CASE StaysPut(v)
    BY <2>3, <1>1, SolveFrame DEF BoundInv, StaysPut
  <2> QED BY <2>1, <2>2, <2>3
<1>6. Workers' = Workers
  BY DEF Workers
<1> QED BY <1>2, <1>3, <1>4, <1>5, <1>6 DEF BoundInv

(* A worker that is not the one that moves, in the steps of one worker. *)
LEMMA OthersStayPut ==
  ASSUME NEW w \in Workers,
         \A t \in Threads \ {w} : pc'[t] = pc[t] /\ scan'[t] = scan[t] /\ sol'[t] = sol[t],
         \A v \in Workers \ {w} : hand'[v] = hand[v] /\ cutoff'[v] = cutoff[v]
  PROVE  /\ \A v \in Workers \ {w} : StaysPut(v)
         /\ pc'[0] = pc[0] /\ sol'[0] = sol[0]
  BY ConstantFacts DEF StaysPut

(* The steps of a worker that has no node in hand after them, and of which *)
(* neither the tree nor the incumbent hear.                                *)
LEMMA QuietStepsBound ==
  ASSUME HoldInv, BoundInv, NEW w \in Workers,
         \/ Enter(w) \/ BfsLoop(w) \/ BfsGap(w) \/ ChooseVictim(w) \/ StealFrom(w)
         \/ Exit(w) \/ ReturnWorkerToPool(w) \/ LaunchBfsWorker(w) \/ LpInterrupted(w)
         \/ Flush(w) \/ ComputeGap(w)
  PROVE  BoundInv'
<1> USE DEF workerVars, statusVars, countVars, localVars, envVars
<1>1. CoreType /\ w \in Threads
  BY TypeSplit, ConstantFacts DEF HoldInv
<1>2. /\ pc \in [Threads -> Points] /\ scan \in Scans
      /\ hand \in [Workers -> Nodes \cup {NoNode}] /\ cutoff \in [Workers -> -1..Infinity]
  BY <1>1 DEF CoreType
<1>3. UNCHANGED <<tree, node, upper, lb_numerical, sol>>
  BY DEF Enter, BfsLoop, BfsGap, ChooseVictim, StealFrom, Exit, ReturnWorkerToPool,
         LaunchBfsWorker, LpInterrupted, Flush, ComputeGap
<1>4. /\ \A t \in Threads \ {w} : pc'[t] = pc[t] /\ scan'[t] = scan[t] /\ sol'[t] = sol[t]
      /\ \A v \in Workers \ {w} : hand'[v] = hand[v] /\ cutoff'[v] = cutoff[v]
  <2>1. CASE Enter(w) \/ Flush(w)
    BY <1>2, <2>1 DEF Enter, Flush, ScanThen, Goto, Scans
  <2>2. CASE BfsLoop(w) \/ BfsGap(w) \/ ChooseVictim(w)
    BY <1>2, <2>2 DEF BfsLoop, BfsGap, ChooseVictim, Goto, Scans
  <2>3. CASE StealFrom(w) \/ Exit(w) \/ ReturnWorkerToPool(w)
    BY <1>2, <2>3 DEF StealFrom, Exit, ReturnWorkerToPool, Goto, Scans
  <2>4. CASE LaunchBfsWorker(w) \/ LpInterrupted(w)
    BY <1>2, <2>4 DEF LaunchBfsWorker, LpInterrupted, Solved, Goto, Scans
  <2>5. CASE ComputeGap(w)
    BY <1>2, <2>5 DEF ComputeGap, ScanOver, Goto, Scans
  <2> QED BY <2>1, <2>2, <2>3, <2>4, <2>5
<1>5. ~Busy(w)'
  <2>1. CASE Enter(w) \/ Flush(w)
    <3>1. pc'[w] = "scan" /\ scan'[w].ret \in {"bfs", "bfs_gap"}
      BY <1>1, <2>1, ScanThenFacts DEF Enter, Flush
    <3> QED BY <3>1 DEF Busy, Leafing
  <2>2. CASE BfsLoop(w) \/ BfsGap(w) \/ ChooseVictim(w)
    BY <1>1, <1>2, <2>2 DEF BfsLoop, BfsGap, ChooseVictim, Goto, Busy, Leafing
  <2>3. CASE StealFrom(w) \/ Exit(w) \/ ReturnWorkerToPool(w)
    BY <1>1, <1>2, <2>3 DEF StealFrom, Exit, ReturnWorkerToPool, Goto, Busy, Leafing
  <2>4. CASE LaunchBfsWorker(w) \/ LpInterrupted(w)
    BY <1>1, <1>2, <2>4 DEF LaunchBfsWorker, LpInterrupted, Goto, Busy, Leafing
  <2>5. CASE ComputeGap(w)
    <3>1. PICK p \in {"flush", "launch", "take", "bfs", "bfs_gap"} : pc' = [pc EXCEPT ![w] = p]
      <4> DEFINE p == IF scan[w].ret = "plunge"
                      THEN PlungeNext(w, stack[w], GapClosed(upper, ScannedBound(w)))
                      ELSE scan[w].ret
      <4>1. pc' = [pc EXCEPT ![w] = p] /\ scan[w].ret \in {"bfs", "plunge", "bfs_gap"}
        BY <2>5 DEF ComputeGap, Goto
      <4>2. PlungeNext(w, stack[w], GapClosed(upper, ScannedBound(w)))
              \in {"flush", "launch", "take"}
        BY PlungeNextFacts
      <4>3. p \in {"flush", "launch", "take", "bfs", "bfs_gap"}
        BY <4>1, <4>2
      <4> HIDE DEF p
      <4> QED BY <4>1, <4>3
    <3> QED BY <1>1, <1>2, <3>1 DEF Busy, Leafing
  <2> QED BY <2>1, <2>2, <2>3, <2>4, <2>5
<1>6. /\ \A v \in Workers \ {w} : StaysPut(v)
      /\ pc'[0] = pc[0] /\ sol'[0] = sol[0]
  BY <1>4, OthersStayPut
<1> QED BY <1>3, <1>5, <1>6, BoundQuiet

(* The steps of worker w that touch no other worker's solve and close w's  *)
(* node n, or a node of its queue or stack.                                *)
LEMMA ClosingBound ==
  ASSUME HoldInv, BoundInv, NEW w \in Workers, NEW n \in Mine(w), NEW b \in Bounds,
         node' = Closed(n, b), tree' = tree, upper' = upper,
         lb_numerical' \in Bounds, lb_numerical' <= lb_numerical,
         \A l \in Leaves : n \in Path(l) => b <= tree[l].obj,
         upper <= b \/ lb_numerical' <= b,
         pc'[0] = pc[0], sol'[0] = sol[0],
         \A v \in Workers \ {w} : StaysPut(v), ~Busy(w)'
  PROVE  BoundInv'
<1>1. /\ tree \in Trees /\ NodeType /\ TreeShape /\ Settled /\ ClosedInv
      /\ upper \in Bounds /\ lb_numerical \in Bounds
  BY TypeSplit DEF HoldInv, CoreType, BoundInv
<1>2. n \in Pending
  BY DEF HoldInv, HeldInv
<1>3. n \in Nodes /\ node[n].status = "pending"
  BY <1>2, MineFacts
<1>4. Settled'
  BY <1>1, <1>3, ClosedSettles
<1>5. {upper, upper', lb_numerical, lb_numerical'} \subseteq Nat /\ upper' <= upper
  <2>1. Bounds \subseteq Nat
    BY ConstantFacts
  <2>2. upper \in Nat /\ upper' \in Nat /\ lb_numerical \in Nat /\ lb_numerical' \in Nat
    BY <1>1, <2>1
  <2>3. upper' <= upper
    BY <2>2
  <2> QED BY <2>2, <2>3
<1>6. ClosedInv'
  BY <1>1, <1>3, <1>5, ClosedKeepsBounds
<1>7. \A p \in Pending : p # n => node'[p] = node[p]
  BY <1>1, <1>3, ClosedKeepsShape
<1>8. ASSUME NEW v \in Workers PROVE SolveInv(v)'
  <2>1. CASE v = w
    BY <2>1 DEF SolveInv, Busy
  <2>2. CASE v # w
    <3>1. Leafing(v) => node'[hand[v]] = node[hand[v]]
      <4>1. SUFFICES ASSUME Leafing(v) PROVE node'[hand[v]] = node[hand[v]]
        OBVIOUS
      <4>2. hand[v] \in Pending /\ hand[v] # NoNode
        BY <4>1, HandFacts DEF Busy
      <4>3. hand[v] \in Mine(v)
        BY <4>2 DEF Mine
      <4>4. hand[v] # n
        BY <2>2, <4>3 DEF HoldInv, HeldInv
      <4> QED BY <1>7, <4>2, <4>4
    <3>2. StaysPut(v) /\ SolveInv(v)
      BY <2>2 DEF BoundInv
    <3> QED BY <1>5, <3>1, <3>2, SolveFrame DEF StaysPut
  <2> QED BY <2>1, <2>2
<1>9. UpperInv'
  BY DEF BoundInv, UpperInv, IsPoint
<1>10. Workers' = Workers
  BY DEF Workers
<1> QED BY <1>4, <1>6, <1>8, <1>9, <1>10 DEF BoundInv

(* A node of a queue or a stack that lies above the incumbent is cut off. *)
LEMMA CutOffBound ==
  ASSUME HoldInv, BoundInv, NEW w \in Workers, NEW n \in Mine(w), upper < node[n].lb,
         node' = Closed(n, node[n].lb), UNCHANGED <<tree, upper, lb_numerical>>,
         pc'[0] = pc[0], sol'[0] = sol[0],
         \A v \in Workers \ {w} : StaysPut(v), ~Busy(w)'
  PROVE  BoundInv'
<1>1. n \in Pending
  BY DEF HoldInv, HeldInv
<1>2. n \in Nodes /\ node[n].status = "pending" /\ node[n].lb \in Bounds
  BY <1>1, MineFacts
<1>3. /\ tree \in Trees /\ TreeShape /\ Settled /\ lb_numerical \in Bounds /\ upper \in Bounds
  BY TypeSplit DEF HoldInv, CoreType, BoundInv
<1>4. \A l \in Leaves : n \in Path(l) => node[n].lb <= tree[l].obj
  BY <1>2, <1>3, PendingAdmits
<1>5. lb_numerical' \in Bounds /\ lb_numerical' <= lb_numerical /\ upper <= node[n].lb
  BY <1>2, <1>3, ConstantFacts
<1> QED BY <1>2, <1>4, <1>5, ClosingBound

(* A worker takes a node of its queue. *)
LEMMA PopBound ==
  ASSUME HoldInv, BoundInv, NEW w \in Workers, Pop(w)
  PROVE  BoundInv'
<1> USE DEF workerVars, statusVars, countVars, localVars, envVars
<1>1. CoreType /\ w \in Threads
  BY TypeSplit, ConstantFacts DEF HoldInv
<1>2. pc \in [Threads -> Points] /\ scan \in Scans
  BY <1>1 DEF CoreType
<1>3. UNCHANGED <<tree, upper, lb_numerical, sol, hand, cutoff>>
  BY DEF Pop
<1>4. /\ \A t \in Threads \ {w} : pc'[t] = pc[t] /\ scan'[t] = scan[t] /\ sol'[t] = sol[t]
      /\ \A v \in Workers \ {w} : hand'[v] = hand[v] /\ cutoff'[v] = cutoff[v]
  BY <1>2 DEF Pop, ScanThen, Goto, Scans
<1>5. ~Busy(w)'
  <2>1. pc'[w] = "bfs" \/ ScanThen(w, "plunge")
    BY <1>1, <1>2 DEF Pop, Goto
  <2>2. pc'[w] = "bfs" \/ (pc'[w] = "scan" /\ scan'[w].ret = "plunge")
    BY <1>1, <2>1, ScanThenFacts
  <2> QED BY <2>2 DEF Busy, Leafing
<1>6. /\ \A v \in Workers \ {w} : StaysPut(v)
      /\ pc'[0] = pc[0] /\ sol'[0] = sol[0]
  BY <1>4, OthersStayPut
<1>7. CASE node' = node
  BY <1>3, <1>5, <1>6, <1>7, BoundQuiet
<1>8. CASE \E n \in Best(queue[w]) : upper < node[n].lb /\ node' = Closed(n, node[n].lb)
  <2>1. PICK n \in Best(queue[w]) : upper < node[n].lb /\ node' = Closed(n, node[n].lb)
    BY <1>8
  <2>2. n \in Mine(w)
    BY BestFacts DEF Mine
  <2> QED BY <1>3, <1>5, <1>6, <2>1, <2>2, CutOffBound
<1>9. node' = node \/ \E n \in Best(queue[w]) : upper < node[n].lb /\ node' = Closed(n, node[n].lb)
  BY DEF Pop
<1> QED BY <1>7, <1>8, <1>9

(* A worker takes a node of its stack. *)
LEMMA TakeBound ==
  ASSUME HoldInv, BoundInv, NEW w \in Workers, Take(w)
  PROVE  BoundInv'
<1> USE DEF workerVars, statusVars, countVars, localVars, envVars
<1>1. CoreType /\ w \in Threads /\ stack[w] # << >>
  BY TypeSplit, ConstantFacts DEF HoldInv, WorkerInv, Take
<1>2. /\ pc \in [Threads -> Points] /\ hand \in [Workers -> Nodes \cup {NoNode}]
      /\ cutoff \in [Workers -> -1..Infinity] /\ upper \in Bounds
  BY <1>1 DEF CoreType
<1>3. UNCHANGED <<tree, upper, lb_numerical, sol, scan>>
  BY DEF Take
<1>4. /\ \A t \in Threads \ {w} : pc'[t] = pc[t] /\ scan'[t] = scan[t] /\ sol'[t] = sol[t]
      /\ \A v \in Workers \ {w} : hand'[v] = hand[v] /\ cutoff'[v] = cutoff[v]
  BY <1>2 DEF Take, Goto
<1>5. /\ \A v \in Workers \ {w} : StaysPut(v)
      /\ pc'[0] = pc[0] /\ sol'[0] = sol[0]
  BY <1>4, OthersStayPut
<1>6. PICK n \in Mine(w) : n = Head(stack[w])
  BY <1>1, TopFacts DEF Mine
<1>7. CASE /\ upper < node[n].lb /\ node' = Closed(n, node[n].lb)
           /\ Goto(w, PlungeNext(w, Tail(stack[w]), closed[w]))
  <2>1. PICK p \in {"flush", "launch", "take"} : pc' = [pc EXCEPT ![w] = p]
    BY <1>7, PlungeNextFacts DEF Goto
  <2>2. ~Busy(w)'
    BY <1>1, <1>2, <2>1 DEF Busy, Leafing
  <2> QED BY <1>3, <1>5, <1>7, <2>2, CutOffBound
<1>8. CASE node' = node /\ Goto(w, "flush")
  <2>1. ~Busy(w)'
    BY <1>1, <1>2, <1>8 DEF Goto, Busy, Leafing
  <2> QED BY <1>3, <1>5, <1>8, <2>1, BoundQuiet
<1>9. CASE node' = node /\ Goto(w, "lp")
  <2>1. pc'[w] = "lp"
    BY <1>1, <1>2, <1>9 DEF Goto
  <2> QED BY <1>3, <1>5, <1>9, <2>1, BoundQuiet
<1>10. \/ /\ upper < node[n].lb /\ node' = Closed(n, node[n].lb)
          /\ Goto(w, PlungeNext(w, Tail(stack[w]), closed[w]))
       \/ node' = node /\ Goto(w, "flush")
       \/ node' = node /\ Goto(w, "lp")
  <2>1. node[n].lb > upper <=> upper < node[n].lb
    OBVIOUS
  <2> QED BY <1>6, <2>1 DEF Take
<1> QED BY <1>7, <1>8, <1>9, <1>10

(* The cutoff of an LP solve is no better than the next objective below    *)
(* the upper bound.                                                        *)
LEMMA SolveNodeLpBound ==
  ASSUME HoldInv, BoundInv, NEW w \in Workers, SolveNodeLp(w)
  PROVE  BoundInv'
<1> USE DEF workerVars, statusVars, countVars, localVars, envVars
<1>1. CoreType /\ w \in Threads /\ Goto(w, "solve")
  BY TypeSplit, ConstantFacts DEF HoldInv, SolveNodeLp
<1>2. /\ pc \in [Threads -> Points] /\ cutoff \in [Workers -> -1..Infinity] /\ upper \in Bounds
      /\ cutoff' = [cutoff EXCEPT ![w] = NodeCutoff(upper)]
  BY <1>1 DEF CoreType, SolveNodeLp
<1>3. UNCHANGED <<tree, node, upper, lb_numerical, hand, sol, scan>>
  BY DEF SolveNodeLp
<1>4. /\ \A t \in Threads \ {w} : pc'[t] = pc[t] /\ scan'[t] = scan[t] /\ sol'[t] = sol[t]
      /\ \A v \in Workers \ {w} : hand'[v] = hand[v] /\ cutoff'[v] = cutoff[v]
  BY <1>1, <1>2, <1>3 DEF Goto
<1>5. /\ \A v \in Workers \ {w} : StaysPut(v)
      /\ pc'[0] = pc[0] /\ sol'[0] = sol[0]
  BY <1>4, OthersStayPut
<1>6. pc'[w] = "solve" /\ cutoff'[w] = NodeCutoff(upper)
  BY <1>1, <1>2 DEF Goto
<1>7. SolveInv(w)'
  <2>1. upper <= NodeCutoff(upper) + (IF Integral THEN 1 ELSE 0)
    BY <1>2, ConstantFacts, TreeAssumption DEF NodeCutoff
  <2>2. ~Leafing(w)'
    BY <1>6 DEF Leafing
  <2> QED BY <1>3, <1>6, <2>1, <2>2 DEF SolveInv
<1>8. Settled' /\ ClosedInv'
  <2>1. Settled'
    BY <1>3, TreeFrame DEF BoundInv
  <2>2. ClosedInv'
    BY <1>3 DEF BoundInv, ClosedInv, Nodes
  <2> QED BY <2>1, <2>2
<1>9. UpperInv'
  BY <1>3, <1>5 DEF BoundInv, UpperInv, IsPoint
<1>10. ASSUME NEW v \in Workers \ {w} PROVE SolveInv(v)'
  <2>1. {upper, upper'} \subseteq Nat /\ upper' <= upper
    BY <1>2, <1>3, ConstantFacts
  <2> QED BY <1>3, <1>5, <2>1, SolveFrame DEF BoundInv, StaysPut
<1>11. Workers' = Workers /\ \A v \in Workers : v = w \/ v \in Workers \ {w}
  BY DEF Workers
<1> QED BY <1>7, <1>8, <1>9, <1>10, <1>11 DEF BoundInv

(* A solved node closes with a bound that admits every point below it, and *)
(* that is no better than the incumbent or the bound of a node that failed. *)
LEMMA ClosingBoundAdmits ==
  ASSUME HoldInv, BoundInv, NEW w \in Workers, pc[w] = "solve", NEW b \in ClosingBounds(w)
  PROVE  /\ \A l \in Leaves : hand[w] \in Path(l) => b <= tree[l].obj
         /\ upper <= b \/ (tree[hand[w]].kind = "numerical" /\ b = node[hand[w]].lb)
<1>1. PICK n \in Nodes : n = hand[w]
  BY HandFacts DEF Busy
<1>2. /\ n \in DOMAIN tree /\ node[n].status = "pending" /\ tree[n].obj \in Nat
  BY <1>1, HandFacts, ConstantFacts DEF Busy
<1>3. /\ tree \in Trees /\ TreeShape /\ Settled /\ upper \in Nat /\ upper <= Infinity
      /\ Infinity \in Nat /\ cutoff[w] \in Int /\ SolveInv(w)
  BY TypeSplit, ConstantFacts DEF HoldInv, CoreType, BoundInv, Bounds
<1>4. \A l \in Leaves : /\ l \in DOMAIN tree /\ tree[l].kind \in {"int", "numerical"}
                        /\ tree[l].obj \in Nat
  BY <1>3, TreeFacts DEF Leaves
<1>5. ASSUME NEW l \in Leaves, n \in Path(l)
      PROVE  tree[n].kind # "infeasible" /\ tree[n].obj <= tree[l].obj
  <2>1. CASE n = l
    BY <2>1, <1>4
  <2>2. CASE n \in Ancestors(l)
    <3>1. tree[n].kind = "frac" /\ tree[n].obj <= tree[l].obj
      BY <1>3, <1>4, <2>2, PathIsFractional
    <3> QED BY <3>1
  <2> QED BY <1>5, <2>1, <2>2 DEF Path
<1>6. CASE tree[n].kind = "infeasible"
  <2>1. b \in {Infinity, upper}
    BY <1>1, <1>6 DEF ClosingBounds, Lp, CutoffBound
  <2> QED BY <1>1, <1>3, <1>5, <1>6, <2>1
<1>7. CASE /\ tree[n].kind \notin {"infeasible", "numerical"} /\ b = upper
           /\ tree[n].obj > cutoff[w]
  <2>1. upper <= tree[n].obj
    <3>1. upper <= cutoff[w] + (IF Integral THEN 1 ELSE 0)
      BY <1>3 DEF SolveInv
    <3> QED BY <1>2, <1>3, <1>7, <3>1, TreeAssumption
  <2> QED BY <1>1, <1>2, <1>3, <1>4, <1>5, <1>7, <2>1
<1>8. CASE b = tree[n].obj /\ tree[n].obj > upper
  BY <1>1, <1>2, <1>3, <1>5, <1>8
<1>9. CASE tree[n].kind = "numerical" /\ b = node[n].lb
  <2>1. \A l \in Leaves : n \in Path(l) => b <= tree[l].obj
    BY <1>2, <1>3, <1>9, PendingAdmits
  <2> QED BY <1>1, <1>9, <2>1
<1>10. \/ tree[n].kind = "infeasible"
       \/ /\ tree[n].kind \notin {"infeasible", "numerical"} /\ b = upper
          /\ tree[n].obj > cutoff[w]
       \/ b = tree[n].obj /\ tree[n].obj > upper
       \/ tree[n].kind = "numerical" /\ b = node[n].lb
  BY <1>1 DEF ClosingBounds, Lp, CutoffBound
<1> QED BY <1>6, <1>7, <1>8, <1>9, <1>10

(* A solved node needs no children. *)
LEMMA LpClosesBound ==
  ASSUME HoldInv, BoundInv, NEW w \in Workers, LpCloses(w)
  PROVE  BoundInv'
<1> USE DEF workerVars, statusVars, countVars, localVars, envVars
<1>1. CoreType /\ w \in Threads /\ pc[w] = "solve" /\ Busy(w)
  BY TypeSplit, ConstantFacts DEF HoldInv, LpCloses, Solving, Busy
<1>2. /\ pc \in [Threads -> Points] /\ hand \in [Workers -> Nodes \cup {NoNode}]
      /\ cutoff \in [Workers -> -1..Infinity] /\ scan \in Scans /\ lb_numerical \in Bounds
  BY <1>1 DEF CoreType
<1>3. UNCHANGED <<tree, upper, sol>>
  BY DEF LpCloses
<1>4. /\ \A t \in Threads \ {w} : pc'[t] = pc[t] /\ scan'[t] = scan[t] /\ sol'[t] = sol[t]
      /\ \A v \in Workers \ {w} : hand'[v] = hand[v] /\ cutoff'[v] = cutoff[v]
  BY <1>2, <1>3 DEF LpCloses, Solved, Goto, Scans
<1>5. /\ \A v \in Workers \ {w} : StaysPut(v)
      /\ pc'[0] = pc[0] /\ sol'[0] = sol[0]
  BY <1>4, OthersStayPut
<1>6. ~Busy(w)'
  <2>1. pc'[w] = "scan" /\ scan'[w].ret = "plunge"
    BY <1>1, <1>2 DEF LpCloses, Goto, Scans
  <2> QED BY <2>1 DEF Busy, Leafing
<1>7. PICK b \in ClosingBounds(w) : node' = Closed(hand[w], b)
  BY DEF LpCloses
<1>8. b \in Bounds
  BY <1>1, ClosingBoundsFacts
<1>9. PICK n \in Mine(w) : n = hand[w]
  BY <1>1, HandFacts DEF Mine
<1>10. /\ lb_numerical' \in Bounds /\ lb_numerical' <= lb_numerical
       /\ tree[n].kind = "numerical" => lb_numerical' <= node[n].lb
  <2>1. node[n].lb \in Bounds
    BY <1>1, <1>9, HandFacts
  <2> DEFINE S == {lb_numerical, node[n].lb}
  <2>2. S \in SUBSET Bounds /\ S # {} /\ lb_numerical \in S /\ node[n].lb \in S
    BY <1>2, <2>1
  <2> HIDE DEF S
  <2>3. Min(S) \in Bounds /\ Min(S) <= lb_numerical /\ Min(S) <= node[n].lb
    BY <2>2, MinBounds
  <2>4. lb_numerical' = IF tree[n].kind = "numerical" THEN Min(S) ELSE lb_numerical
    BY <1>9 DEF LpCloses, Lp, S
  <2> QED BY <1>2, <2>3, <2>4, ConstantFacts
<1>11. /\ \A l \in Leaves : n \in Path(l) => b <= tree[l].obj
       /\ upper <= b \/ (tree[n].kind = "numerical" /\ b = node[n].lb)
  BY <1>1, <1>9, ClosingBoundAdmits
<1>12. upper <= b \/ lb_numerical' <= b
  BY <1>10, <1>11
<1> QED BY <1>3, <1>5, <1>6, <1>7, <1>8, <1>9, <1>10, <1>11, <1>12, ClosingBound

(* The node of an integer solution closes. *)
LEMMA CloseLeafBound ==
  ASSUME HoldInv, BoundInv, NEW w \in Workers, CloseLeaf(w)
  PROVE  BoundInv'
<1> USE DEF workerVars, statusVars, countVars, localVars, envVars
<1>1. CoreType /\ w \in Threads /\ pc[w] = "close" /\ Leafing(w) /\ Busy(w) /\ ScanThen(w, "plunge")
  BY TypeSplit, ConstantFacts DEF HoldInv, CloseLeaf, Leafing, Busy
<1>2. /\ pc \in [Threads -> Points] /\ hand \in [Workers -> Nodes \cup {NoNode}]
      /\ scan \in Scans /\ lb_numerical \in Bounds /\ tree \in Trees
  BY <1>1 DEF CoreType
<1>3. UNCHANGED <<tree, upper, lb_numerical, cutoff, sol>>
  BY DEF CloseLeaf
<1>4. /\ \A t \in Threads \ {w} : pc'[t] = pc[t] /\ scan'[t] = scan[t] /\ sol'[t] = sol[t]
      /\ \A v \in Workers \ {w} : hand'[v] = hand[v] /\ cutoff'[v] = cutoff[v]
  BY <1>1, <1>2, <1>3, ScanThenFacts DEF CloseLeaf
<1>5. /\ \A v \in Workers \ {w} : StaysPut(v)
      /\ pc'[0] = pc[0] /\ sol'[0] = sol[0]
  BY <1>4, OthersStayPut
<1>6. ~Busy(w)'
  <2>1. pc'[w] = "scan" /\ scan'[w].ret = "plunge"
    BY <1>1, ScanThenFacts
  <2> QED BY <2>1 DEF Busy, Leafing
<1>7. PICK n \in Mine(w) : n = hand[w]
  BY <1>1, HandFacts DEF Mine
<1>8. n \in Nodes /\ node[n].status = "pending" /\ node[n].lb \in Bounds
  BY <1>1, <1>7, HandFacts
<1>9. node' = Closed(n, node[n].lb)
  BY <1>7 DEF CloseLeaf
<1>10. upper <= node[n].lb
  BY <1>1, <1>7 DEF BoundInv, SolveInv
<1>11. \A l \in Leaves : n \in Path(l) => node[n].lb <= tree[l].obj
  BY <1>2, <1>8, PendingAdmits DEF HoldInv, BoundInv
<1>12. lb_numerical' \in Bounds /\ lb_numerical' <= lb_numerical
  BY <1>2, <1>3, ConstantFacts
<1> QED BY <1>3, <1>5, <1>6, <1>8, <1>9, <1>10, <1>11, <1>12, ClosingBound

(* A solved node is an integer point. *)
LEMMA LpIsIntegerBound ==
  ASSUME HoldInv, BoundInv, NEW w \in Workers, LpIsInteger(w)
  PROVE  BoundInv'
<1> USE DEF workerVars, statusVars, countVars, localVars, envVars
<1>1. CoreType /\ w \in Threads /\ pc[w] = "solve" /\ Busy(w) /\ Goto(w, "accept") /\ Solved(w)
  BY TypeSplit, ConstantFacts DEF HoldInv, LpIsInteger, Solving, Busy
<1>2. /\ pc \in [Threads -> Points] /\ cutoff \in [Workers -> -1..Infinity]
      /\ sol \in [Threads -> Bounds] /\ tree \in Trees /\ upper \in Nat
      /\ NodeType /\ TreeShape
  BY <1>1, TypeSplit, ConstantFacts DEF CoreType, HoldInv
<1>3. UNCHANGED <<tree, upper, lb_numerical, hand, scan>>
  BY DEF LpIsInteger
<1>4. PICK n \in Mine(w) : n = hand[w]
  BY <1>1, HandFacts DEF Mine
<1>5. n \in Nodes /\ node[n].status = "pending"
  BY <1>1, <1>4, HandFacts
<1>6. /\ tree[n].kind = "int" /\ node' = [node EXCEPT ![n].lb = tree[n].obj]
      /\ sol' = [sol EXCEPT ![w] = tree[n].obj]
  BY <1>4 DEF LpIsInteger, Lp
<1>7. /\ \A p \in Nodes : p # n => node'[p] = node[p]
      /\ node'[n].status = "pending" /\ node'[n].lb = tree[n].obj
      /\ Settled'
  BY <1>2, <1>3, <1>5, <1>6, PointKeepsShape DEF BoundInv
<1>8. pc'[w] = "accept" /\ \A t \in Threads \ {w} : pc'[t] = pc[t]
  BY <1>1, <1>2 DEF Goto
<1>9. sol'[w] = tree[n].obj /\ \A t \in Threads \ {w} : sol'[t] = sol[t]
  BY <1>1, <1>2, <1>6
<1>10. \A v \in Workers \ {w} : cutoff'[v] = cutoff[v]
  BY <1>1, <1>2 DEF Solved
<1>11. /\ \A v \in Workers \ {w} : StaysPut(v)
       /\ pc'[0] = pc[0] /\ sol'[0] = sol[0]
  BY <1>3, <1>8, <1>9, <1>10, OthersStayPut
<1>12. ClosedInv'
  <2>1. \A p \in Nodes : node'[p].status = "closed" => node[p].status = "closed" /\ node'[p] = node[p]
    BY <1>7
  <2> QED BY <1>3, <2>1 DEF BoundInv, ClosedInv, Nodes
<1>13. UpperInv'
  BY <1>3, <1>11 DEF BoundInv, UpperInv, IsPoint
<1>14. SolveInv(w)'
  BY <1>3, <1>4, <1>6, <1>7, <1>8, <1>9 DEF SolveInv, Leafing
<1>15. ASSUME NEW v \in Workers \ {w} PROVE SolveInv(v)'
  <2>1. Leafing(v) => node'[hand[v]] = node[hand[v]]
    <3>1. SUFFICES ASSUME Leafing(v) PROVE node'[hand[v]] = node[hand[v]]
      OBVIOUS
    <3>2. hand[v] \in Nodes /\ hand[v] # NoNode
      BY <3>1, HandFacts DEF Busy
    <3>3. hand[v] \in Mine(v)
      BY <3>2 DEF Mine
    <3>4. hand[v] # n
      BY <3>3 DEF HoldInv, HeldInv
    <3> QED BY <1>7, <3>2, <3>4
  <2>2. {upper, upper'} \subseteq Nat /\ upper' <= upper
    BY <1>2, <1>3
  <2> QED BY <1>3, <1>11, <2>1, <2>2, SolveFrame DEF BoundInv, StaysPut
<1>16. Workers' = Workers /\ \A v \in Workers : v = w \/ v \in Workers \ {w}
  BY DEF Workers
<1> QED BY <1>7, <1>12, <1>13, <1>14, <1>15, <1>16 DEF BoundInv

(* A solved node is branched on. *)
LEMMA LpBranchesBound ==
  ASSUME HoldInv, BoundInv, NEW w \in Workers, LpBranches(w)
  PROVE  BoundInv'
<1> USE DEF workerVars, statusVars, countVars, localVars, envVars
<1>1. CoreType /\ w \in Threads /\ pc[w] = "solve" /\ Busy(w) /\ ScanThen(w, "plunge")
  BY TypeSplit, ConstantFacts DEF HoldInv, LpBranches, Solving, Busy
<1>2. /\ hand \in [Workers -> Nodes \cup {NoNode}] /\ cutoff \in [Workers -> -1..Infinity]
      /\ tree \in Trees /\ upper \in Nat /\ NodeType /\ TreeShape
  BY <1>1, TypeSplit, ConstantFacts DEF CoreType, HoldInv
<1>3. UNCHANGED <<tree, upper, lb_numerical, sol>>
  BY DEF LpBranches
<1>4. PICK n \in Mine(w) : n = hand[w]
  BY <1>1, HandFacts DEF Mine
<1>5. n \in Nodes /\ node[n].status = "pending"
  BY <1>1, <1>4, HandFacts
<1>6. tree[n].kind = "frac" /\ node' = Branched(n, tree[n].obj)
  BY <1>4, LpBranchesFacts
<1>7. Settled'
  BY <1>2, <1>3, <1>5, <1>6, BranchedSettles DEF BoundInv
<1>8. /\ 2 * n \notin Pending /\ 2 * n + 1 \notin Pending
      /\ \A p \in Nodes : p \notin {n, 2 * n, 2 * n + 1} => node'[p] = node[p]
      /\ node'[n].status = "branched"
      /\ \A c \in {2 * n, 2 * n + 1} :
           node'[c] = [status |-> "pending", lb |-> tree[n].obj, kids |-> 0]
  BY <1>2, <1>3, <1>5, <1>6, BranchedKeepsShape
<1>9. /\ \A t \in Threads \ {w} : pc'[t] = pc[t] /\ scan'[t] = scan[t]
      /\ pc'[w] = "scan" /\ scan'[w].ret = "plunge"
  BY <1>1, ScanThenFacts
<1>10. \A v \in Workers \ {w} : hand'[v] = hand[v] /\ cutoff'[v] = cutoff[v]
  BY <1>2 DEF LpBranches
<1>11. /\ \A v \in Workers \ {w} : StaysPut(v)
       /\ pc'[0] = pc[0] /\ sol'[0] = sol[0]
  BY <1>3, <1>9, <1>10, OthersStayPut
<1>12. ClosedInv'
  <2>1. ASSUME NEW p \in Nodes, node'[p].status = "closed"
        PROVE  node[p].status = "closed" /\ node'[p] = node[p]
    <3>1. p # n /\ p # 2 * n /\ p # 2 * n + 1
      BY <1>8, <2>1
    <3> QED BY <1>8, <2>1, <3>1
  <2> QED BY <1>3, <2>1 DEF BoundInv, ClosedInv, Nodes
<1>13. UpperInv'
  BY <1>3, <1>11 DEF BoundInv, UpperInv, IsPoint
<1>14. SolveInv(w)'
  BY <1>9 DEF SolveInv, Leafing
<1>15. ASSUME NEW v \in Workers \ {w} PROVE SolveInv(v)'
  <2>1. Leafing(v) => node'[hand[v]] = node[hand[v]]
    <3>1. SUFFICES ASSUME Leafing(v) PROVE node'[hand[v]] = node[hand[v]]
      OBVIOUS
    <3>2. hand[v] \in Nodes /\ hand[v] # NoNode /\ hand[v] \in Pending
      BY <3>1, HandFacts DEF Busy
    <3>3. hand[v] \in Mine(v)
      BY <3>2 DEF Mine
    <3>4. hand[v] # n
      BY <3>3 DEF HoldInv, HeldInv
    <3> QED BY <1>8, <3>2, <3>4
  <2>2. {upper, upper'} \subseteq Nat /\ upper' <= upper
    BY <1>2, <1>3
  <2> QED BY <1>3, <1>11, <2>1, <2>2, SolveFrame DEF BoundInv, StaysPut
<1>16. Workers' = Workers /\ \A v \in Workers : v = w \/ v \in Workers \ {w}
  BY DEF Workers
<1> QED BY <1>7, <1>12, <1>13, <1>14, <1>15, <1>16 DEF BoundInv

(* The worker taken from the pool is given a node, or goes back. *)
LEMMA HandoverBound ==
  ASSUME HoldInv, BoundInv, NEW w \in Workers, Handover(w)
  PROVE  BoundInv'
<1> USE DEF workerVars, statusVars, countVars, localVars, envVars
<1>1. CoreType /\ w \in Threads /\ pc \in [Threads -> Points] /\ pc[w] = "handover"
  BY TypeSplit, ConstantFacts DEF HoldInv, CoreType, Handover
<1>2. UNCHANGED <<tree, node, upper, lb_numerical, sol, scan, hand, cutoff>>
  BY DEF Handover
<1>3. PICK o \in Workers : o = other[w]
  BY <1>1 DEF HoldInv, PoolInv
<1>4. o \in Threads /\ o # 0 /\ w # 0 /\ pc[o] = "off"
  BY <1>1, <1>3, ConstantFacts DEF HoldInv, PoolInv
<1>5. pc' = [pc EXCEPT ![w] = "take", ![o] = "enter"] \/ pc' = [pc EXCEPT ![w] = "take"]
  BY <1>3 DEF Handover, Goto
<1>6. /\ pc'[w] = "take" /\ pc'[o] \in {"off", "enter"}
      /\ \A t \in Threads \ {w, o} : pc'[t] = pc[t]
  BY <1>1, <1>4, <1>5
<1>7. ASSUME NEW v \in Workers PROVE ~Busy(v)' \/ StaysPut(v)
  <2>1. v \in Threads
    BY ConstantFacts
  <2>2. CASE v = w \/ v = o
    <3>1. pc'[v] \in {"take", "off", "enter"}
      BY <1>6, <2>2
    <3> QED BY <3>1 DEF Busy, Leafing
  <2>3. CASE v # w /\ v # o
    BY <1>2, <1>6, <2>1, <2>3 DEF StaysPut
  <2> QED BY <2>2, <2>3
<1>8. pc'[0] = pc[0]
  BY <1>4, <1>6, ConstantFacts
<1> QED BY <1>2, <1>7, <1>8, BoundQuiet

(* A thread reads bounds. *)
LEMMA ScanBound ==
  ASSUME HoldInv, BoundInv, NEW t \in Threads, ReadWorkerBound(t) \/ ReadQueueBound(t)
  PROVE  BoundInv'
<1> USE DEF workerVars, statusVars, countVars, localVars, envVars
<1>1. UNCHANGED <<tree, node, upper, lb_numerical, sol, pc, hand, cutoff>>
  BY DEF ReadWorkerBound, ReadQueueBound
<1>2. CoreType /\ NodeType
  BY TypeSplit DEF HoldInv
<1>3. \A u \in Threads : scan'[u].ret = scan[u].ret
  BY <1>2, ScanFacts
<1>4. \A v \in Workers : StaysPut(v)
  BY <1>1, <1>3, ConstantFacts DEF StaysPut
<1> QED BY <1>1, <1>4, BoundQuiet

(* A solution becomes the incumbent, or is no better. *)
LEMMA AcceptBound ==
  ASSUME HoldInv, BoundInv, NEW t \in Threads, AcceptNewIncumbent(t)
  PROVE  BoundInv'
<1> USE DEF workerVars, statusVars, countVars, localVars, envVars
<1>1. /\ CoreType /\ pc[t] = "accept" /\ pc \in [Threads -> Points] /\ scan \in Scans
      /\ sol \in [Threads -> Bounds] /\ sol[t] \in Nat /\ upper \in Nat /\ lb_numerical \in Nat
      /\ NodeType /\ tree \in Trees
  BY TypeSplit, ConstantFacts DEF HoldInv, CoreType, AcceptNewIncumbent
<1>2. UNCHANGED <<tree, node, lb_numerical, hand, cutoff>>
  BY DEF AcceptNewIncumbent
<1>3. IsPoint(sol[t])
  <2>1. CASE t = 0
    BY <1>1, <2>1 DEF BoundInv, UpperInv
  <2>2. CASE t \in Workers
    <3>1. Leafing(t) /\ pc[t] # "close"
      BY <1>1 DEF Leafing
    <3>2. tree[hand[t]].kind = "int" /\ sol[t] = tree[hand[t]].obj
      BY <2>2, <3>1 DEF BoundInv, SolveInv
    <3>3. hand[t] \in DOMAIN tree
      BY <2>2, <3>1, HandFacts DEF Busy
    <3>4. sol[t] <= sol[t]
      BY <1>1
    <3> QED BY <3>2, <3>3, <3>4 DEF IsPoint
  <2> QED BY <2>1, <2>2, ConstantFacts
<1>4. /\ upper' \in Nat /\ upper' <= upper /\ upper' <= sol[t] /\ upper' \in {upper, sol[t]}
      /\ \/ pc'[t] = "close"
         \/ pc'[t] = "scan" /\ scan'[t].ret = "accepted" /\ sol' = sol
      /\ \A u \in Threads \ {t} : pc'[u] = pc[u] /\ scan'[u] = scan[u] /\ sol'[u] = sol[u]
  <2>1. upper' \in Nat /\ upper' <= upper /\ upper' <= sol[t] /\ upper' \in {upper, sol[t]}
    BY <1>1, AcceptedBound, ConstantFacts
  <2>2. CASE ScanThen(t, "accepted") /\ sol' = sol
    <3>1. /\ pc'[t] = "scan" /\ scan'[t].ret = "accepted"
          /\ \A u \in Threads \ {t} : pc'[u] = pc[u] /\ scan'[u] = scan[u]
      BY <1>1, <2>2, ScanThenFacts
    <3> QED BY <2>1, <2>2, <3>1
  <2>3. CASE Goto(t, "close") /\ sol' = [sol EXCEPT ![t] = 0] /\ scan' = scan
    BY <1>1, <2>1, <2>3 DEF Goto
  <2> QED BY <2>2, <2>3 DEF AcceptNewIncumbent
<1>5. Settled'
  BY <1>2, TreeFrame DEF BoundInv
<1>6. ClosedInv'
  <2>1. \A p \in Nodes : node[p].lb \in Nat
    BY <1>1, ConstantFacts DEF NodeType
  <2>2. ASSUME NEW p \in Nodes, node[p].status = "closed"
        PROVE  upper' <= node[p].lb \/ lb_numerical <= node[p].lb
    BY <1>1, <1>4, <2>1, <2>2 DEF BoundInv, ClosedInv
  <2> QED BY <1>2, <2>2 DEF ClosedInv, Nodes
<1>7. UpperInv'
  <2>1. upper' = Infinity \/ IsPoint(upper')
    BY <1>3, <1>4 DEF BoundInv, UpperInv
  <2>2. \A x : IsPoint(x) =>
          \E n \in DOMAIN tree' : tree'[n].kind \in {"int", "numerical"} /\ tree'[n].obj <= x
    BY <1>2 DEF IsPoint
  <2>3. pc'[0] = "accept" => pc[0] = "accept" /\ sol'[0] = sol[0]
    BY <1>4, ConstantFacts
  <2>4. pc'[0] = "accept" => IsPoint(sol'[0])
    BY <2>3 DEF BoundInv, UpperInv
  <2> QED BY <2>1, <2>2, <2>4 DEF UpperInv, IsPoint
<1>8. ASSUME NEW v \in Workers PROVE SolveInv(v)'
  <2>1. v \in Threads /\ SolveInv(v)
    BY ConstantFacts DEF BoundInv
  <2>2. CASE v # t
    BY <1>1, <1>2, <1>4, <2>1, <2>2, SolveFrame
  <2>3. CASE v = t
    <3>1. Leafing(v) /\ pc[v] = "accept" /\ pc[v] # "close"
      BY <1>1, <2>3 DEF Leafing
    <3>2. /\ tree[hand[v]].kind = "int" /\ node[hand[v]].lb = tree[hand[v]].obj
          /\ sol[v] = tree[hand[v]].obj
      BY <2>1, <3>1 DEF SolveInv
    <3>3. pc'[v] # "solve" /\ pc'[v] # "accept" /\ upper' <= tree[hand[v]].obj
          /\ (pc'[v] # "close" => sol'[v] = tree[hand[v]].obj)
      BY <1>4, <2>3, <3>2
    <3> QED BY <1>2, <3>2, <3>3 DEF SolveInv
  <2> QED BY <2>2, <2>3
<1>9. Workers' = Workers
  BY DEF Workers
<1> QED BY <1>5, <1>6, <1>7, <1>8, <1>9 DEF BoundInv

(* The gap has been computed for a new incumbent. *)
LEMMA CheckIncumbentBound ==
  ASSUME HoldInv, BoundInv, NEW t \in Threads, CheckIncumbentGap(t)
  PROVE  BoundInv'
<1> USE DEF workerVars, statusVars, countVars, localVars, envVars
<1>1. /\ CoreType /\ pc[t] = "scan" /\ scan[t].ret = "accepted"
      /\ pc \in [Threads -> Points] /\ scan \in Scans
      /\ sol \in [Threads -> Bounds] /\ upper \in Nat
  BY TypeSplit, ConstantFacts DEF HoldInv, CoreType, CheckIncumbentGap, ScanDone
<1>2. UNCHANGED <<tree, node, upper, lb_numerical, hand, cutoff>>
  BY DEF CheckIncumbentGap
<1>3. /\ pc'[t] = "close"
      /\ \A u \in Threads \ {t} : pc'[u] = pc[u] /\ scan'[u] = scan[u] /\ sol'[u] = sol[u]
  BY <1>1 DEF CheckIncumbentGap, Goto, ScanOver, Scans
<1>4. Settled'
  BY <1>2, TreeFrame DEF BoundInv
<1>5. ClosedInv'
  BY <1>2 DEF BoundInv, ClosedInv, Nodes
<1>6. UpperInv'
  <2>1. pc'[0] = "accept" => pc[0] = "accept" /\ sol'[0] = sol[0]
    BY <1>3, ConstantFacts
  <2> QED BY <1>2, <2>1 DEF BoundInv, UpperInv, IsPoint
<1>7. ASSUME NEW v \in Workers PROVE SolveInv(v)'
  <2>1. v \in Threads /\ SolveInv(v) /\ {upper, upper'} \subseteq Nat /\ upper' <= upper
    BY <1>1, <1>2, ConstantFacts DEF BoundInv
  <2>2. CASE v # t
    BY <1>2, <1>3, <2>1, <2>2, SolveFrame
  <2>3. CASE v = t
    <3>1. Leafing(v) /\ pc[v] # "accept"
      BY <1>1, <2>3 DEF Leafing
    <3>2. /\ tree[hand[v]].kind = "int" /\ node[hand[v]].lb = tree[hand[v]].obj
          /\ upper <= tree[hand[v]].obj
      BY <2>1, <3>1 DEF SolveInv
    <3> QED BY <1>2, <1>3, <2>3, <3>2 DEF SolveInv
  <2> QED BY <2>2, <2>3
<1>8. Workers' = Workers
  BY DEF Workers
<1> QED BY <1>4, <1>5, <1>6, <1>7, <1>8 DEF BoundInv

(* Solutions from outside, limits and the end of the search. *)
LEMMA OutsideBound ==
  ASSUME HoldInv, BoundInv,
         FindSolution \/ SolutionDone \/ ReachLimit \/ CheckLast \/ FinalBound \/ SetFinalSolution
  PROVE  BoundInv'
<1> USE DEF workerVars, statusVars, countVars, localVars, envVars
<1>1. /\ pc \in [Threads -> Points] /\ sol \in [Threads -> Bounds] /\ 0 \in Threads
  BY TypeSplit, ConstantFacts DEF HoldInv, CoreType
<1>2. UNCHANGED <<tree, node, upper, lb_numerical, hand, cutoff, scan>>
  BY DEF FindSolution, SolutionDone, ReachLimit, CheckLast, FinalBound, SetFinalSolution
<1>3. \A u \in Threads \ {0} : pc'[u] = pc[u] /\ sol'[u] = sol[u]
  BY <1>1 DEF FindSolution, SolutionDone, ReachLimit, CheckLast, FinalBound, SetFinalSolution, Goto
<1>4. \A v \in Workers : StaysPut(v)
  BY <1>2, <1>3, ConstantFacts DEF StaysPut
<1>5. pc'[0] = "accept" => (pc[0] = "accept" /\ sol'[0] = sol[0]) \/ IsPoint(sol'[0])
  <2>1. CASE FindSolution
    <3>1. PICK n \in DOMAIN tree : tree[n].kind = "int" /\ sol' = [sol EXCEPT ![0] = tree[n].obj]
      BY <2>1 DEF FindSolution
    <3>2. sol'[0] = tree[n].obj
      BY <1>1, <3>1
    <3>3. tree \in Trees
      BY TypeSplit DEF HoldInv, CoreType
    <3>5. tree[n].obj \in Nat
      BY <3>3, TreeFacts
    <3>4. tree[n].obj <= tree[n].obj
      BY <3>5
    <3> QED BY <3>1, <3>2, <3>4 DEF IsPoint
  <2>2. CASE ~FindSolution
    BY <1>1, <2>2 DEF SolutionDone, ReachLimit, CheckLast, FinalBound, SetFinalSolution, Goto
  <2> QED BY <2>1, <2>2
<1>6. Settled'
  BY <1>2, TreeFrame DEF BoundInv
<1>7. ClosedInv'
  BY <1>2 DEF BoundInv, ClosedInv, Nodes
<1>8. UpperInv'
  <2>1. pc'[0] = "accept" => IsPoint(sol'[0])
    BY <1>5 DEF BoundInv, UpperInv
  <2> QED BY <1>2, <2>1 DEF BoundInv, UpperInv, IsPoint
<1>9. ASSUME NEW v \in Workers PROVE SolveInv(v)'
  <2>1. {upper, upper'} \subseteq Nat /\ upper' <= upper
    <3>1. upper \in Nat
      BY TypeSplit, ConstantFacts DEF HoldInv, CoreType
    <3> QED BY <1>2, <3>1
  <2> QED BY <1>2, <1>4, <2>1, SolveFrame DEF BoundInv, StaysPut
<1>10. Workers' = Workers
  BY DEF Workers
<1> QED BY <1>6, <1>7, <1>8, <1>9, <1>10 DEF BoundInv

(* At the end a queued node above the incumbent is cut off. *)
LEMMA ClearCutoffBound ==
  ASSUME HoldInv, BoundInv, NEW w \in Workers, ClearCutoff(w)
  PROVE  BoundInv'
<1> USE DEF workerVars, statusVars, countVars, localVars, envVars
<1>1. UNCHANGED <<tree, upper, lb_numerical, hand, cutoff, scan, sol, pc>> /\ pc[w] = "off"
  BY DEF ClearCutoff, TasksDone
<1>2. PICK n \in Best(queue[w]) : node' = Closed(n, node[n].lb)
  BY DEF ClearCutoff
<1>3. n \in Mine(w) /\ node[n].lb = QueueBound(queue[w])
  BY BestFacts DEF Mine
<1>4. upper < node[n].lb
  BY <1>3 DEF ClearCutoff
<1>5. \A v \in Workers \ {w} : StaysPut(v)
  BY <1>1 DEF StaysPut
<1>6. ~Busy(w)'
  BY <1>1 DEF Busy, Leafing
<1> QED BY <1>1, <1>2, <1>3, <1>4, <1>5, <1>6, CutOffBound

(* When the search starts every point is below a child of the root. *)
LEMMA InitBound ==
  ASSUME Init
  PROVE  BoundInv
<1>1. /\ tree \in Trees /\ {1, 2, 3} \subseteq Nodes
      /\ node[1].status = "branched"
      /\ node[2].status = "pending" /\ node[2].lb = tree[1].obj
      /\ node[3].status = "pending" /\ node[3].lb = tree[1].obj
      /\ \A n \in Nodes \ {1, 2, 3} : node[n].status = "none"
  BY InitTree DEF Init
<1>2. Settled
  BY InitSettles DEF Init
<1>3. ClosedInv
  BY <1>1 DEF ClosedInv
<1>4. UpperInv
  <2>1. Attained(tree, InitialUpper[tree]) /\ pc[0] = "search"
    BY <1>1, TreeAssumption, ConstantFacts DEF Init
  <2> QED BY <2>1 DEF Init, UpperInv, IsPoint, Attained
<1>5. \A w \in Workers : SolveInv(w)
  <2>1. \A w \in Workers : pc[w] \in {"enter", "off"}
    BY ConstantFacts DEF Init
  <2> QED BY <2>1 DEF SolveInv, Leafing
<1> QED BY <1>2, <1>3, <1>4, <1>5 DEF BoundInv

(* Every step keeps what is known of the points not found. *)
LEMMA BoundStep ==
  ASSUME HoldInv, BoundInv, [Next]_vars
  PROVE  BoundInv'
<1>1. CASE UNCHANGED vars
  <2>1. \A v \in Workers : StaysPut(v)
    BY <1>1 DEF vars, StaysPut
  <2> QED BY <1>1, <2>1, BoundQuiet DEF vars
<1>2. ASSUME NEW w \in Workers, WorkerStep(w) PROVE BoundInv'
  <2>1. w \in Threads
    BY ConstantFacts
  <2> QED BY <1>2, <2>1, QuietStepsBound, PopBound, HandoverBound, TakeBound, SolveNodeLpBound,
             LpClosesBound,
             LpIsIntegerBound, CloseLeafBound, LpBranchesBound, ScanBound, AcceptBound,
             CheckIncumbentBound DEF WorkerStep
<1>3. CASE CheckLast \/ ReachLimit \/ HeuristicStep
  <2>1. 0 \in Threads
    BY ConstantFacts
  <2> QED BY <1>3, <2>1, OutsideBound, ScanBound, AcceptBound, CheckIncumbentBound
      DEF HeuristicStep
<1>4. CASE FinishStep
  BY <1>4, ClearCutoffBound, OutsideBound DEF FinishStep
<1> QED BY <1>1, <1>2, <1>3, <1>4 DEF Next

(* The invariant of the points. *)
THEOREM BoundInvariant == Spec => [](HoldInv /\ BoundInv)
<1>1. Init => HoldInv /\ BoundInv
  BY InitHolds, InitBound
<1>2. HoldInv /\ BoundInv /\ [Next]_vars => (HoldInv /\ BoundInv)'
  BY HoldStep, BoundStep
<1> QED BY <1>1, <1>2, PTL DEF Spec

(* The incumbent is a point, or there is none: it is no better than the    *)
(* optimum.                                                                *)
LEMMA UpperFacts ==
  ASSUME HoldInv, BoundInv
  PROVE  /\ Opt \in Bounds /\ Opt <= upper /\ upper \in Bounds
         /\ \A v \in Nat : IsPoint(v) => Opt <= v
<1>1. tree \in Trees /\ upper \in Bounds
  BY TypeSplit DEF HoldInv, CoreType
<1>2. ASSUME NEW v \in Nat, IsPoint(v) PROVE Opt <= v
  <2>1. PICK n \in DOMAIN tree : tree[n].kind \in {"int", "numerical"} /\ tree[n].obj <= v
    BY <1>2 DEF IsPoint
  <2>2. n \in Leaves
    BY <2>1 DEF Leaves
  <2>3. Opt \in Bounds /\ Opt <= tree[n].obj /\ tree[n].obj \in Nat
    BY <1>1, <2>2, OptFacts
  <2> QED BY <2>1, <2>3, ConstantFacts
<1>3. Opt \in Bounds /\ Opt <= Infinity
  <2>1. Opt \in Bounds
    BY <1>1, OptFacts
  <2> QED BY <2>1, ConstantFacts DEF Bounds
<1> QED BY <1>1, <1>2, <1>3, ConstantFacts DEF BoundInv, UpperInv

(* No part of the tree is discarded that could hold a better solution than *)
(* the incumbent, whichever worker closes a node on whichever bound: the   *)
(* optimum is the incumbent, or below an open node or a node the LP solver *)
(* failed on.                                                              *)
THEOREM OptimumIsKept == Spec => []OptimumNotDiscarded
<1>1. ASSUME HoldInv, BoundInv PROVE OptimumNotDiscarded
  <2> DEFINE S == {upper, lb_numerical} \cup {node[n].lb : n \in Pending}
  <2>1. /\ tree \in Trees /\ upper \in Bounds /\ lb_numerical \in Bounds /\ NodeType
    BY <1>1, TypeSplit DEF HoldInv, CoreType
  <2>2. S \in SUBSET Bounds /\ S # {}
    BY <2>1 DEF Pending, NodeType
  <2>3. upper \in S /\ lb_numerical \in S /\ \A n \in Pending : node[n].lb \in S
    OBVIOUS
  <2>4. OptimumNotDiscarded <=> Opt >= Min(S)
    BY DEF OptimumNotDiscarded
  <2> HIDE DEF S
  <2>5. Min(S) \in Nat /\ \A y \in S : Min(S) <= y /\ y \in Nat
    BY <2>2, MinBounds, ConstantFacts
  <2>6. Opt \in Bounds /\ Opt \in Nat
    BY <2>1, OptFacts, ConstantFacts
  <2>7. CASE Opt = Infinity
    <3>1. upper <= Infinity
      BY <2>1, ConstantFacts DEF Bounds
    <3> QED BY <2>3, <2>4, <2>5, <2>6, <2>7, <3>1
  <2>8. CASE \E l \in Leaves : Opt = tree[l].obj
    <3>1. PICK l \in Leaves : Opt = tree[l].obj
      BY <2>8
    <3>2. PICK p \in Path(l) : /\ p \in Nodes /\ node[p].status \in {"pending", "closed"}
                               /\ node[p].lb <= Opt
      BY <1>1, <3>1 DEF BoundInv, Settled
    <3>3. node[p].lb \in Nat
      BY <2>1, <3>2, ConstantFacts DEF NodeType
    <3>4. \E y \in S : y <= node[p].lb
      <4>1. CASE node[p].status = "pending"
        <5>1. node[p].lb \in S
          BY <2>3, <3>2, <4>1 DEF Pending
        <5> QED BY <3>3, <5>1
      <4>2. CASE node[p].status = "closed"
        <5>1. upper <= node[p].lb \/ lb_numerical <= node[p].lb
          BY <1>1, <3>2, <4>2 DEF BoundInv, ClosedInv
        <5> QED BY <2>3, <5>1
      <4> QED BY <3>2, <4>1, <4>2
    <3> QED BY <2>4, <2>5, <2>6, <3>2, <3>3, <3>4
  <2> QED BY <2>1, <2>7, <2>8, OptFacts
<1> QED BY <1>1, BoundInvariant, PTL

-----------------------------------------------------------------------------
(* Why the search stops.                                                   *)

(* What the gap invariant asks of a worker depends on its own state, the   *)
(* bounds in its queue, and what only goes one way.                        *)
LEMMA GapFrame ==
  ASSUME NEW v \in Workers, GapInv(v), {upper, upper'} \subseteq Nat, upper' <= upper,
         status' = "UNSET" => status = "UNSET",
         pc'[v] = pc[v], scan'[v] = scan[v], closed'[v] = closed[v], queue'[v] \subseteq queue[v],
         \A n \in queue'[v] : node'[n].lb = node[n].lb /\ node[n].lb \in Nat
  PROVE  GapInv(v)'
<1>1. NoBetterQueued(v) => NoBetterQueued(v)'
  <2>1. ASSUME NoBetterQueued(v), NEW n \in queue'[v] PROVE upper' <= node'[n].lb
    BY <2>1 DEF NoBetterQueued
  <2> QED BY <2>1 DEF NoBetterQueued
<1> QED BY <1>1 DEF GapInv

(* A step of thread t leaves the others in peace. *)
LEMMA GapByOne ==
  ASSUME HoldInv, \A v \in Workers : GapInv(v), NEW t \in Threads,
         {upper, upper'} \subseteq Nat, upper' <= upper, status' = "UNSET" => status = "UNSET",
         \A v \in Workers \ {t} : /\ pc'[v] = pc[v] /\ scan'[v] = scan[v]
                                  /\ closed'[v] = closed[v] /\ queue'[v] \subseteq queue[v]
                                  /\ \A n \in queue'[v] : node'[n] = node[n],
         t \in Workers => GapInv(t)'
  PROVE  \A v \in Workers : GapInv(v)'
<1>1. ASSUME NEW v \in Workers, v # t PROVE GapInv(v)'
  <2>1. \A n \in queue[v] : node[n].lb \in Nat
    BY MineFacts, ConstantFacts
  <2>2. \A n \in queue'[v] : node'[n].lb = node[n].lb /\ node[n].lb \in Nat
    BY <1>1, <2>1
  <2>3. /\ pc'[v] = pc[v] /\ scan'[v] = scan[v]
        /\ closed'[v] = closed[v] /\ queue'[v] \subseteq queue[v]
    BY <1>1
  <2> QED BY <2>2, <2>3, GapFrame
<1> QED BY <1>1

(* Open nodes are finitely many. *)
LEMMA PendingFinite ==
  ASSUME HoldInv
  PROVE  IsFiniteSet(Pending) /\ Unsolved \subseteq Pending /\ IsFiniteSet(Unsolved)
<1>1. tree \in Trees /\ TreeShape
  BY TypeSplit DEF HoldInv, CoreType
<1>2. IsFiniteSet(Pending)
  BY <1>1, OpenAreFinite
<1>3. Unsolved \subseteq Pending
  BY DEF Unsolved
<1> QED BY <1>2, <1>3, FS_Subset

(* A worker that is not off moves before the final bound is computed. *)
LEMMA StillRunning ==
  ASSUME StopInv, NEW w \in Workers, pc[w] # "off"
  PROVE  final = -1 /\ verdict = "none"
  BY DEF StopInv, TasksDone

(* The nodes being solved are the same, as are the counters. *)
LEMMA StopQuiet ==
  ASSUME HoldInv, StopInv, final # -1 => TasksDone',
         UNCHANGED <<tree, node, explored, unexplored, running, final, verdict>>,
         {upper, upper'} \subseteq Nat, upper' <= upper,
         status' = "UNSET" => status = "UNSET", verdict = "none" => status' # "INFEASIBLE",
         halt' => halt \/ status' # "UNSET",
         \A v \in Workers : /\ Leafing(v)' <=> Leafing(v)
                            /\ Leafing(v) => hand'[v] = hand[v]
  PROVE  StopInv'
<1>1. Pending' = Pending
  BY TreeFrame
<1>2. {v \in Workers : Leafing(v)}' = {v \in Workers : Leafing(v)}
  BY DEF Workers
<1>3. Finding' = Finding
  BY <1>2 DEF Finding
<1>4. Unsolved' = Unsolved
  BY <1>1, <1>3 DEF Unsolved
<1>5. halt' /\ status' = "UNSET" => ~running'
  BY DEF StopInv
<1>6. ~running' /\ final' = -1 => Pending' = {}
  BY <1>1 DEF StopInv
<1>7. status' = "UNSET" => unexplored' = Cardinality(Unsolved')
  BY <1>4 DEF StopInv
<1>8. ~explored' => upper' < Infinity \/ Pending' # {}
  BY <1>1, ConstantFacts DEF StopInv
<1>9. Known(1)'
  BY DEF StopInv, Known
<1>10. /\ final' = -1 => verdict' = "none"
       /\ final' # -1 => TasksDone'
       /\ verdict' = "none" => status' # "INFEASIBLE"
  BY DEF StopInv
<1> QED BY <1>4, <1>5, <1>6, <1>7, <1>8, <1>9, <1>10 DEF StopInv

(* Both parts, for a step of thread t that leaves the tree alone. *)
LEMMA EarlyQuiet ==
  ASSUME HoldInv, EarlyInv, final # -1 => TasksDone', NEW t \in Threads,
         UNCHANGED <<tree, node, explored, unexplored, running, final, verdict>>,
         {upper, upper'} \subseteq Nat, upper' <= upper,
         status' = "UNSET" => status = "UNSET", verdict = "none" => status' # "INFEASIBLE",
         halt' => halt \/ status' # "UNSET",
         \A v \in Workers \ {t} : /\ pc'[v] = pc[v] /\ scan'[v] = scan[v] /\ hand'[v] = hand[v]
                                  /\ closed'[v] = closed[v] /\ queue'[v] \subseteq queue[v],
         t \in Workers => /\ GapInv(t)' /\ (Leafing(t)' <=> Leafing(t))
                          /\ (Leafing(t) => hand'[t] = hand[t])
  PROVE  EarlyInv'
<1>1. \A v \in Workers : GapInv(v)'
  <2>1. \A v \in Workers : GapInv(v)
    BY DEF EarlyInv
  <2>2. \A v \in Workers \ {t} : /\ pc'[v] = pc[v] /\ scan'[v] = scan[v]
                                 /\ closed'[v] = closed[v] /\ queue'[v] \subseteq queue[v]
                                 /\ \A n \in queue'[v] : node'[n] = node[n]
    OBVIOUS
  <2> QED BY <2>1, <2>2, GapByOne
<1>2. \A v \in Workers : /\ Leafing(v)' <=> Leafing(v)
                         /\ Leafing(v) => hand'[v] = hand[v]
  BY DEF Leafing
<1>3. StopInv
  BY DEF EarlyInv
<1>4. StopInv'
  BY <1>2, <1>3, StopQuiet
<1>5. Workers' = Workers
  BY DEF Workers
<1> QED BY <1>1, <1>4, <1>5 DEF EarlyInv

(* The types the steps need. *)
LEMMA LocalTypes ==
  ASSUME HoldInv
  PROVE  /\ pc \in [Threads -> Points] /\ scan \in Scans
         /\ hand \in [Workers -> Nodes \cup {NoNode}] /\ closed \in [Workers -> BOOLEAN]
         /\ queue \in [Workers -> SUBSET Nodes] /\ sol \in [Threads -> Bounds]
         /\ upper \in Nat /\ status \in Statuses
         /\ limit \in {"HALT", "TIME_LIMIT", "NODE_LIMIT", "none"}
<1>1. CoreType
  BY TypeSplit DEF HoldInv
<1> QED BY <1>1, LimitFacts, ConstantFacts DEF CoreType

(* Entering best_first_search_with, and the flush at the end of a plunge. *)
LEMMA EnterFlushEarly ==
  ASSUME HoldInv, EarlyInv, NEW w \in Workers, Enter(w) \/ Flush(w)
  PROVE  EarlyInv'
<1> USE DEF workerVars, statusVars, countVars, localVars, envVars
<1>1. /\ CoreType /\ w \in Threads /\ pc[w] \in {"enter", "flush"}
      /\ upper \in Nat /\ queue \in [Workers -> SUBSET Nodes]
      /\ ScanThen(w, "bfs") \/ ScanThen(w, "bfs_gap")
  BY TypeSplit, ConstantFacts, LocalTypes DEF HoldInv, Enter, Flush
<1>2. UNCHANGED <<tree, node, explored, unexplored, running, final, verdict, upper, status, hand,
                  closed>>
  BY DEF Enter, Flush
<1>3. /\ pc'[w] = "scan" /\ scan'[w].ret \in {"bfs", "bfs_gap"} /\ scan'[w].i = 1
      /\ \A v \in Threads \ {w} : pc'[v] = pc[v] /\ scan'[v] = scan[v]
  BY <1>1, ScanThenFacts
<1>4. \A v \in Workers \ {w} : /\ pc'[v] = pc[v] /\ scan'[v] = scan[v] /\ hand'[v] = hand[v]
                               /\ closed'[v] = closed[v] /\ queue'[v] \subseteq queue[v]
  BY <1>1, <1>2, <1>3, ConstantFacts DEF Enter, Flush
<1>5. final = -1 /\ verdict = "none"
  BY <1>1, StillRunning DEF EarlyInv
<1>6. GapInv(w)' /\ ~Leafing(w) /\ ~Leafing(w)'
  <2>1. ~(scan'[w].i > w)
    BY <1>3, ConstantFacts DEF Workers
  <2> QED BY <1>1, <1>3, <2>1 DEF GapInv, Leafing
<1>7. halt' => halt \/ status' # "UNSET"
  BY <1>2 DEF Enter, Flush
<1>8. status' # "INFEASIBLE"
  BY <1>2, <1>5 DEF EarlyInv, StopInv
<1> QED BY <1>1, <1>2, <1>4, <1>5, <1>6, <1>7, <1>8, EarlyQuiet

(* The head of the loop of best_first_search_with. *)
LEMMA BfsLoopEarly ==
  ASSUME HoldInv, EarlyInv, NEW w \in Workers, BfsLoop(w)
  PROVE  EarlyInv'
<1> USE DEF workerVars, statusVars, countVars, localVars, envVars
<1>1. /\ w \in Threads /\ pc[w] = "bfs" /\ pc \in [Threads -> Points] /\ upper \in Nat
      /\ limit \in {"HALT", "TIME_LIMIT", "NODE_LIMIT", "none"}
      /\ closed \in [Workers -> BOOLEAN]
  BY ConstantFacts, LocalTypes DEF BfsLoop
<1>2. UNCHANGED <<tree, node, queue, explored, unexplored, running, final, verdict, upper, hand,
                  closed, scan>>
  BY DEF BfsLoop
<1>3. final = -1 /\ verdict = "none" /\ status # "INFEASIBLE"
  BY <1>1, StillRunning DEF EarlyInv, StopInv
<1>4. \/ pc' = [pc EXCEPT ![w] = "pop"] /\ SearchOn(w) /\ status' = status /\ halt' = halt
      \/ /\ pc' = [pc EXCEPT ![w] = "exit"] /\ SearchOn(w)
         /\ status' \in {"HALT", "TIME_LIMIT"}
      \/ pc' = [pc EXCEPT ![w] = "exit"] /\ ~SearchOn(w) /\ status' = status /\ halt' = halt
  <2>1. CASE SearchOn(w) /\ limit \notin {"HALT", "TIME_LIMIT"}
    BY <2>1 DEF BfsLoop, Goto
  <2>2. CASE SearchOn(w) /\ limit \in {"HALT", "TIME_LIMIT"}
    BY <2>2 DEF BfsLoop, Goto
  <2>3. CASE ~SearchOn(w)
    <3>1. halt' = halt
      <4>1. halt \in BOOLEAN
        BY TypeSplit DEF HoldInv, CoreType
      <4> QED BY <2>3, <4>1 DEF BfsLoop
    <3> QED BY <2>3, <3>1 DEF BfsLoop, Goto
  <2> QED BY <2>1, <2>2, <2>3
<1>5. \A v \in Workers \ {w} : pc'[v] = pc[v]
  BY <1>1, <1>4, ConstantFacts
<1>6. GapInv(w)'
  <2>1. CASE pc'[w] = "pop" /\ SearchOn(w)
    BY <1>2, <2>1 DEF GapInv, SearchOn
  <2>2. CASE pc'[w] = "exit" /\ status' # "UNSET"
    BY <2>2 DEF GapInv
  <2>3. CASE pc'[w] = "exit" /\ ~SearchOn(w) /\ status' = status
    <3>1. status = "UNSET" => NoBetterQueued(w)
      BY <1>1, <2>3 DEF EarlyInv, GapInv, SearchOn, NoBetterQueued
    <3>2. NoBetterQueued(w)' <=> NoBetterQueued(w)
      BY <1>2 DEF NoBetterQueued
    <3> QED BY <2>3, <3>1, <3>2 DEF GapInv
  <2> QED BY <1>1, <1>4, <2>1, <2>2, <2>3
<1>7. ~Leafing(w) /\ ~Leafing(w)'
  BY <1>1, <1>4 DEF Leafing
<1>8. /\ status' = "UNSET" => status = "UNSET"
      /\ status' # "INFEASIBLE" /\ (halt' => halt \/ status' # "UNSET")
  BY <1>3, <1>4
<1> QED BY <1>1, <1>2, <1>3, <1>5, <1>6, <1>7, <1>8, EarlyQuiet

(* After a plunge: the loop goes on, or nodes are stolen. *)
LEMMA BfsGapEarly ==
  ASSUME HoldInv, EarlyInv, NEW w \in Workers, BfsGap(w) \/ ChooseVictim(w)
  PROVE  EarlyInv'
<1> USE DEF workerVars, statusVars, countVars, localVars, envVars
<1>1. /\ w \in Threads /\ pc[w] \in {"bfs_gap", "steal"} /\ pc \in [Threads -> Points]
      /\ upper \in Nat /\ (pc[w] = "steal" => ~closed[w])
  BY ConstantFacts, LocalTypes DEF BfsGap, ChooseVictim, EarlyInv, GapInv
<1>2. UNCHANGED <<tree, node, queue, explored, unexplored, running, final, verdict, upper, hand,
                  closed, scan, halt>>
  BY DEF BfsGap, ChooseVictim
<1>3. final = -1 /\ verdict = "none" /\ status # "INFEASIBLE"
  BY <1>1, StillRunning DEF EarlyInv, StopInv
<1>4. \/ pc' = [pc EXCEPT ![w] = "exit"] /\ status' = "OPTIMAL"
      \/ /\ \E p \in {"steal", "stealing", "bfs"} : pc' = [pc EXCEPT ![w] = p]
         /\ ~closed[w] /\ status' = status
  <2>1. CASE BfsGap(w)
    BY <1>1, <2>1 DEF BfsGap, Goto
  <2>2. CASE ChooseVictim(w)
    <3>1. ~closed[w] /\ status' = status
      BY <1>1, <2>2 DEF ChooseVictim
    <3> QED BY <2>2, <3>1 DEF ChooseVictim, Goto
  <2> QED BY <2>1, <2>2
<1>5. \A v \in Workers \ {w} : pc'[v] = pc[v]
  BY <1>1, <1>4, ConstantFacts
<1>6. \/ pc'[w] = "exit" /\ status' = "OPTIMAL"
      \/ pc'[w] \in {"steal", "stealing", "bfs"} /\ ~closed'[w]
  BY <1>1, <1>2, <1>4
<1>7. GapInv(w)'
  BY <1>6 DEF GapInv
<1>8. ~Leafing(w) /\ ~Leafing(w)'
  BY <1>1, <1>6 DEF Leafing
<1>9. /\ status' = "UNSET" => status = "UNSET"
      /\ status' # "INFEASIBLE" /\ (halt' => halt \/ status' # "UNSET")
  BY <1>2, <1>3, <1>4
<1> QED BY <1>1, <1>2, <1>3, <1>5, <1>7, <1>8, <1>9, EarlyQuiet

(* A worker steals from another. *)
LEMMA StealFromEarly ==
  ASSUME HoldInv, EarlyInv, NEW w \in Workers, StealFrom(w)
  PROVE  EarlyInv'
<1> USE DEF workerVars, statusVars, countVars, localVars, envVars
<1>1. /\ w \in Threads /\ pc[w] = "stealing" /\ pc \in [Threads -> Points]
      /\ upper \in Nat /\ ~closed[w] /\ queue \in [Workers -> SUBSET Nodes]
      /\ WorkerInv(w)
  BY ConstantFacts, LocalTypes DEF StealFrom, EarlyInv, GapInv, HoldInv
<1>2. UNCHANGED <<tree, node, explored, unexplored, running, final, verdict, upper, hand,
                  closed, scan, halt, status>>
  BY DEF StealFrom
<1>3. final = -1 /\ verdict = "none" /\ status # "INFEASIBLE"
  BY <1>1, StillRunning DEF EarlyInv, StopInv
<1>4. pc'[w] = "bfs" /\ \A v \in Workers \ {w} : pc'[v] = pc[v]
  BY <1>1, ConstantFacts DEF StealFrom, Goto
<1>5. ASSUME NEW v \in Workers \ {w} PROVE queue'[v] \subseteq queue[v]
  <2>1. other[w] \in Workers \ {w}
    BY <1>1 DEF WorkerInv
  <2>2. PICK S : queue' = [queue EXCEPT ![w] = @ \cup S, ![other[w]] = @ \ S]
    BY DEF StealFrom
  <2> QED BY <1>1, <2>1, <2>2
<1>6. GapInv(w)'
  BY <1>1, <1>2, <1>4 DEF GapInv
<1>7. ~Leafing(w) /\ ~Leafing(w)'
  BY <1>1, <1>4 DEF Leafing
<1> QED BY <1>1, <1>2, <1>3, <1>4, <1>5, <1>6, <1>7, EarlyQuiet

(* A worker leaves best_first_search_with. *)
LEMMA ExitEarly ==
  ASSUME HoldInv, EarlyInv, NEW w \in Workers, Exit(w) \/ ReturnWorkerToPool(w)
  PROVE  EarlyInv'
<1> USE DEF workerVars, statusVars, countVars, localVars, envVars
<1>1. /\ w \in Threads /\ pc[w] \in {"exit", "return"} /\ pc \in [Threads -> Points]
      /\ upper \in Nat /\ (status = "UNSET" => NoBetterQueued(w))
  BY ConstantFacts, LocalTypes DEF Exit, ReturnWorkerToPool, EarlyInv, GapInv
<1>2. UNCHANGED <<tree, node, queue, explored, unexplored, running, final, verdict, upper, hand,
                  closed, scan, status>>
  BY DEF Exit, ReturnWorkerToPool
<1>3. final = -1 /\ verdict = "none" /\ status # "INFEASIBLE"
  BY <1>1, StillRunning DEF EarlyInv, StopInv
<1>4. pc'[w] \in {"return", "off"} /\ \A v \in Workers \ {w} : pc'[v] = pc[v]
  BY <1>1, ConstantFacts DEF Exit, ReturnWorkerToPool, Goto
<1>5. NoBetterQueued(w)' <=> NoBetterQueued(w)
  BY <1>2 DEF NoBetterQueued
<1>6. GapInv(w)'
  BY <1>1, <1>2, <1>4, <1>5 DEF GapInv
<1>7. ~Leafing(w) /\ ~Leafing(w)'
  BY <1>1, <1>4 DEF Leafing
<1>8. halt' => halt \/ status' # "UNSET"
  BY <1>2 DEF Exit, ReturnWorkerToPool
<1> QED BY <1>1, <1>2, <1>3, <1>4, <1>6, <1>7, <1>8, EarlyQuiet

(* A worker takes another from the pool. *)
LEMMA LaunchEarly ==
  ASSUME HoldInv, EarlyInv, NEW w \in Workers, LaunchBfsWorker(w)
  PROVE  EarlyInv'
<1> USE DEF workerVars, statusVars, countVars, localVars, envVars
<1>1. w \in Threads /\ pc[w] = "launch" /\ pc \in [Threads -> Points] /\ upper \in Nat
  BY ConstantFacts, LocalTypes DEF LaunchBfsWorker
<1>2. UNCHANGED <<tree, node, queue, explored, unexplored, running, final, verdict, upper, hand,
                  closed, scan, status, halt>>
  BY DEF LaunchBfsWorker
<1>3. final = -1 /\ verdict = "none" /\ status # "INFEASIBLE"
  BY <1>1, StillRunning DEF EarlyInv, StopInv
<1>4. pc'[w] \in {"take", "handover"} /\ \A v \in Workers \ {w} : pc'[v] = pc[v]
  BY <1>1, ConstantFacts DEF LaunchBfsWorker, Goto
<1>5. GapInv(w)'
  BY <1>4 DEF GapInv
<1>6. ~Leafing(w) /\ ~Leafing(w)'
  BY <1>1, <1>4 DEF Leafing
<1> QED BY <1>1, <1>2, <1>3, <1>4, <1>5, <1>6, EarlyQuiet

(* The worker taken from the pool is given a node, or goes back. *)
LEMMA HandoverEarly ==
  ASSUME HoldInv, EarlyInv, NEW w \in Workers, Handover(w)
  PROVE  EarlyInv'
<1> USE DEF workerVars, statusVars, countVars, localVars, envVars
<1>1. /\ w \in Threads /\ pc \in [Threads -> Points] /\ pc[w] = "handover" /\ upper \in Nat
      /\ queue \in [Workers -> SUBSET Nodes] /\ status \in Statuses
  BY ConstantFacts, LocalTypes DEF Handover
<1>2. UNCHANGED <<tree, node, explored, unexplored, running, final, verdict, upper, hand,
                  closed, scan, status, halt>>
  BY DEF Handover
<1>3. PICK o \in Workers : o = other[w]
  BY <1>1 DEF HoldInv, PoolInv
<1>4. o \in Threads /\ pc[o] = "off" /\ o # w
  BY <1>1, <1>3, ConstantFacts DEF HoldInv, PoolInv
<1>5. PICK S : /\ queue' = [queue EXCEPT ![w] = @ \ S, ![o] = S]
               /\ \/ S # {} /\ pc' = [pc EXCEPT ![w] = "take", ![o] = "enter"]
                  \/ S = {} /\ pc' = [pc EXCEPT ![w] = "take"]
  BY <1>3 DEF Handover, Goto
<1>6. /\ pc'[w] = "take" /\ (pc'[o] = "enter" \/ (pc'[o] = "off" /\ queue'[o] = {}))
      /\ \A v \in Workers \ {w, o} : pc'[v] = pc[v] /\ queue'[v] = queue[v]
  BY <1>1, <1>4, <1>5, ConstantFacts
<1>7. {upper, upper'} \subseteq Nat /\ upper' <= upper
  BY <1>1, <1>2
<1>8. ASSUME NEW v \in Workers PROVE GapInv(v)'
  <2>1. CASE v = w
    BY <1>6, <2>1 DEF GapInv
  <2>2. CASE v = o
    BY <1>6, <2>2 DEF GapInv, NoBetterQueued
  <2>3. CASE v # w /\ v # o
    <3>1. pc'[v] = pc[v] /\ queue'[v] \subseteq queue[v] /\ scan'[v] = scan[v] /\ closed'[v] = closed[v]
      BY <1>2, <1>6, <2>3
    <3>2. \A n \in queue'[v] : node'[n].lb = node[n].lb /\ node[n].lb \in Nat
      <4>1. \A n \in queue[v] : node[n].lb \in Nat
        BY MineFacts, ConstantFacts
      <4> QED BY <1>2, <3>1, <4>1
    <3> QED BY <1>2, <1>7, <3>1, <3>2, GapFrame DEF EarlyInv
  <2> QED BY <2>1, <2>2, <2>3
<1>9. \A v \in Workers : Leafing(v)' <=> Leafing(v)
  BY <1>1, <1>2, <1>4, <1>6 DEF Leafing
<1>10. StopInv /\ final = -1 /\ status' # "INFEASIBLE"
  BY <1>1, <1>2, StillRunning DEF EarlyInv, StopInv
<1>11. StopInv'
  BY <1>2, <1>7, <1>9, <1>10, StopQuiet
<1>12. Workers' = Workers
  BY DEF Workers
<1> QED BY <1>8, <1>11, <1>12 DEF EarlyInv

(* A worker has computed the gap: if it has closed, nothing in the queue   *)
(* of the worker is better than the incumbent.                             *)
LEMMA ComputeGapEarly ==
  ASSUME HoldInv, EarlyInv, NEW w \in Workers, ComputeGap(w)
  PROVE  EarlyInv'
<1> USE DEF workerVars, statusVars, countVars, localVars, envVars
<1>1. /\ w \in Threads /\ pc[w] = "scan" /\ pc \in [Threads -> Points] /\ scan \in Scans
      /\ upper \in Nat /\ closed \in [Workers -> BOOLEAN] /\ scan[w].i > NumWorkers
      /\ scan[w].ret \in {"bfs", "plunge", "bfs_gap"} /\ CoreType
  BY ConstantFacts, LocalTypes, TypeSplit DEF ComputeGap, ScanDone, HoldInv
<1>2. UNCHANGED <<tree, node, queue, explored, unexplored, running, final, verdict, upper, hand,
                  status, halt>>
  BY DEF ComputeGap
<1>3. final = -1 /\ verdict = "none" /\ status # "INFEASIBLE"
  BY <1>1, StillRunning DEF EarlyInv, StopInv
<1>4. \A v \in Threads \ {w} : scan'[v] = scan[v]
  BY <1>1, ScanOverFacts DEF ComputeGap
<1>5. \A v \in Workers \ {w} : /\ pc'[v] = pc[v] /\ scan'[v] = scan[v] /\ hand'[v] = hand[v]
                               /\ closed'[v] = closed[v] /\ queue'[v] \subseteq queue[v]
  BY <1>1, <1>2, <1>4, ConstantFacts DEF ComputeGap, Goto
<1>6. \/ pc'[w] \in {"flush", "launch", "take", "bfs_gap"}
      \/ pc'[w] = "bfs" /\ scan[w].ret = "bfs"
  BY <1>1, PlungeNextFacts DEF ComputeGap, Goto
<1>7. ASSUME scan[w].ret = "bfs", closed'[w], NEW n \in queue'[w] PROVE upper' <= node'[n].lb
  <2>1. upper <= ScannedBound(w)
    BY <1>1, <1>7 DEF ComputeGap, GapClosed
  <2>2. scan[w].i > w
    BY <1>1, ConstantFacts DEF Workers, Scans
  <2>3. n \in queue[w] /\ scan[w].lb <= node[n].lb
    BY <1>1, <1>2, <1>7, <2>2 DEF EarlyInv, GapInv
  <2>4. node[n].lb \in Nat /\ node[n].lb < Infinity /\ scan[w].lb \in Nat
    BY <1>1, <2>3, MineFacts, ConstantFacts DEF Scans
  <2>5. scan[w].lb < Infinity
    BY <2>3, <2>4, ConstantFacts
  <2>6. upper <= scan[w].lb
    BY <2>1, <2>5 DEF ScannedBound
  <2> QED BY <1>1, <1>2, <2>3, <2>4, <2>6
<1>8. GapInv(w)'
  <2>1. scan[w].ret = "bfs" /\ closed'[w] => NoBetterQueued(w)'
    BY <1>7 DEF NoBetterQueued
  <2> QED BY <1>6, <2>1 DEF GapInv
<1>9. ~Leafing(w) /\ ~Leafing(w)'
  BY <1>1, <1>6 DEF Leafing
<1> QED BY <1>1, <1>2, <1>3, <1>5, <1>8, <1>9, EarlyQuiet

(* A bound has been read. *)
LEMMA ScanEarly ==
  ASSUME HoldInv, EarlyInv, NEW t \in Threads, ReadWorkerBound(t) \/ ReadQueueBound(t)
  PROVE  EarlyInv'
<1> USE DEF workerVars, statusVars, countVars, localVars, envVars
<1>1. CoreType /\ NodeType /\ upper \in Nat /\ scan \in Scans
  BY TypeSplit, LocalTypes DEF HoldInv
<1>2. /\ scan' \in Scans /\ scan'[t].ret = scan[t].ret /\ scan'[t].lb <= scan[t].lb
      /\ \A u \in Threads \ {t} : scan'[u] = scan[u]
      /\ scan'[t].i > t => \/ scan[t].i > t
                           \/ t \in Workers => \A n \in queue[t] : scan'[t].lb <= node[n].lb
  BY <1>1, ScanFacts
<1>3. UNCHANGED <<tree, node, queue, upper, status, running, halt, explored, unexplored, leaving,
                  pc, hand, closed, final, verdict>>
  BY DEF ReadWorkerBound, ReadQueueBound
<1>4. final # -1 => TasksDone'
  BY <1>3 DEF EarlyInv, StopInv, TasksDone, Workers
<1>5. verdict = "none" => status' # "INFEASIBLE"
  BY <1>3 DEF EarlyInv, StopInv
<1>6. ASSUME t \in Workers PROVE GapInv(t)'
  <2>1. GapInv(t)
    BY <1>6 DEF EarlyInv
  <2>2. ASSUME pc[t] = "scan", scan[t].ret = "bfs", scan'[t].i > t, NEW n \in queue[t]
        PROVE  scan'[t].lb <= node[n].lb
    <3>1. scan'[t].lb \in Nat /\ scan[t].lb \in Nat /\ node[n].lb \in Nat
      BY <1>1, <1>2, <1>6, <2>2, MineFacts, ConstantFacts DEF Scans
    <3>2. CASE scan[t].i > t
      BY <1>2, <2>1, <2>2, <3>1, <3>2 DEF GapInv
    <3> QED BY <1>2, <1>6, <2>2, <3>2
  <2>3. NoBetterQueued(t)' <=> NoBetterQueued(t)
    BY <1>3 DEF NoBetterQueued
  <2> QED BY <1>2, <1>3, <2>1, <2>2, <2>3 DEF GapInv
<1>7. t \in Workers => (Leafing(t)' <=> Leafing(t))
  BY <1>2, <1>3 DEF Leafing
<1>8. \A v \in Workers \ {t} : scan'[v] = scan[v]
  BY <1>2, ConstantFacts
<1> QED BY <1>1, <1>3, <1>4, <1>5, <1>6, <1>7, <1>8, EarlyQuiet

(* A solution is accepted or not, and the gap then computed. *)
LEMMA IncumbentEarly ==
  ASSUME HoldInv, EarlyInv, NEW t \in Threads, AcceptNewIncumbent(t) \/ CheckIncumbentGap(t)
  PROVE  EarlyInv'
<1> USE DEF workerVars, statusVars, countVars, localVars, envVars
<1>1. /\ CoreType /\ upper \in Nat /\ scan \in Scans /\ sol[t] \in Nat
      /\ pc \in [Threads -> Points]
  BY TypeSplit, LocalTypes, ConstantFacts DEF HoldInv
<1>2. UNCHANGED <<tree, node, queue, running, explored, unexplored, leaving, hand, closed, final,
                  verdict>>
  BY DEF AcceptNewIncumbent, CheckIncumbentGap
<1>3. pc[t] = "accept" \/ (pc[t] = "scan" /\ scan[t].ret = "accepted")
  BY DEF AcceptNewIncumbent, CheckIncumbentGap, ScanDone
<1>4. /\ pc'[t] = "close" \/ (pc'[t] = "scan" /\ scan'[t].ret = "accepted")
      /\ \A u \in Threads \ {t} : pc'[u] = pc[u] /\ scan'[u] = scan[u]
  <2>1. CASE AcceptNewIncumbent(t) /\ ScanThen(t, "accepted")
    BY <1>1, <2>1, ScanThenFacts
  <2>2. CASE AcceptNewIncumbent(t) /\ Goto(t, "close") /\ scan' = scan
    BY <1>1, <2>2 DEF Goto
  <2>3. CASE CheckIncumbentGap(t)
    <3>1. \A u \in Threads \ {t} : scan'[u] = scan[u]
      BY <1>1, <2>3, ScanOverFacts DEF CheckIncumbentGap
    <3> QED BY <1>1, <2>3, <3>1 DEF CheckIncumbentGap, Goto
  <2> QED BY <2>1, <2>2, <2>3 DEF AcceptNewIncumbent
<1>5. upper' \in Nat /\ upper' <= upper
  <2>1. CASE AcceptNewIncumbent(t)
    BY <1>1, <2>1, AcceptedBound, ConstantFacts
  <2>2. CASE CheckIncumbentGap(t)
    BY <1>1, <2>2 DEF CheckIncumbentGap
  <2> QED BY <2>1, <2>2
<1>6. (status' = status /\ halt' = halt) \/ status' = "OPTIMAL"
  BY DEF AcceptNewIncumbent, CheckIncumbentGap
<1>7. final # -1 => TasksDone'
  <2>1. final # -1 => TasksDone
    BY DEF EarlyInv, StopInv
  <2>2. ASSUME TasksDone PROVE TasksDone'
    <3>1. t \notin Workers
      BY <1>3, <2>2 DEF TasksDone
    <3> QED BY <1>2, <1>4, <2>2, <3>1, ConstantFacts DEF TasksDone, Workers
  <2> QED BY <2>1, <2>2
<1>8. verdict = "none" => status' # "INFEASIBLE"
  BY <1>6 DEF EarlyInv, StopInv
<1>9. t \in Workers => /\ GapInv(t)' /\ (Leafing(t)' <=> Leafing(t))
                       /\ (Leafing(t) => hand'[t] = hand[t])
  BY <1>2, <1>3, <1>4 DEF GapInv, Leafing
<1>10. \A v \in Workers \ {t} : pc'[v] = pc[v] /\ scan'[v] = scan[v]
  BY <1>4, ConstantFacts
<1>11. /\ status' = "UNSET" => status = "UNSET"
       /\ halt' => halt \/ status' # "UNSET"
  BY <1>6
<1> QED BY <1>1, <1>2, <1>5, <1>7, <1>8, <1>9, <1>10, <1>11, EarlyQuiet

(* Integer points in the hands of the workers, when w comes by one, is done *)
(* with one, or neither.                                                    *)
LEMMA FindingFacts ==
  ASSUME HoldInv, NEW w \in Workers,
         \A v \in Workers \ {w} : (Leafing(v)' <=> Leafing(v)) /\ hand'[v] = hand[v]
  PROVE  /\ Finding \subseteq Pending
         /\ ~Leafing(w) => \A n \in Mine(w) : n \notin Finding
         /\ ~Leafing(w) /\ ~Leafing(w)' => Finding' = Finding
         /\ ~Leafing(w) /\ Leafing(w)' => Finding' = Finding \cup {hand'[w]}
         /\ Leafing(w) /\ ~Leafing(w)' => Finding' = Finding \ {hand[w]} /\ hand[w] \in Finding
<1>1. \A v \in Workers : Leafing(v) => hand[v] # NoNode /\ hand[v] \in Mine(v)
  BY DEF HoldInv, WorkerInv, Busy, Mine
<1>2. \A v \in Workers : Mine(v) \subseteq Pending
  BY DEF HoldInv, HeldInv
<1>3. \A v \in Workers \ {w} : Mine(v) \cap Mine(w) = {}
  BY DEF HoldInv, HeldInv
<1>4. \A x : x \in Finding <=> \E v \in Workers : Leafing(v) /\ x = hand[v]
  BY DEF Finding
<1>5. \A x : x \in Finding' <=> \E v \in Workers : Leafing(v)' /\ x = hand'[v]
  BY DEF Finding, Workers
<1>6. ~Leafing(w) => \A n \in Mine(w) : n \notin Finding
  BY <1>1, <1>3, <1>4
<1>7. \A v \in Workers \ {w} : Leafing(v) /\ Leafing(w) => hand[v] # hand[w]
  BY <1>1, <1>3
<1>8. Finding \subseteq Pending
  BY <1>1, <1>2, <1>4
<1>9. ASSUME ~Leafing(w), ~Leafing(w)' PROVE Finding' = Finding
  <2>1. \A x : x \in Finding' <=> x \in Finding
    BY <1>4, <1>5, <1>9
  <2> QED BY <2>1
<1>10. ASSUME ~Leafing(w), Leafing(w)' PROVE Finding' = Finding \cup {hand'[w]}
  <2>1. \A x : x \in Finding' <=> x \in Finding \/ x = hand'[w]
    BY <1>4, <1>5, <1>10
  <2> QED BY <2>1
<1>11. ASSUME Leafing(w), ~Leafing(w)' PROVE Finding' = Finding \ {hand[w]} /\ hand[w] \in Finding
  <2>1. \A x : x \in Finding' <=> x \in Finding /\ x # hand[w]
    BY <1>4, <1>5, <1>7, <1>11
  <2>2. hand[w] \in Finding
    BY <1>4, <1>11
  <2> QED BY <2>1, <2>2
<1> QED BY <1>6, <1>8, <1>9, <1>10, <1>11

(* A step of thread t closes n: a node that had been counted as explored,  *)
(* or one that is now.                                                     *)
LEMMA ClosedEarly ==
  ASSUME HoldInv, EarlyInv, final = -1, NEW t \in Threads,
         NEW n \in Pending, NEW b \in Bounds, node' = Closed(n, b),
         UNCHANGED <<tree, upper, running, status, halt, final, verdict>>,
         \A v \in Workers : n \notin queue'[v],
         \A v \in Workers \ {t} : /\ pc'[v] = pc[v] /\ scan'[v] = scan[v]
                                  /\ closed'[v] = closed[v] /\ queue'[v] \subseteq queue[v],
         t \in Workers => GapInv(t)',
         \/ n \in Unsolved /\ Finding' = Finding /\ unexplored' = unexplored - 1
         \/ n \in Finding /\ Finding' = Finding \ {n} /\ unexplored' = unexplored,
         ~explored' => upper < Infinity
  PROVE  EarlyInv'
<1>1. tree \in Trees /\ NodeType /\ TreeShape /\ n \in Nodes /\ node[n].status = "pending"
  BY TypeSplit DEF HoldInv, CoreType, Pending
<1>2. Pending' = Pending \ {n} /\ \A p \in Pending : p # n => node'[p] = node[p]
  BY <1>1, ClosedKeepsShape
<1>3. Known(1)'
  BY <1>1, ClosedKeepsRoot DEF EarlyInv, StopInv
<1>4. \A v \in Workers : GapInv(v)'
  <2>1. \A v \in Workers : GapInv(v)
    BY DEF EarlyInv
  <2>2. ASSUME NEW v \in Workers \ {t}, NEW p \in queue'[v] PROVE node'[p] = node[p]
    <3>1. p \in Pending /\ p # n
      BY <2>2, MineFacts
    <3> QED BY <1>2, <3>1
  <2>3. upper \in Nat /\ upper' = upper /\ status' = status
    BY LocalTypes
  <2> QED BY <2>1, <2>2, <2>3, GapByOne
<1>5. IsFiniteSet(Unsolved)
  BY PendingFinite
<1>6. status' = "UNSET" => unexplored' = Cardinality(Unsolved')
  <2>1. CASE n \in Unsolved /\ Finding' = Finding /\ unexplored' = unexplored - 1
    <3>1. Unsolved' = Unsolved \ {n}
      BY <1>2, <2>1 DEF Unsolved
    <3>2. Cardinality(Unsolved \ {n}) = Cardinality(Unsolved) - 1
      BY <1>5, <2>1, FS_RemoveElement
    <3> QED BY <2>1, <3>1, <3>2 DEF EarlyInv, StopInv
  <2>2. CASE n \in Finding /\ Finding' = Finding \ {n} /\ unexplored' = unexplored
    <3>1. Unsolved' = Unsolved
      BY <1>2, <2>2 DEF Unsolved
    <3> QED BY <2>2, <3>1 DEF EarlyInv, StopInv
  <2> QED BY <2>1, <2>2
<1>7. StopInv'
  <2>1. ~running' /\ final' = -1 => Pending' = {}
    BY <1>2 DEF EarlyInv, StopInv
  <2>2. ~explored' => upper' < Infinity \/ Pending' # {}
    OBVIOUS
  <2>3. /\ halt' /\ status' = "UNSET" => ~running'
        /\ verdict' = "none" => status' # "INFEASIBLE"
        /\ final' = -1 => verdict' = "none"
        /\ final' = -1
    BY DEF EarlyInv, StopInv
  <2> QED BY <1>3, <1>6, <2>1, <2>2, <2>3 DEF StopInv
<1>8. Workers' = Workers
  BY DEF Workers
<1> QED BY <1>4, <1>7, <1>8 DEF EarlyInv

(* A node of one worker is not with another, nor is it an integer point.   *)
LEMMA NotElsewhere ==
  ASSUME HoldInv, NEW w \in Workers, NEW n \in Mine(w)
  PROVE  /\ n \in Pending /\ \A v \in Workers \ {w} : n \notin queue[v]
         /\ ~Leafing(w) => n \in Unsolved
<1>1. n \in Pending /\ \A v \in Workers \ {w} : Mine(v) \cap Mine(w) = {}
  BY DEF HoldInv, HeldInv
<1>2. ASSUME ~Leafing(w) PROVE n \notin Finding
  <2>1. ASSUME n \in Finding PROVE FALSE
    <3>1. PICK v \in Workers : Leafing(v) /\ n = hand[v]
      BY <2>1 DEF Finding
    <3>2. hand[v] \in Mine(v) /\ v # w
      BY <1>2, <3>1 DEF HoldInv, WorkerInv, Busy, Mine
    <3> QED BY <1>1, <3>1, <3>2
  <2> QED BY <2>1
<1> QED BY <1>1, <1>2 DEF Mine, Unsolved

(* A worker takes the best node of its queue, or finds it stolen. *)
LEMMA PopEarly ==
  ASSUME HoldInv, EarlyInv, NEW w \in Workers, Pop(w)
  PROVE  EarlyInv'
<1> USE DEF workerVars, statusVars, countVars, localVars, envVars
<1>1. /\ CoreType /\ w \in Threads /\ pc[w] = "pop" /\ ~closed[w] /\ ~Leafing(w)
      /\ upper \in Nat /\ queue \in [Workers -> SUBSET Nodes] /\ "bfs" \in Points
  BY TypeSplit, ConstantFacts, LocalTypes DEF HoldInv, Pop, EarlyInv, GapInv, Leafing, Points
<1>2. UNCHANGED <<tree, upper, status, running, halt, explored, hand, closed, final, verdict>>
  BY DEF Pop
<1>3. final = -1 /\ verdict = "none" /\ status # "INFEASIBLE"
  BY <1>1, StillRunning DEF EarlyInv, StopInv
<1>4. CASE /\ Goto(w, "bfs") /\ UNCHANGED <<node, queue, unexplored, scan>>
  <2>1. pc'[w] = "bfs" /\ \A u \in Threads \ {w} : pc'[u] = pc[u]
    BY <1>1, <1>4, GotoFacts
  <2>2. \A v \in Workers \ {w} : pc'[v] = pc[v]
    BY <2>1, ConstantFacts
  <2>3. GapInv(w)' /\ ~Leafing(w)'
    BY <1>1, <1>2, <2>1 DEF GapInv, Leafing
  <2> QED BY <1>1, <1>2, <1>3, <1>4, <2>2, <2>3, EarlyQuiet
<1>5. ASSUME NEW n \in Best(queue[w]),
             queue' = [queue EXCEPT ![w] = @ \ {n}],
             upper < node[n].lb,
             node' = Closed(n, node[n].lb),
             unexplored' = unexplored - 1,
             Goto(w, "bfs"), UNCHANGED scan
      PROVE  EarlyInv'
  <2>1. n \in queue[w] /\ n \in Pending /\ node[n].lb \in Bounds /\ n \in Mine(w)
    BY BestFacts DEF Mine
  <2>2. pc'[w] = "bfs" /\ \A u \in Threads \ {w} : pc'[u] = pc[u]
    BY <1>1, <1>5, GotoFacts
  <2>3. \A v \in Workers \ {w} : pc'[v] = pc[v]
    BY <2>2, ConstantFacts
  <2>4. GapInv(w)' /\ ~Leafing(w)'
    BY <1>1, <1>2, <2>2 DEF GapInv, Leafing
  <2>5. n \in Unsolved /\ \A v \in Workers : n \notin queue'[v]
    BY <1>1, <1>5, <2>1, NotElsewhere
  <2>6. \A v \in Workers \ {w} : Leafing(v)' <=> Leafing(v)
    BY <1>5, <2>3 DEF Leafing
  <2>7. Finding' = Finding
    BY <1>1, <1>2, <2>4, <2>6, FindingFacts
  <2>8. upper < Infinity
    BY <1>1, <1>5, <2>1, ConstantFacts DEF Bounds
  <2>9. \A v \in Workers \ {w} : queue'[v] \subseteq queue[v]
    BY <1>1, <1>5
  <2> QED BY <1>1, <1>2, <1>3, <1>5, <2>1, <2>3, <2>4, <2>5, <2>7, <2>8, <2>9, ClosedEarly
<1>6. ASSUME NEW n \in Best(queue[w]),
             queue' = [queue EXCEPT ![w] = @ \ {n}],
             ScanThen(w, "plunge"), UNCHANGED <<node, unexplored>>
      PROVE  EarlyInv'
  <2>1. /\ pc'[w] = "scan" /\ scan'[w].ret = "plunge"
        /\ \A u \in Threads \ {w} : pc'[u] = pc[u] /\ scan'[u] = scan[u]
    BY <1>1, <1>6, ScanThenFacts
  <2>2. \A v \in Workers \ {w} : pc'[v] = pc[v] /\ scan'[v] = scan[v] /\ queue'[v] \subseteq queue[v]
    BY <1>1, <1>6, <2>1, ConstantFacts
  <2>3. GapInv(w)' /\ ~Leafing(w)'
    BY <2>1 DEF GapInv, Leafing
  <2> QED BY <1>1, <1>2, <1>3, <1>6, <2>2, <2>3, EarlyQuiet
<1>7. \/ Goto(w, "bfs") /\ UNCHANGED <<node, queue, unexplored, scan>>
      \/ \E n \in Best(queue[w]) :
            /\ queue' = [queue EXCEPT ![w] = @ \ {n}]
            /\ \/ /\ upper < node[n].lb
                  /\ node' = Closed(n, node[n].lb)
                  /\ unexplored' = unexplored - 1
                  /\ Goto(w, "bfs") /\ UNCHANGED scan
               \/ ScanThen(w, "plunge") /\ UNCHANGED <<node, unexplored>>
  BY DEF Pop
<1> QED BY <1>4, <1>5, <1>6, <1>7

(* A worker takes the node on top of its stack. *)
LEMMA TakeEarly ==
  ASSUME HoldInv, EarlyInv, NEW w \in Workers, Take(w)
  PROVE  EarlyInv'
<1> USE DEF workerVars, statusVars, countVars, localVars, envVars
<1>1. /\ CoreType /\ w \in Threads /\ pc[w] = "take" /\ ~Leafing(w)
      /\ upper \in Nat /\ stack[w] # << >> /\ pc \in [Threads -> Points]
      /\ hand \in [Workers -> Nodes \cup {NoNode}]
      /\ limit \in {"HALT", "TIME_LIMIT", "NODE_LIMIT", "none"}
  BY TypeSplit, ConstantFacts, LocalTypes DEF HoldInv, WorkerInv, Take, Leafing
<1>2. UNCHANGED <<tree, queue, upper, running, explored, closed, scan, final, verdict>>
  BY DEF Take
<1>3. final = -1 /\ verdict = "none" /\ status # "INFEASIBLE"
  BY <1>1, StillRunning DEF EarlyInv, StopInv
<1>4. PICK n \in Nodes : n = Head(stack[w])
  BY <1>1, TopFacts
<1>5. /\ n \in Pending /\ node[n].lb \in Bounds /\ n \in Mine(w) /\ n \notin queue[w]
  BY <1>1, <1>4, TopFacts DEF Mine
<1>6. \/ /\ node[n].lb > upper /\ node' = Closed(n, node[n].lb) /\ unexplored' = unexplored - 1
         /\ pc' = [pc EXCEPT ![w] = PlungeNext(w, Tail(stack[w]), closed[w])]
         /\ UNCHANGED <<status, halt, hand>>
      \/ /\ status' = limit /\ limit # "none" /\ pc' = [pc EXCEPT ![w] = "flush"]
         /\ UNCHANGED <<node, unexplored, hand>>
      \/ /\ hand' = [hand EXCEPT ![w] = n] /\ pc' = [pc EXCEPT ![w] = "lp"]
         /\ UNCHANGED <<node, unexplored, status, halt>>
  BY <1>4 DEF Take, Goto
<1>7. /\ pc'[w] \in {"flush", "launch", "take", "lp"}
      /\ \A v \in Workers \ {w} : pc'[v] = pc[v] /\ hand'[v] = hand[v]
  BY <1>1, <1>6, PlungeNextFacts, ConstantFacts
<1>8. GapInv(w)' /\ ~Leafing(w)'
  BY <1>7 DEF GapInv, Leafing
<1>9. CASE /\ node[n].lb > upper /\ node' = Closed(n, node[n].lb)
           /\ unexplored' = unexplored - 1 /\ UNCHANGED <<status, halt, hand>>
  <2>1. n \in Unsolved /\ \A v \in Workers : n \notin queue'[v]
    BY <1>1, <1>2, <1>5, NotElsewhere
  <2>2. \A v \in Workers \ {w} : Leafing(v)' <=> Leafing(v)
    BY <1>2, <1>7 DEF Leafing
  <2>3. Finding' = Finding
    BY <1>1, <1>7, <1>8, <2>2, FindingFacts
  <2>4. upper < Infinity
    BY <1>1, <1>5, <1>9, ConstantFacts DEF Bounds
  <2> QED BY <1>1, <1>2, <1>3, <1>5, <1>7, <1>8, <1>9, <2>1, <2>3, <2>4, ClosedEarly
<1>10. CASE node' = node /\ unexplored' = unexplored
  <2>1. /\ status' = "UNSET" => status = "UNSET"
        /\ status' # "INFEASIBLE" /\ (halt' => halt \/ status' # "UNSET")
    BY <1>1, <1>3, <1>6, <1>10
  <2> QED BY <1>1, <1>2, <1>3, <1>7, <1>8, <1>10, <2>1, EarlyQuiet
<1> QED BY <1>6, <1>9, <1>10

(* solve_node_lp begins. *)
LEMMA SolveNodeLpEarly ==
  ASSUME HoldInv, EarlyInv, NEW w \in Workers, SolveNodeLp(w)
  PROVE  EarlyInv'
<1> USE DEF workerVars, statusVars, countVars, localVars, envVars
<1>1. /\ w \in Threads /\ pc[w] = "lp" /\ upper \in Nat /\ pc \in [Threads -> Points]
      /\ pc' = [pc EXCEPT ![w] = "solve"]
  BY ConstantFacts, LocalTypes DEF SolveNodeLp, Goto
<1>2. UNCHANGED <<tree, node, queue, upper, status, running, halt, explored, unexplored, hand,
                  closed, scan, final, verdict>>
  BY DEF SolveNodeLp
<1>3. final = -1 /\ verdict = "none" /\ status # "INFEASIBLE"
  BY <1>1, StillRunning DEF EarlyInv, StopInv
<1>4. pc'[w] = "solve" /\ \A v \in Workers \ {w} : pc'[v] = pc[v]
  BY <1>1, ConstantFacts
<1>5. GapInv(w)' /\ ~Leafing(w) /\ ~Leafing(w)'
  BY <1>1, <1>4 DEF GapInv, Leafing
<1> QED BY <1>1, <1>2, <1>3, <1>4, <1>5, EarlyQuiet

(* The LP solve of a worker is interrupted: something has stopped the      *)
(* search, for the pool is not full while a node is being solved.          *)
LEMMA LpInterruptedEarly ==
  ASSUME HoldInv, EarlyInv, NEW w \in Workers, LpInterrupted(w)
  PROVE  EarlyInv'
<1> USE DEF workerVars, statusVars, countVars, localVars, envVars
<1>1. /\ CoreType /\ w \in Threads /\ pc[w] = "solve" /\ Busy(w) /\ ~Leafing(w)
      /\ upper \in Nat /\ Goto(w, "flush") /\ "flush" \in Points
      /\ hand \in [Workers -> Nodes \cup {NoNode}]
  BY TypeSplit, ConstantFacts, LocalTypes
  DEF HoldInv, LpInterrupted, Solving, Busy, Leafing, Points
<1>2. UNCHANGED <<tree, node, queue, upper, running, halt, closed, scan, final, verdict>>
  BY DEF LpInterrupted
<1>3. final = -1 /\ verdict = "none" /\ status # "INFEASIBLE"
  BY <1>1, StillRunning DEF EarlyInv, StopInv
<1>4. Pending # {}
  BY <1>1, HandFacts
<1>5. status' # "UNSET" /\ status' # "INFEASIBLE"
  <2>1. halt => status # "UNSET"
    BY <1>3, <1>4 DEF EarlyInv, StopInv
  <2> QED BY <1>3, <2>1 DEF LpInterrupted
<1>6. pc'[w] = "flush" /\ \A u \in Threads \ {w} : pc'[u] = pc[u]
  BY <1>1, GotoFacts
<1>7. /\ \A v \in Workers \ {w} : /\ pc'[v] = pc[v] /\ scan'[v] = scan[v]
                                  /\ closed'[v] = closed[v] /\ queue'[v] \subseteq queue[v]
                                  /\ \A n \in queue'[v] : node'[n] = node[n]
  BY <1>2, <1>6, ConstantFacts
<1>8. GapInv(w)'
  BY <1>6 DEF GapInv
<1>9. \A v \in Workers : GapInv(v)'
  <2>1. \A v \in Workers : GapInv(v)
    BY DEF EarlyInv
  <2> QED BY <1>1, <1>2, <1>5, <1>7, <1>8, <2>1, GapByOne
<1>10. Pending' = Pending /\ explored'
  BY <1>2, TreeFrame DEF LpInterrupted, Solved
<1>11. StopInv'
  <2>1. Known(1)'
    BY <1>2 DEF EarlyInv, StopInv, Known
  <2> QED BY <1>2, <1>3, <1>5, <1>10, <2>1 DEF EarlyInv, StopInv
<1>12. Workers' = Workers
  BY DEF Workers
<1> QED BY <1>9, <1>11, <1>12 DEF EarlyInv

(* A solved node needs no children, or a leaf closes. *)
LEMMA LpClosesEarly ==
  ASSUME HoldInv, BoundInv, EarlyInv, NEW w \in Workers, LpCloses(w) \/ CloseLeaf(w)
  PROVE  EarlyInv'
<1> USE DEF workerVars, statusVars, countVars, localVars, envVars
<1>1. /\ CoreType /\ w \in Threads /\ pc[w] \in {"solve", "close"} /\ Busy(w)
      /\ upper \in Nat /\ hand \in [Workers -> Nodes \cup {NoNode}] /\ scan \in Scans
      /\ pc \in [Threads -> Points]
  BY TypeSplit, ConstantFacts, LocalTypes
  DEF HoldInv, LpCloses, CloseLeaf, Solving, Busy, Leafing, Points
<1>2. /\ UNCHANGED <<tree, queue, upper, status, running, halt, closed, final, verdict>>
      /\ hand' = [hand EXCEPT ![w] = NoNode]
  BY DEF LpCloses, CloseLeaf
<1>3. final = -1 /\ verdict = "none" /\ status # "INFEASIBLE"
  BY <1>1, StillRunning DEF EarlyInv, StopInv
<1>4. PICK n \in Nodes : n = hand[w]
  BY <1>1, HandFacts
<1>5. n \in Pending /\ node[n].lb \in Bounds /\ n \in Mine(w) /\ n \notin queue[w]
  BY <1>1, <1>4, HandFacts DEF Mine
<1>6. PICK b \in Bounds : node' = Closed(n, b)
  <2>1. CASE LpCloses(w)
    BY <1>4, <2>1, ClosingBoundsFacts DEF LpCloses, Solving
  <2>2. CASE CloseLeaf(w)
    BY <1>4, <1>5, <2>2 DEF CloseLeaf
  <2> QED BY <2>1, <2>2
<1>7. /\ pc'[w] = "scan" /\ scan'[w].ret = "plunge"
      /\ \A u \in Threads \ {w} : pc'[u] = pc[u] /\ scan'[u] = scan[u]
  BY <1>1 DEF LpCloses, CloseLeaf, ScanThen, Goto, Scans
<1>8. \A v \in Workers \ {w} : /\ pc'[v] = pc[v] /\ scan'[v] = scan[v]
                               /\ closed'[v] = closed[v] /\ queue'[v] \subseteq queue[v]
  BY <1>2, <1>7, ConstantFacts
<1>9. GapInv(w)' /\ ~Leafing(w)'
  BY <1>7 DEF GapInv, Leafing
<1>10. \A v \in Workers : n \notin queue'[v]
  BY <1>2, <1>5, NotElsewhere
<1>11. \A v \in Workers \ {w} : (Leafing(v)' <=> Leafing(v)) /\ hand'[v] = hand[v]
  BY <1>1, <1>2, <1>8 DEF Leafing
<1>12. CASE LpCloses(w)
  <2>1. ~Leafing(w)
    BY <1>12 DEF Leafing, LpCloses, Solving
  <2>2. n \in Unsolved /\ Finding' = Finding
    BY <1>5, <1>9, <1>11, <2>1, NotElsewhere, FindingFacts
  <2>3. unexplored' = unexplored - 1 /\ explored'
    BY <1>12 DEF LpCloses, Solved
  <2> QED BY <1>1, <1>2, <1>3, <1>5, <1>6, <1>8, <1>9, <1>10, <2>2, <2>3, ClosedEarly
<1>13. CASE CloseLeaf(w)
  <2>1. Leafing(w) /\ pc[w] = "close"
    BY <1>13 DEF Leafing, CloseLeaf
  <2>2. n \in Finding /\ Finding' = Finding \ {n}
    BY <1>4, <1>9, <1>11, <2>1, FindingFacts
  <2>3. unexplored' = unexplored
    BY <1>13 DEF CloseLeaf
  <2>4. upper < Infinity
    <3>1. upper <= tree[n].obj
      BY <1>4, <2>1 DEF BoundInv, SolveInv
    <3>2. tree[n].obj \in Nat /\ tree[n].obj < Infinity
      BY <1>1, <1>4, HandFacts, TreeFacts DEF CoreType
    <3> QED BY <1>1, <3>1, <3>2, ConstantFacts
  <2> QED BY <1>1, <1>2, <1>3, <1>5, <1>6, <1>8, <1>9, <1>10, <2>2, <2>3, <2>4, ClosedEarly
<1> QED BY <1>12, <1>13

(* A solved node is an integer point. *)
LEMMA LpIsIntegerEarly ==
  ASSUME HoldInv, EarlyInv, NEW w \in Workers, LpIsInteger(w)
  PROVE  EarlyInv'
<1> USE DEF workerVars, statusVars, countVars, localVars, envVars
<1>1. /\ CoreType /\ NodeType /\ TreeShape /\ tree \in Trees
      /\ w \in Threads /\ pc[w] = "solve" /\ Busy(w) /\ ~Leafing(w)
      /\ upper \in Nat /\ Goto(w, "accept") /\ "accept" \in Points
  BY TypeSplit, ConstantFacts, LocalTypes
  DEF HoldInv, CoreType, LpIsInteger, Solving, Busy, Leafing, Points
<1>2. UNCHANGED <<tree, queue, upper, status, running, halt, hand, closed, scan, final, verdict>>
  BY DEF LpIsInteger
<1>3. final = -1 /\ verdict = "none" /\ status # "INFEASIBLE"
  BY <1>1, StillRunning DEF EarlyInv, StopInv
<1>4. PICK n \in Nodes : n = hand[w]
  BY <1>1, HandFacts
<1>5. /\ n \in Pending /\ n \in Mine(w) /\ n \notin queue[w] /\ node[n].status = "pending"
  BY <1>1, <1>4, HandFacts DEF Mine
<1>6. tree[n].kind = "int" /\ node' = [node EXCEPT ![n].lb = tree[n].obj]
  BY <1>4 DEF LpIsInteger, Lp
<1>7. /\ Pending' = Pending /\ node'[n].status = "pending"
      /\ \A p \in Nodes : p # n => node'[p] = node[p]
  BY <1>1, <1>2, <1>5, <1>6, PointKeepsShape
<1>8. pc'[w] = "accept" /\ \A u \in Threads \ {w} : pc'[u] = pc[u]
  BY <1>1, GotoFacts
<1>9. \A v \in Workers \ {w} : /\ pc'[v] = pc[v] /\ scan'[v] = scan[v]
                               /\ closed'[v] = closed[v] /\ queue'[v] \subseteq queue[v]
  BY <1>2, <1>8, ConstantFacts
<1>10. GapInv(w)' /\ Leafing(w)'
  BY <1>8 DEF GapInv, Leafing
<1>11. ASSUME NEW v \in Workers \ {w}, NEW p \in queue'[v] PROVE node'[p] = node[p]
  <2>1. p \in Nodes /\ p # n
    BY <1>2, <1>5, <1>11, MineFacts, NotElsewhere
  <2> QED BY <1>7, <2>1
<1>12. \A v \in Workers : GapInv(v)'
  <2>1. \A v \in Workers : GapInv(v)
    BY DEF EarlyInv
  <2> QED BY <1>1, <1>2, <1>9, <1>10, <1>11, <2>1, GapByOne
<1>13. \A v \in Workers \ {w} : (Leafing(v)' <=> Leafing(v)) /\ hand'[v] = hand[v]
  BY <1>2, <1>9 DEF Leafing
<1>14. n \in Unsolved /\ Finding' = Finding \cup {n}
  BY <1>1, <1>2, <1>4, <1>5, <1>10, <1>13, NotElsewhere, FindingFacts
<1>15. Unsolved' = Unsolved \ {n}
  BY <1>7, <1>14 DEF Unsolved
<1>16. Cardinality(Unsolved \ {n}) = Cardinality(Unsolved) - 1
  BY <1>14, PendingFinite, FS_RemoveElement
<1>17. unexplored' = unexplored - 1 /\ explored'
  BY DEF LpIsInteger, Solved
<1>18. Known(1)'
  BY <1>5, <1>7, <1>1, TreeFacts DEF EarlyInv, StopInv, Known
<1>19. StopInv'
  <2>1. status' = "UNSET" => unexplored' = Cardinality(Unsolved')
    BY <1>2, <1>15, <1>16, <1>17 DEF EarlyInv, StopInv
  <2> QED BY <1>2, <1>3, <1>7, <1>17, <1>18, <2>1 DEF EarlyInv, StopInv
<1>20. Workers' = Workers
  BY DEF Workers
<1> QED BY <1>12, <1>19, <1>20 DEF EarlyInv

(* A solved node is branched on: one node less to solve, and two more. *)
LEMMA LpBranchesEarly ==
  ASSUME HoldInv, EarlyInv, NEW w \in Workers, LpBranches(w)
  PROVE  EarlyInv'
<1> USE DEF workerVars, statusVars, countVars, localVars, envVars
<1>1. /\ CoreType /\ NodeType /\ TreeShape /\ tree \in Trees
      /\ w \in Threads /\ pc[w] = "solve" /\ Busy(w) /\ ~Leafing(w)
      /\ upper \in Nat /\ ScanThen(w, "plunge") /\ hand \in [Workers -> Nodes \cup {NoNode}]
  BY TypeSplit, ConstantFacts, LocalTypes
  DEF HoldInv, CoreType, LpBranches, Solving, Busy, Leafing
<1>2. UNCHANGED <<tree, upper, status, running, halt, closed, final, verdict>>
  BY DEF LpBranches
<1>3. final = -1 /\ verdict = "none" /\ status # "INFEASIBLE"
  BY <1>1, StillRunning DEF EarlyInv, StopInv
<1>4. PICK n \in Nodes : n = hand[w]
  BY <1>1, HandFacts
<1>5. /\ n \in Pending /\ n \in Mine(w) /\ node[n].status = "pending" /\ n \in Nat \ {0}
  BY <1>1, <1>4, HandFacts, TreeFacts DEF Mine
<1>6. /\ tree[n].kind = "frac" /\ node' = Branched(n, tree[n].obj)
      /\ \A v \in Workers \ {w} : queue'[v] = queue[v]
  BY <1>4, LpBranchesFacts
<1>7. /\ 2 * n \notin Pending /\ 2 * n + 1 \notin Pending
      /\ Pending' = (Pending \ {n}) \cup {2 * n, 2 * n + 1}
      /\ \A p \in Nodes : p \notin {n, 2 * n, 2 * n + 1} => node'[p] = node[p]
      /\ node'[n].status = "branched"
  BY <1>1, <1>2, <1>5, <1>6, BranchedKeepsShape
<1>8. /\ pc'[w] = "scan" /\ scan'[w].ret = "plunge"
      /\ \A u \in Threads \ {w} : pc'[u] = pc[u] /\ scan'[u] = scan[u]
  BY <1>1, ScanThenFacts
<1>9. \A v \in Workers \ {w} : /\ pc'[v] = pc[v] /\ scan'[v] = scan[v] /\ hand'[v] = hand[v]
                               /\ closed'[v] = closed[v] /\ queue'[v] \subseteq queue[v]
  BY <1>1, <1>2, <1>6, <1>8, ConstantFacts DEF LpBranches
<1>10. GapInv(w)' /\ ~Leafing(w)'
  BY <1>8 DEF GapInv, Leafing
<1>11. ASSUME NEW v \in Workers \ {w}, NEW p \in queue'[v] PROVE node'[p] = node[p]
  <2>1. p \in Pending /\ p # n /\ p \in Nodes
    BY <1>5, <1>6, <1>11, MineFacts, NotElsewhere
  <2> QED BY <1>7, <2>1
<1>12. \A v \in Workers : GapInv(v)'
  <2>1. \A v \in Workers : GapInv(v)
    BY DEF EarlyInv
  <2> QED BY <1>1, <1>2, <1>9, <1>10, <1>11, <2>1, GapByOne
<1>13. \A v \in Workers \ {w} : (Leafing(v)' <=> Leafing(v)) /\ hand'[v] = hand[v]
  BY <1>9 DEF Leafing
<1>14. n \in Unsolved /\ Finding' = Finding /\ Finding \subseteq Pending
  BY <1>1, <1>5, <1>10, <1>13, NotElsewhere, FindingFacts
<1> DEFINE U == Unsolved \ {n}
           V == U \cup {2 * n}
<1>15. Unsolved' = V \cup {2 * n + 1} /\ 2 * n \notin U /\ 2 * n + 1 \notin V
  <2>1. 2 * n # 2 * n + 1
    BY <1>5
  <2> QED BY <1>7, <1>14, <2>1 DEF Unsolved
<1>16. IsFiniteSet(U) /\ Cardinality(U) = Cardinality(Unsolved) - 1 /\ Cardinality(Unsolved) \in Nat
  BY <1>14, PendingFinite, FS_RemoveElement, FS_CardinalityType
<1>17. IsFiniteSet(V) /\ Cardinality(V) = Cardinality(U) + 1
  <2> HIDE DEF U
  <2> QED BY <1>15, <1>16, FS_AddElement
<1>18. Cardinality(V \cup {2 * n + 1}) = Cardinality(V) + 1
  <2> HIDE DEF V
  <2> QED BY <1>15, <1>17, FS_AddElement
<1>19. unexplored' = unexplored + 1 /\ explored'
  BY DEF LpBranches
<1>20. Known(1)'
  <2>1. 1 \in Nodes /\ 1 # 2 * n /\ 1 # 2 * n + 1
    BY <1>1, <1>5, TreeFacts
  <2>2. CASE 1 = n
    BY <1>7, <2>2 DEF Known
  <2>3. CASE 1 # n
    BY <1>7, <2>1, <2>3 DEF EarlyInv, StopInv, Known
  <2> QED BY <2>2, <2>3
<1>21. StopInv'
  <2>1. status' = "UNSET" => unexplored' = Cardinality(Unsolved')
    <3> HIDE DEF U, V
    <3> QED BY <1>2, <1>15, <1>16, <1>17, <1>18, <1>19 DEF EarlyInv, StopInv
  <2>2. running
    BY <1>3, <1>5 DEF EarlyInv, StopInv
  <2> QED BY <1>2, <1>3, <1>19, <1>20, <2>1, <2>2 DEF EarlyInv, StopInv
<1>22. Workers' = Workers
  BY DEF Workers
<1> QED BY <1>12, <1>21, <1>22 DEF EarlyInv

(* At the end a queued node above the incumbent is cut off. *)
LEMMA ClearCutoffEarly ==
  ASSUME HoldInv, EarlyInv, NEW w \in Workers, ClearCutoff(w)
  PROVE  EarlyInv'
<1> USE DEF workerVars, statusVars, countVars, localVars, envVars
<1>1. /\ CoreType /\ 0 \in Threads /\ pc[w] = "off" /\ ~Leafing(w) /\ upper \in Nat
      /\ queue \in [Workers -> SUBSET Nodes] /\ final = -1
  BY TypeSplit, ConstantFacts, LocalTypes DEF HoldInv, ClearCutoff, TasksDone, Leafing
<1>2. /\ UNCHANGED <<tree, upper, status, running, halt, explored, pc, hand, closed, scan, final,
                     verdict>>
      /\ unexplored' = unexplored - 1
  BY DEF ClearCutoff
<1>3. PICK n \in Best(queue[w]) :
        queue' = [queue EXCEPT ![w] = @ \ {n}] /\ node' = Closed(n, node[n].lb)
  BY DEF ClearCutoff
<1>4. /\ n \in queue[w] /\ n \in Pending /\ node[n].lb \in Bounds /\ n \in Mine(w)
      /\ node[n].lb = QueueBound(queue[w])
  BY BestFacts DEF Mine
<1>5. upper < Infinity
  BY <1>1, <1>4, ConstantFacts DEF ClearCutoff, Bounds
<1>6. \A v \in Workers : queue'[v] \subseteq queue[v] /\ n \notin queue'[v]
  BY <1>1, <1>3, <1>4, NotElsewhere
<1>7. \A v \in Workers : Leafing(v)' <=> Leafing(v)
  BY <1>2 DEF Leafing
<1>8. n \in Unsolved /\ Finding' = Finding
  BY <1>1, <1>2, <1>4, <1>7, NotElsewhere, FindingFacts
<1>9. 0 \notin Workers
  BY ConstantFacts
<1> QED BY <1>1, <1>2, <1>3, <1>4, <1>5, <1>6, <1>8, <1>9, ClosedEarly

(* With every worker in the pool no node is open. *)
LEMMA PoolFullIsDone ==
  ASSUME HoldInv, PoolFull
  PROVE  Pending = {}
<1>1. idle \in Seq(Workers) /\ Len(idle) = NumWorkers /\ NumWorkers \in Nat \ {0}
  BY TypeSplit, ConstantFacts DEF HoldInv, CoreType, PoolFull
<1>2. ASSUME NEW w \in Workers PROVE \E k \in 1..Len(idle) : idle[k] = w
  <2>1. SUFFICES ASSUME \A k \in 1..Len(idle) : idle[k] # w PROVE FALSE
    OBVIOUS
  <2> DEFINE S == 1..NumWorkers
             T == Workers \ {w}
  <2>2. idle \in [S -> T]
    BY <1>1, <2>1
  <2>3. IsFiniteSet(S) /\ Cardinality(S) = NumWorkers
    BY <1>1, FS_Interval
  <2>4. IsFiniteSet(Workers) /\ Cardinality(Workers) = NumWorkers
    BY <2>3 DEF Workers
  <2>5. IsFiniteSet(T) /\ Cardinality(T) = NumWorkers - 1
    BY <2>4, FS_RemoveElement
  <2> HIDE DEF T
  <2>6. Cardinality(T) < Cardinality(S)
    BY <1>1, <2>3, <2>5
  <2>7. \E x, y \in S : x # y /\ idle[x] = idle[y]
    <3> HIDE DEF S
    <3> QED BY <2>2, <2>3, <2>5, <2>6, FS_PigeonHole
  <2> QED BY <1>1, <2>7 DEF HoldInv, PoolInv
<1>3. ASSUME NEW w \in Workers PROVE Mine(w) = {}
  <2>1. pc[w] = "off" /\ queue[w] = {}
    BY <1>2 DEF HoldInv, PoolInv
  <2>2. stack[w] = << >> /\ hand[w] = NoNode
    BY <2>1 DEF HoldInv, WorkerInv, Plunging, Busy, Leafing
  <2> QED BY <2>1, <2>2, StackFacts DEF Mine
<1> QED BY <1>3 DEF HoldInv, HeldInv

(* When all tasks are done the open nodes are in the queues. *)
LEMMA QueuedWhenDone ==
  ASSUME HoldInv, TasksDone
  PROVE  \A n \in Pending : \E w \in Workers : n \in queue[w]
<1>1. ASSUME NEW w \in Workers PROVE Mine(w) = queue[w]
  <2>1. pc[w] = "off"
    BY DEF TasksDone
  <2>2. stack[w] = << >> /\ hand[w] = NoNode
    BY <2>1 DEF HoldInv, WorkerInv, Plunging, Busy, Leafing
  <2> QED BY <2>2, StackFacts DEF Mine
<1> QED BY <1>1 DEF HoldInv, HeldInv

(* The bound returned comes from a node that failed, from an open node     *)
(* that is no worse than the incumbent, or from the root.                  *)
LEMMA FinalBoundFacts ==
  ASSUME HoldInv, FinalBound
  PROVE  /\ final' \in Bounds /\ node[1].lb \in Bounds
         /\ \E lb \in Bounds :
              /\ lb <= lb_numerical
              /\ \A n \in Pending : lb <= node[n].lb
              /\ \/ lb = lb_numerical \/ lb = Infinity
                 \/ lb <= upper /\ \E n \in Pending : lb = node[n].lb
              /\ final' = IF lb < Infinity THEN lb ELSE node[1].lb
<1> DEFINE S == {lb_numerical} \cup {QueueBound(queue[w]) : w \in Workers}
           lb == Min(S)
<1>1. CoreType /\ NodeType /\ tree \in Trees
  BY TypeSplit DEF HoldInv, CoreType
<1>2. ASSUME NEW w \in Workers
      PROVE  /\ QueueBound(queue[w]) \in Bounds
             /\ \A n \in queue[w] : QueueBound(queue[w]) <= node[n].lb /\ node[n].lb \in Bounds
             /\ QueueBound(queue[w]) = Infinity \/ \E n \in queue[w] : QueueBound(queue[w]) = node[n].lb
  BY <1>1, QueueBoundFacts DEF CoreType
<1>3. S \in SUBSET Bounds /\ S # {}
  BY <1>1, <1>2 DEF CoreType
<1>4. lb \in Bounds /\ lb \in S /\ \A y \in S : lb <= y
  BY <1>3, MinBounds
<1>5. node[1].lb \in Bounds
  BY <1>1, TreeFacts DEF NodeType
<1>6. final' = IF lb < Infinity THEN lb ELSE node[1].lb
  BY DEF FinalBound
<1>7. lb_numerical \in S /\ \A w \in Workers : QueueBound(queue[w]) \in S
  OBVIOUS
<1>8. lb = lb_numerical \/ \E w \in Workers : lb = QueueBound(queue[w])
  BY <1>4
<1> HIDE DEF S, lb
<1>9. ASSUME NEW n \in Pending PROVE lb <= node[n].lb
  <2>1. PICK w \in Workers : n \in queue[w]
    BY QueuedWhenDone DEF FinalBound
  <2>2. lb <= QueueBound(queue[w]) /\ QueueBound(queue[w]) <= node[n].lb
    BY <1>2, <1>4, <1>7, <2>1
  <2>3. lb \in Nat /\ QueueBound(queue[w]) \in Nat /\ node[n].lb \in Nat
    BY <1>2, <1>4, <2>1, ConstantFacts
  <2> QED BY <2>2, <2>3
<1>10. ASSUME NEW w \in Workers, lb = QueueBound(queue[w]), lb # Infinity
       PROVE  lb <= upper /\ \E n \in Pending : lb = node[n].lb
  <2>1. PICK n \in queue[w] : lb = node[n].lb
    BY <1>2, <1>10
  <2>2. n \in Pending
    BY <2>1, MineFacts
  <2>3. lb <= upper
    BY <1>10, <2>1 DEF FinalBound
  <2> QED BY <2>1, <2>2, <2>3
<1>11. lb <= lb_numerical
  BY <1>4, <1>7
<1>12. \/ lb = lb_numerical \/ lb = Infinity
       \/ lb <= upper /\ \E n \in Pending : lb = node[n].lb
  BY <1>8, <1>10
<1>13. final' \in Bounds
  BY <1>4, <1>5, <1>6
<1> QED BY <1>4, <1>5, <1>6, <1>9, <1>11, <1>12, <1>13

(* What is done by none of the workers. *)
LEMMA OutsideEarly ==
  ASSUME HoldInv, EarlyInv,
         \/ FindSolution \/ SolutionDone \/ ReachLimit \/ CheckLast \/ FinalBound
         \/ SetFinalSolution
  PROVE  EarlyInv'
<1> USE DEF workerVars, statusVars, countVars, localVars, envVars
<1>1. /\ CoreType /\ 0 \in Threads /\ 0 \notin Workers /\ upper \in Nat
      /\ pc \in [Threads -> Points]
  BY TypeSplit, ConstantFacts, LocalTypes DEF HoldInv
<1>2. UNCHANGED <<tree, node, queue, explored, unexplored, hand, closed, scan, upper>>
  BY DEF FindSolution, SolutionDone, ReachLimit, CheckLast, FinalBound, SetFinalSolution
<1>3. \A v \in Workers : pc'[v] = pc[v]
  BY <1>1, ConstantFacts
  DEF FindSolution, SolutionDone, ReachLimit, CheckLast, FinalBound, SetFinalSolution, Goto
<1>4. \A v \in Workers : Leafing(v)' <=> Leafing(v)
  BY <1>2, <1>3 DEF Leafing
<1>5. Pending' = Pending /\ Unsolved' = Unsolved
  <2>1. 1 \in Workers
    BY ConstantFacts
  <2>2. Finding' = Finding
    <3>1. {v \in Workers : Leafing(v)}' = {v \in Workers : Leafing(v)}
      BY <1>4 DEF Workers
    <3> QED BY <1>2, <3>1 DEF Finding
  <2> QED BY <1>2, <2>2, TreeFrame DEF Unsolved
<1>6. status' = "UNSET" => status = "UNSET"
  <2>1. status' = status \/ status' = FinalStatus
    BY DEF FindSolution, SolutionDone, ReachLimit, CheckLast, FinalBound, SetFinalSolution
  <2>2. FinalStatus = "UNSET" => status = "UNSET"
    BY DEF FinalStatus
  <2> QED BY <2>1, <2>2
<1>7. \A v \in Workers : GapInv(v)'
  <2>1. \A v \in Workers : GapInv(v)
    BY DEF EarlyInv
  <2>2. \A v \in Workers \ {0} : /\ pc'[v] = pc[v] /\ scan'[v] = scan[v]
                                 /\ closed'[v] = closed[v] /\ queue'[v] \subseteq queue[v]
                                 /\ \A n \in queue'[v] : node'[n] = node[n]
    BY <1>2, <1>3
  <2> QED BY <1>1, <1>2, <1>6, <2>1, <2>2, GapByOne
<1>8. /\ status' = "UNSET" => unexplored' = Cardinality(Unsolved')
      /\ ~explored' => upper' < Infinity \/ Pending' # {}
      /\ Known(1)'
  BY <1>2, <1>5, <1>6 DEF EarlyInv, StopInv, Known
<1>9. CASE FindSolution \/ SolutionDone \/ ReachLimit
  <2>1. UNCHANGED <<status, running, halt, leaving, final, verdict>>
    BY <1>9 DEF FindSolution, SolutionDone, ReachLimit
  <2>2. TasksDone' <=> TasksDone
    BY <1>3, <2>1 DEF TasksDone, Workers
  <2>3. StopInv'
    BY <1>5, <1>8, <2>1, <2>2 DEF EarlyInv, StopInv
  <2> QED BY <1>7, <2>3 DEF EarlyInv, Workers
<1>10. CASE CheckLast
  <2>1. UNCHANGED <<status, final, verdict>>
    BY <1>10 DEF CheckLast
  <2>2. final = -1
    BY <1>1, <1>10 DEF CheckLast, EarlyInv, StopInv, TasksDone
  <2>3. \/ running' = running /\ halt' = halt
        \/ Pending = {} /\ running' = FALSE
    BY <1>10, PoolFullIsDone DEF CheckLast
  <2>4. StopInv'
    BY <1>5, <1>8, <2>1, <2>2, <2>3 DEF EarlyInv, StopInv
  <2> QED BY <1>7, <2>4 DEF EarlyInv, Workers
<1>11. CASE FinalBound
  <2>1. UNCHANGED <<status, halt, leaving,
                    verdict>> /\ TasksDone /\ final = -1 /\ running' = FALSE
    BY <1>11 DEF FinalBound
  <2>2. TasksDone'
    BY <1>3, <2>1 DEF TasksDone, Workers
  <2>3. verdict' = "none" /\ status' # "INFEASIBLE"
    BY <2>1 DEF EarlyInv, StopInv
  <2>4. final' # -1
    <3>1. final' \in Nat
      BY <1>11, FinalBoundFacts, ConstantFacts
    <3> QED BY <3>1
  <2>5. StopInv'
    BY <1>5, <1>8, <2>1, <2>2, <2>3, <2>4 DEF StopInv
  <2> QED BY <1>7, <2>5 DEF EarlyInv, Workers
<1>12. CASE SetFinalSolution
  <2>1. UNCHANGED <<running, halt, leaving, final>> /\ final # -1 /\ verdict' = FinalStatus
    BY <1>12 DEF SetFinalSolution
  <2>2. FinalStatus # "none"
    BY <1>1 DEF FinalStatus, CoreType, Statuses
  <2>3. TasksDone'
    BY <1>3, <2>1 DEF TasksDone, Workers, EarlyInv, StopInv
  <2>4. halt' /\ status' = "UNSET" => ~running'
    BY <1>6, <2>1 DEF EarlyInv, StopInv
  <2>5. StopInv'
    BY <1>8, <2>1, <2>2, <2>3, <2>4 DEF StopInv
  <2> QED BY <1>7, <2>5 DEF EarlyInv, Workers
<1> QED BY <1>9, <1>10, <1>11, <1>12

(* Every step keeps what makes the search stop for a reason. *)
LEMMA EarlyStep ==
  ASSUME HoldInv, BoundInv, EarlyInv, [Next]_vars
  PROVE  EarlyInv'
<1>1. CASE UNCHANGED vars
  <2>1. upper \in Nat /\ 0 \in Threads /\ 0 \notin Workers
    BY LocalTypes, ConstantFacts
  <2>2. final # -1 => TasksDone'
    BY <1>1 DEF EarlyInv, StopInv, TasksDone, Workers, vars
  <2>3. verdict = "none" => status' # "INFEASIBLE"
    BY <1>1 DEF EarlyInv, StopInv, vars
  <2> QED BY <1>1, <2>1, <2>2, <2>3, EarlyQuiet DEF vars
<1>2. ASSUME NEW w \in Workers, WorkerStep(w) PROVE EarlyInv'
  <2>1. w \in Threads
    BY ConstantFacts
  <2> QED BY <1>2, <2>1, EnterFlushEarly, BfsLoopEarly, PopEarly, BfsGapEarly, StealFromEarly,
             ExitEarly, LaunchEarly, HandoverEarly, TakeEarly, SolveNodeLpEarly, LpInterruptedEarly, LpClosesEarly,
             LpIsIntegerEarly, LpBranchesEarly, ComputeGapEarly, ScanEarly, IncumbentEarly
      DEF WorkerStep
<1>3. CASE CheckLast \/ ReachLimit \/ HeuristicStep
  <2>1. 0 \in Threads
    BY ConstantFacts
  <2> QED BY <1>3, <2>1, OutsideEarly, ScanEarly, IncumbentEarly DEF HeuristicStep
<1>4. CASE FinishStep
  BY <1>4, ClearCutoffEarly, OutsideEarly DEF FinishStep
<1> QED BY <1>1, <1>2, <1>3, <1>4 DEF Next

(* With no open node the root is closed and nothing is branched: every     *)
(* point that has not been found is below the bound of the root.           *)
LEMMA RootIsClosed ==
  ASSUME HoldInv, Known(1), Pending = {}
  PROVE  /\ node[1].status = "closed" /\ 1 \in Nodes
         /\ \A p \in Nodes : Known(p) => p = 1
<1>1. tree \in Trees /\ NodeType /\ TreeShape
  BY TypeSplit DEF HoldInv, CoreType
<1>2. 1 \in Nodes /\ Nodes \subseteq Nat \ {0}
  BY <1>1, TreeFacts
<1>3. PICK last \in Nat : DOMAIN tree \subseteq 1..last
  <2>1. PICK top \in DOMAIN tree : DOMAIN tree \subseteq 1..top
    BY <1>1, SearchTreeAssumption, Zenon
  <2>2. top \in Nat
    BY <1>1, <2>1, TreeFacts
  <2> QED BY <2>1, <2>2
<1> DEFINE B == {n \in Nodes : node[n].status = "branched"}
           F == {last - n : n \in B}
<1>4. ASSUME NEW n \in B PROVE n \in 1..last /\ \E c \in B : c > n
  <2>1. /\ n \in Nodes /\ n \in DOMAIN tree /\ tree[n].kind = "frac"
        /\ node[n].kids = OpenKids(n) /\ node[n].kids # 0
    BY <1>1, <1>4 DEF TreeShape
  <2>2. 2 * n \in Nodes /\ 2 * n + 1 \in Nodes /\ n \in Nat \ {0}
    BY <1>1, <1>2, <2>1, TreeFacts
  <2>3. Open(2 * n) \/ Open(2 * n + 1)
    BY <2>1 DEF OpenKids
  <2>4. \E c \in {2 * n, 2 * n + 1} : node[c].status = "branched"
    BY <2>2, <2>3 DEF Open, Pending
  <2> QED BY <1>3, <2>1, <2>2, <2>4
<1>5. B = {}
  <2>1. SUFFICES ASSUME B # {} PROVE FALSE
    OBVIOUS
  <2>2. F \in SUBSET Nat /\ F # {}
    BY <1>3, <1>4, <2>1
  <2>3. PICK x \in F : \A y \in F : x <= y
    <3> HIDE DEF F
    <3> QED BY <2>2, LeastNatural
  <2>4. PICK n \in B : x = last - n
    BY <2>3
  <2>5. PICK c \in B : c > n
    BY <1>4
  <2>6. n \in Nat /\ c \in Nat /\ last - c \in F
    BY <1>2, <2>4, <2>5
  <2>7. x <= last - c
    BY <2>3, <2>6
  <2> HIDE DEF B, F
  <2> QED BY <1>3, <2>4, <2>5, <2>6, <2>7
<1>6. ASSUME NEW p \in Nodes, Known(p) PROVE p = 1
  BY <1>1, <1>5, <1>6 DEF TreeShape
<1>7. node[1].status = "closed"
  BY <1>2, <1>5 DEF Known, Pending
<1> QED BY <1>2, <1>6, <1>7

(* What is known of a point: it is below an open node with a lower bound,  *)
(* no better than the incumbent, or below a node that failed.              *)
LEMMA OptWitness ==
  ASSUME HoldInv, BoundInv, Opt # Infinity
  PROVE  \E p \in Nodes : /\ node[p].lb <= Opt /\ node[p].lb \in Nat /\ Known(p)
                          /\ \/ p \in Pending
                             \/ upper <= node[p].lb
                             \/ lb_numerical <= node[p].lb
<1>1. tree \in Trees /\ NodeType
  BY TypeSplit DEF HoldInv, CoreType
<1>2. PICK l \in Leaves : Opt = tree[l].obj
  BY <1>1, OptFacts
<1>3. PICK p \in Path(l) : /\ p \in Nodes /\ node[p].status \in {"pending", "closed"}
                           /\ node[p].lb <= Opt
  BY <1>2 DEF BoundInv, Settled
<1>4. node[p].lb \in Nat
  BY <1>1, <1>3, ConstantFacts DEF NodeType
<1>5. p \in Pending \/ upper <= node[p].lb \/ lb_numerical <= node[p].lb
  BY <1>3 DEF BoundInv, ClosedInv, Pending
<1> QED BY <1>3, <1>4, <1>5 DEF Known

(* The tree has been explored: the incumbent is the optimum, and so is the *)
(* bound of the root.                                                      *)
LEMMA ExploredIsSolved ==
  ASSUME HoldInv, BoundInv, Known(1), Pending = {}, lb_numerical = Infinity
  PROVE  upper = Opt /\ node[1].lb = Opt
<1>1. /\ node[1].status = "closed" /\ 1 \in Nodes /\ \A p \in Nodes : Known(p) => p = 1
  BY RootIsClosed
<1>2. /\ Opt \in Nat /\ upper \in Nat /\ Opt <= upper /\ upper <= Infinity /\ Opt <= Infinity
  BY UpperFacts, ConstantFacts DEF Bounds
<1>3. node[1].lb \in Nat /\ node[1].lb <= Infinity
  <2>1. NodeType
    BY TypeSplit DEF HoldInv
  <2> QED BY <1>1, <2>1, ConstantFacts DEF NodeType, Bounds
<1>4. upper <= node[1].lb
  <2>1. upper <= node[1].lb \/ lb_numerical <= node[1].lb
    BY <1>1 DEF BoundInv, ClosedInv
  <2> QED BY <1>2, <1>3, <2>1, ConstantFacts
<1>5. CASE Opt = Infinity
  BY <1>2, <1>3, <1>4, <1>5, ConstantFacts
<1>6. CASE Opt # Infinity
  <2>1. node[1].lb <= Opt
    BY <1>1, <1>6, OptWitness
  <2> QED BY <1>2, <1>3, <1>4, <2>1
<1> QED BY <1>5, <1>6

(* The bound that is returned. *)
LEMMA FinalBoundEnd ==
  ASSUME HoldInv, BoundInv, EarlyInv, FinalBound
  PROVE  FinalInv' /\ FinalBoundIsValid' /\ VerdictIsSound'
<1> USE DEF workerVars, statusVars, countVars, localVars, envVars
<1>1. /\ UNCHANGED <<tree, node, upper, status, lb_numerical, verdict>> /\ TasksDone /\ final = -1
  BY DEF FinalBound
<1>2. verdict = "none" /\ Known(1)
  BY <1>1 DEF EarlyInv, StopInv
<1>3. Pending' = Pending /\ Opt' = Opt
  BY <1>1, TreeFrame DEF Opt
<1>4. /\ Opt \in Nat /\ upper \in Nat /\ Opt <= upper /\ upper <= Infinity /\ Opt <= Infinity
      /\ lb_numerical \in Nat /\ Infinity \in Nat
  <2>1. lb_numerical \in Bounds
    BY TypeSplit DEF HoldInv, CoreType
  <2> QED BY <2>1, UpperFacts, ConstantFacts DEF Bounds
<1>5. PICK lb \in Bounds :
        /\ lb <= lb_numerical
        /\ \A n \in Pending : lb <= node[n].lb
        /\ \/ lb = lb_numerical \/ lb = Infinity
           \/ lb <= upper /\ \E n \in Pending : lb = node[n].lb
        /\ final' = IF lb < Infinity THEN lb ELSE node[1].lb
  BY FinalBoundFacts
<1>6. /\ final' \in Nat /\ final' <= Infinity /\ lb \in Nat /\ lb <= Infinity
      /\ node[1].lb \in Nat
  BY <1>5, FinalBoundFacts, ConstantFacts DEF Bounds
<1>7. \A n \in Pending : node[n].lb \in Nat /\ node[n].lb < Infinity
  <2>1. 1 \in Workers
    BY ConstantFacts
  <2> QED BY <2>1, MineFacts, ConstantFacts
<1>8. lb = Infinity => Pending = {}
  BY <1>4, <1>5, <1>7
<1>9. final' <= Opt \/ (final' = lb_numerical /\ upper = Opt)
  <2>1. CASE Opt = Infinity
    BY <1>6, <2>1
  <2>2. CASE Opt # Infinity
    <3>1. PICK p \in Nodes : /\ node[p].lb <= Opt /\ node[p].lb \in Nat /\ Known(p)
                             /\ \/ p \in Pending
                                \/ upper <= node[p].lb
                                \/ lb_numerical <= node[p].lb
      BY <2>2, OptWitness
    <3>2. CASE p \in Pending
      BY <1>4, <1>5, <1>6, <1>7, <3>1, <3>2
    <3>3. CASE lb_numerical <= node[p].lb
      BY <1>4, <1>5, <1>6, <2>2, <3>1, <3>3
    <3>4. CASE upper <= node[p].lb
      <4>1. upper = Opt
        BY <1>4, <3>1, <3>4
      <4>2. CASE lb = Infinity
        <5>1. p = 1
          BY <1>2, <1>8, <3>1, <4>2, RootIsClosed
        <5>2. final' = node[1].lb
          BY <1>4, <1>5, <4>2
        <5> QED BY <3>1, <5>1, <5>2
      <4>3. CASE lb # Infinity
        <5>1. final' = lb
          BY <1>4, <1>5, <1>6, <4>3
        <5> QED BY <1>5, <4>1, <4>3, <5>1
      <4> QED BY <4>2, <4>3
    <3> QED BY <3>1, <3>2, <3>3, <3>4
  <2> QED BY <2>1, <2>2
<1>10. ASSUME lb_numerical = Infinity, Pending = {} PROVE upper = Opt /\ final' = Opt
  <2>1. upper = Opt /\ node[1].lb = Opt
    BY <1>2, <1>10, ExploredIsSolved
  <2>2. lb = Infinity
    BY <1>5, <1>10
  <2> QED BY <1>4, <1>5, <2>1, <2>2
<1>11. ASSUME lb_numerical = Infinity, status = "UNSET"
       PROVE  final' = Opt /\ upper = Opt /\ (upper = Infinity => Pending = {})
  <2>1. CASE Pending = {}
    BY <1>10, <1>11, <2>1
  <2>2. CASE Pending # {}
    <3>1. ASSUME NEW n \in Pending PROVE upper <= node[n].lb
      <4>1. PICK w \in Workers : n \in queue[w]
        BY <1>1, QueuedWhenDone
      <4>2. NoBetterQueued(w)
        BY <1>1, <1>11 DEF EarlyInv, GapInv, TasksDone
      <4> QED BY <4>1, <4>2 DEF NoBetterQueued
    <3>2. upper < Infinity
      BY <1>4, <1>7, <2>2, <3>1
    <3>3. lb # Infinity
      BY <1>8, <2>2
    <3>4. lb <= upper /\ \E n \in Pending : lb = node[n].lb
      BY <1>5, <1>11, <3>3
    <3>5. lb = upper /\ final' = upper
      BY <1>4, <1>5, <1>6, <1>7, <3>1, <3>2, <3>4
    <3>6. upper <= Opt
      <4>1. CASE Opt = Infinity
        BY <1>4, <4>1
      <4>2. CASE Opt # Infinity
        <5>1. PICK p \in Nodes : /\ node[p].lb <= Opt /\ node[p].lb \in Nat
                                 /\ \/ p \in Pending
                                    \/ upper <= node[p].lb
                                    \/ lb_numerical <= node[p].lb
          BY <4>2, OptWitness
        <5>2. upper <= node[p].lb
          BY <1>4, <1>11, <3>1, <5>1
        <5> QED BY <1>4, <5>1, <5>2
      <4> QED BY <4>1, <4>2
    <3> QED BY <1>4, <3>2, <3>5, <3>6
  <2> QED BY <2>1, <2>2
<1>12. FinalInv'
  BY <1>1, <1>3, <1>10, <1>11 DEF FinalInv
<1>13. FinalBoundIsValid'
  BY <1>1, <1>3, <1>9 DEF FinalBoundIsValid
<1>14. VerdictIsSound'
  BY <1>1, <1>2 DEF VerdictIsSound
<1> QED BY <1>12, <1>13, <1>14

(* The status that is returned. *)
LEMMA FinalStatusEnd ==
  ASSUME HoldInv, EndInv, SetFinalSolution
  PROVE  FinalInv' /\ FinalBoundIsValid' /\ VerdictIsSound'
<1> USE DEF workerVars, statusVars, countVars, localVars, envVars
<1>1. /\ UNCHANGED <<tree, node, upper, lb_numerical, final>> /\ final # -1 /\ verdict = "none"
      /\ verdict' = FinalStatus
  BY DEF SetFinalSolution
<1>2. Pending' = Pending /\ Opt' = Opt
  BY <1>1, TreeFrame DEF Opt
<1>3. status \in Statuses /\ upper \in Nat /\ upper <= Infinity
  <2>1. upper \in Bounds
    BY TypeSplit DEF HoldInv, CoreType
  <2> QED BY <2>1, LocalTypes, ConstantFacts DEF Bounds
<1>4. FinalStatus # "none"
  BY <1>3 DEF FinalStatus, Statuses
<1>5. status # "INFEASIBLE"
  BY <1>1 DEF EndInv, EarlyInv, StopInv
<1>6. ASSUME lb_numerical = Infinity, status = "UNSET", upper = Infinity
      PROVE  explored /\ unexplored = 0
  <2>1. Pending = {}
    BY <1>1, <1>6 DEF EndInv, FinalInv
  <2>2. Unsolved = {}
    BY <2>1 DEF Unsolved
  <2>3. Cardinality(Unsolved) = 0
    BY <2>2, FS_EmptySet
  <2>4. ~(upper < Infinity)
    BY <1>6, ConstantFacts
  <2> QED BY <1>6, <2>1, <2>3, <2>4 DEF EndInv, EarlyInv, StopInv
<1>7. ASSUME lb_numerical = Infinity, FinalStatus = "UNSET" PROVE FALSE
  <2>1. status = "UNSET"
    BY <1>7 DEF FinalStatus
  <2>2. upper = final
    BY <1>1, <1>7, <2>1 DEF EndInv, FinalInv
  <2>3. upper = Infinity
    BY <1>3, <1>7, <2>2, ConstantFacts DEF FinalStatus
  <2>4. explored /\ unexplored = 0
    BY <1>6, <1>7, <2>1, <2>3
  <2> QED BY <1>7, <2>1, <2>3, <2>4, ConstantFacts DEF FinalStatus
<1>8. ASSUME lb_numerical = Infinity, FinalStatus = "INFEASIBLE" PROVE Opt = Infinity
  <2>1. status = "UNSET" /\ upper = Infinity
    BY <1>5, <1>8 DEF FinalStatus
  <2> QED BY <1>1, <1>8, <2>1 DEF EndInv, FinalInv
<1>9. FinalInv'
  BY <1>1, <1>2, <1>4 DEF EndInv, FinalInv
<1>10. FinalBoundIsValid'
  BY <1>1, <1>2 DEF EndInv, FinalBoundIsValid
<1>11. VerdictIsSound'
  BY <1>1, <1>2, <1>7, <1>8 DEF EndInv, FinalInv, VerdictIsSound
<1> QED BY <1>9, <1>10, <1>11

(* Once the bound is computed a better incumbent may still be found, but   *)
(* none is better than the optimum.                                        *)
LEMMA FinalFrame ==
  ASSUME HoldInv, HoldInv', BoundInv', FinalInv, FinalBoundIsValid, VerdictIsSound,
         UNCHANGED <<tree, node, lb_numerical, final, verdict>>,
         upper' <= upper, status' = "UNSET" => status = "UNSET"
  PROVE  FinalInv' /\ FinalBoundIsValid' /\ VerdictIsSound'
<1>1. Pending' = Pending /\ Opt' = Opt /\ Bounds' = Bounds /\ Infinity' = Infinity
  BY TreeFrame DEF Opt, Bounds
<1>2. Opt \in Nat /\ upper' \in Nat /\ Opt <= upper'
  <2>1. tree \in Trees /\ upper' \in 0..Infinity
    BY DEF HoldInv, TypeOK, Bounds
  <2>2. \/ upper' = Infinity
        \/ \E n \in DOMAIN tree : tree[n].kind \in {"int", "numerical"} /\ tree[n].obj <= upper'
    BY DEF BoundInv, UpperInv, IsPoint
  <2>3. /\ Opt \in 0..Infinity
        /\ \A n \in DOMAIN tree : tree[n].kind \in {"int", "numerical"} =>
             Opt <= tree[n].obj /\ tree[n].obj \in Nat
    BY <2>1, OptFacts DEF Leaves, Bounds
  <2> QED BY <2>1, <2>2, <2>3, ConstantFacts
<1>3. upper = Opt => upper' = Opt
  BY <1>2
<1>4. FinalInv'
  BY <1>1, <1>3 DEF FinalInv
<1>5. FinalBoundIsValid'
  BY <1>1, <1>3 DEF FinalBoundIsValid
<1>6. VerdictIsSound'
  BY <1>1, <1>3 DEF VerdictIsSound
<1> QED BY <1>4, <1>5, <1>6

(* Before that there is nothing to show. *)
LEMMA NotYetFinal ==
  ASSUME EarlyInv', final' = -1
  PROVE  FinalInv' /\ FinalBoundIsValid' /\ VerdictIsSound'
<1>1. verdict' = "none"
  BY DEF EarlyInv, StopInv
<1> QED BY <1>1 DEF FinalInv, FinalBoundIsValid, VerdictIsSound

(* A worker moves only before the bound is computed. *)
LEMMA WorkerNotFinal ==
  ASSUME HoldInv, EarlyInv, NEW w \in Workers, WorkerStep(w)
  PROVE  final' = -1
<1> USE DEF workerVars, statusVars, countVars, localVars, envVars
<1>1. pc[w] # "off"
  BY DEF WorkerStep, Enter, BfsLoop, Pop, BfsGap, ChooseVictim, StealFrom, Exit,
         ReturnWorkerToPool, LaunchBfsWorker, Handover, Take, SolveNodeLp, LpInterrupted, LpCloses,
         LpIsInteger, CloseLeaf, LpBranches, Flush, ComputeGap, ReadWorkerBound, ReadQueueBound,
         AcceptNewIncumbent, CheckIncumbentGap, ScanDone, Solving
<1>2. final = -1
  BY <1>1, StillRunning DEF EarlyInv
<1>3. final' = final
  BY DEF WorkerStep, Enter, BfsLoop, Pop, BfsGap, ChooseVictim, StealFrom, Exit,
         ReturnWorkerToPool, LaunchBfsWorker, Handover, Take, SolveNodeLp, LpInterrupted, LpCloses,
         LpIsInteger, CloseLeaf, LpBranches, Flush, ComputeGap, ReadWorkerBound, ReadQueueBound,
         AcceptNewIncumbent, CheckIncumbentGap
<1> QED BY <1>2, <1>3

(* Initially nothing has been found and two nodes are to be solved. *)
LEMMA InitEnd ==
  ASSUME Init
  PROVE  EndInv
<1>1. node[1].status = "branched" /\ Pending = {2, 3}
  BY InitTree DEF Init
<1>2. /\ status = "UNSET" /\ running = TRUE /\ halt = FALSE
      /\ unexplored = 2 /\ explored = FALSE /\ final = -1 /\ verdict = "none"
  BY DEF Init
<1>3. \A w \in Workers : pc[w] \in {"enter", "off"} /\ (pc[w] = "off" => queue[w] = {})
  BY ConstantFacts DEF Init
<1>4. \A w \in Workers : GapInv(w) /\ ~Leafing(w)
  BY <1>3 DEF GapInv, NoBetterQueued, Leafing
<1>5. Finding = {}
  BY <1>4 DEF Finding
<1>6. Unsolved = {2} \cup {3}
  BY <1>1, <1>5 DEF Unsolved
<1>7. Cardinality({2} \cup {3}) = 2
  <2>1. IsFiniteSet({2}) /\ Cardinality({2}) = 1
    BY FS_Singleton
  <2> QED BY <2>1, FS_AddElement
<1>8. StopInv
  BY <1>1, <1>2, <1>6, <1>7 DEF StopInv, Known
<1>9. EarlyInv
  BY <1>4, <1>8 DEF EarlyInv
<1> QED BY <1>2, <1>9 DEF EndInv, FinalInv, FinalBoundIsValid, VerdictIsSound

(* Every step keeps what is known of the end of the search. *)
LEMMA EndStep ==
  ASSUME HoldInv, BoundInv, EndInv, HoldInv', BoundInv', [Next]_vars
  PROVE  EndInv'
<1> USE DEF workerVars, statusVars, countVars, localVars, envVars
<1>1. EarlyInv /\ FinalInv /\ FinalBoundIsValid /\ VerdictIsSound /\ upper \in Nat
  BY LocalTypes DEF EndInv
<1>2. EarlyInv'
  BY <1>1, EarlyStep
<1>3. CASE UNCHANGED vars
  <2>1. UNCHANGED <<tree, node, lb_numerical, final, verdict, upper, status>>
    BY <1>3 DEF vars
  <2> QED BY <1>1, <1>2, <2>1, FinalFrame DEF EndInv
<1>4. ASSUME NEW w \in Workers, WorkerStep(w) PROVE EndInv'
  BY <1>1, <1>2, <1>4, WorkerNotFinal, NotYetFinal DEF EndInv
<1>5. CASE CheckLast
  <2>1. final = -1 /\ final' = final
    BY <1>1, <1>5 DEF CheckLast, EarlyInv, StopInv, TasksDone
  <2> QED BY <1>2, <2>1, NotYetFinal DEF EndInv
<1>6. CASE ReachLimit \/ HeuristicStep
  <2>1. UNCHANGED <<tree, node, lb_numerical, final, verdict>>
    BY <1>6 DEF HeuristicStep, FindSolution, SolutionDone, ReachLimit, ReadWorkerBound,
                ReadQueueBound, AcceptNewIncumbent, CheckIncumbentGap
  <2>2. sol[0] \in Nat
    BY LocalTypes, ConstantFacts
  <2>3. upper' <= upper
    <3>1. CASE AcceptNewIncumbent(0)
      <4>1. CoreType /\ 0 \in Threads
        BY TypeSplit, ConstantFacts DEF HoldInv
      <4> QED BY <3>1, <4>1, AcceptedBound
    <3>2. CASE ~AcceptNewIncumbent(0)
      <4>1. upper' = upper
        BY <1>6, <3>2 DEF HeuristicStep, FindSolution, SolutionDone, ReachLimit,
                          ReadWorkerBound, ReadQueueBound, CheckIncumbentGap
      <4> QED BY <1>1, <4>1
    <3> QED BY <3>1, <3>2
  <2>4. status' = status \/ status' = "OPTIMAL"
    BY <1>6 DEF HeuristicStep, FindSolution, SolutionDone, ReachLimit, ReadWorkerBound,
                ReadQueueBound, AcceptNewIncumbent, CheckIncumbentGap
  <2>5. upper' \in Nat /\ upper' <= upper
    <3>1. upper' \in Nat
      BY ConstantFacts DEF HoldInv, TypeOK, Bounds
    <3> QED BY <1>1, <2>3, <3>1
  <2> QED BY <1>1, <1>2, <2>1, <2>4, <2>5, FinalFrame DEF EndInv
<1>7. ASSUME NEW w \in Workers, ClearCutoff(w) PROVE EndInv'
  <2>1. final = -1 /\ final' = final
    BY <1>7 DEF ClearCutoff
  <2> QED BY <1>2, <2>1, NotYetFinal DEF EndInv
<1>8. CASE FinalBound
  BY <1>1, <1>2, <1>8, FinalBoundEnd DEF EndInv
<1>9. CASE SetFinalSolution
  BY <1>2, <1>9, FinalStatusEnd DEF EndInv
<1> QED BY <1>3, <1>4, <1>5, <1>6, <1>7, <1>8, <1>9 DEF Next, FinishStep

(* The invariant of the end of the search. *)
THEOREM EndInvariant == Spec => [](HoldInv /\ BoundInv /\ EndInv)
<1>1. Init => HoldInv /\ BoundInv /\ EndInv
  BY InitHolds, InitBound, InitEnd
<1>2. HoldInv /\ BoundInv /\ EndInv /\ [Next]_vars => (HoldInv /\ BoundInv /\ EndInv)'
  BY HoldStep, BoundStep, EndStep
<1> QED BY <1>1, <1>2, PTL DEF Spec

(* is_running_ is cleared before the end only when every worker is in the  *)
(* pool, and then no node is open: workers launched while others return    *)
(* do not make the pool look full.                                         *)
THEOREM StopsWhenExplored == Spec => []StoppedWhenExplored
<1>1. EndInv => StoppedWhenExplored
  BY DEF EndInv, EarlyInv, StopInv, StoppedWhenExplored
<1> QED BY <1>1, EndInvariant, PTL

(* The bound the search returns is a lower bound, or the bound of a node   *)
(* the LP solver failed on while the incumbent is optimal.                 *)
THEOREM FinalBoundValid == Spec => []FinalBoundIsValid
<1>1. EndInv => FinalBoundIsValid
  BY DEF EndInv
<1> QED BY <1>1, EndInvariant, PTL

(* The status the search returns is sound: it says why the search stopped, *)
(* INFEASIBLE only of infeasible problems, and a tree explored to the end  *)
(* yields the optimum and its bound, whatever workers did in between.      *)
THEOREM VerdictSound == Spec => []VerdictIsSound
<1>1. EndInv => VerdictIsSound
  BY DEF EndInv
<1> QED BY <1>1, EndInvariant, PTL
=============================================================================
