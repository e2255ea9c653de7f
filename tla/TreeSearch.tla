----------------------------- MODULE TreeSearch -----------------------------
(***************************************************************************)
(* The parallel branch and bound of cuOpt in its default (opportunistic)   *)
(* mode: best-first workers, each with its own queue of open nodes, that   *)
(* plunge into the tree, launch idle workers, steal nodes and stop the     *)
(* search when the gap between the incumbent and a lower bound gathered    *)
(* without a lock has closed.                                              *)
(*                                                                         *)
(* A step is one critical section or one access to a shared atomic; local  *)
(* computation is merged with the access it follows.  Objectives are small *)
(* integers and the gap tolerances are 0.                                  *)
(*                                                                         *)
(* Thread 0 stands for whatever finds solutions outside the tree: the GPU  *)
(* heuristics, the dives and the sub-MIPs.                                 *)
(***************************************************************************)
EXTENDS SearchTree, Sequences, SequencesExt

CONSTANTS
    NumWorkers,     \* size of bfs_worker_pool_
    Integral,       \* does the objective move in steps (objective_step, or 1 if
                    \* objective_is_integral)?  Then objectives are counted in steps
    NodesPerSteal,  \* settings_.bnb_nodes_per_steal
    \* for each tree (the second and the third bound the instance):
    MinQueue,       \* min_node_queue_size_
    MaxSolutions,   \* how many solutions thread 0 finds
    Limits,         \* the limits that may be reached: HALT, TIME_LIMIT, NODE_LIMIT
    InitialUpper    \* upper_bound_ at the start: Infinity, or what the early heuristics
                    \* found (the search has no incumbent of its own yet)

Kinds == {"frac", "int", "infeasible", "numerical", "none"}

(* A solution of the problem is a point of the tree or no better than one. *)
Attained(t, v) ==
    v = Infinity \/ \E l \in DOMAIN t : t[l].kind \in {"int", "numerical"} /\ t[l].obj <= v

ASSUME TreeAssumption ==
    /\ {NumWorkers, NodesPerSteal} \subseteq Nat \ {0} /\ Integral \in BOOLEAN
    /\ MinQueue \in [Trees -> Nat] /\ MaxSolutions \in [Trees -> Nat]
    /\ Limits \in [Trees -> SUBSET {"HALT", "TIME_LIMIT", "NODE_LIMIT"}]
    /\ InitialUpper \in [Trees -> Bounds]
    /\ \A t \in Trees : Attained(t, InitialUpper[t]) /\ \A n \in DOMAIN t : t[n].kind \in Kinds

VARIABLES
    queue,      \* node_queue of each worker
    wlb,        \* lower_bound of each worker
    active,     \* is_active of each worker
    idle,       \* idle_workers_
    upper,      \* upper_bound_
    incumbent,  \* objective of incumbent_, Infinity if there is none
    status,     \* solver_status_
    running,    \* is_running_
    halt,       \* node_concurrent_halt_
    lb_numerical,
    explored, unexplored,  \* nodes_explored > 0, nodes_unexplored
    leaving,    \* tasks done with their worker that have yet to look at the pool
    \* of each thread: program point, the stack of plunge_with, node in hand,
    \* LP cutoff, has the gap closed (as last computed), the other worker
    pc, stack, hand, cutoff, closed, other,
    \* of each thread in get_lower_bound: next worker to read, which of its two
    \* bounds, minimum so far, program point to return to
    scan,
    \* solution in the hands of a thread, solutions left for thread 0
    sol, solutions,
    \* limit that has been reached; lower bound and status the search returns
    limit, final, verdict

workerVars == <<queue, wlb, active, idle>>
statusVars == <<status, running, halt>>
countVars  == <<explored, unexplored, leaving>>
localVars  == <<stack, hand, cutoff, closed, other>>
envVars    == <<tree, solutions, limit, final, verdict>>
vars == <<tree, node, queue, wlb, active, idle, upper, incumbent, status, running, halt,
          lb_numerical, explored, unexplored, leaving, pc, stack, hand, cutoff, closed, other,
          scan, sol, solutions, limit, final, verdict>>

Workers == 1..NumWorkers
Threads == 0..NumWorkers

-----------------------------------------------------------------------------
(* node_queue_t::get_lower_bound, and the entry a pop may return. *)
QueueBound(q) == Min({node[n].lb : n \in q} \cup {Infinity})
Best(q) == {n \in q : node[n].lb = QueueBound(q)}

(* compute_user_abs_gap against a tolerance of 0. *)
GapClosed(u, l) == u <= l

(* A cutoff one below the next better objective. *)
NodeCutoffLow(u) == IF Integral /\ u < Infinity THEN u - 2 ELSE u

(* compute_node_cutoff: with steps, the next better value, one step below. *)
(* The objective of an LP is the one snap_to_lattice rounds up to a step;  *)
(* it passes the cutoff if and only if the unrounded one does.             *)
NodeCutoff(u) == IF Integral /\ u < Infinity THEN u - 1 ELSE u

(* A local variable that is not going to be read has a fixed value. *)
NoScan == [i |-> 1, part |-> 1, lb |-> 0, ret |-> "enter"]

Goto(t, p) == pc' = [pc EXCEPT ![t] = p]

(* The call of get_lower_bound by thread t, which goes on at p. *)
ScanThen(t, p) ==
    /\ scan' = [scan EXCEPT ![t] = [i |-> 1, part |-> 1, lb |-> lb_numerical, ret |-> p]]
    /\ Goto(t, "scan")

Init ==
    /\ TreeInit
    /\ queue = [w \in Workers |-> IF w = 1 THEN {2, 3} ELSE {}]
    /\ wlb = [w \in Workers |-> IF w = 1 THEN tree[1].obj ELSE 0]
    /\ active = [w \in Workers |-> w = 1]
    /\ idle = [k \in 1..(NumWorkers - 1) |-> k + 1]
    /\ upper = InitialUpper[tree] /\ incumbent = Infinity
    /\ status = "UNSET" /\ running = TRUE /\ halt = FALSE
    /\ lb_numerical = Infinity /\ explored = FALSE /\ unexplored = 2 /\ leaving = 0
    /\ pc = [t \in Threads |-> CASE t = 0 -> "search" [] t = 1 -> "enter" [] OTHER -> "off"]
    /\ stack = [w \in Workers |-> <<>>]
    /\ hand = [w \in Workers |-> NoNode]
    /\ cutoff = [w \in Workers |-> 0]
    /\ closed = [w \in Workers |-> FALSE]
    /\ other = [w \in Workers |-> 0]
    /\ scan = [t \in Threads |-> NoScan]
    /\ sol = [t \in Threads |-> 0]
    /\ solutions = MaxSolutions[tree]
    /\ limit = "none" /\ final = -1 /\ verdict = "none"

-----------------------------------------------------------------------------
(* get_lower_bound: one worker after the other, its own bound and then     *)
(* the bound of its queue.  (A worker's own bound stands still meanwhile,  *)
(* so it is read with its queue.)                                          *)
ReadWorkerBound(t) ==
    /\ pc[t] = "scan" /\ scan[t].i \in Workers \ {t} /\ scan[t].part = 1
    /\ scan' = [scan EXCEPT ![t] =
         IF active[scan[t].i]
         THEN [scan[t] EXCEPT !.lb = Min({scan[t].lb, wlb[scan[t].i]}), !.part = 2]
         ELSE [scan[t] EXCEPT !.i = scan[t].i + 1]]
    /\ UNCHANGED <<node, workerVars, upper, incumbent, statusVars, lb_numerical, countVars, pc,
                   localVars, sol, envVars>>

ReadQueueBound(t) ==
    /\ pc[t] = "scan" /\ scan[t].i \in Workers /\ (scan[t].part = 2 \/ scan[t].i = t)
    /\ scan' = [scan EXCEPT ![t] =
         [scan[t] EXCEPT !.lb = Min({scan[t].lb, QueueBound(queue[scan[t].i])}
                                    \cup (IF scan[t].i = t THEN {wlb[t]} ELSE {})),
                         !.part = 1, !.i = scan[t].i + 1]]
    /\ UNCHANGED <<node, workerVars, upper, incumbent, statusVars, lb_numerical, countVars, pc,
                   localVars, sol, envVars>>

(* Without a bound it is that of the root relaxation. *)
ScannedBound(t) == IF scan[t].lb < Infinity THEN scan[t].lb ELSE tree[1].obj
ScanDone(t) == pc[t] = "scan" /\ scan[t].i > NumWorkers
ScanOver(t) == scan' = [scan EXCEPT ![t] = NoScan]

(* The head of the loop of plunge_with: stop, launch an idle worker if     *)
(* there is one and a node for it, or take the next node.                  *)
PlungeNext(w, stk, gap_closed) ==
    LET on     == stk # <<>> /\ status = "UNSET" /\ running /\ ~gap_closed
        launch == idle # <<>> /\ queue[w] # {}
    IN  CASE on /\ launch  -> "launch"
          [] on /\ ~launch -> "take"
          [] OTHER         -> "flush"

(* The gap as a worker computes it for its loops. *)
ComputeGap(w) ==
    LET gap_closed == GapClosed(upper, ScannedBound(w)) IN
    /\ ScanDone(w) /\ scan[w].ret \in {"bfs", "plunge", "bfs_gap"}
    /\ closed' = [closed EXCEPT ![w] = gap_closed]
    /\ Goto(w, IF scan[w].ret = "plunge" THEN PlungeNext(w, stack[w], gap_closed) ELSE scan[w].ret)
    /\ ScanOver(w)
    /\ UNCHANGED <<node, workerVars, upper, incumbent, statusVars, lb_numerical, countVars,
                   stack, hand, cutoff, other, sol, envVars>>

-----------------------------------------------------------------------------
(* add_feasible_solution and set_solution_from_heuristics: the incumbent   *)
(* under mutex_upper_, then the gap with no lock held.  A first incumbent  *)
(* may be worse than what the early heuristics found; the heuristics look  *)
(* at the gap only if the upper bound has come down.                       *)
AcceptNewIncumbent(t) ==
    /\ pc[t] = "accept"
    /\ IF sol[t] < incumbent
       THEN incumbent' = sol[t] /\ upper' = Min({upper, sol[t]})
       ELSE UNCHANGED <<upper, incumbent>>
    /\ \/ sol[t] < incumbent /\ ScanThen(t, "accepted") /\ UNCHANGED sol
       \/ /\ sol[t] >= incumbent \/ (t = 0 /\ sol[t] >= upper)
          /\ Goto(t, "close") /\ sol' = [sol EXCEPT ![t] = 0] /\ UNCHANGED scan
    /\ UNCHANGED <<node, workerVars, statusVars, lb_numerical, countVars, localVars, envVars>>

CheckIncumbentGap(t) ==
    /\ ScanDone(t) /\ scan[t].ret = "accepted"
    /\ IF GapClosed(sol[t], ScannedBound(t))
       THEN status' = "OPTIMAL" /\ halt' = TRUE
       ELSE UNCHANGED <<status, halt>>
    /\ Goto(t, "close") /\ ScanOver(t) /\ sol' = [sol EXCEPT ![t] = 0]
    /\ UNCHANGED <<node, workerVars, upper, incumbent, running, lb_numerical, countVars,
                   localVars, envVars>>

(* Thread 0 finds a solution while the search runs. *)
FindSolution ==
    /\ pc[0] = "search" /\ solutions > 0 /\ final = -1
    /\ \E n \in DOMAIN tree :
         /\ tree[n].kind = "int"
         /\ sol' = [sol EXCEPT ![0] = tree[n].obj]
    /\ solutions' = solutions - 1
    /\ Goto(0, "accept")
    /\ UNCHANGED <<tree, node, workerVars, upper, incumbent, statusVars, lb_numerical, countVars,
                   localVars, scan, limit, final, verdict>>

SolutionDone ==
    /\ pc[0] = "close"
    /\ Goto(0, "search")
    /\ UNCHANGED <<node, workerVars, upper, incumbent, statusVars, lb_numerical, countVars,
                   localVars, scan, sol, envVars>>

ReachLimit ==
    /\ limit = "none" /\ limit' \in Limits[tree] /\ final = -1
    /\ UNCHANGED <<tree, node, workerVars, upper, incumbent, statusVars, lb_numerical, countVars,
                   pc, localVars, scan, sol, solutions, final, verdict>>

-----------------------------------------------------------------------------
(* best_first_search_with: worker w takes the best node of its queue. *)

Enter(w) ==
    /\ pc[w] = "enter"
    /\ ScanThen(w, "bfs")
    /\ UNCHANGED <<node, workerVars, upper, incumbent, statusVars, lb_numerical, countVars,
                   localVars, sol, envVars>>

SearchOn(w) == status = "UNSET" /\ ~closed[w] /\ queue[w] # {}

BfsLoop(w) ==
    /\ pc[w] = "bfs"
    /\ IF SearchOn(w) /\ limit \notin {"HALT", "TIME_LIMIT"}
       THEN /\ wlb' = [wlb EXCEPT ![w] = QueueBound(queue[w])]
            /\ Goto(w, "pop") /\ UNCHANGED <<status, halt>>
       ELSE /\ Goto(w, "exit") /\ UNCHANGED wlb
            /\ status' = IF SearchOn(w) THEN limit ELSE status
            /\ halt' = (halt \/ (SearchOn(w) /\ limit = "HALT"))
    /\ UNCHANGED <<node, queue, active, idle, upper, incumbent, running, lb_numerical, countVars,
                   localVars, scan, sol, envVars>>

(* A node whose bound has come to lie above the incumbent is cut off. *)
Pop(w) ==
    /\ pc[w] = "pop"
    /\ \/ /\ queue[w] = {}
          /\ Goto(w, "bfs")
          /\ UNCHANGED <<node, queue, wlb, unexplored, stack, scan>>
       \/ \E n \in Best(queue[w]) :
            /\ queue' = [queue EXCEPT ![w] = @ \ {n}]
            /\ wlb' = [wlb EXCEPT ![w] = node[n].lb]
            /\ IF upper < node[n].lb
               THEN /\ node' = Closed(n, node[n].lb)
                    /\ unexplored' = unexplored - 1
                    /\ Goto(w, "bfs") /\ UNCHANGED <<stack, scan>>
               ELSE /\ stack' = [stack EXCEPT ![w] = <<n>>]
                    /\ ScanThen(w, "plunge") /\ UNCHANGED <<node, unexplored>>
    /\ UNCHANGED <<active, idle, upper, incumbent, statusVars, lb_numerical, explored, leaving,
                   hand, cutoff, closed, other, sol, envVars>>

(* After a plunge; stealing when the queue is empty, else now and then. *)
BfsGap(w) ==
    /\ pc[w] = "bfs_gap"
    /\ IF closed[w]
       THEN status' = "OPTIMAL" /\ Goto(w, "exit")
       ELSE /\ UNCHANGED status
            /\ \/ Goto(w, "steal")
               \/ queue[w] # {} /\ Goto(w, "bfs")
    /\ UNCHANGED <<node, workerVars, upper, incumbent, running, halt, lb_numerical, countVars,
                   localVars, scan, sol, envVars>>

(* A thief that tries until there is something to steal. *)
ChooseVictimForever(w) ==
    /\ pc[w] = "steal"
    /\ \/ \E v \in Workers \ {w} :
            /\ active[v] /\ Cardinality(queue[v]) >= 2 * NodesPerSteal
            /\ other' = [other EXCEPT ![w] = v]
            /\ Goto(w, "stealing")
       \/ UNCHANGED <<pc, other>>
    /\ UNCHANGED <<node, workerVars, upper, incumbent, statusVars, lb_numerical, countVars,
                   stack, hand, cutoff, closed, scan, sol, envVars>>

(* work_stealing: a victim with enough nodes, or none in max_attempts. *)
ChooseVictim(w) ==
    /\ pc[w] = "steal"
    /\ \/ \E v \in Workers \ {w} :
            /\ active[v] /\ Cardinality(queue[v]) >= 2 * NodesPerSteal
            /\ other' = [other EXCEPT ![w] = v]
            /\ Goto(w, "stealing")
       \/ Goto(w, "bfs") /\ UNCHANGED other
    /\ UNCHANGED <<node, workerVars, upper, incumbent, statusVars, lb_numerical, countVars,
                   stack, hand, cutoff, closed, scan, sol, envVars>>

(* node_queue_t::steal_from under both locks: the k best nodes of the      *)
(* victim, but it keeps k - 1.                                             *)
Stealable(q, k) ==
    LET size == Min({k, Max({0, Cardinality(q) - k + 1})})
    IN  {S \in kSubset(size, q) : \A n \in S, m \in q \ S : node[n].lb <= node[m].lb}

StealFrom(w) ==
    /\ pc[w] = "stealing"
    /\ \E S \in Stealable(queue[other[w]], NodesPerSteal) :
         queue' = [queue EXCEPT ![w] = @ \cup S, ![other[w]] = @ \ S]
    /\ other' = [other EXCEPT ![w] = 0]
    /\ Goto(w, "bfs")
    /\ UNCHANGED <<node, wlb, active, idle, upper, incumbent, statusVars, lb_numerical,
                   countVars, stack, hand, cutoff, closed, scan, sol, envVars>>

(* A worker that leaves nodes behind does not go back to the pool.  One    *)
(* that does may be launched again before its old task has ended.          *)
Exit(w) ==
    /\ pc[w] = "exit"
    /\ halt' = (halt \/ status # "UNSET")
    /\ IF queue[w] = {}
       THEN /\ active' = [active EXCEPT ![w] = FALSE]
            /\ Goto(w, "return") /\ UNCHANGED leaving
       ELSE leaving' = leaving + 1 /\ Goto(w, "off") /\ UNCHANGED active
    /\ UNCHANGED <<node, queue, wlb, idle, upper, incumbent, status, running, lb_numerical,
                   explored, unexplored, localVars, scan, sol, envVars>>

ReturnWorkerToPool(w) ==
    /\ pc[w] = "return"
    /\ idle' = Append(idle, w)
    /\ leaving' = leaving + 1
    /\ Goto(w, "off")
    /\ UNCHANGED <<node, queue, wlb, active, upper, incumbent, statusVars, lb_numerical, explored,
                   unexplored, localVars, scan, sol, envVars>>

(* A test that does not count the caller's own worker. *)
PoolFullButOne == Len(idle) >= NumWorkers - 1
PoolFull == Len(idle) = NumWorkers

(* With every worker in the pool the whole tree has been explored. *)
CheckLast ==
    /\ leaving > 0
    /\ leaving' = leaving - 1
    /\ IF PoolFull
       THEN running' = FALSE /\ halt' = TRUE
       ELSE UNCHANGED <<running, halt>>
    /\ UNCHANGED <<node, workerVars, upper, incumbent, status, lb_numerical, explored,
                   unexplored, pc, localVars, scan, sol, envVars>>

-----------------------------------------------------------------------------
(* plunge_with: w follows one child after the other, at most two siblings  *)
(* on its stack, and launches an idle worker when it can.                  *)

(* launch_bfs_worker: the idle worker shows the bound of the queue it is   *)
(* to be given a node of, then the node moves, then the worker's bound is  *)
(* set to it and its task is started.                                      *)
LaunchBfsWorker(w) ==
    /\ pc[w] = "launch"
    /\ IF status # "UNSET" \/ idle = <<>>
       THEN Goto(w, "take") /\ UNCHANGED <<wlb, active, idle, other>>
       ELSE /\ idle' = Tail(idle)
            /\ other' = [other EXCEPT ![w] = Head(idle)]
            /\ wlb' = [wlb EXCEPT ![Head(idle)] = QueueBound(queue[w])]
            /\ active' = [active EXCEPT ![Head(idle)] = TRUE]
            /\ Goto(w, "handover")
    /\ UNCHANGED <<node, queue, upper, incumbent, statusVars, lb_numerical, countVars, stack,
                   hand, cutoff, closed, scan, sol, envVars>>

(* If another thief has emptied the queue the worker goes back to the pool. *)
Handover(w) ==
    LET o == other[w] IN
    /\ pc[w] = "handover"
    /\ \E S \in Stealable(queue[w], 1) :
         /\ queue' = [queue EXCEPT ![w] = @ \ S, ![o] = S]
         /\ wlb' = [wlb EXCEPT ![o] = QueueBound(S)]
         /\ IF S # {}
            THEN /\ pc' = [pc EXCEPT ![w] = "take", ![o] = "enter"]
                 /\ UNCHANGED <<active, idle>>
            ELSE /\ Goto(w, "take")
                 /\ active' = [active EXCEPT ![o] = FALSE]
                 /\ idle' = Append(idle, o)
    /\ other' = [other EXCEPT ![w] = 0]
    /\ UNCHANGED <<node, upper, incumbent, statusVars, lb_numerical, countVars, stack, hand,
                   cutoff, closed, scan, sol, envVars>>

(* A limit puts the node back on the stack and ends the plunge. *)
Take(w) ==
    LET n == Head(stack[w]) IN
    /\ pc[w] = "take"
    /\ wlb' = [wlb EXCEPT ![w] = node[n].lb]
    /\ \/ /\ node[n].lb > upper
          /\ node' = Closed(n, node[n].lb)
          /\ unexplored' = unexplored - 1
          /\ stack' = [stack EXCEPT ![w] = Tail(@)]
          /\ Goto(w, PlungeNext(w, Tail(stack[w]), closed[w]))
          /\ UNCHANGED <<status, halt, hand>>
       \/ /\ node[n].lb <= upper /\ limit # "none"
          /\ status' = limit /\ halt' = (halt \/ limit = "HALT")
          /\ Goto(w, "flush") /\ UNCHANGED <<node, unexplored, stack, hand>>
       \/ /\ node[n].lb <= upper /\ limit = "none"
          /\ stack' = [stack EXCEPT ![w] = Tail(@)]
          /\ hand' = [hand EXCEPT ![w] = n]
          /\ Goto(w, "lp") /\ UNCHANGED <<node, unexplored, status, halt>>
    /\ UNCHANGED <<queue, active, idle, upper, incumbent, running, lb_numerical, explored,
                   leaving, cutoff, closed, other, scan, sol, envVars>>

(* solve_node_lp begins: the cutoff is computed from the upper bound, read *)
(* again.                                                                  *)
SolveNodeLp(w) ==
    /\ pc[w] = "lp"
    /\ cutoff' = [cutoff EXCEPT ![w] = NodeCutoff(upper)]
    /\ Goto(w, "solve")
    /\ UNCHANGED <<node, workerVars, upper, incumbent, statusVars, lb_numerical, countVars,
                   stack, hand, closed, other, scan, sol, envVars>>

(* solve_node_lp ends and update_tree follows.  The node in hand. *)
Solving(w) == pc[w] = "solve"
Lp(w) == tree[hand[w]]
Solved(w) ==
    /\ explored' = TRUE /\ unexplored' = unexplored - 1
    /\ cutoff' = [cutoff EXCEPT ![w] = 0]

(* An interrupted node that is not put back. *)
LpInterruptedDrops(w) ==
    /\ Solving(w)
    /\ \/ limit = "TIME_LIMIT" /\ status' = "TIME_LIMIT"
       \/ halt /\ UNCHANGED status
    /\ Solved(w)
    /\ hand' = [hand EXCEPT ![w] = NoNode]
    /\ Goto(w, "flush")
    /\ UNCHANGED <<node, workerVars, upper, incumbent, running, halt, lb_numerical, leaving,
                   stack, closed, other, scan, sol, envVars>>

(* TIME_LIMIT and CONCURRENT_LIMIT put the node back on the stack. *)
LpInterrupted(w) ==
    /\ Solving(w)
    /\ \/ limit = "TIME_LIMIT" /\ status' = "TIME_LIMIT"
       \/ halt /\ UNCHANGED status
    /\ Solved(w)
    /\ stack' = [stack EXCEPT ![w] = <<hand[w]>> \o @]
    /\ hand' = [hand EXCEPT ![w] = NoNode]
    /\ Goto(w, "flush")
    /\ UNCHANGED <<node, workerVars, upper, incumbent, running, halt, lb_numerical, leaving,
                   closed, other, scan, sol, envVars>>

(* A node that was cut off taken for infeasible. *)
CutoffBoundNone == Infinity
(* The upper bound is read again after the solve. *)
CutoffBound == upper

(* The bound with which a node that needs no children is closed, for each  *)
(* answer of the LP solver.  The simplex stops early with CUTOFF when the  *)
(* dual objective passes the cutoff, which an infeasible LP does as well.  *)
ClosingBounds(w) ==
    LET passes == cutoff[w] < Infinity /\ (Lp(w).obj > cutoff[w] \/ Lp(w).kind = "infeasible")
    IN  (IF Lp(w).kind = "infeasible" THEN {Infinity} ELSE {})
        \cup (IF passes /\ Lp(w).kind # "numerical" THEN {CutoffBound} ELSE {})
        \cup (IF Lp(w).kind = "frac" /\ Lp(w).obj > upper THEN {Lp(w).obj} ELSE {})
        \cup (IF Lp(w).kind = "numerical" THEN {node[hand[w]].lb} ELSE {})

LpCloses(w) ==
    /\ Solving(w)
    /\ \E b \in ClosingBounds(w) : node' = Closed(hand[w], b)
    /\ lb_numerical' = IF Lp(w).kind = "numerical"
                       THEN Min({lb_numerical, node[hand[w]].lb}) ELSE lb_numerical
    /\ Solved(w)
    /\ hand' = [hand EXCEPT ![w] = NoNode]
    /\ scan' = [scan EXCEPT ![w] = [i |-> 1, part |-> 1, lb |-> lb_numerical', ret |-> "plunge"]]
    /\ Goto(w, "scan")
    /\ UNCHANGED <<workerVars, upper, incumbent, statusVars, leaving, stack, closed, other, sol,
                   envVars>>

(* An integer solution: add_feasible_solution, and then the node closes. *)
LpIsInteger(w) ==
    /\ Solving(w) /\ Lp(w).kind = "int"
    /\ node' = [node EXCEPT ![hand[w]].lb = Lp(w).obj]
    /\ sol' = [sol EXCEPT ![w] = Lp(w).obj]
    /\ Solved(w)
    /\ Goto(w, "accept")
    /\ UNCHANGED <<workerVars, upper, incumbent, statusVars, lb_numerical, leaving, stack, hand,
                   closed, other, scan, envVars>>

CloseLeaf(w) ==
    /\ pc[w] = "close"
    /\ node' = Closed(hand[w], node[hand[w]].lb)
    /\ hand' = [hand EXCEPT ![w] = NoNode]
    /\ ScanThen(w, "plunge")
    /\ UNCHANGED <<workerVars, upper, incumbent, statusVars, lb_numerical, countVars, stack,
                   cutoff, closed, other, sol, envVars>>

(* The children of the node: one next on the stack, the other behind it or *)
(* in the queue if that is short.  The sibling of the node, if still on    *)
(* the stack, makes way.                                                   *)
LpBranches(w) ==
    LET n == hand[w]
        q == queue[w] \cup ToSet(stack[w])
    IN
    /\ Solving(w) /\ Lp(w).kind = "frac" /\ Lp(w).obj <= upper
    /\ node' = Branched(n, Lp(w).obj)
    /\ explored' = TRUE /\ unexplored' = unexplored + 1
    /\ cutoff' = [cutoff EXCEPT ![w] = 0]
    /\ hand' = [hand EXCEPT ![w] = NoNode]
    /\ \E c \in Children(n) :
         IF Cardinality(q) < MinQueue[tree]
         THEN /\ queue' = [queue EXCEPT ![w] = q \cup {Sibling(c)}]
              /\ stack' = [stack EXCEPT ![w] = <<c>>]
         ELSE /\ queue' = [queue EXCEPT ![w] = q]
              /\ stack' = [stack EXCEPT ![w] = <<c, Sibling(c)>>]
    /\ ScanThen(w, "plunge")
    /\ UNCHANGED <<wlb, active, idle, upper, incumbent, statusVars, lb_numerical, leaving,
                   closed, other, sol, envVars>>

(* The end of the plunge: what is left on the stack goes to the queue. *)
Flush(w) ==
    /\ pc[w] = "flush"
    /\ halt' = (halt \/ status \in {"TIME_LIMIT", "OPTIMAL"})
    /\ queue' = [queue EXCEPT ![w] = @ \cup ToSet(stack[w])]
    /\ stack' = [stack EXCEPT ![w] = <<>>]
    /\ wlb' = [wlb EXCEPT ![w] = Infinity]
    /\ ScanThen(w, "bfs_gap")
    /\ UNCHANGED <<node, active, idle, upper, incumbent, status, running, lb_numerical,
                   countVars, hand, cutoff, closed, other, sol, envVars>>

-----------------------------------------------------------------------------
(* The end of the solve, after the barrier for all tasks: the lower bound  *)
(* from the queues, or that of the root if they are empty.                 *)

TasksDone == leaving = 0 /\ \A w \in Workers : pc[w] = "off"

ClearCutoff(w) ==
    /\ TasksDone /\ final = -1 /\ QueueBound(queue[w]) > upper /\ queue[w] # {}
    /\ \E n \in Best(queue[w]) :
         /\ queue' = [queue EXCEPT ![w] = @ \ {n}]
         /\ node' = Closed(n, node[n].lb)
    /\ unexplored' = unexplored - 1
    /\ UNCHANGED <<wlb, active, idle, upper, incumbent, statusVars, lb_numerical, explored,
                   leaving, pc, localVars, scan, sol, envVars>>

FinalBound ==
    LET lb == Min({lb_numerical} \cup {QueueBound(queue[w]) : w \in Workers}) IN
    /\ TasksDone /\ final = -1
    /\ \A w \in Workers : queue[w] = {} \/ QueueBound(queue[w]) <= upper
    /\ running' = FALSE
    /\ final' = IF lb < Infinity THEN lb ELSE node[1].lb
    /\ UNCHANGED <<tree, node, workerVars, upper, incumbent, status, halt, lb_numerical,
                   countVars, pc, localVars, scan, sol, solutions, limit, verdict>>

(* A search that was stopped called infeasible. *)
FinalStatusAnyStatus ==
    CASE upper = final /\ upper < Infinity -> "OPTIMAL"
      [] explored /\ unexplored = 0 /\ upper = Infinity -> "INFEASIBLE"
      [] OTHER -> status

(* set_final_solution. *)
FinalStatus ==
    CASE upper = final /\ upper < Infinity -> "OPTIMAL"
      [] status = "UNSET" /\ explored /\ unexplored = 0 /\ upper = Infinity -> "INFEASIBLE"
      [] OTHER -> status

SetFinalSolution ==
    /\ final # -1 /\ verdict = "none"
    /\ verdict' = FinalStatus
    /\ status' = FinalStatus
    /\ UNCHANGED <<tree, node, workerVars, upper, incumbent, running, halt, lb_numerical,
                   countVars, pc, localVars, scan, sol, solutions, limit, final>>

-----------------------------------------------------------------------------
WorkerStep(w) ==
    \/ Enter(w) \/ BfsLoop(w) \/ Pop(w) \/ BfsGap(w) \/ ChooseVictim(w) \/ StealFrom(w)
    \/ Exit(w) \/ ReturnWorkerToPool(w) \/ LaunchBfsWorker(w) \/ Handover(w)
    \/ Take(w) \/ SolveNodeLp(w) \/ LpInterrupted(w) \/ LpCloses(w) \/ LpIsInteger(w) \/ CloseLeaf(w)
    \/ LpBranches(w) \/ Flush(w) \/ ComputeGap(w)
    \/ ReadWorkerBound(w) \/ ReadQueueBound(w) \/ AcceptNewIncumbent(w) \/ CheckIncumbentGap(w)

HeuristicStep ==
    \/ FindSolution \/ SolutionDone
    \/ ReadWorkerBound(0) \/ ReadQueueBound(0) \/ AcceptNewIncumbent(0) \/ CheckIncumbentGap(0)

FinishStep == (\E w \in Workers : ClearCutoff(w)) \/ FinalBound \/ SetFinalSolution

Next == (\E w \in Workers : WorkerStep(w)) \/ CheckLast \/ HeuristicStep \/ ReachLimit \/ FinishStep

(* Every task of the group is run by some thread of the team. *)
Spec ==
    /\ Init /\ [][Next]_vars
    /\ \A w \in Workers : WF_vars(WorkerStep(w))
    /\ WF_vars(CheckLast) /\ WF_vars(FinishStep)

-----------------------------------------------------------------------------
Statuses == {"UNSET", "OPTIMAL", "INFEASIBLE", "HALT", "TIME_LIMIT", "NODE_LIMIT"}
Points ==
    {"enter", "scan", "bfs", "pop", "bfs_gap", "steal", "stealing", "exit", "return", "launch",
     "handover", "take", "lp", "solve", "accept", "close", "flush", "off", "search"}

(* Type correctness of the search. *)
TypeOK ==
    /\ tree \in Trees
    /\ node \in [Nodes -> [status : {"none", "pending", "branched", "closed", "freed"},
                           lb : Bounds, kids : 0..2]]
    /\ queue \in [Workers -> SUBSET Nodes] /\ wlb \in [Workers -> Bounds]
    /\ active \in [Workers -> BOOLEAN] /\ idle \in Seq(Workers)
    /\ upper \in Bounds /\ incumbent \in upper..Infinity
    /\ status \in Statuses /\ {running, halt} \subseteq BOOLEAN
    /\ lb_numerical \in Bounds /\ explored \in BOOLEAN /\ leaving \in Nat
    /\ unexplored \in Int
    /\ pc \in [Threads -> Points]
    /\ stack \in [Workers -> Seq(Nodes)] /\ \A w \in Workers : Len(stack[w]) <= 2
    /\ hand \in [Workers -> Nodes \cup {NoNode}]
    /\ cutoff \in [Workers -> -1..Infinity] /\ closed \in [Workers -> BOOLEAN]
    /\ other \in [Workers -> Threads]
    /\ scan \in [Threads -> [i : 1..(NumWorkers + 1), part : {1, 2}, lb : Bounds,
                             ret : {"enter", "bfs", "plunge", "bfs_gap", "accepted"}]]
    /\ sol \in [Threads -> Bounds] /\ solutions \in 0..MaxSolutions[tree]
    /\ limit \in Limits[tree] \cup {"none"} /\ final \in {-1} \cup Bounds
    /\ verdict \in Statuses \cup {"none"}

(* The places a worker holds n in. *)
Holders(n) ==
    {<<w, "queue">> : w \in {v \in Workers : n \in queue[v]}}
    \cup {<<w, "stack">> : w \in {v \in Workers : n \in ToSet(stack[v])}}
    \cup {<<w, "hand">> : w \in {v \in Workers : n = hand[v]}}

(* An open node is in one place: pushed, popped, stolen, handed over and   *)
(* put back by several workers, no node is lost and none is solved twice.  *)
EveryNodeHeldOnce ==
    \A n \in Nodes : Cardinality(Holders(n)) = IF n \in Pending THEN 1 ELSE 0

(* set_status frees the children of a node when the second of them closes, *)
(* whichever worker closes it: no ancestor of an open node is freed and    *)
(* num_children is the number of children still open.                      *)
NoUseAfterFree ==
    /\ \A n \in Pending : \A a \in Ancestors(n) : node[a].status = "branched"
    /\ \A n \in Nodes : node[n].status = "branched" =>
         node[n].kids = Cardinality({c \in Children(n) : node[c].status \in {"pending", "branched"}})

(* The optimum is the incumbent, or below an open node or below a node     *)
(* dropped for numerical trouble whose bound admits it: no part of the     *)
(* tree is discarded that could hold a better solution.                    *)
OptimumNotDiscarded ==
    Opt >= Min({upper, lb_numerical} \cup {node[n].lb : n \in Pending})

(* When the pool reports that every worker is idle no node is open, even   *)
(* though workers are launched while others return.                        *)
StoppedWhenExplored == ~running /\ final = -1 => Pending = {}

(* The lower bound returned is one, whatever stopped the search; or it is  *)
(* the bound of a node the LP solver failed on, and the incumbent is       *)
(* optimal.                                                                *)
FinalBoundIsValid ==
    final # -1 => final <= Opt \/ (final = lb_numerical /\ upper = Opt)

(* Unless the LP solver failed on a node: the search says why it stopped;  *)
(* it returns INFEASIBLE for infeasible problems only, although            *)
(* nodes_unexplored drifts when nodes are put back; and a tree explored to *)
(* the end yields the optimum and its bound.                               *)
VerdictIsSound ==
    verdict # "none" /\ lb_numerical = Infinity =>
        /\ verdict # "UNSET"
        /\ verdict = "INFEASIBLE" => Opt = Infinity
        /\ Pending = {} => upper = Opt /\ final = Opt

(* The search ends: no worker waits for another, stolen nodes do not go    *)
(* round in circles.                                                       *)
SearchEnds == <>(verdict # "none")

(* OPTIMAL means that the incumbent is optimal.  Refuted: get_lower_bound  *)
(* holds no lock, and a node on its way from a queue to a worker, or from  *)
(* one worker to another, can be missed.                                   *)
OptimalIsProved == verdict = "OPTIMAL" /\ limit = "none" => upper = Opt

(* INFEASIBLE means infeasible.  Refuted: a node the LP solver failed on   *)
(* counts as explored, and the bound it leaves in lower_bound_numerical_   *)
(* is not consulted when the tree is exhausted.                            *)
InfeasibleIsProved == verdict = "INFEASIBLE" => Opt = Infinity
=============================================================================
