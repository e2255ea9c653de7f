--------------------------- MODULE HorizonSearch ---------------------------
(***************************************************************************)
(* The deterministic mode of branch and bound.  Workers run independently  *)
(* through horizons of work units and meet at a barrier at the end of each *)
(* horizon, where one of them merges what all have found, balances their   *)
(* loads and hands out a snapshot of the incumbent.  Best-first workers    *)
(* own the nodes of the tree, diving workers search copies of them, and a  *)
(* producer outside the barrier sends heuristic solutions stamped with the *)
(* work units it had done; the merge waits until it is not behind.         *)
(*                                                                         *)
(* Between two barriers a worker touches nothing of the others but the     *)
(* counters of the tree, so its steps are whole stretches of code: from    *)
(* one place where it records work (and may have to wait at the barrier)   *)
(* to the next.  What the LP solver finds at a node, the work it takes and *)
(* the direction it prefers are constants of the behaviour; so is what a   *)
(* dive from the node finds, which is treated as a single LP.              *)
(***************************************************************************)
EXTENDS SearchTree, Sequences, SequencesExt

CONSTANTS
    NumBfs, NumDiving,  \* sizes of the two pools of workers
    Step,               \* deterministic_horizon_step_, in work units
    DivesPerWorker,     \* target_nodes_per_worker
    Reuse,              \* does the allocator give out a freed address again?
    LastWork,           \* bound: the producer's work units beyond this are not told apart
    \* for each tree:
    Heuristics,         \* the producer's solutions, << <<work units, objective>>, ... >>
    WorkLimit,          \* settings_.work_limit (above LastWork if there is none)
    TimeLimit,          \* may the time limit be reached?
    InitialUpper        \* upper_bound_ at the start: Infinity, or what the early
                        \* heuristics found (the search has no incumbent of its own yet)

Bfs == 0..(NumBfs - 1)
Divers == NumBfs..(NumBfs + NumDiving - 1)
Threads == Bfs \cup Divers

HorizonKinds == {"frac", "int", "conflict", "infeasible", "numerical", "none"}

(* A solution of the problem is a point of the tree or no better than one. *)
Attained(t, v) ==
    v >= Infinity \/ \E l \in DOMAIN t : t[l].kind \in {"int", "numerical"} /\ t[l].obj <= v

ASSUME HorizonAssumption ==
    /\ {NumBfs, Step, DivesPerWorker} \subseteq Nat \ {0}
    /\ {NumDiving, LastWork} \subseteq Nat /\ Reuse \in BOOLEAN
    /\ TimeLimit \in [Trees -> BOOLEAN] /\ WorkLimit \in [Trees -> Nat]
    /\ Heuristics \in [Trees -> Seq(Nat \X Nat)]
    /\ InitialUpper \in [Trees -> Bounds]
    /\ \A t \in Trees :
         /\ Attained(t, InitialUpper[t])
         /\ \A i, j \in DOMAIN Heuristics[t] : i <= j => Heuristics[t][i][1] <= Heuristics[t][j][1]
         /\ \A i \in DOMAIN Heuristics[t] : Attained(t, Heuristics[t][i][2])
         /\ \A n \in DOMAIN t :
              /\ t[n].kind \in HorizonKinds /\ t[n].up \in BOOLEAN
              /\ {t[n].pre, t[n].lp, t[n].dive} \subseteq Nat /\ Attained(t, t[n].dive)

VARIABLES
    addr,       \* the address of each node
    id,         \* <<origin_worker_id, creation_seq>> of each node
    worker,     \* of each best-first worker: plunge_stack, backlog, current_node,
                \* last_solved_node, the node whose box leaf_problem holds, LP cutoff,
                \* local_lower_bound_ceiling, next_creation_seq
    diver,      \* of each diving worker: dive_queue, the entry in hand
    ctx,        \* of each of them: program point, where to go on after the barrier, work
                \* units, local_upper_bound, integer_solutions
    generation, \* barrier_generation_
    phase,      \* what the thread in the sync callback is doing
    incumbent,  \* <<objective, who found it, which>>
    lb_numerical,
    status,     \* deterministic_global_termination_status_, set with the scheduler's shutdown
    inbox,      \* heuristic_solution_queue_
    producer,   \* work_units_elapsed, next solution, program point
    manager,    \* the thread that starts and stops the producer: what it has done
    registered, \* is the producer in producers_?
    late,       \* has the time limit been reached?
    final, verdict, \* lower bound and status returned
    strayed     \* history: has a node been taken for a child of the node solved last
                \* because of a recycled address?

treeVars == <<tree, node, addr, id>>
syncVars == <<generation, phase, incumbent, lb_numerical, status>>
envVars  == <<inbox, producer, manager, registered>>
endVars  == <<final, verdict, strayed>>
vars == <<tree, node, addr, id, worker, diver, ctx, generation, phase, incumbent, lb_numerical,
          status, inbox, producer, manager, registered, late, final, verdict, strayed>>

Parent(n) == n \div 2
NobodyYet == <<Infinity, -2, 0>>

(* upper_bound_, which every accepted incumbent lowers to its objective. *)
UpperOf(inc) == Min({InitialUpper[tree], inc[1]})
Upper == UpperOf(incumbent)

(* Tuples of numbers in lexicographic order. *)
Less(a, b) == \E i \in DOMAIN a : a[i] < b[i] /\ \A j \in 1..(i - 1) : a[j] = b[j]
Least(S) == CHOOSE a \in S : \A b \in S \ {a} : Less(a, b)

(* The place of n in S sorted by key, counted from 0, and S sorted. *)
Rank(S, key, n) == Cardinality({m \in S : Less(key[m], key[n])})
SortedBy(S, key) == [i \in 1..Cardinality(S) |-> CHOOSE n \in S : Rank(S, key, n) = i - 1]

-----------------------------------------------------------------------------
(* The queues of a worker (deterministic_workers.hpp). *)

HasWork(k) == k.current # NoNode \/ k.plunge # <<>> \/ k.backlog # {}
Held(k) == Range(k.plunge) \cup k.backlog \cup ({k.current} \ {NoNode})
QueueSize(k) == Len(k.plunge) + Cardinality(k.backlog) + (IF k.current = NoNode THEN 0 ELSE 1)

(* backlog_node_compare_t. *)
BacklogTop(b) == CHOOSE n \in b : \A m \in b \ {n} :
    Less(<<node[n].lb>> \o id[n], <<node[m].lb>> \o id[m])

(* dequeue_node, and the assignment of what it returns to current_node. *)
Dequeue(k) ==
    CASE k.current # NoNode -> k
      [] k.current = NoNode /\ k.plunge # <<>> ->
           [k EXCEPT !.current = Head(k.plunge), !.plunge = Tail(@)]
      [] OTHER -> [k EXCEPT !.current = BacklogTop(k.backlog), !.backlog = @ \ {BacklogTop(@)}]

(* enqueue_children_for_plunge: the oldest entry of the stack moves to the *)
(* backlog, the preferred child comes to the front.                        *)
EnqueueChildren(k, n) ==
    LET kept   == IF k.plunge = <<>> THEN <<>> ELSE Front(k.plunge)
        moved  == IF k.plunge = <<>> THEN {} ELSE {Last(k.plunge)}
        first  == IF tree[n].up THEN 2 * n + 1 ELSE 2 * n
    IN  [k EXCEPT !.plunge = <<first, Sibling(first)>> \o kept, !.backlog = @ \cup moved,
                  !.seq = @ + 2]

-----------------------------------------------------------------------------
(* Work units and the barrier (work_unit_scheduler.cpp). *)

(* current_sync_target, which is also deterministic_current_horizon_. *)
Target == (generation + 1) * Step
Shutdown == status # "UNSET"

(* A thread that goes to a barrier after the shutdown. *)
RecordedAlways(c, amount, p) ==
    [c EXCEPT !.work = @ + amount, !.ret = p, !.pc = IF c.work + amount >= Target THEN "sync" ELSE p]

(* record_work_sync_on_horizon and on_work_recorded: thread state c goes   *)
(* on at p, at once or after the barrier.                                  *)
Recorded(c, amount, p) ==
    [c EXCEPT !.work = @ + amount, !.ret = p,
              !.pc = IF c.work + amount >= Target /\ ~Shutdown THEN "sync" ELSE p]

(* wait_for_next_sync. *)
NextSync(c) ==
    IF Shutdown THEN [c EXCEPT !.pc = "loop"]
                ELSE [c EXCEPT !.pc = "sync", !.ret = "loop", !.work = Target]

-----------------------------------------------------------------------------
Init ==
    /\ TreeInit
    /\ addr = [n \in Nodes |-> n]
    /\ id = [n \in Nodes |-> IF n \in {2, 3} THEN <<-1, n - 2>> ELSE <<-2, 0>>]
    /\ worker = [w \in Bfs |->
         [plunge |-> IF NumBfs = 1 THEN <<3, 2>>
                     ELSE CASE w = 0 -> <<2>> [] w = 1 -> <<3>> [] OTHER -> <<>>,
          backlog |-> {}, current |-> NoNode, last |-> NoNode, box |-> 1, cutoff |-> Infinity,
          ceiling |-> Infinity, seq |-> 0]]
    /\ diver = [d \in Divers |-> [queue |-> <<>>, hand |-> NoNode]]
    /\ ctx = [t \in Threads |->
         [pc |-> "loop", ret |-> "loop", work |-> 0, upper |-> InitialUpper[tree], found |-> {}]]
    /\ generation = 0 /\ phase = "run" /\ incumbent = NobodyYet /\ lb_numerical = Infinity
    /\ status = "UNSET" /\ inbox = {} /\ manager = "start" /\ registered = FALSE
    /\ producer = [work |-> 0, next |-> 1, pc |-> "search"]
    /\ late = FALSE /\ final = -1 /\ verdict = "none" /\ strayed = FALSE

-----------------------------------------------------------------------------
(* run_deterministic_bfs_loop and solve_node_deterministic. *)

At(t, p) == ctx[t].pc = p
Node(w) == worker[w].current
Lp(w) == tree[Node(w)]

(* `node->parent == worker.last_solved_node', a comparison of addresses;   *)
(* the node solved last may have been freed since.                         *)
IsChild(w, n) == addr[Parent(n)] = worker[w].last

(* The next node cannot improve on the incumbent of the snapshot. *)
Fathom(w) ==
    /\ At(w, "loop") /\ ~Shutdown /\ HasWork(worker[w])
    /\ LET k == Dequeue(worker[w]) IN
         /\ node[k.current].lb > ctx[w].upper
         /\ node' = Closed(k.current, node[k.current].lb)
         /\ worker' = [worker EXCEPT ![w] = [k EXCEPT !.current = NoNode]]
    /\ UNCHANGED <<tree, addr, id, diver, ctx, syncVars, envVars, late, endVars>>

(* The box of the node is set up, from that of its parent if the parent    *)
(* was solved last; bounds strengthening records its work.  box becomes    *)
(* NoNode if leaf_problem then holds the box of no node: the worker was    *)
(* led astray by the address.                                              *)
BeginNode(w) ==
    /\ At(w, "loop") /\ ~Shutdown /\ HasWork(worker[w])
    /\ LET k    == Dequeue(worker[w])
           n    == k.current
           good == ~IsChild(w, n) \/ k.box \in {Parent(n), n}
       IN  /\ node[n].lb <= ctx[w].upper
           /\ worker' = [worker EXCEPT ![w] =
                [k EXCEPT !.box = IF good THEN n ELSE NoNode, !.cutoff = ctx[w].upper]]
           /\ ctx' = [ctx EXCEPT ![w] = Recorded(ctx[w], tree[n].pre, "presolved")]
           /\ strayed' = (strayed \/ ~good)
    /\ UNCHANGED <<treeVars, diver, syncVars, envVars, late, final, verdict>>

(* current_node is closed with lower bound b and becomes last_solved_node. *)
CloseNode(w, b) ==
    /\ node' = Closed(Node(w), b)
    /\ worker' = [worker EXCEPT ![w].last = addr[Node(w)], ![w].current = NoNode]

(* Bounds strengthening finds the node infeasible (and may well do so when *)
(* it was given the box of another part of the tree).                      *)
PresolveCloses(w) ==
    /\ At(w, "presolved") /\ (Lp(w).kind = "conflict" \/ worker[w].box = NoNode)
    /\ CloseNode(w, Infinity)
    /\ ctx' = [ctx EXCEPT ![w].pc = "loop"]
    /\ UNCHANGED <<tree, addr, id, diver, syncVars, envVars, late, endVars>>

(* No time is left: the node stays current. *)
OutOfTime(w) ==
    /\ At(w, "presolved") /\ Lp(w).kind # "conflict" /\ late
    /\ ctx' = [ctx EXCEPT ![w] = NextSync(ctx[w])]
    /\ UNCHANGED <<treeVars, worker, diver, syncVars, envVars, late, endVars>>

SolveLp(w) ==
    /\ At(w, "presolved") /\ Lp(w).kind # "conflict" /\ ~late
    /\ ctx' = [ctx EXCEPT ![w] = Recorded(ctx[w], Lp(w).lp, "solved")]
    /\ UNCHANGED <<treeVars, worker, diver, syncVars, envVars, late, endVars>>

(* The LP solver may stop when the time or the work limit is reached. *)
MayStop(t) == late \/ ctx[t].work >= WorkLimit[tree]

LpStopped(w) ==
    /\ At(w, "solved") /\ MayStop(w)
    /\ ctx' = [ctx EXCEPT ![w] = NextSync(ctx[w])]
    /\ UNCHANGED <<treeVars, worker, diver, syncVars, envVars, late, endVars>>

(* A relaxation that is cut off, against the incumbent the worker knew     *)
(* when it set up the LP.                                                  *)
CutOff(w) == Lp(w).kind \in {"frac", "int"} /\ Lp(w).obj > worker[w].cutoff

(* update_tree_impl, the branches that close the node without a solution. *)
LpCloses(w) ==
    /\ At(w, "solved")
    /\ \/ Lp(w).kind = "infeasible" /\ CloseNode(w, Infinity)
       \/ CutOff(w) /\ CloseNode(w, ctx[w].upper)
       \/ Lp(w).kind = "frac" /\ ~CutOff(w) /\ Lp(w).obj > ctx[w].upper /\ CloseNode(w, Lp(w).obj)
    /\ ctx' = [ctx EXCEPT ![w].pc = "loop"]
    /\ UNCHANGED <<tree, addr, id, diver, syncVars, envVars, late, endVars>>

(* on_numerical_issue: the node is closed, its bound kept in the ceiling. *)
LpFails(w) ==
    /\ At(w, "solved") /\ Lp(w).kind = "numerical"
    /\ LET lb == node[Node(w)].lb IN
         /\ node' = Closed(Node(w), lb)
         /\ worker' = [worker EXCEPT ![w].last = addr[Node(w)], ![w].current = NoNode,
                                     ![w].ceiling = Min({lb, @})]
    /\ ctx' = [ctx EXCEPT ![w].pc = "loop"]
    /\ UNCHANGED <<tree, addr, id, diver, syncVars, envVars, late, endVars>>

(* handle_integer_solution: thread state c with a solution it has found. *)
WithSolution(c, t, obj, which) ==
    IF obj < c.upper THEN [c EXCEPT !.upper = obj, !.found = @ \cup {<<obj, t, which>>}] ELSE c

LpIsInteger(w) ==
    /\ At(w, "solved") /\ Lp(w).kind = "int" /\ ~CutOff(w)
    /\ CloseNode(w, Lp(w).obj)
    /\ ctx' = [ctx EXCEPT ![w] =
         [WithSolution(ctx[w], w, Lp(w).obj, Node(w)) EXCEPT !.pc = "loop"]]
    /\ UNCHANGED <<tree, addr, id, diver, syncVars, envVars, late, endVars>>

(* The addresses the allocator may give to node n: a new one or that of a  *)
(* freed node.  (Freed addresses that no last_solved_node holds are not    *)
(* told apart from new ones.)                                              *)
AddressesOf(S) == {addr[m] : m \in {x \in Nodes : node[x].status \in S}}
Fresh(n) ==
    {n} \cup (IF Reuse THEN ({worker[w].last : w \in Bfs} \cap AddressesOf({"freed"}))
                            \ AddressesOf({"pending", "branched", "closed"})
              ELSE {})

LpBranches(w) ==
    /\ At(w, "solved") /\ Lp(w).kind = "frac" /\ ~CutOff(w) /\ Lp(w).obj <= ctx[w].upper
    /\ LET n == Node(w)
           k == worker[w]
       IN  /\ node' = Branched(n, Lp(w).obj)
           /\ \E a \in Fresh(2 * n), b \in Fresh(2 * n + 1) :
                a # b /\ addr' = [addr EXCEPT ![2 * n] = a, ![2 * n + 1] = b]
           /\ id' = [id EXCEPT ![2 * n] = <<w, k.seq>>, ![2 * n + 1] = <<w, k.seq + 1>>]
           /\ worker' = [worker EXCEPT ![w] =
                [EnqueueChildren(k, n) EXCEPT !.last = addr[n], !.current = NoNode]]
    /\ ctx' = [ctx EXCEPT ![w].pc = "loop"]
    /\ UNCHANGED <<tree, diver, syncVars, envVars, late, endVars>>

-----------------------------------------------------------------------------
(* run_deterministic_diving_loop and deterministic_dive. *)

(* An entry whose bound is no better than the incumbent, or no time left. *)
SkipDive(d) ==
    /\ At(d, "loop") /\ ~Shutdown /\ diver[d].queue # <<>>
    /\ Head(diver[d].queue)[2] > ctx[d].upper \/ late
    /\ diver' = [diver EXCEPT ![d].queue = Tail(@)]
    /\ UNCHANGED <<treeVars, worker, ctx, syncVars, envVars, late, endVars>>

Dive(d) ==
    /\ At(d, "loop") /\ ~Shutdown /\ diver[d].queue # <<>>
    /\ Head(diver[d].queue)[2] <= ctx[d].upper /\ ~late
    /\ LET n == Head(diver[d].queue)[1] IN
         /\ diver' = [diver EXCEPT ![d] = [queue |-> Tail(@.queue), hand |-> n]]
         /\ ctx' = [ctx EXCEPT ![d] = Recorded(ctx[d], tree[n].pre + tree[n].lp, "dived")]
    /\ UNCHANGED <<treeVars, worker, syncVars, envVars, late, endVars>>

DiveEnds(d) ==
    /\ At(d, "dived")
    /\ diver' = [diver EXCEPT ![d].hand = NoNode]
    /\ \E c \in {WithSolution(ctx[d], d, tree[diver[d].hand].dive, diver[d].hand)}
                \cup (IF MayStop(d) THEN {ctx[d]} ELSE {}) :
         ctx' = [ctx EXCEPT ![d] = [c EXCEPT !.pc = "loop"]]
    /\ UNCHANGED <<treeVars, worker, syncVars, envVars, late, endVars>>

(* Nothing to do: on to the barrier. *)
Idle(t) ==
    /\ At(t, "loop") /\ ~Shutdown
    /\ IF t \in Bfs THEN ~HasWork(worker[t]) ELSE diver[t].queue = <<>>
    /\ ctx' = [ctx EXCEPT ![t] = NextSync(ctx[t])]
    /\ UNCHANGED <<treeVars, worker, diver, syncVars, envVars, late, endVars>>

Leave(t) ==
    /\ At(t, "loop") /\ Shutdown
    /\ ctx' = [ctx EXCEPT ![t].pc = "done"]
    /\ UNCHANGED <<treeVars, worker, diver, syncVars, envVars, late, endVars>>

-----------------------------------------------------------------------------
(* The barrier, and the wait of its callback for the producer              *)
(* (producer_sync.hpp).  The condition is evaluated under the mutex; the   *)
(* mutex is given up when the thread falls asleep.                         *)

syncOthers == <<treeVars, worker, diver, ctx, generation, incumbent, lb_numerical, status, envVars,
                late, endVars>>

Barrier ==
    /\ phase = "run" /\ \A t \in Threads : At(t, "sync")
    /\ phase' = "check"
    /\ UNCHANGED syncOthers

(* A wait that is content with a producer one horizon behind. *)
ProducersReadyBehind(target) ==
    manager \notin {"start", "registered"} /\ (registered => producer.work >= target - Step)

(* registration_complete_ and all_producers_at_or_ahead. *)
ProducersReady(target) ==
    manager \notin {"start", "registered"} /\ (registered => producer.work >= target)

CheckProducers ==
    /\ phase = "check"
    /\ phase' = IF ProducersReady(Target) THEN "merge" ELSE "going"
    /\ UNCHANGED syncOthers

FallAsleep == phase = "going" /\ phase' = "sleep" /\ UNCHANGED syncOthers

(* notify_all: lost on a thread that is not asleep yet. *)
Woken == IF phase = "sleep" THEN "check" ELSE phase

-----------------------------------------------------------------------------
(* deterministic_sync_callback. *)

(* The heuristic solutions taken whatever their time. *)
DueAny == inbox

(* The heuristic solutions whose time has come. *)
Due == {s \in inbox : s[1] < Target}

(* The incumbent after solutions <<objective, who, which>> were considered *)
(* in order, if they have to be better than u.                             *)
Accept(inc, S, u) == IF S # {} /\ Least(S)[1] < u THEN Least(S) ELSE inc

(* A heuristic solution is compared with the incumbent (accept_new_        *)
(* incumbent), the workers' solutions with the upper bound first.          *)
AcceptHeuristics(inc) == Accept(inc, {<<s[2], -1, s[1]>> : s \in Due}, inc[1])
AcceptFound(inc, T) == Accept(inc, UNION {ctx[t].found : t \in T}, UpperOf(inc))

(* The solutions of the first worker only. *)
MergedFirstOnly == AcceptFound(AcceptFound(AcceptHeuristics(incumbent), {0}), Divers)

(* First those of the producer, then the workers', then the dives'. *)
Merged == AcceptFound(AcceptFound(AcceptHeuristics(incumbent), Bfs), Divers)

Backlogs == UNION {worker[w].backlog : w \in Bfs}

(* One entry for the first worker, from i on, whose queue is not full. *)
AssignOne(acc, n) ==
    LET at(k) == NumBfs + ((acc.i + k) % NumDiving)
        free  == {k \in 0..(NumDiving - 1) : Len(acc.diver[at(k)].queue) < DivesPerWorker}
    IN  IF free = {} THEN acc
        ELSE [diver |-> [acc.diver EXCEPT ![at(Min(free))].queue = Append(@, <<n, node[n].lb>>)],
              i |-> acc.i + Min(free) + 1]

(* deterministic_populate_diving_heap and deterministic_assign_diving_nodes. *)
AssignedDives(upper) ==
    LET heap == SortedBy({n \in Backlogs : node[n].lb < upper},
                         [n \in Backlogs |-> <<node[n].lb>> \o id[n]])
        size == Min({Len(heap), NumDiving * DivesPerWorker})
        assigned[k \in 0..size] ==
            IF k = 0 THEN [diver |-> diver, i |-> 0] ELSE AssignOne(assigned[k - 1], heap[k])
    IN  IF NumDiving = 0 THEN diver ELSE assigned[size].diver

NeedsBalance ==
    LET most  == Max({QueueSize(worker[w]) : w \in Bfs})
        least == Min({QueueSize(worker[w]) : w \in Bfs})
    IN  (least = 0 /\ most >= 2) \/ (least > 0 /\ most > 4 * least)

(* The nodes of the backlogs that worker w is dealt. *)
Dealt(w) == SortedBy({n \in Backlogs : Rank(Backlogs, id, n) % NumBfs = w}, id)

(* Nodes dealt out without leaving the backlog they were in. *)
BalancedTwice ==
    IF NumBfs > 1 /\ NeedsBalance
    THEN [w \in Bfs |-> [worker[w] EXCEPT !.plunge = Reverse(Dealt(w)) \o @]]
    ELSE worker

(* deterministic_balance_worker_loads: the backlogs are dealt out in turn, *)
(* each node to the front of a stack.                                      *)
Balanced ==
    IF NumBfs > 1 /\ NeedsBalance
    THEN [w \in Bfs |-> [worker[w] EXCEPT !.plunge = Reverse(Dealt(w)) \o @, !.backlog = {}]]
    ELSE worker

(* deterministic_compute_lower_bound. *)
LowerBound(numerical, inc) ==
    LET lb == Min({numerical} \cup {node[n].lb : n \in UNION {Held(worker[w]) : w \in Bfs}})
    IN  IF lb = Infinity /\ inc # NobodyYet THEN UpperOf(inc) ELSE lb

(* A tree with nodes in hand taken for an exhausted one. *)
StatusQueuesEmpty(lower, inc) ==
    IF \A w \in Bfs : worker[w].plunge = <<>> /\ worker[w].backlog = {}
    THEN IF UpperOf(inc) = Infinity THEN "INFEASIBLE" ELSE "OPTIMAL"
    ELSE IF UpperOf(inc) < Infinity /\ UpperOf(inc) <= lower THEN "OPTIMAL"
    ELSE IF Target + Step > WorkLimit[tree] THEN "WORK_LIMIT"
    ELSE IF late THEN "TIME_LIMIT"
    ELSE "UNSET"

(* The tree is exhausted, the gap closed or a limit reached. *)
StatusAfter(lower, inc) ==
    IF \A w \in Bfs : ~HasWork(worker[w])
    THEN IF UpperOf(inc) = Infinity THEN "INFEASIBLE" ELSE "OPTIMAL"
    ELSE IF UpperOf(inc) < Infinity /\ UpperOf(inc) <= lower THEN "OPTIMAL"
    ELSE IF Target + Step > WorkLimit[tree] THEN "WORK_LIMIT"
    ELSE IF late THEN "TIME_LIMIT"
    ELSE "UNSET"

(* One barrier however much work was recorded. *)
ReleasedOnce(c, inc, st) == [c EXCEPT !.upper = UpperOf(inc), !.found = {}, !.pc = c.ret]

(* deterministic_broadcast_snapshots, and the way on from the barrier: to  *)
(* the next one if so much work was recorded.                              *)
Released(c, inc, st) ==
    [c EXCEPT !.upper = UpperOf(inc), !.found = {},
              !.pc = IF c.work >= Target + Step /\ st = "UNSET" THEN "sync" ELSE c.ret]

SyncCallback ==
    /\ phase = "merge"
    /\ LET inc       == Merged
           numerical == Min({lb_numerical} \cup {worker[w].ceiling : w \in Bfs})
           st        == StatusAfter(LowerBound(numerical, inc), inc)
       IN  /\ incumbent' = inc
           /\ lb_numerical' = numerical
           /\ status' = st
           /\ diver' = AssignedDives(UpperOf(inc))
           /\ ctx' = [t \in Threads |-> Released(ctx[t], inc, st)]
    /\ worker' = Balanced
    /\ inbox' = inbox \ Due
    /\ generation' = generation + 1
    /\ phase' = "run"
    /\ UNCHANGED <<treeVars, producer, manager, registered, late, endVars>>

-----------------------------------------------------------------------------
(* The producer, cpufj_solve (feasibility_jump/cpu/loop.cpp). *)

producerOthers == <<treeVars, worker, diver, ctx, generation, incumbent, lb_numerical, status,
                    manager, registered, late, endVars>>
Running == manager \in {"registered", "complete", "stopped"} /\ Heuristics[tree] # <<>>
Finds == producer.next <= Len(Heuristics[tree])
         /\ Heuristics[tree][producer.next][1] <= producer.work

(* report_cpu_incumbent and queue_external_solution_deterministic. *)
QueueSolution ==
    /\ Running /\ producer.pc = "search" /\ Finds
    /\ inbox' = inbox \cup {<<producer.work, Heuristics[tree][producer.next][2]>>}
    /\ producer' = [producer EXCEPT !.next = @ + 1]
    /\ UNCHANGED <<phase, producerOthers>>

Advance ==
    /\ Running /\ producer.pc = "search" /\ ~Finds
    /\ producer' = [producer EXCEPT !.work = Min({@ + 1, LastWork}), !.pc = "notify"]
    /\ UNCHANGED <<inbox, phase, producerOthers>>

(* notify_progress, which does not take the mutex. *)
NotifyProgress ==
    /\ Running /\ producer.pc = "notify"
    /\ producer' = [producer EXCEPT !.pc = "search"]
    /\ phase' = Woken
    /\ UNCHANGED <<inbox, producerOthers>>

(* start_cpufj_deterministic and stop_cpufj_deterministic: the producer,   *)
(* if there are threads enough for one, is registered, launched and, when  *)
(* the search is over or out of time, deregistered and told to halt.       *)
managerOthers == <<treeVars, worker, diver, ctx, generation, incumbent, lb_numerical, status, inbox,
                   producer, late, endVars>>

RegisterProducer ==
    /\ manager = "start" /\ phase # "going" /\ Heuristics[tree] # <<>>
    /\ manager' = "registered" /\ registered' = TRUE /\ phase' = Woken
    /\ UNCHANGED managerOthers

RegistrationComplete ==
    /\ phase # "going"
    /\ manager = "registered" \/ (manager = "start" /\ Heuristics[tree] = <<>>)
    /\ manager' = "complete" /\ phase' = Woken
    /\ UNCHANGED <<registered, managerOthers>>

DeregisterProducer ==
    /\ manager = "complete" /\ phase # "going" /\ (late \/ verdict # "none")
    /\ manager' = "stopped" /\ registered' = FALSE /\ phase' = Woken
    /\ UNCHANGED managerOthers

HaltProducer ==
    /\ manager = "stopped"
    /\ manager' = "halted"
    /\ UNCHANGED <<registered, phase, managerOthers>>

TimeOver ==
    /\ TimeLimit[tree] /\ ~late /\ verdict = "none"
    /\ late' = TRUE
    /\ UNCHANGED <<treeVars, worker, diver, ctx, syncVars, envVars, endVars>>

-----------------------------------------------------------------------------
(* The end of solve(): the final bound, and set_final_solution. *)
Finish ==
    /\ verdict = "none" /\ \A t \in Threads : At(t, "done")
    /\ LET lower == LowerBound(lb_numerical, incumbent) IN
         /\ final' = lower
         /\ verdict' = IF Upper < Infinity /\ Upper = lower THEN "OPTIMAL" ELSE status
    /\ UNCHANGED <<treeVars, worker, diver, ctx, syncVars, envVars, late, strayed>>

BfsStep(w) ==
    \/ Fathom(w) \/ BeginNode(w) \/ PresolveCloses(w) \/ OutOfTime(w) \/ SolveLp(w)
    \/ LpStopped(w) \/ LpCloses(w) \/ LpFails(w) \/ LpIsInteger(w) \/ LpBranches(w)
    \/ Idle(w) \/ Leave(w)
DivingStep(d) == SkipDive(d) \/ Dive(d) \/ DiveEnds(d) \/ Idle(d) \/ Leave(d)
CallbackStep == Barrier \/ CheckProducers \/ FallAsleep \/ SyncCallback \/ Finish
ProducerStep == QueueSolution \/ Advance \/ NotifyProgress
ManagerStep == RegisterProducer \/ RegistrationComplete \/ DeregisterProducer \/ HaltProducer

Next ==
    \/ \E w \in Bfs : BfsStep(w)
    \/ \E d \in Divers : DivingStep(d)
    \/ CallbackStep \/ ProducerStep \/ ManagerStep \/ TimeOver

Spec == Init /\ [][Next]_vars

(* Threads that can take a step take one, and a mutex that is free again   *)
(* and again is granted; nothing makes time run out.                       *)
Fairness ==
    /\ \A w \in Bfs : WF_vars(BfsStep(w))
    /\ \A d \in Divers : WF_vars(DivingStep(d))
    /\ WF_vars(CallbackStep) /\ WF_vars(ProducerStep) /\ SF_vars(ManagerStep)
FairSpec == Spec /\ Fairness

-----------------------------------------------------------------------------
(* The types of the search. *)
TypeOK ==
    /\ tree \in Trees
    /\ addr \in [Nodes -> Nodes] /\ DOMAIN id = Nodes
    /\ \A w \in Bfs :
         LET k == worker[w] IN
           /\ k.plunge \in Seq(Nodes) /\ k.backlog \subseteq Nodes
           /\ {k.current, k.last, k.box} \subseteq Nodes \cup {NoNode}
           /\ {k.cutoff, k.ceiling} \subseteq Bounds /\ k.seq \in Nat
    /\ \A t \in Threads :
         /\ ctx[t].pc \in {"loop", "presolved", "solved", "dived", "sync", "done"}
         /\ ctx[t].upper \in Bounds /\ ctx[t].work \in Nat
    /\ phase \in {"run", "check", "going", "sleep", "merge"}
    /\ Upper \in Bounds /\ lb_numerical \in Bounds
    /\ status \in {"UNSET", "OPTIMAL", "INFEASIBLE", "TIME_LIMIT", "WORK_LIMIT"}
    /\ manager \in {"start", "registered", "complete", "stopped", "halted"}
    /\ producer.work \in 0..LastWork /\ strayed \in BOOLEAN

(* The promise of the scheduler: a thread that has recorded the work of a  *)
(* horizon, or of several at once, does not go on before the barrier of    *)
(* each of them.                                                           *)
NobodyOutrunsTheBarrier ==
    \A t \in Threads : ctx[t].work < Target \/ ctx[t].pc = "sync" \/ Shutdown

(* Every node still to be solved is in exactly one queue or hand, however  *)
(* often the loads were balanced.                                          *)
EveryNodeHeldOnce ==
    /\ Pending = UNION {Held(worker[w]) : w \in Bfs}
    /\ \A v, w \in Bfs : v # w => Held(worker[v]) \cap Held(worker[w]) = {}
    /\ \A w \in Bfs : QueueSize(worker[w]) = Cardinality(Held(worker[w]))

(* No part of the tree that may hold the optimum was closed: the optimum   *)
(* is the incumbent, in the hands of a worker, below an open node or below *)
(* a node the LP solver failed on.                                         *)
OptimumNeverDiscarded ==
    Opt >= Min({Upper, lb_numerical} \cup {node[n].lb : n \in Pending}
               \cup {worker[w].ceiling : w \in Bfs}
               \cup {s[1] : s \in UNION {ctx[t].found : t \in Threads}})

(* The same up to the moment at which a recycled address leads a worker    *)
(* astray: nothing else in the search ever closes a part of the tree that  *)
(* may hold the optimum.                                                   *)
OptimumNotDiscarded == strayed \/ OptimumNeverDiscarded

(* "Producing solutions in the past would break determinism": a heuristic  *)
(* solution stamped with a time before the end of a horizon is there when  *)
(* that horizon is merged, never later.                                    *)
NothingFromThePast ==
    manager \in {"stopped", "halted"} \/ \A s \in inbox : s[1] >= generation * Step

(* The status the callback decides on is true, as long as the LP solver    *)
(* has not failed anywhere and no recycled address has led a worker        *)
(* astray.                                                                 *)
StatusIsSound ==
    ~strayed /\ lb_numerical = Infinity =>
        /\ status = "OPTIMAL" => Upper = Opt
        /\ status = "INFEASIBLE" => Opt = Infinity

(* What the solver returns as optimal is: the callback, or the end of      *)
(* solve(), says so of the optimum only, if the LP solver never failed.    *)
OptimalIsProved ==
    verdict = "OPTIMAL" /\ lb_numerical = Infinity => Upper = Opt

(* Every search ends. *)
SearchEnds == <>(verdict # "none")
=============================================================================
