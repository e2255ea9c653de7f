---------------------------- MODULE HorizonTwin ----------------------------
(***************************************************************************)
(* Two runs of HorizonSearch on the same problem, each with its own        *)
(* interleaving of the workers, the barrier and the producer.  They take   *)
(* turns: the first runs until it has merged a horizon, then the second    *)
(* does, and their states are compared.  (The runs share nothing, so no    *)
(* pair of runs is lost by this order.)                                    *)
(***************************************************************************)
EXTENDS HorizonSearch

VARIABLES
    turn,  \* whose turn it is: "first", "second", or "compare" when both have merged
    node2, addr2, id2, worker2, diver2, ctx2, generation2, phase2, incumbent2, lb_numerical2,
    status2, inbox2, producer2, manager2, registered2, late2, final2, verdict2, strayed2

vars2 == <<node2, addr2, id2, worker2, diver2, ctx2, generation2, phase2, incumbent2, lb_numerical2,
           status2, inbox2, producer2, manager2, registered2, late2, final2, verdict2, strayed2>>

Second == INSTANCE HorizonSearch WITH
    node <- node2, addr <- addr2, id <- id2, worker <- worker2, diver <- diver2, ctx <- ctx2,
    generation <- generation2, phase <- phase2, incumbent <- incumbent2,
    lb_numerical <- lb_numerical2, status <- status2, inbox <- inbox2, producer <- producer2,
    manager <- manager2, registered <- registered2, late <- late2, final <- final2,
    verdict <- verdict2, strayed <- strayed2

TwinInit == Init /\ Second!Init /\ turn = "first"

(* A run has come to the point where it is compared. *)
Arrived(g, h, v, u) == g # h \/ v # u

TwinNext ==
    \/ /\ turn = "first" /\ Next
       /\ turn' = IF Arrived(generation, generation', verdict, verdict') THEN "second" ELSE turn
       /\ UNCHANGED vars2
    \/ /\ turn = "second" /\ Second!Next
       /\ turn' = IF Arrived(generation2, generation2', verdict2, verdict2') THEN "compare" ELSE turn
       /\ UNCHANGED vars
    \/ /\ turn = "compare" /\ turn' = "first"
       /\ UNCHANGED <<vars, vars2>>

TwinSpec == TwinInit /\ [][TwinNext]_<<vars, vars2, turn>>

(* What the state hash of a horizon is made of, and what is left of it for *)
(* the next one: the queues, the incumbent, the bounds and the status of   *)
(* the search.  (Addresses, the progress of the producer and solutions     *)
(* from its future are not part of it.)                                    *)
SameState ==
    /\ <<node2, id2, generation2, incumbent2, lb_numerical2, status2, ctx2, diver2>>
         = <<node, id, generation, incumbent, lb_numerical, status, ctx, diver>>
    /\ \A w \in Bfs : [worker2[w] EXCEPT !.last = NoNode] = [worker[w] EXCEPT !.last = NoNode]
    /\ <<final2, verdict2>> = <<final, verdict>>

(* Two runs whatever the addresses their allocators gave out. *)
RunsAlwaysAgree == turn = "compare" => SameState

(* Deterministic mode: whatever the speed of the threads and the addresses *)
(* of the nodes, two runs are in the same state after every horizon and    *)
(* return the same answer, unless a recycled address has led a worker of   *)
(* one of them astray.                                                     *)
RunsAgree == strayed \/ strayed2 \/ RunsAlwaysAgree
=============================================================================
