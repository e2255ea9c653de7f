------------------------ MODULE HorizonSearch_proofs ------------------------
(* Theorems about the deterministic mode of the search, for any trees,     *)
(* horizon step, limits, heuristic solutions and number of threads.        *)
(*                                                                         *)
(*   ProducerInv   the producer is never behind the horizon merged last;   *)
(*   BarrierInv    nobody works beyond the horizon without the barrier;    *)
(*   HoldInv       who holds which node, through every queue, the sort     *)
(*                 of the backlogs and the dealing out of their nodes;     *)
(*   BoundInv      what is closed is covered by a solution or by the bound *)
(*                 of a node the LP solver failed on.                      *)
(*                                                                         *)
(* Each is inductive, given those above it.                                *)
EXTENDS HorizonSearch, SearchTree_proofs, SequenceTheorems

(* The horizon merged last ended at this time. *)
Past == generation * Step

(* NothingFromThePast is not inductive: a producer that lags behind could  *)
(* still stamp a solution with a time already merged.  It does not lag,    *)
(* because no horizon is merged before registration is complete, nor       *)
(* before the registered producer has done the work units of that horizon. *)
NotBehind ==
    /\ registered => Past <= producer.work
    /\ registered /\ phase = "merge" => Target <= producer.work

(* The manager runs before the first horizon ends: a search that has        *)
(* heuristics has them registered.                                          *)
NoMergeBeforeRegistration ==
    /\ manager \in {"start", "registered"} => generation = 0 /\ phase # "merge"
    /\ manager = "registered" => registered
    /\ manager = "complete" => registered \/ Heuristics[tree] = << >>

(* Types of the producer's part of the state. *)
Stamps ==
    /\ generation \in Nat
    /\ producer \in [work : 0..LastWork, next : Nat \ {0}, pc : {"search", "notify"}]
    /\ \A s \in inbox : s[1] \in Nat

(* The inductive invariant of the producer. *)
ProducerInv == Stamps /\ NotBehind /\ NoMergeBeforeRegistration /\ NothingFromThePast

-----------------------------------------------------------------------------
(* The end of a horizon is one step after its beginning. *)
LEMMA HorizonEnd ==
  ASSUME generation \in Nat
  PROVE  /\ Past \in Nat /\ Target \in Nat /\ Target = Past + Step /\ Step \in Nat \ {0}
         /\ generation = 0 => Past = 0
<1>1. Step \in Nat \ {0}
  BY HorizonAssumption
<1> QED BY <1>1 DEF Past, Target

(* Min of two numbers. *)
LEMMA MinOfTwo ==
  ASSUME NEW a \in Nat, NEW b \in Nat
  PROVE  Min({a, b}) = IF a <= b THEN a ELSE b
<1>1. \E x \in {a, b} : \A y \in {a, b} : x =< y
  OBVIOUS
<1>2. Min({a, b}) \in {a, b} /\ \A y \in {a, b} : Min({a, b}) =< y
  BY <1>1 DEF Min
<1> QED BY <1>2

(* No horizon has been merged at the start. *)
LEMMA InitProducer == Init => ProducerInv
<1> SUFFICES ASSUME Init PROVE ProducerInv
  OBVIOUS
<1>1. LastWork \in Nat
  BY HorizonAssumption
<1>2. Stamps
  BY <1>1 DEF Init, Stamps
<1>3. NotBehind /\ NoMergeBeforeRegistration /\ NothingFromThePast
  BY DEF Init, NotBehind, NoMergeBeforeRegistration, NothingFromThePast
<1> QED BY <1>2, <1>3 DEF ProducerInv

(* A step that leaves the producer, the horizon and the manager alone. *)
LEMMA SameProducer ==
  ASSUME ProducerInv, UNCHANGED <<tree, generation, producer, inbox, manager, registered>>,
         phase' = "merge" => phase = "merge"
  PROVE  ProducerInv'
<1>1. UNCHANGED <<Past, Target>>
  BY DEF Past, Target
<1>2. Stamps' /\ NothingFromThePast'
  BY DEF ProducerInv, Stamps, NothingFromThePast
<1>3. NotBehind' /\ NoMergeBeforeRegistration'
  BY <1>1 DEF ProducerInv, NotBehind, NoMergeBeforeRegistration
<1> QED BY <1>2, <1>3 DEF ProducerInv

(* The merge starts only when the producer is not behind, and takes every  *)
(* solution stamped before the end of the horizon.                         *)
LEMMA CallbackProducer == ASSUME ProducerInv, CallbackStep PROVE ProducerInv'
<1>0. generation \in Nat /\ producer.work \in Nat
  BY HorizonAssumption DEF ProducerInv, Stamps
<1>1. CASE Barrier \/ FallAsleep
  BY <1>1, SameProducer DEF Barrier, FallAsleep, syncOthers, treeVars, envVars
<1>2. CASE Finish
  BY <1>2, SameProducer DEF Finish, treeVars, syncVars, envVars
<1>3. CASE CheckProducers
  <2>1. /\ UNCHANGED <<tree, generation, producer, inbox, manager, registered>>
        /\ phase = "check" /\ phase' = IF ProducersReady(Target) THEN "merge" ELSE "going"
    BY <1>3 DEF CheckProducers, syncOthers, treeVars, envVars
  <2>2. CASE ~ProducersReady(Target)
    BY <2>1, <2>2, SameProducer
  <2>3. CASE ProducersReady(Target)
    <3>1. manager \notin {"start", "registered"} /\ (registered => producer.work >= Target)
      BY <2>3 DEF ProducersReady
    <3>2. registered => Target <= producer.work
      BY <1>0, <3>1, HorizonEnd
    <3>3. UNCHANGED <<Past, Target>>
      BY <2>1 DEF Past, Target
    <3>4. Stamps' /\ NothingFromThePast'
      BY <2>1 DEF ProducerInv, Stamps, NothingFromThePast
    <3>5. NotBehind' /\ NoMergeBeforeRegistration'
      BY <2>1, <3>1, <3>2, <3>3 DEF ProducerInv, NotBehind, NoMergeBeforeRegistration
    <3> QED BY <3>4, <3>5 DEF ProducerInv
  <2> QED BY <2>2, <2>3
<1>4. CASE SyncCallback
  <2>1. /\ UNCHANGED <<tree, producer, manager, registered>> /\ phase = "merge" /\ phase' = "run"
        /\ generation' = generation + 1 /\ inbox' = inbox \ Due
    BY <1>4 DEF SyncCallback, treeVars
  <2>2. generation' \in Nat
    BY <1>0, <2>1
  <2>3. Past' = Target
    BY <2>1 DEF Past, Target
  <2>4. \A s \in inbox' : s[1] \in Nat /\ s[1] >= Target
    <3> SUFFICES ASSUME NEW s \in inbox' PROVE s[1] \in Nat /\ s[1] >= Target
      OBVIOUS
    <3>1. s \in inbox /\ s \notin Due
      BY <2>1
    <3>2. s[1] \in Nat /\ Target \in Nat
      BY <1>0, <3>1, HorizonEnd DEF ProducerInv, Stamps
    <3>3. ~(s[1] < Target)
      BY <3>1 DEF Due
    <3> QED BY <3>2, <3>3
  <2>5. Stamps'
    BY <2>1, <2>2, <2>4 DEF ProducerInv, Stamps
  <2>6. NotBehind' /\ NoMergeBeforeRegistration'
    BY <2>1, <2>3 DEF ProducerInv, NotBehind, NoMergeBeforeRegistration
  <2>7. NothingFromThePast'
    BY <2>3, <2>4 DEF NothingFromThePast, Past
  <2> QED BY <2>5, <2>6, <2>7 DEF ProducerInv
<1> QED BY <1>1, <1>2, <1>3, <1>4 DEF CallbackStep

(* The producer stamps a solution with the work it has done, and does more. *)
LEMMA ProducerProducer == ASSUME ProducerInv, ProducerStep PROVE ProducerInv'
<1>0. /\ generation \in Nat /\ producer.work \in Nat /\ producer.work <= LastWork
      /\ LastWork \in Nat
  BY HorizonAssumption DEF ProducerInv, Stamps
<1>1. UNCHANGED <<tree, generation, manager, registered, Past, Target>>
  BY DEF ProducerStep, QueueSolution, Advance, NotifyProgress, producerOthers, treeVars, Past,
     Target
<1>2. CASE QueueSolution
  <2>1. /\ producer' = [producer EXCEPT !.next = @ + 1] /\ UNCHANGED phase
        /\ inbox' = inbox \cup {<<producer.work, Heuristics[tree][producer.next][2]>>}
    BY <1>2 DEF QueueSolution
  <2>2. manager \in {"registered", "complete", "stopped"} /\ Heuristics[tree] # << >>
    BY <1>2 DEF QueueSolution, Running
  <2>3. Stamps'
    BY <1>0, <1>1, <2>1 DEF ProducerInv, Stamps
  <2>4. producer'.work = producer.work
    BY <2>1 DEF ProducerInv, Stamps
  <2>5. NotBehind' /\ NoMergeBeforeRegistration'
    BY <1>1, <2>1, <2>4 DEF ProducerInv, NotBehind, NoMergeBeforeRegistration
  <2>6. NothingFromThePast'
    <3> SUFFICES ASSUME manager \notin {"stopped", "halted"}, NEW s \in inbox'
                 PROVE  s[1] >= Past
      BY <1>1 DEF NothingFromThePast, Past
    <3>1. CASE s \in inbox
      BY <3>1 DEF ProducerInv, NothingFromThePast, Past
    <3>2. CASE s = <<producer.work, Heuristics[tree][producer.next][2]>>
      <4>1. Past <= producer.work
        BY <2>2 DEF ProducerInv, NoMergeBeforeRegistration, NotBehind
      <4> QED BY <1>0, <3>2, <4>1, HorizonEnd
    <3> QED BY <2>1, <3>1, <3>2
  <2> QED BY <2>3, <2>5, <2>6 DEF ProducerInv
<1>3. CASE Advance
  <2>1. /\ producer' = [producer EXCEPT !.work = Min({producer.work + 1, LastWork}), !.pc = "notify"]
        /\ UNCHANGED <<inbox, phase>>
    BY <1>3 DEF Advance
  <2>2. Min({producer.work + 1, LastWork}) \in 0..LastWork /\ producer.work <= Min({producer.work + 1, LastWork})
    BY <1>0, MinOfTwo
  <2>3. producer'.work \in 0..LastWork /\ producer.work <= producer'.work
    BY <2>1, <2>2 DEF ProducerInv, Stamps
  <2>4. Stamps'
    BY <1>1, <2>1, <2>2 DEF ProducerInv, Stamps
  <2>5. NotBehind'
    <3>1. Past \in Nat /\ Target \in Nat /\ producer'.work \in Nat
      BY <1>0, <2>3, HorizonEnd
    <3> QED BY <1>0, <1>1, <2>1, <2>3, <3>1 DEF ProducerInv, NotBehind
  <2>6. NoMergeBeforeRegistration' /\ NothingFromThePast'
    BY <1>1, <2>1 DEF ProducerInv, NoMergeBeforeRegistration, NothingFromThePast
  <2> QED BY <2>4, <2>5, <2>6 DEF ProducerInv
<1>4. CASE NotifyProgress
  <2>1. producer' = [producer EXCEPT !.pc = "search"] /\ UNCHANGED inbox /\ phase' = Woken
    BY <1>4 DEF NotifyProgress
  <2>2. phase' = "merge" => phase = "merge"
    BY <2>1 DEF Woken
  <2>3. producer'.work = producer.work
    BY <2>1 DEF ProducerInv, Stamps
  <2>4. Stamps' /\ NothingFromThePast'
    BY <1>1, <2>1 DEF ProducerInv, Stamps, NothingFromThePast
  <2>5. NotBehind' /\ NoMergeBeforeRegistration'
    BY <1>1, <2>2, <2>3 DEF ProducerInv, NotBehind, NoMergeBeforeRegistration
  <2> QED BY <2>4, <2>5 DEF ProducerInv
<1> QED BY <1>2, <1>3, <1>4 DEF ProducerStep

(* Registration precedes the first merge; after deregistration the search  *)
(* no longer waits for the producer.                                       *)
LEMMA ManagerProducer == ASSUME ProducerInv, ManagerStep PROVE ProducerInv'
<1>0. generation \in Nat /\ producer.work \in Nat
  BY HorizonAssumption DEF ProducerInv, Stamps
<1>1. UNCHANGED <<tree, generation, inbox, producer, Past, Target>>
  BY DEF ManagerStep, RegisterProducer, RegistrationComplete, DeregisterProducer, HaltProducer,
     managerOthers, treeVars, Past, Target
<1>2. phase' = "merge" => phase = "merge"
  BY DEF ManagerStep, RegisterProducer, RegistrationComplete, DeregisterProducer, HaltProducer,
     Woken
<1>3. Stamps'
  BY <1>1 DEF ProducerInv, Stamps
<1>4. CASE RegisterProducer
  <2>1. manager = "start" /\ manager' = "registered" /\ registered'
    BY <1>4 DEF RegisterProducer
  <2>2. Past = 0 /\ phase # "merge" /\ generation = 0
    BY <1>0, <2>1, HorizonEnd DEF ProducerInv, NoMergeBeforeRegistration
  <2>3. NotBehind' /\ NoMergeBeforeRegistration'
    BY <1>0, <1>1, <1>2, <2>1, <2>2 DEF NotBehind, NoMergeBeforeRegistration
  <2>4. NothingFromThePast'
    BY <1>1, <2>1 DEF ProducerInv, NothingFromThePast
  <2> QED BY <1>3, <2>3, <2>4 DEF ProducerInv
<1>5. CASE RegistrationComplete
  <2>1. /\ manager' = "complete" /\ UNCHANGED registered
        /\ manager = "registered" \/ (manager = "start" /\ Heuristics[tree] = << >>)
    BY <1>5 DEF RegistrationComplete
  <2>2. NotBehind' /\ NoMergeBeforeRegistration' /\ NothingFromThePast'
    BY <1>1, <1>2, <2>1 DEF ProducerInv, NotBehind, NoMergeBeforeRegistration, NothingFromThePast
  <2> QED BY <1>3, <2>2 DEF ProducerInv
<1>6. CASE DeregisterProducer \/ HaltProducer
  <2>1. manager' \in {"stopped", "halted"} /\ (registered' => registered)
    BY <1>6 DEF DeregisterProducer, HaltProducer
  <2>2. NotBehind' /\ NoMergeBeforeRegistration' /\ NothingFromThePast'
    BY <1>1, <1>2, <2>1 DEF ProducerInv, NotBehind, NoMergeBeforeRegistration, NothingFromThePast
  <2> QED BY <1>3, <2>2 DEF ProducerInv
<1> QED BY <1>4, <1>5, <1>6 DEF ManagerStep

(* The search itself touches none of this. *)
LEMMA SearchProducer ==
  ASSUME ProducerInv,
         (\E w \in Bfs : BfsStep(w)) \/ (\E d \in Divers : DivingStep(d)) \/ TimeOver
         \/ UNCHANGED vars
  PROVE  ProducerInv'
<1>1. UNCHANGED <<tree, generation, phase, producer, inbox, manager, registered>>
  <2>1. ASSUME NEW w \in Bfs, BfsStep(w)
        PROVE  UNCHANGED <<tree, generation, phase, producer, inbox, manager, registered>>
    BY <2>1 DEF BfsStep, Fathom, BeginNode, PresolveCloses, OutOfTime, SolveLp, LpStopped,
       LpCloses, LpFails, LpIsInteger, LpBranches, Idle, Leave, treeVars, syncVars, envVars
  <2>2. ASSUME NEW d \in Divers, DivingStep(d)
        PROVE  UNCHANGED <<tree, generation, phase, producer, inbox, manager, registered>>
    BY <2>2 DEF DivingStep, SkipDive, Dive, DiveEnds, Idle, Leave, treeVars, syncVars, envVars
  <2>3. CASE TimeOver
    BY <2>3 DEF TimeOver, treeVars, syncVars, envVars
  <2>4. CASE UNCHANGED vars
    BY <2>4 DEF vars
  <2> QED BY <2>1, <2>2, <2>3, <2>4
<1> QED BY <1>1, SameProducer

(* Every step keeps ProducerInv. *)
LEMMA NextProducer ==
  ASSUME ProducerInv, [Next]_vars PROVE ProducerInv'
  BY CallbackProducer, ProducerProducer, ManagerProducer, SearchProducer DEF Next

(* "Producing solutions in the past would break determinism": a heuristic  *)
(* solution stamped with a time before the end of a horizon is there when  *)
(* that horizon is merged, never later, whatever the producer's speed and  *)
(* whenever it is started, as long as it has not been stopped.             *)
THEOREM NoSolutionFromThePast == Spec => []NothingFromThePast
<1>1. ProducerInv /\ [Next]_vars => ProducerInv'
  BY NextProducer
<1>2. ProducerInv => NothingFromThePast
  BY DEF ProducerInv
<1> QED BY <1>1, <1>2, InitProducer, PTL DEF Spec

-----------------------------------------------------------------------------
(* The barrier.  The work units recorded are numbers, because the nodes    *)
(* in the queues are nodes of the tree: HoldInv says so, further down.     *)
WorkIsCounted == \A t \in Threads : ctx[t].work \in Nat

(* The fields of a thread's work context. *)
Fields == {"pc", "ret", "work", "upper", "found"}
Contexts == DOMAIN ctx = Threads /\ \A t \in Threads : DOMAIN ctx[t] = Fields

(* The inductive invariant of the barrier. *)
BarrierInv == generation \in Nat /\ Contexts /\ NobodyOutrunsTheBarrier

(* A thread that is on its way has not reached its target, or is told to   *)
(* stop; it goes on without recording work, stops at the barrier, or       *)
(* records work and is stopped there if it has reached the target.         *)
LEMMA ThreadAtBarrier ==
  ASSUME BarrierInv, WorkIsCounted', NEW t \in Threads, NEW c,
         ctx[t].pc # "sync", UNCHANGED <<generation, status>>,
         ctx' = [ctx EXCEPT ![t] = c], DOMAIN c = Fields,
         \/ c.work = ctx[t].work
         \/ c.pc = "sync"
         \/ (c.work >= Target /\ ~Shutdown) => c.pc = "sync"
  PROVE  BarrierInv'
<1>1. UNCHANGED <<Target, Shutdown>> /\ Target \in Nat
  BY HorizonEnd DEF Target, Shutdown, BarrierInv
<1>2. ctx'[t] = c /\ \A u \in Threads \ {t} : ctx'[u] = ctx[u]
  BY DEF BarrierInv, Contexts
<1>3. Contexts'
  BY <1>2 DEF BarrierInv, Contexts
<1>4. c.work \in Nat
  BY <1>2 DEF WorkIsCounted
<1>5. c.work < Target \/ c.pc = "sync" \/ Shutdown
  <2>1. CASE c.work = ctx[t].work
    BY <2>1 DEF BarrierInv, NobodyOutrunsTheBarrier
  <2>2. CASE (c.work >= Target /\ ~Shutdown) => c.pc = "sync"
    BY <1>1, <1>4, <2>2
  <2> QED BY <2>1, <2>2
<1>6. NobodyOutrunsTheBarrier'
  BY <1>1, <1>2, <1>5 DEF BarrierInv, NobodyOutrunsTheBarrier
<1> QED BY <1>3, <1>6 DEF BarrierInv

(* Steps of the search and of the dives. *)
LEMMA SearchBarrier ==
  ASSUME BarrierInv, WorkIsCounted', NEW t \in Threads,
         BfsStep(t) \/ DivingStep(t)
  PROVE  BarrierInv'
<1>0. UNCHANGED <<generation, status>>
  BY DEF BfsStep, Fathom, BeginNode, PresolveCloses, OutOfTime, SolveLp, LpStopped, LpCloses,
     LpFails, LpIsInteger, LpBranches, DivingStep, SkipDive, Dive, DiveEnds, Idle, Leave, syncVars
<1>1. DOMAIN ctx[t] = Fields
  BY DEF BarrierInv, Contexts
<1>2. CASE Fathom(t) \/ SkipDive(t)
  <2>1. UNCHANGED <<ctx, Target, Shutdown>>
    BY <1>0, <1>2 DEF Fathom, SkipDive, Target, Shutdown
  <2> QED BY <1>0, <2>1 DEF BarrierInv, Contexts, NobodyOutrunsTheBarrier
<1>3. ASSUME NEW amount, NEW p, ctx' = [ctx EXCEPT ![t] = Recorded(ctx[t], amount, p)],
             ctx[t].pc # "sync"
      PROVE  BarrierInv'
  <2> DEFINE c == Recorded(ctx[t], amount, p)
  <2>1. /\ DOMAIN c = Fields /\ c.work = ctx[t].work + amount
        /\ c.pc = IF ctx[t].work + amount >= Target /\ ~Shutdown THEN "sync" ELSE p
    BY <1>1 DEF Recorded, Fields
  <2> HIDE DEF c
  <2>2. (c.work >= Target /\ ~Shutdown) => c.pc = "sync"
    BY <2>1
  <2>3. ctx' = [ctx EXCEPT ![t] = c]
    BY <1>3 DEF c
  <2> QED BY <1>0, <1>3, <2>1, <2>2, <2>3, ThreadAtBarrier
<1>4. ASSUME ctx' = [ctx EXCEPT ![t] = NextSync(ctx[t])], ctx[t].pc # "sync"
      PROVE  BarrierInv'
  <2> DEFINE c == NextSync(ctx[t])
  <2>1. DOMAIN c = Fields /\ (c.work = ctx[t].work \/ c.pc = "sync")
    BY <1>1 DEF NextSync, Fields
  <2> HIDE DEF c
  <2>2. ctx' = [ctx EXCEPT ![t] = c]
    BY <1>4 DEF c
  <2> QED BY <1>0, <1>4, <2>1, <2>2, ThreadAtBarrier
<1>5. ASSUME NEW d, NEW p, DOMAIN d = Fields, d.work = ctx[t].work,
             ctx' = [ctx EXCEPT ![t] = [d EXCEPT !.pc = p]], ctx[t].pc # "sync"
      PROVE  BarrierInv'
  <2> DEFINE c == [d EXCEPT !.pc = p]
  <2>1. DOMAIN c = Fields /\ c.work = ctx[t].work
    BY <1>5 DEF Fields
  <2> HIDE DEF c
  <2>2. ctx' = [ctx EXCEPT ![t] = c]
    BY <1>5 DEF c
  <2> QED BY <1>0, <1>5, <2>1, <2>2, ThreadAtBarrier
<1>6. CASE BeginNode(t)
  BY <1>3, <1>6 DEF BeginNode, At
<1>7. CASE SolveLp(t) \/ Dive(t)
  BY <1>3, <1>7 DEF SolveLp, Dive, At
<1>8. CASE OutOfTime(t) \/ LpStopped(t) \/ Idle(t)
  BY <1>4, <1>8 DEF OutOfTime, LpStopped, Idle, At
<1>9. CASE PresolveCloses(t) \/ LpCloses(t) \/ LpFails(t) \/ LpBranches(t)
  <2>1. ctx' = [ctx EXCEPT ![t] = [ctx[t] EXCEPT !.pc = "loop"]] /\ ctx[t].pc # "sync"
    BY <1>9 DEF PresolveCloses, LpCloses, LpFails, LpBranches, At
  <2> QED BY <1>1, <1>5, <2>1
<1>10. CASE Leave(t)
  <2>1. ctx' = [ctx EXCEPT ![t] = [ctx[t] EXCEPT !.pc = "done"]] /\ ctx[t].pc # "sync"
    BY <1>10 DEF Leave, At
  <2> QED BY <1>1, <1>5, <2>1
<1>11. ASSUME NEW obj, NEW which
       PROVE  LET d == WithSolution(ctx[t], t, obj, which)
              IN  DOMAIN d = Fields /\ d.work = ctx[t].work
  BY <1>1 DEF WithSolution, Fields
<1>12. CASE LpIsInteger(t)
  <2>1. PICK d : /\ d = WithSolution(ctx[t], t, Lp(t).obj, Node(t))
                 /\ ctx' = [ctx EXCEPT ![t] = [d EXCEPT !.pc = "loop"]] /\ ctx[t].pc # "sync"
    BY <1>12 DEF LpIsInteger, At
  <2> QED BY <1>5, <1>11, <2>1
<1>13. CASE DiveEnds(t)
  <2>1. PICK d : /\ d \in {WithSolution(ctx[t], t, tree[diver[t].hand].dive, diver[t].hand), ctx[t]}
                 /\ ctx' = [ctx EXCEPT ![t] = [d EXCEPT !.pc = "loop"]]
    BY <1>13 DEF DiveEnds
  <2>2. ctx[t].pc # "sync"
    BY <1>13 DEF DiveEnds, At
  <2> QED BY <1>1, <1>5, <1>11, <2>1, <2>2
<1> QED BY <1>2, <1>6, <1>7, <1>8, <1>9, <1>10, <1>12, <1>13 DEF BfsStep, DivingStep

(* The callback releases a thread only up to the end of the next horizon. *)
LEMMA ReleaseBarrier ==
  ASSUME BarrierInv, WorkIsCounted', SyncCallback PROVE BarrierInv'
<1>1. PICK inc, st : /\ status' = st /\ ctx' = [t \in Threads |-> Released(ctx[t], inc, st)]
                     /\ generation' = generation + 1
  BY DEF SyncCallback
<1>2. /\ generation \in Nat /\ generation' \in Nat
      /\ Target' = Target + Step /\ Target + Step \in Nat
  <2>1. generation \in Nat /\ Step \in Nat
    BY HorizonAssumption DEF BarrierInv
  <2> QED BY <1>1, <2>1 DEF Target
<1>3. ASSUME NEW t \in Threads
      PROVE  /\ DOMAIN ctx'[t] = Fields /\ ctx'[t].work = ctx[t].work
             /\ (ctx[t].work >= Target + Step /\ st = "UNSET") => ctx'[t].pc = "sync"
  <2>1. DOMAIN ctx[t] = Fields
    BY DEF BarrierInv, Contexts
  <2> QED BY <1>1, <2>1 DEF Released, Fields
<1>4. Contexts'
  BY <1>1, <1>3 DEF Contexts
<1>5. \A t \in Threads : ctx[t].work \in Nat
  BY <1>3 DEF WorkIsCounted
<1>6. NobodyOutrunsTheBarrier'
  BY <1>1, <1>2, <1>3, <1>5 DEF NobodyOutrunsTheBarrier, Shutdown
<1> QED BY <1>2, <1>4, <1>6 DEF BarrierInv

-----------------------------------------------------------------------------
(* Sorting.  Nodes are sorted by keys that the order tells apart.          *)

(* A set of keys that Less orders strictly and totally: what sorting needs. *)
Ordered(S, key) ==
    /\ \A a \in S : ~Less(key[a], key[a])
    /\ \A a, b, c \in S : Less(key[a], key[b]) /\ Less(key[b], key[c]) => Less(key[a], key[c])
    /\ \A a, b \in S : a # b => Less(key[a], key[b]) \/ Less(key[b], key[a])

(* The lexicographic order of pairs and of triples. *)
LEMMA LessPairs ==
  ASSUME NEW a \in Int \X Int, NEW b \in Int \X Int
  PROVE  Less(a, b) <=> a[1] < b[1] \/ (a[1] = b[1] /\ a[2] < b[2])
<1>1. DOMAIN a = 1..2 /\ a[1] \in Int /\ a[2] \in Int /\ b[1] \in Int /\ b[2] \in Int
  OBVIOUS
<1>2. 1..(1 - 1) = {} /\ 1..(2 - 1) = {1} /\ 1..2 = {1, 2}
  OBVIOUS
<1> QED BY <1>1, <1>2 DEF Less

(* The lexicographic order of triples. *)
LEMMA LessTriples ==
  ASSUME NEW a \in Int \X Int \X Int, NEW b \in Int \X Int \X Int
  PROVE  Less(a, b) <=> \/ a[1] < b[1]
                        \/ a[1] = b[1] /\ a[2] < b[2]
                        \/ a[1] = b[1] /\ a[2] = b[2] /\ a[3] < b[3]
<1>1. /\ DOMAIN a = 1..3 /\ a[1] \in Int /\ a[2] \in Int /\ a[3] \in Int
      /\ b[1] \in Int /\ b[2] \in Int /\ b[3] \in Int
  OBVIOUS
<1>2. 1..(1 - 1) = {} /\ 1..(2 - 1) = {1} /\ 1..(3 - 1) = {1, 2} /\ 1..3 = {1, 2, 3}
  OBVIOUS
<1> QED BY <1>1, <1>2 DEF Less

(* A number before a pair makes a triple. *)
LEMMA ConcatPair ==
  ASSUME NEW u \in Seq(Int), NEW v \in Seq(Int), Len(u) = 1, Len(v) = 2
  PROVE  u \o v = <<u[1], v[1], v[2]>>
<1>1. u \o v \in Seq(Int) /\ Len(u \o v) = Len(u) + Len(v)
  BY ConcatProperties
<1>2. \A i \in 1..(Len(u) + Len(v)) :
        (u \o v)[i] = IF i <= Len(u) THEN u[i] ELSE v[i - Len(u)]
  BY ConcatProperties
<1>3. PICK s : s = u \o v
  OBVIOUS
<1>4. PICK m, n : m = Len(u) /\ n = Len(v)
  OBVIOUS
<1>5. /\ m = 1 /\ n = 2 /\ s \in Seq(Int) /\ Len(s) = m + n
      /\ \A i \in 1..(m + n) : s[i] = IF i <= m THEN u[i] ELSE v[i - m]
  BY <1>1, <1>2, <1>3, <1>4, Zenon
<1>6. Len(s) = 3 /\ 1 \in 1..(m + n) /\ 2 \in 1..(m + n) /\ 3 \in 1..(m + n)
      /\ 1 <= m /\ ~(2 <= m) /\ ~(3 <= m) /\ 2 - m = 1 /\ 3 - m = 2
  BY <1>5
<1>7. s[1] = u[1] /\ s[2] = v[1] /\ s[3] = v[2]
  <2>1. \A i \in 1..(m + n) : /\ i <= m => s[i] = u[i]
                             /\ ~(i <= m) => s[i] = v[i - m]
    BY <1>5, Zenon
  <2>2. s[1] = u[1] /\ s[2] = v[2 - m] /\ s[3] = v[3 - m]
    BY <1>5, <1>6, <2>1
  <2> QED BY <1>6, <2>2, Zenon
<1>8. s = <<s[1], s[2], s[3]>>
  BY <1>5, <1>6
<1> QED BY <1>3, <1>7, <1>8, Zenon

(* A number put before a pair. *)
LEMMA ConcatTriple ==
  ASSUME NEW a \in Int, NEW b \in Int, NEW c \in Int
  PROVE  <<a>> \o <<b, c>> = <<a, b, c>>
<1>1. /\ <<a>> \in Seq(Int) /\ <<b, c>> \in Seq(Int) /\ Len(<<a>>) = 1 /\ Len(<<b, c>>) = 2
      /\ <<a>>[1] = a /\ <<b, c>>[1] = b /\ <<b, c>>[2] = c
  OBVIOUS
<1> QED BY <1>1, ConcatPair

(* Distinct pairs, and triples that end in distinct pairs, are in order. *)
LEMMA PairsOrdered ==
  ASSUME NEW S, NEW key, \A n \in S : key[n] \in Int \X Int,
         \A m, n \in S : key[m] = key[n] => m = n
  PROVE  Ordered(S, key)
<1>1. ASSUME NEW a \in S, NEW b \in S
      PROVE  /\ key[a][1] \in Int /\ key[a][2] \in Int /\ key[b][1] \in Int /\ key[b][2] \in Int
             /\ a # b => key[a][1] # key[b][1] \/ key[a][2] # key[b][2]
             /\ Less(key[a], key[b]) <=> \/ key[a][1] < key[b][1]
                                         \/ key[a][1] = key[b][1] /\ key[a][2] < key[b][2]
  <2>1. key[a] \in Int \X Int /\ key[b] \in Int \X Int
    OBVIOUS
  <2>2. key[a] = <<key[a][1], key[a][2]>> /\ key[b] = <<key[b][1], key[b][2]>>
    BY <2>1
  <2> QED BY <2>1, <2>2, LessPairs
<1>2. \A a \in S : ~Less(key[a], key[a])
  BY <1>1
<1>3. ASSUME NEW a \in S, NEW b \in S, NEW c \in S, Less(key[a], key[b]), Less(key[b], key[c])
      PROVE  Less(key[a], key[c])
  BY <1>1, <1>3
<1>4. ASSUME NEW a \in S, NEW b \in S, a # b
      PROVE  Less(key[a], key[b]) \/ Less(key[b], key[a])
  BY <1>1, <1>4
<1> QED BY <1>2, <1>3, <1>4 DEF Ordered

(* Keys that are a number followed by a pair of their own, as the keys of   *)
(* the nodes are.                                                           *)
Keyed(S, key, x, y) ==
    /\ \A n \in S : x[n] \in Int /\ y[n] \in Int \X Int /\ key[n] = <<x[n]>> \o y[n]
    /\ \A m, n \in S : y[m] = y[n] => m = n

(* Such keys are totally ordered. *)
LEMMA TriplesOrdered ==
  ASSUME NEW S, NEW key, NEW x, NEW y, Keyed(S, key, x, y)
  PROVE  Ordered(S, key)
<1> USE DEF Keyed
<1>0. ASSUME NEW n \in S
      PROVE  /\ key[n] \in Int \X Int \X Int /\ key[n][1] = x[n] /\ key[n][2] = y[n][1]
             /\ key[n][3] = y[n][2] /\ y[n] = <<y[n][1], y[n][2]>>
             /\ y[n][1] \in Int /\ y[n][2] \in Int /\ x[n] \in Int
  <2>0. x[n] \in Int /\ y[n] \in Int \X Int
    OBVIOUS
  <2>1. x[n] \in Int /\ y[n][1] \in Int /\ y[n][2] \in Int /\ y[n] = <<y[n][1], y[n][2]>>
    <3> HIDE DEF Keyed
    <3> QED BY <2>0
  <2>2. <<x[n]>> \o <<y[n][1], y[n][2]>> = <<x[n], y[n][1], y[n][2]>>
    BY <2>1, ConcatTriple
  <2>3. key[n] = <<x[n], y[n][1], y[n][2]>>
    BY <2>1, <2>2
  <2> QED BY <2>1, <2>3
<1>1. ASSUME NEW a \in S, NEW b \in S
      PROVE  /\ a # b => y[a][1] # y[b][1] \/ y[a][2] # y[b][2]
             /\ Less(key[a], key[b]) <=>
                  \/ x[a] < x[b]
                  \/ x[a] = x[b] /\ y[a][1] < y[b][1]
                  \/ x[a] = x[b] /\ y[a][1] = y[b][1] /\ y[a][2] < y[b][2]
  <2>1. Less(key[a], key[b]) <=>
          \/ key[a][1] < key[b][1]
          \/ key[a][1] = key[b][1] /\ key[a][2] < key[b][2]
          \/ key[a][1] = key[b][1] /\ key[a][2] = key[b][2] /\ key[a][3] < key[b][3]
    BY <1>0, LessTriples
  <2>2. a # b => y[a][1] # y[b][1] \/ y[a][2] # y[b][2]
    <3>1. y[a] = <<y[a][1], y[a][2]>> /\ y[b] = <<y[b][1], y[b][2]>>
      BY <1>0
    <3>2. a # b => y[a] # y[b]
      OBVIOUS
    <3> QED BY <3>1, <3>2
  <2> QED BY <1>0, <2>1, <2>2
<1>2. \A a \in S : ~Less(key[a], key[a])
  BY <1>0, <1>1
<1>3. ASSUME NEW a \in S, NEW b \in S, NEW c \in S, Less(key[a], key[b]), Less(key[b], key[c])
      PROVE  Less(key[a], key[c])
  <2>1. \A n \in {a, b, c} : x[n] \in Int /\ y[n][1] \in Int /\ y[n][2] \in Int
    BY <1>0
  <2>2. \A m, n \in {a, b, c} : Less(key[m], key[n]) <=>
                  \/ x[m] < x[n]
                  \/ x[m] = x[n] /\ y[m][1] < y[n][1]
                  \/ x[m] = x[n] /\ y[m][1] = y[n][1] /\ y[m][2] < y[n][2]
    BY <1>1
  <2> HIDE DEF Keyed
  <2> QED BY <1>3, <2>1, <2>2
<1>4. ASSUME NEW a \in S, NEW b \in S, a # b
      PROVE  Less(key[a], key[b]) \/ Less(key[b], key[a])
  BY <1>0, <1>1, <1>4
<1> QED BY <1>2, <1>3, <1>4 DEF Ordered

(* Ranks number the elements of a set. *)
LEMMA RanksNumber ==
  ASSUME NEW S, IsFiniteSet(S), NEW key, Ordered(S, key)
  PROVE  /\ \A n \in S : Rank(S, key, n) \in Nat /\ Rank(S, key, n) < Cardinality(S)
         /\ \A m, n \in S : Rank(S, key, m) = Rank(S, key, n) => m = n
         /\ \A i \in 0..(Cardinality(S) - 1) : \E n \in S : Rank(S, key, n) = i
<1> DEFINE Below(n) == {m \in S : Less(key[m], key[n])}
           N == Cardinality(S)
<1>1. N \in Nat
  BY FS_CardinalityType
<1>2. ASSUME NEW n \in S
      PROVE  IsFiniteSet(Below(n)) /\ Rank(S, key, n) = Cardinality(Below(n))
  <2>1. Below(n) \in SUBSET S
    OBVIOUS
  <2>2. IsFiniteSet(Below(n))
    BY <2>1, FS_Subset
  <2> QED BY <2>2 DEF Rank
<1>3. ASSUME NEW n \in S PROVE Rank(S, key, n) \in Nat /\ Rank(S, key, n) < N
  <2>1. Below(n) \in SUBSET S /\ n \notin Below(n)
    BY DEF Ordered
  <2> HIDE DEF Below, N
  <2>2. Cardinality(Below(n)) <= N /\ (N = Cardinality(Below(n)) => S = Below(n))
    BY <2>1, FS_Subset DEF N
  <2>3. Cardinality(Below(n)) \in Nat
    BY <1>2, FS_CardinalityType
  <2> QED BY <1>1, <1>2, <2>1, <2>2, <2>3
<1>4. ASSUME NEW m \in S, NEW n \in S, Less(key[m], key[n])
      PROVE  Rank(S, key, m) < Rank(S, key, n)
  <2>1. Below(m) \in SUBSET Below(n) /\ m \in Below(n) /\ m \notin Below(m)
    BY <1>4 DEF Ordered
  <2> HIDE DEF Below
  <2>2. /\ Cardinality(Below(m)) <= Cardinality(Below(n))
        /\ Cardinality(Below(n)) = Cardinality(Below(m)) => Below(n) = Below(m)
    BY <1>2, <2>1, FS_Subset
  <2> QED BY <1>2, <1>3, <2>1, <2>2
<1>5. ASSUME NEW m \in S, NEW n \in S, Rank(S, key, m) = Rank(S, key, n) PROVE m = n
  <2>1. m # n => Less(key[m], key[n]) \/ Less(key[n], key[m])
    BY DEF Ordered
  <2> QED BY <1>3, <1>4, <1>5, <2>1
<1>6. ASSUME NEW i \in 0..(N - 1) PROVE \E n \in S : Rank(S, key, n) = i
  <2> DEFINE f == [n \in S |-> Rank(S, key, n)]
             T == 0..(N - 1)
  <2>1. f \in Injection(S, T)
    <3> HIDE DEF N
    <3>1. f \in [S -> T]
      BY <1>1, <1>3
    <3>2. \A m, n \in S : f[m] = f[n] => m = n
      BY <1>5
    <3> QED BY <3>1, <3>2, Zenon DEF Injection, IsInjective
  <2>2. IsFiniteSet(T) /\ Cardinality(T) = N
    BY <1>1, FS_Interval
  <2> HIDE DEF f, T
  <2>3. f \in Surjection(S, T)
    BY <2>1, <2>2, FS_Injection DEF N
  <2>4. i \in T
    BY DEF T
  <2>5. \E n \in S : f[n] = i
    BY <2>3, <2>4, Zenon DEF Surjection
  <2> QED BY <2>5 DEF f
<1> QED BY <1>3, <1>5, <1>6

(* A sorted set is a sequence of its elements, each of them once. *)
LEMMA SortedEnumerates ==
  ASSUME NEW S, IsFiniteSet(S), NEW key, Ordered(S, key)
  PROVE  /\ SortedBy(S, key) \in Seq(S) /\ Len(SortedBy(S, key)) = Cardinality(S)
         /\ Range(SortedBy(S, key)) = S
         /\ \A i, j \in 1..Cardinality(S) : SortedBy(S, key)[i] = SortedBy(S, key)[j] => i = j
<1> DEFINE N == Cardinality(S)
           s == SortedBy(S, key)
<1>1. N \in Nat
  BY FS_CardinalityType
<1>2. ASSUME NEW i \in 1..N PROVE s[i] \in S /\ Rank(S, key, s[i]) = i - 1
  <2>1. i - 1 \in 0..(N - 1)
    BY <1>1
  <2>2. \E n \in S : Rank(S, key, n) = i - 1
    BY <2>1, RanksNumber
  <2>3. s[i] = CHOOSE n \in S : Rank(S, key, n) = i - 1
    BY DEF SortedBy
  <2> HIDE DEF s, N
  <2> QED BY <2>2, <2>3
<1>3. s = [i \in 1..N |-> s[i]]
  BY DEF SortedBy
<1>4. s \in [1..N -> S] /\ DOMAIN s = 1..N
  BY <1>2, <1>3
<1> HIDE DEF s
<1>5. s \in Seq(S) /\ Len(s) = N
  BY <1>1, <1>4
<1>6. ASSUME NEW n \in S PROVE \E i \in 1..N : s[i] = n
  <2>1. Rank(S, key, n) \in Nat /\ Rank(S, key, n) < N
    BY RanksNumber
  <2>2. PICK i \in 1..N : i = Rank(S, key, n) + 1
    BY <1>1, <2>1
  <2>3. Rank(S, key, s[i]) = Rank(S, key, n) /\ s[i] \in S
    BY <1>2, <2>1, <2>2
  <2> QED BY <2>2, <2>3, RanksNumber
<1>7. Range(s) = S
  BY <1>2, <1>4, <1>6 DEF Range
<1>8. ASSUME NEW i \in 1..N, NEW j \in 1..N, s[i] = s[j] PROVE i = j
  BY <1>1, <1>2, <1>8
<1> QED BY <1>5, <1>7, <1>8 DEF s

(* The first of an ordered set is before all others. *)
LEMMA OrderedHasFirst ==
  ASSUME NEW S, IsFiniteSet(S), S # {}, NEW key, Ordered(S, key)
  PROVE  \E n \in S : \A m \in S \ {n} : Less(key[n], key[m])
<1>1. Cardinality(S) \in Nat /\ Cardinality(S) # 0
  BY FS_CardinalityType, FS_EmptySet
<1>2. PICK n \in S : Rank(S, key, n) = 0
  BY <1>1, RanksNumber
<1>3. {m \in S : Less(key[m], key[n])} \in SUBSET S
  OBVIOUS
<1>4. {m \in S : Less(key[m], key[n])} = {}
  BY <1>2, <1>3, FS_Subset, FS_EmptySet DEF Rank
<1> QED BY <1>4 DEF Ordered

(* Of a set of solutions, one is least, and none has a better objective. *)
Tagged == Nat \X Int \X Nat

(* The least solution of a set is one of them and has the best objective. *)
LEMMA LeastSolution ==
  ASSUME NEW S \in SUBSET Tagged, S # {}, \A s \in S : s[2] >= -1
  PROVE  Least(S) \in S /\ \A s \in S : Least(S)[1] <= s[1]
<1>1. \A s \in S : s[1] \in Nat /\ s[2] \in Int /\ s[2] + 1 \in Nat /\ s[3] \in Nat
                   /\ s \in Int \X Int \X Int /\ s = <<s[1], s[2], s[3]>>
  BY DEF Tagged
<1> DEFINE A == {s[1] : s \in S}
<1>2. A \in SUBSET Nat /\ A # {}
  BY <1>1
<1>3. PICK x \in A : \A y \in A : x <= y
  BY <1>2, LeastNatural
<1> DEFINE B == {s[2] + 1 : s \in {r \in S : r[1] = x}}
<1>4. B \in SUBSET Nat /\ B # {}
  BY <1>1, <1>3
<1>5. PICK y \in B : \A z \in B : y <= z
  BY <1>4, LeastNatural
<1> DEFINE C == {s[3] : s \in {r \in S : r[1] = x /\ r[2] + 1 = y}}
<1>6. C \in SUBSET Nat /\ C # {}
  BY <1>1, <1>5
<1>7. PICK z \in C : \A u \in C : z <= u
  BY <1>6, LeastNatural
<1>8. PICK a \in S : a[1] = x /\ a[2] + 1 = y /\ a[3] = z
  BY <1>7
<1>9. ASSUME NEW b \in S \ {a} PROVE Less(a, b)
  <2>1. b[1] \in A
    OBVIOUS
  <2>2. b[1] = x => b[2] + 1 \in B
    OBVIOUS
  <2>3. b[1] = x /\ b[2] + 1 = y => b[3] \in C
    OBVIOUS
  <2>4. x <= b[1] /\ (b[1] = x => y <= b[2] + 1) /\ (b[1] = x /\ b[2] + 1 = y => z <= b[3])
    BY <1>3, <1>5, <1>7, <2>1, <2>2, <2>3
  <2> HIDE DEF A, B, C
  <2>5. a[1] # b[1] \/ a[2] # b[2] \/ a[3] # b[3]
    BY <1>1
  <2> QED BY <1>1, <1>8, <2>4, <2>5, LessTriples
<1>10. Least(S) \in S /\ \A b \in S \ {Least(S)} : Less(Least(S), b)
  <2> HIDE DEF A, B, C
  <2> QED BY <1>9 DEF Least
<1>11. ASSUME NEW s \in S PROVE Least(S)[1] <= s[1]
  <2>1. CASE s = Least(S)
    BY <1>1, <2>1
  <2>2. CASE s # Least(S)
    <3>1. Less(Least(S), s)
      BY <1>10, <2>2
    <3> QED BY <1>1, <1>10, <3>1, LessTriples
  <2> QED BY <2>1, <2>2
<1> QED BY <1>10, <1>11
-----------------------------------------------------------------------------
(* Sequences without repetitions, such as the stacks of the workers.       *)

(* A sequence in which nothing occurs twice. *)
NoRepeats(s) == \A i, j \in 1..Len(s) : s[i] = s[j] => i = j

(* What is in a sequence. *)
LEMMA RangeFacts ==
  ASSUME NEW S, NEW s \in Seq(S)
  PROVE  /\ Len(s) \in Nat /\ Range(s) \subseteq S /\ s \in Seq(S)
         /\ \A x : x \in Range(s) <=> \E i \in 1..Len(s) : s[i] = x
  BY RangeEquality, LenProperties, RangeOfSeq

(* Two sequences with nothing in common, one after the other. *)
LEMMA ConcatNoRepeats ==
  ASSUME NEW S, NEW s \in Seq(S), NEW t \in Seq(S), NoRepeats(s), NoRepeats(t),
         Range(s) \cap Range(t) = {}
  PROVE  s \o t \in Seq(S) /\ NoRepeats(s \o t) /\ Range(s \o t) = Range(s) \cup Range(t)
<1>1. s \o t \in Seq(S) /\ Len(s \o t) = Len(s) + Len(t)
  BY ConcatProperties
<1>2. \A i \in 1..(Len(s) + Len(t)) :
        (s \o t)[i] = IF i <= Len(s) THEN s[i] ELSE t[i - Len(s)]
  BY ConcatProperties
<1>3. PICK u : u = s \o t
  OBVIOUS
<1>4. PICK m, n : m = Len(s) /\ n = Len(t)
  OBVIOUS
<1>5. /\ m \in Nat /\ n \in Nat /\ Len(u) = m + n
      /\ \A i \in 1..(m + n) : (i <= m => u[i] = s[i]) /\ (~(i <= m) => u[i] = t[i - m])
  <2>1. Len(s) \in Nat /\ Len(t) \in Nat
    BY LenProperties
  <2> QED BY <1>1, <1>2, <1>3, <1>4, <2>1, Zenon
<1>6. ASSUME NEW i \in 1..(m + n), NEW j \in 1..(m + n), u[i] = u[j] PROVE i = j
  <2>1. ASSUME NEW k \in 1..(m + n)
        PROVE  \/ k \in 1..m /\ u[k] = s[k] /\ u[k] \in Range(s)
               \/ k - m \in 1..n /\ k \notin 1..m /\ u[k] = t[k - m] /\ u[k] \in Range(t)
    <3>1. CASE k <= m
      <4>1. k \in 1..m /\ u[k] = s[k]
        BY <1>5, <3>1
      <4>2. s[k] \in Range(s)
        BY <1>4, <4>1, RangeFacts
      <4> QED BY <4>1, <4>2
    <3>2. CASE ~(k <= m)
      <4>1. k - m \in 1..n /\ k \notin 1..m /\ u[k] = t[k - m]
        BY <1>5, <3>2
      <4>2. t[k - m] \in Range(t)
        BY <1>4, <4>1, RangeFacts
      <4> QED BY <4>1, <4>2
    <3> QED BY <3>1, <3>2
  <2>2. CASE u[i] \in Range(s)
    <3>1. i \in 1..m /\ j \in 1..m /\ s[i] = s[j]
      BY <1>6, <2>1, <2>2
    <3> QED BY <1>4, <3>1 DEF NoRepeats
  <2>3. CASE u[i] \in Range(t)
    <3>1. i - m \in 1..n /\ j - m \in 1..n /\ t[i - m] = t[j - m]
      BY <1>6, <2>1, <2>3
    <3>2. i - m = j - m
      BY <1>4, <3>1 DEF NoRepeats
    <3> QED BY <1>5, <3>2
  <2> QED BY <2>1, <2>2, <2>3
<1>7. NoRepeats(u)
  BY <1>5, <1>6 DEF NoRepeats
<1>8. Range(s \o t) = Range(s) \cup Range(t)
  BY RangeConcatenation
<1> QED BY <1>1, <1>3, <1>7, <1>8, Zenon

(* A sequence turned around. *)
LEMMA ReverseNoRepeats ==
  ASSUME NEW S, NEW s \in Seq(S), NoRepeats(s)
  PROVE  Reverse(s) \in Seq(S) /\ NoRepeats(Reverse(s)) /\ Range(Reverse(s)) = Range(s)
<1> DEFINE n == Len(s)
           r == Reverse(s)
<1>1. n \in Nat /\ \A i \in 1..n : s[i] \in S
  BY LenProperties, ElementOfSeq
<1>2. r = [i \in 1..n |-> s[(n - i) + 1]]
  BY DEF Reverse
<1> HIDE DEF n, r
<1>3. \A i \in 1..n : (n - i) + 1 \in 1..n /\ r[i] = s[(n - i) + 1] /\ r[i] \in S
  BY <1>1, <1>2
<1>4. r \in [1..n -> S] /\ DOMAIN r = 1..n
  BY <1>2, <1>3
<1>5. r \in Seq(S) /\ Len(r) = n
  BY <1>1, <1>4
<1>6. ASSUME NEW i \in 1..n, NEW j \in 1..n, r[i] = r[j] PROVE i = j
  <2>1. (n - i) + 1 = (n - j) + 1
    BY <1>3, <1>6 DEF NoRepeats, n
  <2> QED BY <1>1, <2>1
<1>7. Range(r) = Range(s)
  <2>1. \A x : x \in Range(r) <=> \E i \in 1..n : r[i] = x
    BY <1>5, RangeFacts
  <2>2. \A x : x \in Range(s) <=> \E i \in 1..n : s[i] = x
    BY RangeFacts DEF n
  <2>3. ASSUME NEW i \in 1..n PROVE \E j \in 1..n : r[j] = s[i]
    <3>1. (n - i) + 1 \in 1..n /\ (n - ((n - i) + 1)) + 1 = i
      BY <1>1
    <3> QED BY <1>3, <3>1
  <2> QED BY <1>3, <2>1, <2>2, <2>3
<1> QED BY <1>5, <1>6, <1>7 DEF r, NoRepeats

(* A sequence without its first entry. *)
LEMMA TailNoRepeats ==
  ASSUME NEW S, NEW s \in Seq(S), s # <<>>, NoRepeats(s)
  PROVE  /\ Tail(s) \in Seq(S) /\ NoRepeats(Tail(s)) /\ Head(s) \in Range(s)
         /\ Range(Tail(s)) = Range(s) \ {Head(s)}
<1>1. Tail(s) \in Seq(S) /\ Len(Tail(s)) = Len(s) - 1 /\ Head(s) = s[1] /\ Len(s) \in Nat \ {0}
  BY HeadTailProperties, LenProperties, EmptySeq
<1>2. \A i \in 1..Len(Tail(s)) : Tail(s)[i] = s[i + 1]
  BY HeadTailProperties
<1>3. PICK t, n : t = Tail(s) /\ n = Len(s)
  OBVIOUS
<1>4. /\ n \in Nat \ {0} /\ Len(t) = n - 1 /\ t \in Seq(S)
      /\ \A i \in 1..(n - 1) : t[i] = s[i + 1]
  BY <1>1, <1>2, <1>3, Zenon
<1>5. ASSUME NEW i \in 1..(n - 1), NEW j \in 1..(n - 1), t[i] = t[j] PROVE i = j
  <2>1. i + 1 \in 1..n /\ j + 1 \in 1..n /\ s[i + 1] = s[j + 1]
    BY <1>4, <1>5
  <2>2. i + 1 = j + 1
    BY <1>3, <2>1 DEF NoRepeats
  <2> QED BY <2>2
<1>6. \A x : x \in Range(s) <=> \E i \in 1..n : s[i] = x
  BY <1>3, RangeFacts
<1>7. \A x : x \in Range(t) <=> \E i \in 1..(n - 1) : t[i] = x
  BY <1>4, RangeFacts
<1>8. ASSUME NEW x \in Range(t) PROVE x \in Range(s) /\ x # s[1]
  <2>1. PICK i \in 1..(n - 1) : t[i] = x
    BY <1>7
  <2>2. i + 1 \in 1..n /\ i + 1 # 1 /\ 1 \in 1..n /\ s[i + 1] = x
    BY <1>4, <2>1
  <2>3. x # s[1]
    BY <1>3, <2>2 DEF NoRepeats
  <2> QED BY <1>6, <2>2, <2>3
<1>9. ASSUME NEW x \in Range(s), x # s[1] PROVE x \in Range(t)
  <2>1. PICK i \in 1..n : s[i] = x
    BY <1>6
  <2>2. i - 1 \in 1..(n - 1) /\ (i - 1) + 1 = i
    BY <1>4, <1>9, <2>1
  <2>3. t[i - 1] = x
    BY <1>4, <2>1, <2>2
  <2> QED BY <1>7, <2>2, <2>3
<1>10. s[1] \in Range(s)
  BY <1>4, <1>6
<1>11. Range(t) = Range(s) \ {s[1]} /\ NoRepeats(t)
  BY <1>4, <1>5, <1>8, <1>9 DEF NoRepeats
<1> QED BY <1>1, <1>3, <1>10, <1>11, Zenon

(* A sequence without its last entry. *)
LEMMA FrontNoRepeats ==
  ASSUME NEW S, NEW s \in Seq(S), s # <<>>, NoRepeats(s)
  PROVE  /\ Front(s) \in Seq(S) /\ NoRepeats(Front(s)) /\ Last(s) \in Range(s)
         /\ Range(Front(s)) = Range(s) \ {Last(s)}
<1> DEFINE n == Len(s)
           t == Front(s)
<1>1. n \in Nat \ {0} /\ \A i \in 1..n : s[i] \in S
  BY LenProperties, ElementOfSeq, EmptySeq
<1>2. t = SubSeq(s, 1, n - 1) /\ Last(s) = s[n]
  BY DEF Front, Last
<1> HIDE DEF n, t
<1>3. 1 \in Int /\ n - 1 \in Int /\ \A i \in 1..(n - 1) : s[i] \in S
  BY <1>1
<1>4. /\ t \in Seq(S) /\ Len(t) = (IF 1 <= n - 1 THEN (n - 1) - 1 + 1 ELSE 0)
      /\ \A i \in 1..((n - 1) - 1 + 1) : t[i] = s[1 + i - 1]
  BY <1>2, <1>3, SubSeqProperties
<1>5. Len(t) = n - 1 /\ \A i \in 1..(n - 1) : t[i] = s[i]
  BY <1>1, <1>4
<1>6. \A i, j \in 1..n : s[i] = s[j] => i = j
  BY DEF NoRepeats, n
<1>7. NoRepeats(t)
  BY <1>1, <1>5, <1>6 DEF NoRepeats
<1>8. \A x : x \in Range(s) <=> \E i \in 1..n : s[i] = x
  BY RangeFacts DEF n
<1>9. \A x : x \in Range(t) <=> \E i \in 1..(n - 1) : t[i] = x
  BY <1>4, <1>5, RangeFacts
<1>10. ASSUME NEW x PROVE x \in Range(t) <=> x \in Range(s) /\ x # s[n]
  <2>1. ASSUME x \in Range(t) PROVE x \in Range(s) /\ x # s[n]
    BY <1>1, <1>5, <1>6, <1>8, <1>9, <2>1
  <2>2. ASSUME x \in Range(s), x # s[n] PROVE x \in Range(t)
    BY <1>1, <1>5, <1>8, <1>9, <2>2
  <2> QED BY <2>1, <2>2
<1>11. s[n] \in Range(s)
  BY <1>1, <1>8
<1> QED BY <1>2, <1>4, <1>7, <1>10, <1>11 DEF t

(* The length of a sequence counts what is in it. *)
LEMMA CountNoRepeats ==
  ASSUME NEW S, NEW s \in Seq(S), NoRepeats(s)
  PROVE  IsFiniteSet(Range(s)) /\ Cardinality(Range(s)) = Len(s)
<1>1. s \in [1..Len(s) -> S] /\ DOMAIN s = 1..Len(s) /\ Len(s) \in Nat
  BY LenProperties
<1>2. s \in [1..Len(s) -> Range(s)]
  BY <1>1 DEF Range
<1>3. s \in Surjection(1..Len(s), Range(s))
  BY <1>1, <1>2, Zenon DEF Surjection, Range
<1>4. s \in Injection(1..Len(s), Range(s))
  BY <1>2, Zenon DEF Injection, IsInjective, NoRepeats
<1>5. IsFiniteSet(1..Len(s)) /\ Cardinality(1..Len(s)) = Len(s)
  <2>1. \A n \in Nat : IsFiniteSet(1..n) /\ Cardinality(1..n) = n
    BY FS_Interval
  <2> QED BY <1>1, <2>1, Zenon
<1> QED BY <1>3, <1>4, <1>5, FS_Surjection

-----------------------------------------------------------------------------
(* The invariant of the nodes and of those who hold them.  First types.    *)

(* A best-first worker, the state of a thread and a diving worker. *)
WorkerType ==
    [plunge : Seq(Nodes), backlog : SUBSET Nodes, current : Nodes \cup {NoNode},
     last : Nodes \cup {NoNode}, box : Nodes \cup {NoNode}, cutoff : Bounds, ceiling : Bounds,
     seq : Nat]
Solutions == Bounds \X Threads \X Nodes
ContextType ==
    [pc : {"loop", "presolved", "solved", "dived", "sync", "done"},
     ret : {"loop", "presolved", "solved", "dived"}, work : Nat, upper : Bounds,
     found : SUBSET Solutions]
DiverType == [queue : Seq((DOMAIN tree) \X Bounds), hand : (DOMAIN tree) \cup {NoNode}]

(* The types of the nodes and of the workers. *)
NodeTypes ==
    /\ tree \in Trees /\ NodeType /\ addr \in [Nodes -> Nodes] /\ id \in [Nodes -> Int \X Int]
    /\ worker \in [Bfs -> WorkerType] /\ diver \in [Divers -> DiverType]
SyncTypes ==
    /\ ctx \in [Threads -> ContextType] /\ incumbent \in Bounds \X Int \X Nat
    /\ lb_numerical \in Bounds /\ inbox \subseteq Nat \X Nat
    /\ phase \in {"run", "check", "going", "sleep", "merge"}
    /\ status \in {"UNSET", "OPTIMAL", "INFEASIBLE", "TIME_LIMIT", "WORK_LIMIT"}
    /\ manager \in {"start", "registered", "complete", "stopped", "halted"}

(* Where a thread is, or will be after the barrier. *)
Point(c) == IF c.pc = "sync" THEN c.ret ELSE c.pc
Solving(c) == Point(c) \in {"presolved", "solved"}

(* A worker on its way through a node has it in hand.  It keeps one that   *)
(* was interrupted, but only when the search is about to end.              *)
BfsInv(k, c) ==
    /\ Solving(c) => k.current # NoNode
    /\ k.current # NoNode => \/ Solving(c) \/ Shutdown
                             \/ c.pc = "sync" /\ (late \/ Target > WorkLimit[tree])

(* A dive starts from a node of the tree. *)
DiverInv(d, c) == Point(c) = "dived" => d.hand # NoNode

(* While the callback runs everybody waits; nobody waits after the end. *)
CallbackInv ==
    /\ phase # "run" => \A t \in Threads : ctx[t].pc = "sync"
    /\ Shutdown => phase = "run" /\ \A t \in Threads : ctx[t].pc # "sync"

(* No node is twice with one worker, nor with two of the workers W. *)
Tidy(k) ==
    /\ Range(k.plunge) \cap k.backlog = {} /\ k.current \notin Range(k.plunge) \cup k.backlog
    /\ NoRepeats(k.plunge)
HeldOnce(P, W) ==
    /\ P = UNION {Held(W[w]) : w \in Bfs}
    /\ \A v, w \in Bfs : v # w => Held(W[v]) \cap Held(W[w]) = {}
    /\ \A w \in Bfs : Tidy(W[w])
HeldInv == HeldOnce(Pending, worker)

(* Open nodes are told apart by who made them and when. *)
IdInv ==
    /\ \A m, n \in Pending : id[m] = id[n] => m = n
    /\ \A n \in Pending : \A w \in Bfs : id[n][1] = w => id[n][2] < worker[w].seq

(* The inductive invariant of who holds which node. *)
HoldInv ==
    /\ NodeTypes /\ SyncTypes /\ TreeShape /\ 1 \notin Pending
    /\ (\A w \in Bfs : BfsInv(worker[w], ctx[w])) /\ (\A d \in Divers : DiverInv(diver[d], ctx[d]))
    /\ CallbackInv /\ HeldInv /\ IdInv /\ BarrierInv

-----------------------------------------------------------------------------
(* The threads of the two pools. *)
LEMMA ThreadFacts ==
  /\ NumBfs \in Nat \ {0} /\ NumDiving \in Nat /\ 0 \in Bfs
  /\ Threads = Bfs \cup Divers /\ Bfs \cap Divers = {} /\ Threads \subseteq Nat
  BY HorizonAssumption DEF Bfs, Divers, Threads

(* Sets that no step changes. *)
LEMMA SetsStay ==
  /\ Nodes' = Nodes /\ NoNode' = NoNode /\ Bounds' = Bounds /\ Bfs' = Bfs /\ Divers' = Divers
  /\ Threads' = Threads /\ WorkerType' = WorkerType /\ ContextType' = ContextType
  BY DEF Nodes, NoNode, Bounds, Bfs, Divers, Threads, WorkerType, ContextType, Solutions

(* The invariant of the queues after a step. *)
LEMMA HeldPrime == HeldInv' <=> HeldOnce(Pending', worker')
<1>1. Bfs' = Bfs
  BY SetsStay
<1>2. \A w \in Bfs : Held(worker[w])' = Held(worker'[w]) /\ (Tidy(worker[w])' <=> Tidy(worker'[w]))
  BY DEF Held, Tidy, NoRepeats, Range, NoNode
<1> QED BY <1>1, <1>2 DEF HeldInv, HeldOnce

(* The step of one worker changes only what it holds. *)
LEMMA HeldByOne ==
  ASSUME NEW P, NEW W, DOMAIN W = Bfs, HeldOnce(P, W), NEW w \in Bfs, NEW k, Tidy(k),
         Held(k) \cap (P \ Held(W[w])) = {}
  PROVE  HeldOnce((P \ Held(W[w])) \cup Held(k), [W EXCEPT ![w] = k])
<1> DEFINE V == [W EXCEPT ![w] = k]
           Q == (P \ Held(W[w])) \cup Held(k)
<1>1. V[w] = k /\ \A v \in Bfs \ {w} : V[v] = W[v]
  OBVIOUS
<1> HIDE DEF V
<1>2. \A v \in Bfs \ {w} : Held(W[v]) \cap Held(W[w]) = {} /\ Held(W[v]) \subseteq P
  BY DEF HeldOnce
<1>3. ASSUME NEW v \in Bfs, NEW u \in Bfs, v # u PROVE Held(V[v]) \cap Held(V[u]) = {}
  <2>1. CASE v = w
    <3>1. V[v] = k /\ V[u] = W[u] /\ u \in Bfs \ {w}
      BY <1>1, <1>3, <2>1
    <3> QED BY <1>2, <3>1
  <2>2. CASE u = w
    <3>1. V[u] = k /\ V[v] = W[v] /\ v \in Bfs \ {w}
      BY <1>1, <1>3, <2>2
    <3> QED BY <1>2, <3>1
  <2>3. CASE u # w /\ v # w
    BY <1>1, <1>3, <2>3 DEF HeldOnce
  <2> QED BY <2>1, <2>2, <2>3
<1>4. \A v \in Bfs : Tidy(V[v])
  BY <1>1 DEF HeldOnce
<1>5. Q = UNION {Held(V[v]) : v \in Bfs}
  <2>1. ASSUME NEW x \in Q PROVE \E v \in Bfs : x \in Held(V[v])
    <3>1. CASE x \in Held(k)
      BY <1>1, <3>1
    <3>2. CASE x \in P \ Held(W[w])
      <4>1. PICK v \in Bfs : x \in Held(W[v])
        BY <3>2 DEF HeldOnce
      <4>2. v # w
        BY <3>2, <4>1
      <4> QED BY <1>1, <4>1, <4>2
    <3> QED BY <3>1, <3>2
  <2>2. ASSUME NEW v \in Bfs, NEW x \in Held(V[v]) PROVE x \in Q
    <3>1. CASE v = w
      BY <1>1, <3>1, <2>2
    <3>2. CASE v # w
      BY <1>1, <1>2, <3>2, <2>2
    <3> QED BY <3>1, <3>2
  <2> QED BY <2>1, <2>2
<1> QED BY <1>3, <1>4, <1>5 DEF HeldOnce, V

(* A worker that lets go of its node. *)
LEMMA LetGo ==
  ASSUME NEW k \in WorkerType, Tidy(k), NoNode \notin Nodes, NEW j, j.plunge = k.plunge,
         j.backlog = k.backlog, j.current = NoNode
  PROVE  Tidy(j) /\ Held(j) = Held(k) \ {k.current}
<1>1. Range(k.plunge) \subseteq Nodes /\ k.backlog \subseteq Nodes
  BY RangeFacts DEF WorkerType
<1> QED BY <1>1 DEF Tidy, Held

(* dequeue_node keeps what the worker holds. *)
LEMMA DequeueFacts ==
  ASSUME NEW k \in WorkerType, Tidy(k), NoNode \notin Nodes, HasWork(k), k.current = NoNode,
         k.backlog # {} => BacklogTop(k.backlog) \in k.backlog
  PROVE  /\ Dequeue(k) \in WorkerType /\ Tidy(Dequeue(k)) /\ Held(Dequeue(k)) = Held(k)
         /\ Dequeue(k).current \in Held(k) /\ Dequeue(k).current \in Nodes
         /\ Dequeue(k).last = k.last /\ Dequeue(k).box = k.box /\ Dequeue(k).cutoff = k.cutoff
         /\ Dequeue(k).ceiling = k.ceiling /\ Dequeue(k).seq = k.seq
<1>1. Range(k.plunge) \subseteq Nodes /\ k.backlog \subseteq Nodes /\ k.plunge \in Seq(Nodes)
  BY RangeFacts DEF WorkerType
<1>2. CASE k.plunge # <<>>
  <2> DEFINE s == k.plunge
             j == [k EXCEPT !.current = Head(k.plunge), !.plunge = Tail(@)]
  <2>1. Dequeue(k) = j
    BY <1>2 DEF Dequeue
  <2>2. /\ Tail(s) \in Seq(Nodes) /\ NoRepeats(Tail(s)) /\ Head(s) \in Range(s)
        /\ Range(Tail(s)) = Range(s) \ {Head(s)}
    BY <1>1, <1>2, TailNoRepeats DEF Tidy
  <2>3. /\ j \in WorkerType /\ j.plunge = Tail(s) /\ j.backlog = k.backlog /\ j.current = Head(s)
        /\ j.last = k.last /\ j.box = k.box /\ j.cutoff = k.cutoff
        /\ j.ceiling = k.ceiling /\ j.seq = k.seq
    BY <1>1, <2>2 DEF WorkerType
  <2> HIDE DEF j
  <2>4. Tidy(j) /\ Held(j) = Held(k) /\ j.current \in Held(k) /\ j.current \in Nodes
    BY <1>1, <2>2, <2>3 DEF Tidy, Held
  <2> QED BY <2>1, <2>3, <2>4
<1>3. CASE k.plunge = <<>>
  <2> DEFINE b == k.backlog
             top == BacklogTop(k.backlog)
             j == [k EXCEPT !.current = BacklogTop(k.backlog), !.backlog = @ \ {BacklogTop(@)}]
  <2>1. Dequeue(k) = j
    BY <1>3 DEF Dequeue
  <2>2. top \in b
    BY <1>3 DEF HasWork
  <2> HIDE DEF top
  <2>3. /\ j \in WorkerType /\ j.plunge = k.plunge /\ j.backlog = b \ {top} /\ j.current = top
        /\ j.last = k.last /\ j.box = k.box /\ j.cutoff = k.cutoff
        /\ j.ceiling = k.ceiling /\ j.seq = k.seq
    BY <1>1, <2>2 DEF WorkerType, top
  <2> HIDE DEF j
  <2>4. Tidy(j) /\ Held(j) = Held(k) /\ j.current \in Held(k) /\ j.current \in Nodes
    BY <1>1, <2>2, <2>3 DEF Tidy, Held
  <2> QED BY <2>1, <2>3, <2>4
<1> QED BY <1>2, <1>3

(* enqueue_children_for_plunge puts the children in the place of the node. *)
AfterBranch(k, n, a) == [EnqueueChildren(k, n) EXCEPT !.last = a, !.current = NoNode]

(* What the worker is after its node branched: j, from k and the node n. *)
Enqueued(j, k, n) ==
    /\ Tidy(j) /\ Held(j) = (Held(k) \ {n}) \cup {2 * n, 2 * n + 1} /\ j.current = NoNode
    /\ j.seq = k.seq + 2 /\ j.box = k.box /\ j.cutoff = k.cutoff /\ j.ceiling = k.ceiling

(* Enqueueing the children puts them, and nothing else, in the place of the *)
(* node.                                                                    *)
LEMMA EnqueueFacts ==
  ASSUME NEW k \in WorkerType, Tidy(k), Nodes \subseteq Nat \ {0}, NEW n \in Nodes, k.current = n,
         2 * n \in Nodes, 2 * n + 1 \in Nodes, 2 * n \notin Held(k), 2 * n + 1 \notin Held(k),
         NEW a \in Nodes
  PROVE  /\ AfterBranch(k, n, a) \in WorkerType /\ AfterBranch(k, n, a).last = a
         /\ Enqueued(AfterBranch(k, n, a), k, n)
<1>1. /\ Range(k.plunge) \subseteq Nodes /\ k.backlog \subseteq Nodes /\ k.plunge \in Seq(Nodes)
      /\ k.seq \in Nat /\ NoNode \notin Nodes /\ NoRepeats(k.plunge)
  BY RangeFacts DEF WorkerType, NoNode, Tidy
<1> DEFINE kept == IF k.plunge = <<>> THEN <<>> ELSE Front(k.plunge)
           moved == IF k.plunge = <<>> THEN {} ELSE {Last(k.plunge)}
           first == IF tree[n].up THEN 2 * n + 1 ELSE 2 * n
           second == Sibling(first)
           p == <<first, second>> \o kept
           j == AfterBranch(k, n, a)
<1>2. {first, second} = {2 * n, 2 * n + 1} /\ first # second /\ first \in Nodes /\ second \in Nodes
  <2>1. n \in Nat
    OBVIOUS
  <2>2. Sibling(2 * n) = 2 * n + 1 /\ Sibling(2 * n + 1) = 2 * n
    BY <2>1 DEF Sibling
  <2> QED BY <2>1, <2>2
<1>3. /\ kept \in Seq(Nodes) /\ NoRepeats(kept) /\ Range(kept) = Range(k.plunge) \ moved
      /\ moved \subseteq Range(k.plunge)
  <2>1. CASE k.plunge = <<>>
    <3>1. <<>> \in Seq(Nodes) /\ Len(<<>>) = 0
      BY EmptySeq
    <3>2. NoRepeats(<<>>)
      BY <3>1 DEF NoRepeats
    <3> QED BY <2>1, <3>1, <3>2
  <2>2. CASE k.plunge # <<>>
    BY <1>1, <2>2, FrontNoRepeats
  <2> QED BY <2>1, <2>2
<1>4. j = [k EXCEPT !.plunge = p, !.backlog = k.backlog \cup moved, !.seq = k.seq + 2,
                    !.last = a, !.current = NoNode]
  BY DEF EnqueueChildren, AfterBranch
<1> HIDE DEF kept, moved, first, second, j
<1>5. /\ <<first, second>> \in Seq(Nodes) /\ NoRepeats(<<first, second>>)
      /\ Range(<<first, second>>) = {first, second}
  <2>1. <<first, second>> \in Seq(Nodes) /\ Len(<<first, second>>) = 2
    BY <1>2
  <2>2. 1..2 = {1, 2} /\ DOMAIN <<first, second>> = 1..2
    OBVIOUS
  <2>3. NoRepeats(<<first, second>>)
    BY <1>2, <2>1, <2>2 DEF NoRepeats
  <2>4. Range(<<first, second>>) = {first, second}
    BY <2>2 DEF Range
  <2> QED BY <2>1, <2>3, <2>4
<1>6. Range(k.plunge) \subseteq Held(k) /\ k.backlog \subseteq Held(k)
  BY DEF Held
<1>7. p \in Seq(Nodes) /\ NoRepeats(p) /\ Range(p) = {first, second} \cup Range(kept)
  <2>1. Range(<<first, second>>) \cap Range(kept) = {}
    BY <1>2, <1>3, <1>5, <1>6
  <2>2. PICK u : u = <<first, second>>
    OBVIOUS
  <2>3. u \in Seq(Nodes) /\ NoRepeats(u) /\ Range(u) = {first, second} /\ Range(u) \cap Range(kept) = {}
    BY <1>5, <2>1, <2>2, Zenon
  <2>4. u \o kept \in Seq(Nodes) /\ NoRepeats(u \o kept) /\ Range(u \o kept) = {first, second} \cup Range(kept)
    BY <1>3, <2>3, ConcatNoRepeats
  <2> QED BY <2>2, <2>4, Zenon
<1> HIDE DEF p
<1>8. /\ j \in WorkerType /\ j.plunge = p /\ j.backlog = k.backlog \cup moved
      /\ j.current = NoNode /\ j.last = a /\ j.seq = k.seq + 2 /\ j.box = k.box
      /\ j.cutoff = k.cutoff /\ j.ceiling = k.ceiling
  <2>1. PICK b, q : b = k.backlog \cup moved /\ q = k.seq + 2
    OBVIOUS
  <2>2. b \in SUBSET Nodes /\ q \in Nat
    BY <1>1, <1>3, <2>1
  <2>3. j = [k EXCEPT !.plunge = p, !.backlog = b, !.seq = q, !.last = a, !.current = NoNode]
    BY <1>4, <2>1
  <2>4. /\ j \in WorkerType /\ j.plunge = p /\ j.backlog = b /\ j.current = NoNode /\ j.last = a
        /\ j.seq = q /\ j.box = k.box /\ j.cutoff = k.cutoff /\ j.ceiling = k.ceiling
    BY <1>7, <2>2, <2>3 DEF WorkerType
  <2> QED BY <2>1, <2>4
<1>9. PICK X, B, A : X = Range(k.plunge) /\ B = k.backlog /\ A = Held(k)
  OBVIOUS
<1>10. /\ X \cap B = {} /\ n \notin X \cup B /\ A = X \cup B \cup {n} /\ n # NoNode
       /\ X \subseteq Nodes /\ B \subseteq Nodes /\ first \notin A /\ second \notin A
       /\ moved \subseteq X /\ Range(p) = {first, second} \cup (X \ moved)
  <2>1. n # NoNode
    BY <1>1
  <2> QED BY <1>1, <1>2, <1>3, <1>7, <1>9, <2>1 DEF Tidy, Held
<1>11. Tidy(j)
  <2>1. Range(p) \cap (B \cup moved) = {} /\ NoNode \notin Range(p) \cup (B \cup moved)
    <3>1. first \notin B /\ second \notin B /\ first \notin moved /\ second \notin moved
      BY <1>10
    <3>2. Range(p) \cap (B \cup moved) = {}
      BY <1>10, <3>1
    <3>3. NoNode \notin Nodes /\ first \in Nodes /\ second \in Nodes
      BY <1>1, <1>2
    <3> QED BY <1>10, <3>2, <3>3
  <2> QED BY <1>7, <1>8, <1>9, <2>1 DEF Tidy
<1>12. Held(j) = (Held(k) \ {n}) \cup {2 * n, 2 * n + 1}
  <2>1. Held(j) = Range(p) \cup (B \cup moved)
    BY <1>8, <1>9 DEF Held
  <2>2. Held(j) = (A \ {n}) \cup {first, second}
    BY <1>10, <2>1
  <2> QED BY <1>2, <1>9, <2>2
<1> QED BY <1>8, <1>11, <1>12 DEF Enqueued, j

-----------------------------------------------------------------------------
(* The steps of a best-first worker keep HoldInv.                          *)

(* What the horizon mode assumes of the nodes. *)
LEMMA NodeFacts ==
  ASSUME tree \in Trees, NEW n \in DOMAIN tree
  PROVE  /\ tree[n].kind \in HorizonKinds /\ tree[n].pre \in Nat /\ tree[n].lp \in Nat
         /\ tree[n].dive \in Nat /\ Attained(tree, tree[n].dive)
  BY HorizonAssumption

(* The top of a backlog that is not empty is one of its nodes. *)
LEMMA TopOfBacklog ==
  ASSUME HoldInv, NEW w \in Bfs, worker[w].backlog # {}
  PROVE  BacklogTop(worker[w].backlog) \in worker[w].backlog
<1> DEFINE b == worker[w].backlog
           x == [n \in b |-> node[n].lb]
           key == [n \in b |-> <<node[n].lb>> \o id[n]]
<1>1. b \subseteq Pending
  BY DEF HoldInv, HeldInv, HeldOnce, Held
<1>2. IsFiniteSet(Pending)
  BY OpenAreFinite DEF HoldInv, NodeTypes
<1>3. IsFiniteSet(b)
  BY <1>1, <1>2, FS_Subset
<1>4. \A n \in b : node[n].lb \in Int /\ id[n] \in Int \X Int
  <2>1. \A n \in b : n \in Nodes
    BY <1>1 DEF Pending
  <2>2. \A n \in Nodes : node[n].lb \in Bounds /\ id[n] \in Int \X Int
    BY DEF HoldInv, NodeTypes, NodeType
  <2>3. Bounds \subseteq Int
    BY BoundFacts
  <2> HIDE DEF b
  <2> QED BY <2>1, <2>2, <2>3
<1>5. \A m, n \in b : id[m] = id[n] => m = n
  BY <1>1 DEF HoldInv, IdInv
<1>6. Ordered(b, key)
  <2>1. \A n \in b : x[n] \in Int /\ id[n] \in Int \X Int
    BY <1>4
  <2>2. \A n \in b : key[n] = <<x[n]>> \o id[n]
    OBVIOUS
  <2> HIDE DEF x, key, b
  <2>3. Keyed(b, key, x, id)
    BY <1>5, <2>1, <2>2 DEF Keyed
  <2> QED BY <2>3, TriplesOrdered
<1>7. PICK n \in b : \A m \in b \ {n} : Less(key[n], key[m])
  <2> HIDE DEF key, b
  <2>1. b # {}
    BY DEF b
  <2> QED BY <1>3, <1>6, <2>1, OrderedHasFirst
<1>8. \A m \in b \ {n} : Less(<<node[n].lb>> \o id[n], <<node[m].lb>> \o id[m])
  BY <1>7
<1> QED BY <1>8 DEF BacklogTop

(* A step of worker w that leaves it with state k, and its thread with c. *)
LEMMA WorkerStep ==
  ASSUME HoldInv, NEW w \in Bfs, NEW k \in WorkerType, NEW c \in ContextType, BfsStep(w),
         worker' = [worker EXCEPT ![w] = k], ctx' = [ctx EXCEPT ![w] = c], ctx[w].pc # "sync",
         NodeType', TreeShape', 1 \notin Pending', addr' \in [Nodes -> Nodes],
         id' \in [Nodes -> Int \X Int], IdInv', Tidy(k),
         Pending' = (Pending \ Held(worker[w])) \cup Held(k),
         Held(k) \cap (Pending \ Held(worker[w])) = {},
         Shutdown => c.pc # "sync", BfsInv(k, c)
  PROVE  HoldInv'
<1>0. /\ worker \in [Bfs -> WorkerType] /\ ctx \in [Threads -> ContextType] /\ w \in Threads
      /\ tree \in Trees
  BY ThreadFacts DEF HoldInv, NodeTypes, SyncTypes
<1>1. UNCHANGED <<tree, diver, generation, phase, incumbent, lb_numerical, status, inbox, manager,
                  late>>
  BY DEF BfsStep, Fathom, BeginNode, PresolveCloses, OutOfTime, SolveLp, LpStopped, LpCloses,
     LpFails, LpIsInteger, LpBranches, Idle, Leave, treeVars, syncVars, envVars
<1>2. UNCHANGED <<Shutdown, Target>>
  BY <1>1 DEF Shutdown, Target
<1>3. /\ worker'[w] = k /\ \A v \in Bfs \ {w} : worker'[v] = worker[v]
      /\ ctx'[w] = c /\ \A t \in Threads \ {w} : ctx'[t] = ctx[t]
  BY <1>0
<1>4. worker' \in [Bfs -> WorkerType] /\ ctx' \in [Threads -> ContextType]
  BY <1>0
<1>5. NodeTypes'
  <2>1. diver' \in [Divers' -> DiverType']
    BY <1>1, SetsStay DEF HoldInv, NodeTypes, DiverType
  <2> QED BY <1>0, <1>1, <1>4, <2>1, SetsStay DEF NodeTypes
<1>6. SyncTypes'
  BY <1>1, <1>4, SetsStay DEF HoldInv, SyncTypes
<1>7. ASSUME NEW v \in Bfs PROVE BfsInv(worker[v], ctx[v])'
  <2>1. ASSUME NEW j, NEW d PROVE BfsInv(j, d)' <=> BfsInv(j, d)
    BY <1>1, <1>2 DEF BfsInv, Solving, Point, NoNode
  <2>2. BfsInv(worker[v], ctx[v])' <=> BfsInv(worker'[v], ctx'[v])
    BY <1>1, <1>2 DEF BfsInv, Solving, Point, NoNode
  <2>3. CASE v = w
    BY <1>3, <2>2, <2>3
  <2>4. CASE v # w
    BY <1>3, <2>2, <2>4, ThreadFacts DEF HoldInv
  <2> QED BY <2>3, <2>4
<1>8. ASSUME NEW d \in Divers PROVE DiverInv(diver[d], ctx[d])'
  <2>1. ctx'[d] = ctx[d]
    BY <1>3, ThreadFacts
  <2> QED BY <1>1, <2>1 DEF HoldInv, DiverInv, Point, NoNode
<1>9. CallbackInv'
  <2>1. phase = "run"
    BY <1>0 DEF HoldInv, CallbackInv
  <2>2. Shutdown => \A t \in Threads : ctx'[t].pc # "sync"
    BY <1>0, <1>3 DEF HoldInv, CallbackInv
  <2> QED BY <1>1, <1>2, <2>1, <2>2, SetsStay DEF CallbackInv
<1>10. HeldInv'
  <2>1. HeldOnce(Pending', worker')
    <3>1. DOMAIN worker = Bfs /\ HeldOnce(Pending, worker)
      BY <1>0 DEF HoldInv, HeldInv
    <3> QED BY <3>1, HeldByOne
  <2> QED BY <2>1, HeldPrime
<1>11. BarrierInv'
  <2>1. WorkIsCounted'
    BY <1>4, SetsStay DEF WorkIsCounted, ContextType
  <2> QED BY <1>0, <2>1, SearchBarrier DEF HoldInv
<1> QED BY <1>5, <1>6, <1>7, <1>8, <1>9, <1>10, <1>11, SetsStay DEF HoldInv

(* A step that changes no node. *)
LEMMA KeepStep ==
  ASSUME HoldInv, NEW w \in Bfs, NEW k \in WorkerType, NEW c \in ContextType, BfsStep(w),
         worker' = [worker EXCEPT ![w] = k], ctx' = [ctx EXCEPT ![w] = c], ctx[w].pc # "sync",
         UNCHANGED <<tree, node, addr, id>>, Held(k) = Held(worker[w]), Tidy(k),
         k.seq = worker[w].seq, Shutdown => c.pc # "sync", BfsInv(k, c)
  PROVE  HoldInv'
<1>1. worker \in [Bfs -> WorkerType]
  BY DEF HoldInv, NodeTypes
<1>2. Pending' = Pending
  BY SetsStay DEF Pending
<1>3. Held(worker[w]) \subseteq Pending
  BY DEF HoldInv, HeldInv, HeldOnce
<1>4. NodeType' /\ TreeShape' /\ addr' \in [Nodes -> Nodes] /\ id' \in [Nodes -> Int \X Int]
  BY SetsStay DEF HoldInv, NodeTypes, NodeType, TreeShape, Known, OpenKids, Open
<1>5. \A v \in Bfs : worker'[v].seq = worker[v].seq
  BY <1>1
<1>6. IdInv'
  BY <1>2, <1>5, SetsStay DEF HoldInv, IdInv
<1>7. 1 \notin Pending'
  BY <1>2 DEF HoldInv
<1>8. Pending' = (Pending \ Held(worker[w])) \cup Held(k) /\ Held(k) \cap (Pending \ Held(worker[w])) = {}
  BY <1>2, <1>3
<1> QED BY <1>4, <1>6, <1>7, <1>8, WorkerStep

(* A step that closes node n. *)
LEMMA CloseStep ==
  ASSUME HoldInv, NEW w \in Bfs, NEW k \in WorkerType, NEW c \in ContextType, BfsStep(w),
         worker' = [worker EXCEPT ![w] = k], ctx' = [ctx EXCEPT ![w] = c], ctx[w].pc # "sync",
         UNCHANGED <<tree, addr, id>>, NEW n \in Held(worker[w]), NEW b \in Bounds,
         node' = Closed(n, b), Held(k) = Held(worker[w]) \ {n}, Tidy(k), k.seq = worker[w].seq,
         c.pc # "sync", BfsInv(k, c)
  PROVE  HoldInv'
<1>1. worker \in [Bfs -> WorkerType] /\ tree \in Trees /\ tree' = tree /\ NodeType /\ TreeShape
  BY DEF HoldInv, NodeTypes
<1>2. Held(worker[w]) \subseteq Pending
  BY DEF HoldInv, HeldInv, HeldOnce
<1>3. n \in Nodes /\ node[n].status = "pending"
  BY <1>2 DEF Pending
<1>4. NodeType' /\ TreeShape' /\ Pending' = Pending \ {n}
  BY <1>1, <1>3, ClosedKeepsShape
<1>5. addr' \in [Nodes -> Nodes] /\ id' \in [Nodes -> Int \X Int]
  BY DEF HoldInv, NodeTypes
<1>6. \A v \in Bfs : worker'[v].seq = worker[v].seq
  BY <1>1
<1>7. IdInv'
  BY <1>4, <1>6, SetsStay DEF HoldInv, IdInv
<1>8. 1 \notin Pending'
  BY <1>4 DEF HoldInv
<1>9. Pending' = (Pending \ Held(worker[w])) \cup Held(k) /\ Held(k) \cap (Pending \ Held(worker[w])) = {}
  BY <1>2, <1>4
<1> QED BY <1>4, <1>5, <1>7, <1>8, <1>9, WorkerStep

(* A worker that is solving a node has it in hand. *)
LEMMA HandFacts ==
  ASSUME HoldInv, NEW w \in Bfs, ctx[w].pc \in {"presolved", "solved"}, NEW n, n = worker[w].current
  PROVE  /\ worker[w] \in WorkerType /\ ctx[w] \in ContextType /\ ctx[w].pc # "sync"
         /\ Tidy(worker[w]) /\ n # NoNode /\ n \in Held(worker[w]) /\ n \in Pending
         /\ n \in Nodes /\ node[n].status = "pending" /\ n \in DOMAIN tree
         /\ node[n].lb \in Bounds /\ tree[n].obj \in Bounds /\ addr[n] \in Nodes
         /\ NoNode \notin Nodes /\ tree \in Trees /\ DOMAIN worker = Bfs /\ DOMAIN ctx = Threads
<1>1. /\ worker[w] \in WorkerType /\ ctx[w] \in ContextType /\ tree \in Trees
      /\ DOMAIN worker = Bfs /\ DOMAIN ctx = Threads /\ Tidy(worker[w]) /\ ctx[w].pc # "sync"
  BY ThreadFacts DEF HoldInv, NodeTypes, SyncTypes, HeldInv, HeldOnce
<1>2. n # NoNode
  BY <1>1 DEF HoldInv, BfsInv, Solving, Point
<1>3. n \in Held(worker[w])
  BY <1>2 DEF Held
<1>4. n \in Pending
  BY <1>3 DEF HoldInv, HeldInv, HeldOnce
<1>5. n \in Nodes /\ node[n].status = "pending"
  BY <1>4 DEF Pending
<1>6. n \in DOMAIN tree
  BY <1>5 DEF HoldInv, TreeShape
<1>7. node[n].lb \in Bounds /\ addr[n] \in Nodes
  BY <1>5 DEF HoldInv, NodeTypes, NodeType
<1>8. NoNode \notin Nodes /\ tree[n].obj \in Nat /\ tree[n].obj < Infinity /\ Infinity \in Nat
  BY <1>1, <1>6, TreeFacts DEF NoNode
<1>9. tree[n].obj \in Bounds
  BY <1>8 DEF Bounds
<1> QED BY <1>1, <1>2, <1>3, <1>4, <1>5, <1>6, <1>7, <1>8, <1>9

(* A worker that takes its next node. *)
LEMMA TakeFacts ==
  ASSUME HoldInv, NEW w \in Bfs, At(w, "loop"), ~Shutdown, HasWork(worker[w]),
         NEW k, k = Dequeue(worker[w]), NEW n, n = k.current
  PROVE  /\ worker[w].current = NoNode /\ ctx[w].pc = "loop" /\ ctx[w] \in ContextType
         /\ k \in WorkerType /\ Tidy(k) /\ Held(k) = Held(worker[w])
         /\ n # NoNode /\ n \in Held(worker[w]) /\ n \in Pending
         /\ n \in Nodes /\ node[n].status = "pending" /\ n \in DOMAIN tree
         /\ node[n].lb \in Bounds /\ NoNode \notin Nodes /\ tree \in Trees
         /\ DOMAIN worker = Bfs /\ DOMAIN ctx = Threads /\ worker[w] \in WorkerType
         /\ k.last = worker[w].last /\ k.box = worker[w].box /\ k.cutoff = worker[w].cutoff
         /\ k.ceiling = worker[w].ceiling /\ k.seq = worker[w].seq
<1>1. /\ worker[w] \in WorkerType /\ ctx[w] \in ContextType /\ tree \in Trees
      /\ DOMAIN worker = Bfs /\ DOMAIN ctx = Threads /\ Tidy(worker[w]) /\ ctx[w].pc = "loop"
  BY ThreadFacts DEF HoldInv, NodeTypes, SyncTypes, HeldInv, HeldOnce, At
<1>2. worker[w].current = NoNode
  BY <1>1 DEF HoldInv, BfsInv, Solving, Point
<1>3. NoNode \notin Nodes
  BY <1>1, TreeFacts DEF NoNode
<1>4. worker[w].backlog # {} => BacklogTop(worker[w].backlog) \in worker[w].backlog
  BY TopOfBacklog
<1>5. PICK j : j = worker[w]
  OBVIOUS
<1>6. /\ j \in WorkerType /\ Tidy(j) /\ HasWork(j) /\ j.current = NoNode
      /\ j.backlog # {} => BacklogTop(j.backlog) \in j.backlog
  BY <1>1, <1>2, <1>4, <1>5
<1>7. /\ Dequeue(j) \in WorkerType /\ Tidy(Dequeue(j)) /\ Held(Dequeue(j)) = Held(j)
      /\ Dequeue(j).current \in Held(j) /\ Dequeue(j).current \in Nodes
      /\ Dequeue(j).last = j.last /\ Dequeue(j).box = j.box /\ Dequeue(j).cutoff = j.cutoff
      /\ Dequeue(j).ceiling = j.ceiling /\ Dequeue(j).seq = j.seq
  BY <1>3, <1>6, DequeueFacts
<1>8. /\ k \in WorkerType /\ Tidy(k) /\ Held(k) = Held(worker[w]) /\ n \in Held(worker[w]) /\ n \in Nodes
      /\ k.last = worker[w].last /\ k.box = worker[w].box /\ k.cutoff = worker[w].cutoff
      /\ k.ceiling = worker[w].ceiling /\ k.seq = worker[w].seq
  BY <1>5, <1>7, Zenon
<1>9. n \in Pending /\ n # NoNode
  BY <1>3, <1>8 DEF HoldInv, HeldInv, HeldOnce
<1>10. node[n].status = "pending"
  BY <1>9 DEF Pending
<1>11. n \in DOMAIN tree
  BY <1>8, <1>10 DEF HoldInv, TreeShape
<1>12. node[n].lb \in Bounds
  BY <1>8 DEF HoldInv, NodeTypes, NodeType
<1> QED BY <1>1, <1>2, <1>3, <1>8, <1>9, <1>10, <1>11, <1>12

(* What recording work and waiting do to a thread. *)
LEMMA RecordedFacts ==
  ASSUME NEW c \in ContextType, NEW amount \in Nat, NEW p \in {"loop", "presolved", "solved", "dived"}
  PROVE  /\ Recorded(c, amount, p) \in ContextType /\ Point(Recorded(c, amount, p)) = p
         /\ Recorded(c, amount, p).upper = c.upper /\ Recorded(c, amount, p).found = c.found
         /\ Shutdown => Recorded(c, amount, p).pc # "sync"
<1>1. c.work + amount \in Nat
  BY DEF ContextType
<1>2. PICK a : a = c.work + amount
  OBVIOUS
<1>3. PICK q : q = IF c.work + amount >= Target /\ ~Shutdown THEN "sync" ELSE p
  OBVIOUS
<1>4. Recorded(c, amount, p) = [c EXCEPT !.work = a, !.ret = p, !.pc = q]
  BY <1>2, <1>3 DEF Recorded
<1>5. a \in Nat /\ q \in {"sync", p} /\ (Shutdown => q # "sync") /\ p # "sync"
  BY <1>1, <1>2, <1>3
<1> QED BY <1>4, <1>5 DEF ContextType, Point

(* A thread that waits for the next barrier takes its solutions with it. *)
LEMMA NextSyncFacts ==
  ASSUME NEW c \in ContextType, generation \in Nat
  PROVE  /\ NextSync(c) \in ContextType /\ Point(NextSync(c)) = "loop"
         /\ NextSync(c).upper = c.upper /\ NextSync(c).found = c.found
         /\ IF Shutdown THEN NextSync(c).pc = "loop" ELSE NextSync(c).pc = "sync"
<1>1. Target \in Nat
  BY HorizonEnd
<1> QED BY <1>1 DEF NextSync, ContextType, Point

(* A solution is recorded if it is better than the worker's own upper       *)
(* bound.                                                                   *)
LEMMA WithSolutionFacts ==
  ASSUME NEW c \in ContextType, NEW t \in Threads, NEW v \in Nat, NEW n \in Nodes, NEW d,
         d = WithSolution(c, t, v, n)
  PROVE  /\ d \in ContextType /\ d.pc = c.pc /\ d.ret = c.ret /\ d.work = c.work
         /\ v < c.upper => d.upper = v /\ d.found = c.found \cup {<<v, t, n>>}
         /\ ~(v < c.upper) => d.upper = c.upper /\ d.found = c.found
<1>1. CASE v < c.upper
  <2>1. v \in Bounds
    BY <1>1, BoundFacts DEF ContextType, Bounds
  <2>2. <<v, t, n>> \in Solutions
    BY <2>1 DEF Solutions
  <2>3. PICK f : f = c.found \cup {<<v, t, n>>}
    OBVIOUS
  <2>4. d = [c EXCEPT !.upper = v, !.found = f]
    BY <1>1, <2>3 DEF WithSolution
  <2>5. f \in SUBSET Solutions
    BY <2>2, <2>3 DEF ContextType
  <2> QED BY <1>1, <2>1, <2>3, <2>4, <2>5 DEF ContextType
<1>2. CASE ~(v < c.upper)
  BY <1>2 DEF WithSolution
<1> QED BY <1>1, <1>2

(* The actions, one by one. *)
LEMMA FathomHold ==
  ASSUME HoldInv, NEW w \in Bfs, Fathom(w) PROVE HoldInv'
<1>1. At(w, "loop") /\ ~Shutdown /\ HasWork(worker[w]) /\ BfsStep(w)
  BY DEF Fathom, BfsStep
<1>2. PICK k, n : k = Dequeue(worker[w]) /\ n = k.current
  OBVIOUS
<1> DEFINE j == [k EXCEPT !.current = NoNode]
<1>3. /\ node' = Closed(n, node[n].lb) /\ worker' = [worker EXCEPT ![w] = j]
      /\ UNCHANGED <<tree, addr, id, ctx>>
  BY <1>2 DEF Fathom
<1>4. /\ k \in WorkerType /\ Tidy(k) /\ Held(k) = Held(worker[w]) /\ n \in Held(worker[w])
      /\ ctx[w].pc = "loop" /\ ctx[w] \in ContextType /\ node[n].lb \in Bounds /\ NoNode \notin Nodes
      /\ k.seq = worker[w].seq /\ DOMAIN ctx = Threads /\ w \in Threads
  BY <1>1, <1>2, TakeFacts, ThreadFacts
<1>5. /\ j \in WorkerType /\ j.plunge = k.plunge /\ j.backlog = k.backlog /\ j.current = NoNode
      /\ j.seq = k.seq
  BY <1>4 DEF WorkerType
<1> HIDE DEF j
<1>6. Tidy(j) /\ Held(j) = Held(worker[w]) \ {n}
  BY <1>2, <1>4, <1>5, LetGo
<1>7. ctx' = [ctx EXCEPT ![w] = ctx[w]]
  BY <1>3, <1>4 DEF HoldInv, SyncTypes
<1>8. BfsInv(j, ctx[w])
  BY <1>4, <1>5 DEF BfsInv, Solving, Point
<1> QED BY <1>1, <1>3, <1>4, <1>5, <1>6, <1>7, <1>8, CloseStep

(* Taking a node from the plunge stack or the backlog keeps HoldInv. *)
LEMMA BeginNodeHold ==
  ASSUME HoldInv, NEW w \in Bfs, BeginNode(w) PROVE HoldInv'
<1>1. At(w, "loop") /\ ~Shutdown /\ HasWork(worker[w]) /\ BfsStep(w)
  BY DEF BeginNode, BfsStep
<1>2. PICK k, n : k = Dequeue(worker[w]) /\ n = k.current
  OBVIOUS
<1>3. PICK box, c :
        /\ worker' = [worker EXCEPT ![w] = [k EXCEPT !.box = box, !.cutoff = ctx[w].upper]]
        /\ c = Recorded(ctx[w], tree[n].pre, "presolved") /\ ctx' = [ctx EXCEPT ![w] = c]
        /\ UNCHANGED <<tree, node, addr, id>> /\ box \in {n, NoNode}
  BY <1>2 DEF BeginNode, treeVars
<1>4. /\ k \in WorkerType /\ Tidy(k) /\ Held(k) = Held(worker[w]) /\ n \in Nodes /\ n # NoNode
      /\ ctx[w].pc = "loop" /\ ctx[w] \in ContextType /\ tree \in Trees /\ n \in DOMAIN tree
      /\ k.seq = worker[w].seq
  BY <1>1, <1>2, TakeFacts
<1>5. c \in ContextType /\ Point(c) = "presolved" /\ (Shutdown => c.pc # "sync")
  BY <1>3, <1>4, NodeFacts, RecordedFacts
<1> DEFINE j == [k EXCEPT !.box = box, !.cutoff = ctx[w].upper]
<1>6. /\ j \in WorkerType /\ j.plunge = k.plunge /\ j.backlog = k.backlog /\ j.current = n
      /\ j.seq = k.seq
  BY <1>2, <1>3, <1>4 DEF WorkerType, ContextType
<1> HIDE DEF j
<1>7. Tidy(j) /\ Held(j) = Held(worker[w])
  BY <1>2, <1>4, <1>6 DEF Tidy, Held
<1>8. BfsInv(j, c)
  BY <1>4, <1>5, <1>6 DEF BfsInv, Solving
<1>9. worker' = [worker EXCEPT ![w] = j]
  BY <1>3 DEF j
<1> QED BY <1>1, <1>3, <1>4, <1>5, <1>6, <1>7, <1>8, <1>9, KeepStep

(* A worker that goes on, or waits, with the node in hand. *)
LEMMA SolvingHold ==
  ASSUME HoldInv, NEW w \in Bfs, OutOfTime(w) \/ SolveLp(w) \/ LpStopped(w) PROVE HoldInv'
<1>1. /\ ctx[w].pc \in {"presolved", "solved"} /\ BfsStep(w)
      /\ UNCHANGED <<tree, node, addr, id, worker>>
  BY DEF OutOfTime, SolveLp, LpStopped, BfsStep, At, treeVars
<1>2. PICK n, k : n = worker[w].current /\ k = worker[w]
  OBVIOUS
<1>3. /\ k \in WorkerType /\ ctx[w] \in ContextType /\ ctx[w].pc # "sync" /\ Tidy(k) /\ n # NoNode
      /\ n \in DOMAIN tree /\ tree \in Trees /\ worker' = [worker EXCEPT ![w] = k]
      /\ generation \in Nat
  BY <1>1, <1>2, HandFacts DEF HoldInv, NodeTypes, BarrierInv
<1>4. PICK c : /\ ctx' = [ctx EXCEPT ![w] = c]
               /\ \/ SolveLp(w) /\ c = Recorded(ctx[w], tree[n].lp, "solved")
                  \/ (OutOfTime(w) \/ LpStopped(w)) /\ c = NextSync(ctx[w])
  BY <1>2 DEF OutOfTime, SolveLp, LpStopped, Lp, Node
<1>5. CASE SolveLp(w) /\ c = Recorded(ctx[w], tree[n].lp, "solved")
  <2>1. c \in ContextType /\ Point(c) = "solved" /\ (Shutdown => c.pc # "sync")
    BY <1>3, <1>5, NodeFacts, RecordedFacts
  <2>2. BfsInv(k, c)
    BY <1>2, <1>3, <2>1 DEF BfsInv, Solving
  <2> QED BY <1>1, <1>2, <1>3, <1>4, <2>1, <2>2, KeepStep
<1>6. CASE (OutOfTime(w) \/ LpStopped(w)) /\ c = NextSync(ctx[w])
  <2>1. /\ c \in ContextType /\ Point(c) = "loop"
        /\ IF Shutdown THEN c.pc = "loop" ELSE c.pc = "sync"
    BY <1>3, <1>6, NextSyncFacts
  <2>2. Shutdown \/ late \/ Target > WorkLimit[tree]
    <3>1. late \/ ctx[w].work >= WorkLimit[tree]
      BY <1>6 DEF OutOfTime, LpStopped, MayStop
    <3>2. ctx[w].work < Target \/ Shutdown
      BY <1>3, ThreadFacts DEF HoldInv, BarrierInv, NobodyOutrunsTheBarrier
    <3>3. ctx[w].work \in Nat /\ Target \in Nat /\ WorkLimit[tree] \in Nat
      BY <1>3, HorizonEnd, HorizonAssumption DEF ContextType
    <3> QED BY <3>1, <3>2, <3>3
  <2>3. BfsInv(k, c)
    BY <1>2, <1>3, <2>1, <2>2 DEF BfsInv, Solving
  <2> QED BY <1>1, <1>2, <1>3, <1>4, <2>1, <2>3, KeepStep
<1> QED BY <1>4, <1>5, <1>6

(* A worker that closes the node in hand. *)
LEMMA HandClosed ==
  ASSUME HoldInv, NEW w \in Bfs, ctx[w].pc \in {"presolved", "solved"}, BfsStep(w),
         NEW n, n = worker[w].current, NEW b \in Bounds, node' = Closed(n, b),
         NEW k \in WorkerType, k.plunge = worker[w].plunge, k.backlog = worker[w].backlog,
         k.current = NoNode, k.seq = worker[w].seq, worker' = [worker EXCEPT ![w] = k],
         NEW c \in ContextType, c.pc = "loop", ctx' = [ctx EXCEPT ![w] = c],
         UNCHANGED <<tree, addr, id>>
  PROVE  HoldInv'
<1>1. /\ worker[w] \in WorkerType /\ ctx[w].pc # "sync" /\ Tidy(worker[w]) /\ n \in Held(worker[w])
      /\ NoNode \notin Nodes
  BY HandFacts
<1>2. Tidy(k) /\ Held(k) = Held(worker[w]) \ {n}
  BY <1>1, LetGo
<1>3. BfsInv(k, c)
  BY DEF BfsInv, Solving, Point
<1> QED BY <1>1, <1>2, <1>3, CloseStep

(* What closing the node in hand does to the worker. *)
LEMMA CloseNodeFacts ==
  ASSUME HoldInv, NEW w \in Bfs, ctx[w].pc \in {"presolved", "solved"}, NEW b, CloseNode(w, b),
         NEW n, n = worker[w].current
  PROVE  \E k \in WorkerType :
           /\ node' = Closed(n, b) /\ worker' = [worker EXCEPT ![w] = k]
           /\ k.plunge = worker[w].plunge /\ k.backlog = worker[w].backlog /\ k.current = NoNode
           /\ k.seq = worker[w].seq /\ k.last = addr[n] /\ k.box = worker[w].box
           /\ k.cutoff = worker[w].cutoff /\ k.ceiling = worker[w].ceiling
<1>1. worker[w] \in WorkerType /\ addr[n] \in Nodes /\ worker \in [Bfs -> WorkerType]
  BY HandFacts DEF HoldInv, NodeTypes
<1>2. PICK a : a = addr[n]
  OBVIOUS
<1>3. node' = Closed(n, b) /\ worker' = [worker EXCEPT ![w].last = a, ![w].current = NoNode]
  BY <1>2 DEF CloseNode, Node
<1> DEFINE k == [worker[w] EXCEPT !.last = a, !.current = NoNode]
<1>4. /\ k \in WorkerType /\ k.plunge = worker[w].plunge /\ k.backlog = worker[w].backlog
      /\ k.current = NoNode /\ k.seq = worker[w].seq /\ k.last = a /\ k.box = worker[w].box
      /\ k.cutoff = worker[w].cutoff /\ k.ceiling = worker[w].ceiling
  BY <1>1, <1>2 DEF WorkerType
<1>5. worker' = [worker EXCEPT ![w] = k]
  BY <1>1, <1>3
<1> HIDE DEF k
<1> QED BY <1>2, <1>3, <1>4, <1>5

(* A node closed by presolve or by its LP keeps HoldInv. *)
LEMMA ClosingHold ==
  ASSUME HoldInv, NEW w \in Bfs, PresolveCloses(w) \/ LpCloses(w) PROVE HoldInv'
<1>1. /\ ctx[w].pc \in {"presolved", "solved"} /\ BfsStep(w)
      /\ UNCHANGED <<tree, addr, id>> /\ ctx' = [ctx EXCEPT ![w] = [ctx[w] EXCEPT !.pc = "loop"]]
  BY DEF PresolveCloses, LpCloses, BfsStep, At
<1>2. PICK n : n = worker[w].current
  OBVIOUS
<1>3. ctx[w] \in ContextType /\ tree[n].obj \in Bounds
  BY <1>1, <1>2, HandFacts
<1>4. PICK b \in Bounds : CloseNode(w, b)
  BY <1>2, <1>3, BoundFacts DEF PresolveCloses, LpCloses, Lp, Node, ContextType
<1>5. PICK c : c = [ctx[w] EXCEPT !.pc = "loop"]
  OBVIOUS
<1>6. c \in ContextType /\ c.pc = "loop"
  BY <1>3, <1>5 DEF ContextType
<1>7. PICK k \in WorkerType :
        /\ node' = Closed(n, b) /\ worker' = [worker EXCEPT ![w] = k]
        /\ k.plunge = worker[w].plunge /\ k.backlog = worker[w].backlog /\ k.current = NoNode
        /\ k.seq = worker[w].seq
  BY <1>1, <1>2, <1>4, CloseNodeFacts
<1> QED BY <1>1, <1>2, <1>5, <1>6, <1>7, HandClosed

(* A node whose LP fails numerically lowers the worker's ceiling. *)
LEMMA LpFailsFacts ==
  ASSUME HoldInv, NEW w \in Bfs, LpFails(w), NEW n, n = worker[w].current
  PROVE  \E k \in WorkerType :
           /\ node' = Closed(n, node[n].lb) /\ worker' = [worker EXCEPT ![w] = k]
           /\ k.plunge = worker[w].plunge /\ k.backlog = worker[w].backlog /\ k.current = NoNode
           /\ k.seq = worker[w].seq /\ k.last = addr[n] /\ k.box = worker[w].box
           /\ k.cutoff = worker[w].cutoff
           /\ k.ceiling \in Bounds /\ k.ceiling <= node[n].lb /\ k.ceiling <= worker[w].ceiling
<1>0. ctx[w].pc \in {"presolved", "solved"}
  BY DEF LpFails, At
<1>1. /\ worker[w] \in WorkerType /\ addr[n] \in Nodes /\ worker \in [Bfs -> WorkerType]
      /\ node[n].lb \in Bounds
  BY <1>0, HandFacts DEF HoldInv, NodeTypes
<1>2. PICK a, m : a = addr[n] /\ m = Min({node[n].lb, worker[w].ceiling})
  OBVIOUS
<1>3. m \in Bounds /\ m <= node[n].lb /\ m <= worker[w].ceiling
  <2>1. {node[n].lb, worker[w].ceiling} \in SUBSET Bounds /\ {node[n].lb, worker[w].ceiling} # {}
    BY <1>1 DEF WorkerType
  <2> QED BY <1>2, <2>1, MinBounds
<1>4. /\ node' = Closed(n, node[n].lb)
      /\ worker' = [worker EXCEPT ![w].last = a, ![w].current = NoNode, ![w].ceiling = m]
  BY <1>1, <1>2 DEF LpFails, Node
<1> DEFINE k == [worker[w] EXCEPT !.last = a, !.current = NoNode, !.ceiling = m]
<1>5. /\ k \in WorkerType /\ k.plunge = worker[w].plunge /\ k.backlog = worker[w].backlog
      /\ k.current = NoNode /\ k.seq = worker[w].seq /\ k.last = a /\ k.box = worker[w].box
      /\ k.cutoff = worker[w].cutoff /\ k.ceiling = m
  BY <1>1, <1>2, <1>3 DEF WorkerType
<1>6. worker' = [worker EXCEPT ![w] = k]
  BY <1>1, <1>4
<1> HIDE DEF k
<1> QED BY <1>2, <1>3, <1>4, <1>5, <1>6

(* It keeps HoldInv. *)
LEMMA LpFailsHold ==
  ASSUME HoldInv, NEW w \in Bfs, LpFails(w) PROVE HoldInv'
<1>1. /\ ctx[w].pc \in {"presolved", "solved"} /\ BfsStep(w)
      /\ UNCHANGED <<tree, addr, id>> /\ ctx' = [ctx EXCEPT ![w] = [ctx[w] EXCEPT !.pc = "loop"]]
  BY DEF LpFails, BfsStep, At
<1>2. PICK n : n = worker[w].current
  OBVIOUS
<1>3. ctx[w] \in ContextType /\ node[n].lb \in Bounds
  BY <1>1, <1>2, HandFacts
<1>4. PICK c : c = [ctx[w] EXCEPT !.pc = "loop"]
  OBVIOUS
<1>5. c \in ContextType /\ c.pc = "loop"
  BY <1>3, <1>4 DEF ContextType
<1>6. PICK k \in WorkerType :
        /\ node' = Closed(n, node[n].lb) /\ worker' = [worker EXCEPT ![w] = k]
        /\ k.plunge = worker[w].plunge /\ k.backlog = worker[w].backlog /\ k.current = NoNode
        /\ k.seq = worker[w].seq
  BY <1>2, LpFailsFacts
<1> QED BY <1>1, <1>2, <1>3, <1>4, <1>5, <1>6, HandClosed

(* So does a node whose LP solution is integral. *)
LEMMA LpIsIntegerHold ==
  ASSUME HoldInv, NEW w \in Bfs, LpIsInteger(w) PROVE HoldInv'
<1>1. ctx[w].pc \in {"presolved", "solved"} /\ BfsStep(w) /\ UNCHANGED <<tree, addr, id>>
  BY DEF LpIsInteger, BfsStep, At
<1>2. PICK n, v : n = worker[w].current /\ v = tree[n].obj
  OBVIOUS
<1>3. ctx[w] \in ContextType /\ v \in Bounds /\ v \in Nat /\ n \in Nodes /\ w \in Threads
  BY <1>1, <1>2, HandFacts, ThreadFacts, BoundFacts
<1>4. CloseNode(w, v)
  BY <1>2 DEF LpIsInteger, Lp, Node
<1>5. PICK d : d = WithSolution(ctx[w], w, v, n)
  OBVIOUS
<1>6. d \in ContextType
  BY <1>3, <1>5, WithSolutionFacts
<1>7. PICK c : c = [d EXCEPT !.pc = "loop"]
  OBVIOUS
<1>8. c \in ContextType /\ c.pc = "loop" /\ ctx' = [ctx EXCEPT ![w] = c]
  <2>1. c \in ContextType /\ c.pc = "loop"
    BY <1>6, <1>7 DEF ContextType
  <2>2. ctx' = [ctx EXCEPT ![w] = [WithSolution(ctx[w], w, v, n) EXCEPT !.pc = "loop"]]
    BY <1>2 DEF LpIsInteger, Lp, Node
  <2> QED BY <1>5, <1>7, <2>1, <2>2
<1>9. PICK k \in WorkerType :
        /\ node' = Closed(n, v) /\ worker' = [worker EXCEPT ![w] = k]
        /\ k.plunge = worker[w].plunge /\ k.backlog = worker[w].backlog /\ k.current = NoNode
        /\ k.seq = worker[w].seq
  BY <1>1, <1>2, <1>4, CloseNodeFacts
<1> QED BY <1>1, <1>2, <1>3, <1>8, <1>9, HandClosed

(* What branching does to the tree. *)
LEMMA LpBranchesFacts ==
  ASSUME HoldInv, NEW w \in Bfs, LpBranches(w), NEW n, n = worker[w].current
  PROVE  /\ tree[n].kind = "frac" /\ node' = Branched(n, tree[n].obj) /\ tree' = tree
         /\ addr' \in [Nodes -> Nodes] /\ (Reuse = FALSE /\ addr = [m \in Nodes |-> m] => addr' = addr)
         /\ id' = [id EXCEPT ![2 * n] = <<w, worker[w].seq>>, ![2 * n + 1] = <<w, worker[w].seq + 1>>]
<1>1. ctx[w].pc \in {"presolved", "solved"}
  BY DEF LpBranches, At
<1>2. /\ worker[w] \in WorkerType /\ Tidy(worker[w]) /\ n \in Nodes /\ node[n].status = "pending"
      /\ addr[n] \in Nodes /\ tree \in Trees /\ NodeType /\ TreeShape
      /\ addr \in [Nodes -> Nodes] /\ Held(worker[w]) \subseteq Pending
  BY <1>1, HandFacts DEF HoldInv, NodeTypes, HeldInv, HeldOnce
<1>3. tree[n].kind = "frac" /\ node' = Branched(n, tree[n].obj) /\ tree' = tree
  BY DEF LpBranches, Lp, Node
<1>4. /\ 2 * n \in Nodes /\ 2 * n + 1 \in Nodes /\ 2 * n \notin Pending /\ 2 * n + 1 \notin Pending
  BY <1>2, <1>3, BranchedKeepsShape
<1>5. PICK a \in Fresh(2 * n), b \in Fresh(2 * n + 1) :
        addr' = [addr EXCEPT ![2 * n] = a, ![2 * n + 1] = b]
  BY DEF LpBranches, Node
<1>6. a \in Nodes /\ b \in Nodes /\ (Reuse = FALSE => a = 2 * n /\ b = 2 * n + 1)
  <2>0. AddressesOf({"freed"}) \subseteq Nodes
    BY <1>2 DEF AddressesOf
  <2>1. ASSUME NEW m \in Nodes PROVE Fresh(m) \subseteq Nodes /\ (Reuse = FALSE => Fresh(m) = {m})
    BY <2>0 DEF Fresh
  <2>2. Fresh(2 * n) \subseteq Nodes /\ (Reuse = FALSE => Fresh(2 * n) = {2 * n})
    BY <1>4, <2>1
  <2>3. Fresh(2 * n + 1) \subseteq Nodes /\ (Reuse = FALSE => Fresh(2 * n + 1) = {2 * n + 1})
    BY <1>4, <2>1
  <2> QED BY <1>5, <2>2, <2>3
<1>7. addr' \in [Nodes -> Nodes]
  BY <1>2, <1>5, <1>6
<1>8. ASSUME Reuse = FALSE, addr = [m \in Nodes |-> m] PROVE addr' = addr
  BY <1>4, <1>5, <1>6, <1>8
<1>9. id' = [id EXCEPT ![2 * n] = <<w, worker[w].seq>>, ![2 * n + 1] = <<w, worker[w].seq + 1>>]
  BY DEF LpBranches, Node
<1> QED BY <1>3, <1>7, <1>8, <1>9

(* What branching does to the worker. *)
LEMMA EnqueuedFacts ==
  ASSUME HoldInv, NEW w \in Bfs, LpBranches(w), NEW n, n = worker[w].current
  PROVE  \E k \in WorkerType : /\ worker' = [worker EXCEPT ![w] = k]
                              /\ k.last = addr[n] /\ Enqueued(k, worker[w], n)
<1>1. ctx[w].pc \in {"presolved", "solved"}
  BY DEF LpBranches, At
<1>2. /\ worker[w] \in WorkerType /\ Tidy(worker[w]) /\ n \in Nodes /\ node[n].status = "pending"
      /\ addr[n] \in Nodes /\ tree \in Trees /\ NodeType /\ TreeShape
      /\ addr \in [Nodes -> Nodes] /\ Held(worker[w]) \subseteq Pending
  BY <1>1, HandFacts DEF HoldInv, NodeTypes, HeldInv, HeldOnce
<1>3. tree[n].kind = "frac" /\ node' = Branched(n, tree[n].obj) /\ tree' = tree
  BY DEF LpBranches, Lp, Node
<1>4. /\ 2 * n \in Nodes /\ 2 * n + 1 \in Nodes /\ 2 * n \notin Pending /\ 2 * n + 1 \notin Pending
  BY <1>2, <1>3, BranchedKeepsShape
<1>9. worker' = [worker EXCEPT ![w] = AfterBranch(worker[w], n, addr[n])]
  BY DEF LpBranches, Node, AfterBranch
<1>10. PICK k, e, x : k = worker[w] /\ x = addr[n]
                      /\ e = AfterBranch(k, n, x)
  OBVIOUS
<1>11. e \in WorkerType /\ e.last = x /\ Enqueued(e, k, n)
  <2>1. Nodes \subseteq Nat \ {0}
    BY <1>2, TreeFacts
  <2>2. /\ k \in WorkerType /\ Tidy(k) /\ n \in Nodes /\ k.current = n /\ 2 * n \in Nodes
        /\ 2 * n + 1 \in Nodes /\ 2 * n \notin Held(k) /\ 2 * n + 1 \notin Held(k) /\ x \in Nodes
    BY <1>2, <1>4, <1>10
  <2> QED BY <1>10, <2>1, <2>2, EnqueueFacts
<1>12. worker' = [worker EXCEPT ![w] = e]
  BY <1>9, <1>10
<1> QED BY <1>10, <1>11, <1>12

(* Branching keeps HoldInv: the new nodes have new identifiers and one      *)
(* holder.                                                                  *)
LEMMA LpBranchesHold ==
  ASSUME HoldInv, NEW w \in Bfs, LpBranches(w) PROVE HoldInv'
<1>1. /\ ctx[w].pc \in {"presolved", "solved"} /\ BfsStep(w)
      /\ ctx' = [ctx EXCEPT ![w] = [ctx[w] EXCEPT !.pc = "loop"]]
  BY DEF LpBranches, BfsStep, At
<1>2. PICK n, s : n = worker[w].current /\ s = worker[w].seq
  OBVIOUS
<1>3. /\ worker[w] \in WorkerType /\ Tidy(worker[w]) /\ n \in Nodes /\ node[n].status = "pending"
      /\ tree \in Trees /\ NodeType /\ TreeShape /\ Held(worker[w]) \subseteq Pending
      /\ n \in Held(worker[w]) /\ ctx[w].pc # "sync" /\ worker \in [Bfs -> WorkerType]
      /\ id \in [Nodes -> Int \X Int] /\ s \in Nat
  BY <1>1, <1>2, HandFacts DEF HoldInv, NodeTypes, HeldInv, HeldOnce, WorkerType
<1>4. /\ tree[n].kind = "frac" /\ node' = Branched(n, tree[n].obj) /\ tree' = tree
      /\ addr' \in [Nodes -> Nodes]
      /\ id' = [id EXCEPT ![2 * n] = <<w, s>>, ![2 * n + 1] = <<w, s + 1>>]
  <2>1. /\ tree[n].kind = "frac" /\ node' = Branched(n, tree[n].obj) /\ tree' = tree
        /\ addr' \in [Nodes -> Nodes]
    BY <1>2, LpBranchesFacts
  <2>2. id' = [id EXCEPT ![2 * n] = <<w, worker[w].seq>>, ![2 * n + 1] = <<w, worker[w].seq + 1>>]
    BY <1>2, LpBranchesFacts
  <2> QED BY <1>2, <2>1, <2>2
<1>5. PICK k \in WorkerType : worker' = [worker EXCEPT ![w] = k] /\ Enqueued(k, worker[w], n)
  BY <1>2, EnqueuedFacts, Zenon
<1>50. /\ Held(k) = (Held(worker[w]) \ {n}) \cup {2 * n, 2 * n + 1} /\ Tidy(k)
       /\ k.current = NoNode /\ k.seq = s + 2
  BY <1>2, <1>5 DEF Enqueued
<1>6. /\ NodeType' /\ TreeShape' /\ 2 * n \in Nodes /\ 2 * n + 1 \in Nodes
      /\ 2 * n \notin Pending /\ 2 * n + 1 \notin Pending
      /\ Pending' = (Pending \ {n}) \cup {2 * n, 2 * n + 1}
  BY <1>3, <1>4, BranchedKeepsShape
<1>7. n \in Nat \ {0} /\ w \in Int
  BY <1>3, TreeFacts, ThreadFacts
<1>8. 1 \notin Pending'
  BY <1>6, <1>7 DEF HoldInv
<1>9. id' \in [Nodes -> Int \X Int]
  <2>1. <<w, s>> \in Int \X Int /\ <<w, s + 1>> \in Int \X Int
    BY <1>3, <1>7
  <2>2. PICK x, y : x = <<w, s>> /\ y = <<w, s + 1>>
    OBVIOUS
  <2>3. x \in Int \X Int /\ y \in Int \X Int /\ id' = [id EXCEPT ![2 * n] = x, ![2 * n + 1] = y]
    BY <1>4, <2>1, <2>2
  <2> QED BY <1>3, <2>3
<1>10. /\ id'[2 * n] = <<w, s>> /\ id'[2 * n + 1] = <<w, s + 1>>
       /\ \A m \in Pending \ {n} : id'[m] = id[m] /\ m \in Nodes
  <2>1. \A m \in Pending : m # 2 * n /\ m # 2 * n + 1 /\ m \in Nodes
    BY <1>6 DEF Pending
  <2>2. DOMAIN id = Nodes /\ 2 * n # 2 * n + 1
    BY <1>3, <1>7
  <2> QED BY <1>4, <1>6, <2>1, <2>2
<1>11. worker'[w].seq = s + 2 /\ \A v \in Bfs \ {w} : worker'[v].seq = worker[v].seq
  BY <1>3, <1>5, <1>50
<1>12. ASSUME NEW m \in Pending \ {n}, id[m][1] = w PROVE id[m][2] < s /\ id[m][2] \in Int
  <2>1. id[m] \in Int \X Int
    BY <1>3, <1>10
  <2>2. id[m][2] < s
    BY <1>2, <1>12 DEF HoldInv, IdInv
  <2> QED BY <2>1, <2>2
<1>13. ASSUME NEW m \in Pending', NEW x \in Pending', id'[m] = id'[x] PROVE m = x
  <2>1. CASE m \in Pending \ {n} /\ x \in Pending \ {n}
    BY <1>10, <1>13, <2>1 DEF HoldInv, IdInv
  <2>2. ASSUME NEW y \in Pending \ {n}, NEW z \in {2 * n, 2 * n + 1} PROVE id'[y] # id'[z]
    <3>1. id'[z][1] = w /\ id'[z][2] \in {s, s + 1}
      BY <1>10
    <3>2. id'[y] = id[y]
      BY <1>10
    <3>3. id[y][1] = w => id[y][2] < s /\ id[y][2] \in Int
      BY <1>12
    <3> QED BY <1>3, <3>1, <3>2, <3>3
  <2>3. id'[2 * n] # id'[2 * n + 1]
    <3>1. s # s + 1
      BY <1>3
    <3> QED BY <1>10, <3>1
  <2> QED BY <1>6, <1>13, <2>1, <2>2, <2>3
<1>14. ASSUME NEW m \in Pending', NEW v \in Bfs, id'[m][1] = v PROVE id'[m][2] < worker'[v].seq
  <2>1. CASE m \in {2 * n, 2 * n + 1}
    <3>1. id'[m][1] = w /\ id'[m][2] \in {s, s + 1}
      BY <1>10, <2>1
    <3> QED BY <1>3, <1>11, <1>14, <3>1
  <2>2. CASE m \in Pending \ {n} /\ v = w
    BY <1>3, <1>10, <1>11, <1>12, <1>14, <2>2
  <2>3. CASE m \in Pending \ {n} /\ v # w
    BY <1>10, <1>11, <1>14, <2>3 DEF HoldInv, IdInv
  <2> QED BY <1>6, <2>1, <2>2, <2>3
<1>15. IdInv'
  BY <1>13, <1>14, SetsStay DEF IdInv
<1>16. PICK c : c = [ctx[w] EXCEPT !.pc = "loop"]
  OBVIOUS
<1>17. c \in ContextType /\ c.pc = "loop" /\ ctx' = [ctx EXCEPT ![w] = c]
  BY <1>1, <1>2, <1>16, HandFacts DEF ContextType
<1>18. BfsInv(k, c)
  BY <1>50, <1>17 DEF BfsInv, Solving, Point
<1>19. Pending' = (Pending \ Held(worker[w])) \cup Held(k) /\ Held(k) \cap (Pending \ Held(worker[w])) = {}
  BY <1>3, <1>50, <1>6
<1> QED BY <1>1, <1>3, <1>4, <1>5, <1>50, <1>6, <1>8, <1>9, <1>15, <1>17, <1>18, <1>19, WorkerStep

(* A worker that idles or leaves keeps HoldInv. *)
LEMMA WaitingHold ==
  ASSUME HoldInv, NEW w \in Bfs, Idle(w) \/ Leave(w) PROVE HoldInv'
<1>1. ctx[w].pc = "loop" /\ BfsStep(w) /\ UNCHANGED <<tree, node, addr, id, worker>>
  BY DEF Idle, Leave, BfsStep, At, treeVars
<1>2. PICK k : k = worker[w]
  OBVIOUS
<1>3. /\ k \in WorkerType /\ ctx[w] \in ContextType /\ Tidy(k) /\ generation \in Nat
      /\ worker' = [worker EXCEPT ![w] = k]
  BY <1>1, <1>2, ThreadFacts DEF HoldInv, NodeTypes, SyncTypes, HeldInv, HeldOnce, BarrierInv
<1>4. CASE Idle(w)
  <2>1. PICK c : c = NextSync(ctx[w])
    OBVIOUS
  <2>2. ctx' = [ctx EXCEPT ![w] = c] /\ k.current = NoNode /\ ~Shutdown
    BY <1>2, <1>4, <2>1 DEF Idle, HasWork
  <2>3. c \in ContextType /\ Point(c) = "loop"
    BY <1>3, <2>1, NextSyncFacts
  <2>4. BfsInv(k, c)
    BY <2>2, <2>3 DEF BfsInv, Solving
  <2> QED BY <1>1, <1>2, <1>3, <2>2, <2>3, <2>4, KeepStep
<1>5. CASE Leave(w)
  <2>1. PICK c : c = [ctx[w] EXCEPT !.pc = "done"]
    OBVIOUS
  <2>2. ctx' = [ctx EXCEPT ![w] = c] /\ Shutdown
    BY <1>5, <2>1 DEF Leave
  <2>3. c \in ContextType /\ c.pc = "done"
    BY <1>3, <2>1 DEF ContextType
  <2>4. BfsInv(k, c)
    BY <2>2, <2>3 DEF BfsInv, Solving, Point
  <2> QED BY <1>1, <1>2, <1>3, <2>2, <2>3, <2>4, KeepStep
<1> QED BY <1>4, <1>5

(* Every step of a best-first worker keeps HoldInv. *)
LEMMA BfsHold ==
  ASSUME HoldInv, NEW w \in Bfs, BfsStep(w) PROVE HoldInv'
  BY FathomHold, BeginNodeHold, SolvingHold, ClosingHold, LpFailsHold, LpIsIntegerHold,
     LpBranchesHold, WaitingHold DEF BfsStep

-----------------------------------------------------------------------------
(* The steps of a diving worker keep HoldInv.                              *)

(* A diving worker changes its own state and its thread's only. *)
LEMMA DiverStep ==
  ASSUME HoldInv, NEW d \in Divers, NEW j \in DiverType, NEW c \in ContextType, DivingStep(d),
         diver' = [diver EXCEPT ![d] = j], ctx' = [ctx EXCEPT ![d] = c], ctx[d].pc # "sync",
         Shutdown => c.pc # "sync", DiverInv(j, c)
  PROVE  HoldInv'
<1>0. /\ diver \in [Divers -> DiverType] /\ ctx \in [Threads -> ContextType] /\ d \in Threads
      /\ tree \in Trees
  BY ThreadFacts DEF HoldInv, NodeTypes, SyncTypes
<1>1. UNCHANGED <<tree, node, addr, id, worker, generation, phase, incumbent, lb_numerical, status,
                  inbox, manager, late>>
  BY DEF DivingStep, SkipDive, Dive, DiveEnds, Idle, Leave, treeVars, syncVars, envVars
<1>2. UNCHANGED <<Shutdown, Target>>
  BY <1>1 DEF Shutdown, Target
<1>3. /\ diver'[d] = j /\ \A e \in Divers \ {d} : diver'[e] = diver[e]
      /\ ctx'[d] = c /\ \A t \in Threads \ {d} : ctx'[t] = ctx[t]
  BY <1>0
<1>4. diver' \in [Divers -> DiverType] /\ ctx' \in [Threads -> ContextType]
  BY <1>0
<1>5. NodeTypes'
  <2>1. DiverType' = DiverType
    BY <1>1, SetsStay DEF DiverType
  <2> QED BY <1>1, <1>4, <2>1, SetsStay DEF HoldInv, NodeTypes, NodeType
<1>6. SyncTypes'
  BY <1>1, <1>4, SetsStay DEF HoldInv, SyncTypes
<1>7. ASSUME NEW v \in Bfs PROVE BfsInv(worker[v], ctx[v])'
  <2>1. ctx'[v] = ctx[v]
    BY <1>3, ThreadFacts
  <2> QED BY <1>1, <1>2, <2>1 DEF HoldInv, BfsInv, Solving, Point, NoNode
<1>8. ASSUME NEW e \in Divers PROVE DiverInv(diver[e], ctx[e])'
  <2>1. DiverInv(diver[e], ctx[e])' <=> DiverInv(diver'[e], ctx'[e])
    BY DEF DiverInv, Point, NoNode
  <2> QED BY <1>3, <2>1, ThreadFacts DEF HoldInv
<1>9. CallbackInv'
  <2>1. phase = "run"
    BY <1>0 DEF HoldInv, CallbackInv
  <2>2. Shutdown => \A t \in Threads : ctx'[t].pc # "sync"
    BY <1>0, <1>3 DEF HoldInv, CallbackInv
  <2> QED BY <1>1, <1>2, <2>1, <2>2, SetsStay DEF CallbackInv
<1>10. Pending' = Pending
  BY <1>1, SetsStay DEF Pending
<1>11. HeldInv'
  <2>1. HeldOnce(Pending', worker')
    BY <1>1, <1>10 DEF HoldInv, HeldInv
  <2> QED BY <2>1, HeldPrime
<1>12. IdInv'
  BY <1>1, <1>10, SetsStay DEF HoldInv, IdInv
<1>13. BarrierInv'
  <2>1. WorkIsCounted'
    BY <1>4, SetsStay DEF WorkIsCounted, ContextType
  <2> QED BY <1>0, <2>1, SearchBarrier DEF HoldInv
<1>14. TreeShape' /\ 1 \notin Pending'
  BY <1>1, <1>10, SetsStay DEF HoldInv, TreeShape, Known, OpenKids, Open
<1> QED BY <1>5, <1>6, <1>7, <1>8, <1>9, <1>11, <1>12, <1>13, <1>14, SetsStay DEF HoldInv

(* Every step of a diving worker keeps HoldInv. *)
LEMMA DivingHold ==
  ASSUME HoldInv, NEW d \in Divers, DivingStep(d) PROVE HoldInv'
<1>1. /\ diver \in [Divers -> DiverType] /\ ctx \in [Threads -> ContextType] /\ d \in Threads
      /\ tree \in Trees /\ diver[d] \in DiverType /\ ctx[d] \in ContextType /\ generation \in Nat
      /\ NoNode \notin DOMAIN tree /\ DOMAIN tree \subseteq Nodes
  BY ThreadFacts, TreeFacts DEF HoldInv, NodeTypes, SyncTypes, BarrierInv, NoNode
<1>2. PICK q, h : q = diver[d].queue /\ h = diver[d].hand
  OBVIOUS
<1>4. q \in Seq((DOMAIN tree) \X Bounds) /\ h \in (DOMAIN tree) \cup {NoNode}
  BY <1>1, <1>2 DEF DiverType
<1>5. CASE SkipDive(d)
  <2>1. ctx[d].pc = "loop" /\ q # <<>> /\ UNCHANGED ctx /\ ~Shutdown
        /\ diver' = [diver EXCEPT ![d] = [diver[d] EXCEPT !.queue = Tail(q)]]
    BY <1>2, <1>5 DEF SkipDive, At
  <2>2. PICK j : j = [diver[d] EXCEPT !.queue = Tail(q)]
    OBVIOUS
  <2>3. Tail(q) \in Seq((DOMAIN tree) \X Bounds)
    BY <1>4, <2>1, HeadTailProperties
  <2>4. j \in DiverType
    BY <1>1, <2>2, <2>3 DEF DiverType
  <2>5. ctx' = [ctx EXCEPT ![d] = ctx[d]] /\ DiverInv(j, ctx[d])
    BY <1>1, <2>1 DEF DiverInv, Point
  <2> QED BY <1>1, <2>1, <2>2, <2>4, <2>5, DiverStep
<1>6. CASE Dive(d)
  <2>1. /\ ctx[d].pc = "loop" /\ q # <<>> /\ ~Shutdown
        /\ diver' = [diver EXCEPT ![d] = [queue |-> Tail(q), hand |-> Head(q)[1]]]
        /\ ctx' = [ctx EXCEPT ![d] =
             Recorded(ctx[d], tree[Head(q)[1]].pre + tree[Head(q)[1]].lp, "dived")]
    BY <1>2, <1>6 DEF Dive, At
  <2>2. Tail(q) \in Seq((DOMAIN tree) \X Bounds) /\ Head(q) \in (DOMAIN tree) \X Bounds
    BY <1>4, <2>1, HeadTailProperties
  <2>3. PICK n, j, t : n = Head(q)[1] /\ t = Tail(q) /\ j = [queue |-> t, hand |-> n]
    OBVIOUS
  <2>4. n \in DOMAIN tree /\ t \in Seq((DOMAIN tree) \X Bounds)
    BY <2>2, <2>3
  <2>5. j \in DiverType /\ j.hand = n /\ n # NoNode
    BY <1>1, <2>3, <2>4 DEF DiverType
  <2>6. PICK a, c : a = tree[n].pre + tree[n].lp /\ c = Recorded(ctx[d], a, "dived")
    OBVIOUS
  <2>7. a \in Nat
    <3>1. tree[n].pre \in Nat /\ tree[n].lp \in Nat
      BY <1>1, <2>4, NodeFacts
    <3> QED BY <2>6, <3>1
  <2>8. c \in ContextType /\ Point(c) = "dived"
    BY <1>1, <2>6, <2>7, RecordedFacts
  <2>9. diver' = [diver EXCEPT ![d] = j] /\ ctx' = [ctx EXCEPT ![d] = c]
    BY <2>1, <2>3, <2>6
  <2>10. DiverInv(j, c)
    BY <2>5 DEF DiverInv
  <2> QED BY <2>1, <2>5, <2>8, <2>9, <2>10, DiverStep
<1>7. CASE DiveEnds(d)
  <2>1. ctx[d].pc = "dived" /\ diver' = [diver EXCEPT ![d] = [diver[d] EXCEPT !.hand = NoNode]]
    BY <1>7 DEF DiveEnds, At
  <2>2. h \in DOMAIN tree /\ h \in Nodes /\ tree[h].dive \in Nat
    <3>1. h # NoNode
      BY <1>2, <2>1 DEF HoldInv, DiverInv, Point
    <3> QED BY <1>1, <1>4, <3>1, NodeFacts
  <2>3. PICK v : v = tree[h].dive
    OBVIOUS
  <2>4. PICK e : /\ e \in {WithSolution(ctx[d], d, v, h), ctx[d]}
                 /\ ctx' = [ctx EXCEPT ![d] = [e EXCEPT !.pc = "loop"]]
    BY <1>2, <1>7, <2>3 DEF DiveEnds
  <2>5. e \in ContextType
    BY <1>1, <2>2, <2>3, <2>4, WithSolutionFacts
  <2>6. PICK j, c : j = [diver[d] EXCEPT !.hand = NoNode] /\ c = [e EXCEPT !.pc = "loop"]
    OBVIOUS
  <2>7. j \in DiverType /\ c \in ContextType /\ c.pc = "loop"
    BY <1>1, <2>5, <2>6 DEF DiverType, ContextType
  <2>8. DiverInv(j, c)
    BY <2>7 DEF DiverInv, Point
  <2> QED BY <2>1, <2>4, <2>6, <2>7, <2>8, DiverStep
<1>8. CASE Idle(d)
  <2>1. PICK c : c = NextSync(ctx[d])
    OBVIOUS
  <2>2. ctx' = [ctx EXCEPT ![d] = c] /\ diver' = diver /\ ~Shutdown /\ ctx[d].pc = "loop"
    BY <1>8, <2>1 DEF Idle, At
  <2>3. c \in ContextType /\ Point(c) = "loop"
    BY <1>1, <2>1, NextSyncFacts
  <2>4. DiverInv(diver[d], c) /\ diver' = [diver EXCEPT ![d] = diver[d]]
    BY <1>1, <2>2, <2>3 DEF DiverInv
  <2> QED BY <1>1, <2>2, <2>3, <2>4, DiverStep
<1>9. CASE Leave(d)
  <2>1. PICK c : c = [ctx[d] EXCEPT !.pc = "done"]
    OBVIOUS
  <2>2. ctx' = [ctx EXCEPT ![d] = c] /\ diver' = diver /\ ctx[d].pc = "loop"
    BY <1>9, <2>1 DEF Leave, At
  <2>3. c \in ContextType /\ c.pc = "done"
    BY <1>1, <2>1 DEF ContextType
  <2>4. DiverInv(diver[d], c) /\ diver' = [diver EXCEPT ![d] = diver[d]]
    BY <1>1, <2>2, <2>3 DEF DiverInv, Point
  <2> QED BY <1>1, <2>2, <2>3, <2>4, DiverStep
<1> QED BY <1>5, <1>6, <1>7, <1>8, <1>9 DEF DivingStep

-----------------------------------------------------------------------------
(* Steps outside the search keep HoldInv.                                  *)

(* A step that leaves the search alone keeps HoldInv. *)
LEMMA QuietHold ==
  ASSUME HoldInv, late => late', inbox' \subseteq Nat \X Nat,
         UNCHANGED <<tree, node, addr, id, worker, diver, ctx, generation, incumbent, lb_numerical,
                     status>>,
         phase' \in {"run", "check", "going", "sleep", "merge"},
         manager' \in {"start", "registered", "complete", "stopped", "halted"},
         phase' # "run" => \A t \in Threads : ctx[t].pc = "sync", Shutdown => phase' = "run"
  PROVE  HoldInv'
<1>1. UNCHANGED <<Shutdown, Target>>
  BY DEF Shutdown, Target
<1>2. Pending' = Pending
  BY SetsStay DEF Pending
<1>3. NodeTypes'
  <2>1. DiverType' = DiverType
    BY SetsStay DEF DiverType
  <2> QED BY <2>1, SetsStay DEF HoldInv, NodeTypes, NodeType
<1>4. SyncTypes'
  BY SetsStay DEF HoldInv, SyncTypes
<1>5. ASSUME NEW w \in Bfs PROVE BfsInv(worker[w], ctx[w])'
  BY <1>1 DEF HoldInv, BfsInv, Solving, Point, NoNode
<1>6. ASSUME NEW d \in Divers PROVE DiverInv(diver[d], ctx[d])'
  BY DEF HoldInv, DiverInv, Point, NoNode
<1>7. CallbackInv'
  BY <1>1, SetsStay DEF HoldInv, CallbackInv
<1>8. HeldInv'
  <2>1. HeldOnce(Pending', worker')
    BY <1>2 DEF HoldInv, HeldInv
  <2> QED BY <2>1, HeldPrime
<1>9. IdInv'
  BY <1>2, SetsStay DEF HoldInv, IdInv
<1>10. BarrierInv'
  BY <1>1, SetsStay DEF HoldInv, BarrierInv, Contexts, Fields, NobodyOutrunsTheBarrier
<1>11. TreeShape' /\ 1 \notin Pending'
  BY <1>2, SetsStay DEF HoldInv, TreeShape, Known, OpenKids, Open
<1> QED BY <1>3, <1>4, <1>5, <1>6, <1>7, <1>8, <1>9, <1>10, <1>11, SetsStay DEF HoldInv

(* The solutions the producer sends. *)
LEMMA ProducerSends ==
  ASSUME HoldInv, ProducerInv, QueueSolution
  PROVE  \E i \in 1..Len(Heuristics[tree]) :
           /\ i \in DOMAIN Heuristics[tree] /\ Heuristics[tree][i][2] \in Nat /\ producer.work \in Nat
           /\ inbox' = inbox \cup {<<producer.work, Heuristics[tree][i][2]>>}
<1>1. Heuristics[tree] \in Seq(Nat \X Nat) /\ LastWork \in Nat
  BY HorizonAssumption DEF HoldInv, NodeTypes
<1>2. PICK h, i : h = Heuristics[tree] /\ i = producer.next
  OBVIOUS
<1>3. i \in Nat \ {0} /\ i <= Len(h) /\ producer.work \in Nat
  BY <1>1, <1>2 DEF QueueSolution, Finds, ProducerInv, Stamps
<1>4. h \in Seq(Nat \X Nat) /\ Len(h) \in Nat /\ DOMAIN h = 1..Len(h)
  BY <1>1, <1>2, LenProperties
<1>5. i \in 1..Len(h)
  BY <1>3, <1>4
<1>6. h[i] \in Nat \X Nat
  BY <1>4, <1>5, ElementOfSeq
<1>7. inbox' = inbox \cup {<<producer.work, h[i][2]>>}
  BY <1>2 DEF QueueSolution
<1> QED BY <1>2, <1>3, <1>4, <1>5, <1>6, <1>7

(* So does every step outside the search but the merge itself. *)
LEMMA OthersHold ==
  ASSUME HoldInv, ProducerInv,
         (CallbackStep /\ ~SyncCallback) \/ ProducerStep \/ ManagerStep \/ TimeOver \/ UNCHANGED vars
  PROVE  HoldInv'
<1>1. /\ UNCHANGED <<tree, node, addr, id, worker, diver, ctx, generation, incumbent, lb_numerical,
                     status>>
      /\ late => late'
  BY DEF CallbackStep, Barrier, CheckProducers, FallAsleep, Finish, ProducerStep, QueueSolution,
     Advance, NotifyProgress, ManagerStep, RegisterProducer, RegistrationComplete,
     DeregisterProducer, HaltProducer, TimeOver, vars, syncOthers, producerOthers, managerOthers,
     treeVars, syncVars, envVars, endVars
<1>2. inbox' \subseteq Nat \X Nat
  <2>1. inbox \subseteq Nat \X Nat
    BY DEF HoldInv, SyncTypes
  <2>2. CASE QueueSolution
    BY <2>1, <2>2, ProducerSends
  <2>3. CASE ~QueueSolution
    <3>1. UNCHANGED inbox
      BY <2>3 DEF CallbackStep, Barrier, CheckProducers, FallAsleep, Finish, ProducerStep,
         Advance, NotifyProgress, ManagerStep, RegisterProducer, RegistrationComplete,
         DeregisterProducer, HaltProducer, TimeOver, vars, syncOthers, managerOthers, envVars
    <3> QED BY <2>1, <3>1
  <2> QED BY <2>2, <2>3
<1>3. manager' \in {"start", "registered", "complete", "stopped", "halted"}
  <2>1. manager \in {"start", "registered", "complete", "stopped", "halted"}
    BY DEF HoldInv, SyncTypes
  <2> QED BY <2>1 DEF CallbackStep, Barrier, CheckProducers, FallAsleep, Finish, ProducerStep,
         QueueSolution, Advance, NotifyProgress, ManagerStep, RegisterProducer,
         RegistrationComplete, DeregisterProducer, HaltProducer, TimeOver, vars, syncOthers,
         producerOthers, envVars
<1>4. /\ phase \in {"run", "check", "going", "sleep", "merge"}
      /\ phase # "run" => \A t \in Threads : ctx[t].pc = "sync"
      /\ Shutdown => phase = "run" /\ \A t \in Threads : ctx[t].pc # "sync"
      /\ 0 \in Threads
  BY ThreadFacts DEF HoldInv, SyncTypes, CallbackInv
<1>5. CASE Barrier
  <2>1. phase' = "check" /\ \A t \in Threads : ctx[t].pc = "sync"
    BY <1>5 DEF Barrier, At
  <2> QED BY <1>1, <1>2, <1>3, <1>4, <2>1, QuietHold
<1>6. CASE CheckProducers \/ FallAsleep
  <2>1. phase # "run" /\ phase' \in {"merge", "going", "sleep"}
    BY <1>6 DEF CheckProducers, FallAsleep
  <2> QED BY <1>1, <1>2, <1>3, <1>4, <2>1, QuietHold
<1>7. CASE ~Barrier /\ ~CheckProducers /\ ~FallAsleep
  <2>1. phase' \in {phase, Woken}
    BY <1>7 DEF CallbackStep, Finish, ProducerStep, QueueSolution, Advance, NotifyProgress,
       ManagerStep, RegisterProducer, RegistrationComplete, DeregisterProducer, HaltProducer,
       TimeOver, vars, syncVars
  <2>2. phase' = phase \/ (phase = "sleep" /\ phase' = "check")
    BY <2>1 DEF Woken
  <2> QED BY <1>1, <1>2, <1>3, <1>4, <2>2, QuietHold
<1> QED BY <1>5, <1>6, <1>7

-----------------------------------------------------------------------------
(* The sync callback, piece by piece.  First the incumbent.                *)

(* An incumbent: its objective and what breaks ties. *)
Incumbents == Bounds \X Int \X Nat

(* The upper bound of an incumbent: its objective or the bound at the       *)
(* start, whichever is less.                                                *)
LEMMA UpperFacts ==
  ASSUME tree \in Trees, NEW inc \in Incumbents
  PROVE  /\ UpperOf(inc) \in Bounds /\ UpperOf(inc) \in Nat /\ inc[1] \in Nat
         /\ InitialUpper[tree] \in Bounds /\ InitialUpper[tree] \in Nat
         /\ UpperOf(inc) <= inc[1] /\ UpperOf(inc) <= InitialUpper[tree]
         /\ UpperOf(inc) = inc[1] \/ UpperOf(inc) = InitialUpper[tree]
<1>1. inc[1] \in Bounds /\ InitialUpper[tree] \in Bounds /\ Bounds \subseteq Nat
  BY BoundFacts, HorizonAssumption DEF Incumbents
<1>2. PICK i, u : i = InitialUpper[tree] /\ u = inc[1]
  OBVIOUS
<1>3. {i, u} \in SUBSET Bounds /\ {i, u} # {}
  BY <1>1, <1>2
<1>4. UpperOf(inc) = Min({i, u})
  BY <1>2 DEF UpperOf
<1>5. Min({i, u}) \in {i, u} /\ \A y \in {i, u} : Min({i, u}) <= y
  BY <1>3, MinBounds
<1> QED BY <1>1, <1>2, <1>4, <1>5

(* The incumbent after a set of solutions that had to be better than u: one *)
(* of them or the old one, and no worse than those and the old one.         *)
LEMMA AcceptFacts ==
  ASSUME NEW inc \in Incumbents, NEW S \in SUBSET Tagged, \A s \in S : s[2] >= -1,
         NEW u \in Nat, u <= inc[1]
  PROVE  /\ Accept(inc, S, u) \in Incumbents /\ Accept(inc, S, u)[1] <= inc[1]
         /\ \A s \in S : Accept(inc, S, u)[1] <= s[1] \/ u <= s[1]
         /\ Accept(inc, S, u)[1] = inc[1] \/ \E s \in S : Accept(inc, S, u)[1] = s[1]
<1>1. inc[1] \in Bounds /\ inc[1] \in Nat /\ \A s \in S : s[1] \in Nat /\ s \in Nat \X Int \X Nat
  BY BoundFacts DEF Incumbents, Tagged
<1>2. CASE S = {}
  BY <1>1, <1>2 DEF Accept
<1>3. CASE S # {}
  <2>1. Least(S) \in S /\ \A s \in S : Least(S)[1] <= s[1]
    BY <1>3, LeastSolution
  <2>2. PICK a : a = Least(S)
    OBVIOUS
  <2>3. CASE a[1] < u
    <3>1. Accept(inc, S, u) = a
      BY <1>3, <2>2, <2>3 DEF Accept
    <3>2. a[1] \in Bounds /\ a[1] <= inc[1]
      <4>1. a[1] \in Nat /\ inc[1] \in Nat /\ inc[1] <= Infinity /\ Infinity \in Nat
        BY <1>1, <2>1, <2>2, BoundFacts DEF Bounds
      <4> QED BY <2>3, <4>1 DEF Bounds
    <3>3. a \in Incumbents
      BY <1>1, <2>1, <2>2, <3>2 DEF Incumbents
    <3> QED BY <1>1, <2>1, <2>2, <3>1, <3>2, <3>3
  <2>4. CASE ~(a[1] < u)
    <3>1. Accept(inc, S, u) = inc
      BY <2>2, <2>4 DEF Accept
    <3>2. \A s \in S : u <= s[1]
      BY <1>1, <2>1, <2>2, <2>4
    <3> QED BY <1>1, <3>1, <3>2
  <2> QED BY <2>3, <2>4
<1> QED BY <1>2, <1>3

(* The same of the solutions of some threads, which have to improve on the  *)
(* upper bound.                                                             *)
LEMMA AcceptFoundFacts ==
  ASSUME tree \in Trees, NEW inc \in Incumbents, NEW T,
         \A t \in T : \A s \in ctx[t].found : s \in Tagged /\ s[2] >= -1
  PROVE  /\ AcceptFound(inc, T) \in Incumbents
         /\ UpperOf(AcceptFound(inc, T)) <= UpperOf(inc)
         /\ AcceptFound(inc, T)[1] <= inc[1]
         /\ \A t \in T : \A s \in ctx[t].found : UpperOf(AcceptFound(inc, T)) <= s[1]
         /\ \/ AcceptFound(inc, T)[1] = inc[1]
            \/ \E t \in T : \E s \in ctx[t].found : AcceptFound(inc, T)[1] = s[1]
<1> DEFINE S == UNION {ctx[t].found : t \in T}
           u == UpperOf(inc)
<1>1. S \in SUBSET Tagged /\ \A s \in S : s[2] >= -1
  OBVIOUS
<1>2. u \in Nat /\ u <= inc[1] /\ inc[1] \in Nat
  BY UpperFacts
<1>3. PICK a : a = AcceptFound(inc, T)
  OBVIOUS
<1>4. a = Accept(inc, S, u)
  BY <1>3 DEF AcceptFound
<1>5. \A s \in S : \E t \in T : s \in ctx[t].found
  OBVIOUS
<1>6. \A t \in T : \A s \in ctx[t].found : s \in S
  OBVIOUS
<1> HIDE DEF S, u
<1>7. /\ a \in Incumbents /\ a[1] <= inc[1] /\ (\A s \in S : a[1] <= s[1] \/ u <= s[1])
      /\ a[1] = inc[1] \/ \E s \in S : a[1] = s[1]
  BY <1>1, <1>2, <1>4, AcceptFacts
<1>8. PICK v : v = UpperOf(a)
  OBVIOUS
<1>9. PICK i : i = InitialUpper[tree]
  OBVIOUS
<1>10. /\ v \in Nat /\ a[1] \in Nat /\ i \in Nat /\ v <= a[1] /\ v <= i
       /\ u = inc[1] \/ u = i
  BY <1>7, <1>8, <1>9, UpperFacts DEF u
<1>11. v <= u
  BY <1>2, <1>7, <1>10
<1>12. ASSUME NEW s \in S PROVE v <= s[1]
  <2>1. s[1] \in Nat
    BY <1>1 DEF Tagged
  <2> QED BY <1>2, <1>7, <1>10, <1>11, <2>1
<1> QED BY <1>3, <1>5, <1>6, <1>7, <1>8, <1>11, <1>12 DEF u

(* So is the incumbent after the solutions of all the threads and of the    *)
(* inbox.                                                                   *)
LEMMA MergedFacts ==
  ASSUME HoldInv
  PROVE  /\ Merged \in Incumbents /\ UpperOf(Merged) \in Bounds /\ UpperOf(Merged) <= Upper
         /\ \A t \in Threads : \A s \in ctx[t].found : UpperOf(Merged) <= s[1]
         /\ \/ UpperOf(Merged) = Upper
            \/ \E t \in Threads : \E s \in ctx[t].found : UpperOf(Merged) = s[1]
            \/ \E s \in inbox : UpperOf(Merged) = s[2]
<1>1. /\ incumbent \in Incumbents /\ inbox \subseteq Nat \X Nat /\ tree \in Trees
      /\ \A t \in Threads : ctx[t].found \subseteq Solutions
  BY DEF HoldInv, SyncTypes, NodeTypes, Incumbents, ContextType
<1>2. \A s \in Solutions : s \in Tagged /\ s[2] >= -1
  <2>1. Bounds \subseteq Nat /\ Threads \subseteq Nat /\ Nodes \subseteq Nat
    BY <1>1, TreeFacts, ThreadFacts, BoundFacts
  <2>2. ASSUME NEW s \in Solutions PROVE s \in Tagged /\ s[2] >= -1
    <3>0. s[1] \in Bounds /\ s[2] \in Threads /\ s[3] \in Nodes /\ s = <<s[1], s[2], s[3]>>
      BY DEF Solutions
    <3>1. s[1] \in Nat /\ s[2] \in Nat /\ s[3] \in Nat /\ s = <<s[1], s[2], s[3]>>
      BY <2>1, <3>0
    <3>2. s[2] \in Int /\ s[2] >= -1
      BY <3>1
    <3> QED BY <3>1, <3>2 DEF Tagged
  <2> QED BY <2>2
<1> DEFINE H == {<<s[2], -1, s[1]>> : s \in Due}
           i1 == AcceptHeuristics(incumbent)
           i2 == AcceptFound(i1, Bfs)
           i3 == AcceptFound(i2, Divers)
<1>3. Due \subseteq inbox
  BY DEF Due
<1>4. H \in SUBSET Tagged /\ \A s \in H : s[2] >= -1
  <2>1. ASSUME NEW s \in Due PROVE <<s[2], -1, s[1]>> \in Tagged
    BY <1>1, <1>3 DEF Tagged
  <2> QED BY <2>1
<1>5. \A t \in Threads : \A s \in ctx[t].found : s \in Tagged /\ s[2] >= -1
  BY <1>1, <1>2
<1>6. Merged = i3
  BY DEF Merged
<1>7. PICK u0, u : u0 = incumbent[1] /\ u = Upper
  OBVIOUS
<1>8. u0 \in Nat /\ u \in Nat /\ u <= u0 /\ u <= InitialUpper[tree] /\ u \in {u0, InitialUpper[tree]}
  BY <1>1, <1>7, UpperFacts DEF Upper
<1>9. /\ i1 \in Incumbents /\ i1[1] <= u0
      /\ i1[1] = u0 \/ \E s \in H : i1[1] = s[1]
  <2>1. i1 = Accept(incumbent, H, u0)
    BY <1>7 DEF AcceptHeuristics
  <2>2. u0 <= incumbent[1]
    BY <1>7, <1>8
  <2>3. H \in SUBSET Tagged
    BY <1>4
  <2> HIDE DEF H, i1
  <2>4. /\ Accept(incumbent, H, u0) \in Incumbents
        /\ Accept(incumbent, H, u0)[1] <= incumbent[1]
        /\ \/ Accept(incumbent, H, u0)[1] = incumbent[1]
           \/ \E s \in H : Accept(incumbent, H, u0)[1] = s[1]
    BY <1>1, <1>4, <1>8, <2>2, <2>3, AcceptFacts
  <2> QED BY <1>7, <2>1, <2>4
<1> HIDE DEF i1, H
<1>10. Bfs \subseteq Threads /\ Divers \subseteq Threads /\ Threads = Bfs \cup Divers
  BY ThreadFacts DEF Threads
<1>11. /\ i2 \in Incumbents /\ UpperOf(i2) <= UpperOf(i1) /\ i2[1] <= i1[1]
       /\ \A t \in Bfs : \A s \in ctx[t].found : UpperOf(i2) <= s[1]
       /\ i2[1] = i1[1] \/ \E t \in Bfs : \E s \in ctx[t].found : i2[1] = s[1]
  BY <1>1, <1>5, <1>9, <1>10, AcceptFoundFacts
<1> HIDE DEF i2
<1>12. /\ i3 \in Incumbents /\ UpperOf(i3) <= UpperOf(i2) /\ i3[1] <= i2[1]
       /\ \A t \in Divers : \A s \in ctx[t].found : UpperOf(i3) <= s[1]
       /\ i3[1] = i2[1] \/ \E t \in Divers : \E s \in ctx[t].found : i3[1] = s[1]
  BY <1>1, <1>5, <1>10, <1>11, AcceptFoundFacts
<1> HIDE DEF i3
<1>13. PICK v2, v3 : v2 = UpperOf(i2) /\ v3 = UpperOf(i3)
  OBVIOUS
<1>14. /\ v2 \in Nat /\ v3 \in Nat /\ i1[1] \in Nat /\ i2[1] \in Nat /\ i3[1] \in Nat
       /\ InitialUpper[tree] \in Nat /\ v3 <= i3[1] /\ v3 <= InitialUpper[tree] /\ v3 \in Bounds
       /\ v3 \in {i3[1], InitialUpper[tree]} /\ v3 <= v2
  BY <1>1, <1>9, <1>11, <1>12, <1>13, UpperFacts
<1>15. i3[1] <= u0
  BY <1>8, <1>9, <1>11, <1>12, <1>14
<1>16. v3 <= u
  BY <1>8, <1>14, <1>15
<1>17. ASSUME NEW t \in Threads, NEW s \in ctx[t].found PROVE v3 <= s[1]
  <2>1. s[1] \in Nat
    BY <1>5 DEF Tagged
  <2>2. CASE t \in Bfs
    <3>1. v2 <= s[1]
      BY <1>11, <1>13, <2>2
    <3> QED BY <1>14, <2>1, <3>1
  <2>3. CASE t \in Divers
    BY <1>12, <1>13, <2>3
  <2> QED BY <1>10, <2>2, <2>3
<1>18. \/ v3 = u
       \/ \E t \in Threads : \E s \in ctx[t].found : v3 = s[1]
       \/ \E s \in inbox : v3 = s[2]
  <2>1. CASE v3 = InitialUpper[tree]
    BY <1>8, <1>14, <1>16, <2>1
  <2>2. CASE v3 = i3[1]
    <3>1. \/ i3[1] = u0 \/ (\E s \in H : i3[1] = s[1])
          \/ \E t \in Threads : \E s \in ctx[t].found : i3[1] = s[1]
      BY <1>9, <1>10, <1>11, <1>12
    <3>2. \A s \in H : \E r \in inbox : s[1] = r[2]
      BY <1>3 DEF H
    <3>3. i3[1] = u0 => v3 = u
      BY <1>8, <1>14, <1>16, <2>2
    <3> QED BY <2>2, <3>1, <3>2, <3>3
  <2> QED BY <1>14, <2>1, <2>2
<1> QED BY <1>6, <1>7, <1>12, <1>13, <1>14, <1>16, <1>17, <1>18

-----------------------------------------------------------------------------
(* The dives handed out.  No entry is in hand more or less than before.    *)

(* A remainder is less than the divisor. *)
LEMMA ModFacts ==
  ASSUME NEW a \in Nat, NEW b \in Nat \ {0}
  PROVE  a % b \in 0..(b - 1)
  OBVIOUS

(* The assignments of dives that leave alone what each worker has in hand. *)
Assignments ==
    [diver : {f \in [Divers -> DiverType] : \A d \in Divers : f[d].hand = diver[d].hand}, i : Nat]

(* Assigning one dive leaves what the workers have in hand. *)
LEMMA AssignOneFacts ==
  ASSUME NumDiving # 0, NEW acc \in Assignments, NEW n \in DOMAIN tree, node[n].lb \in Bounds
  PROVE  AssignOne(acc, n) \in Assignments
<1> DEFINE at(k) == NumBfs + ((acc.i + k) % NumDiving)
           free == {k \in 0..(NumDiving - 1) : Len(acc.diver[at(k)].queue) < DivesPerWorker}
<1>1. CASE free = {}
  BY <1>1 DEF AssignOne
<1>2. CASE free # {}
  <2>1. PICK m : m = Min(free)
    OBVIOUS
  <2>2. free \in SUBSET Nat
    OBVIOUS
  <2>3. m \in free /\ m \in Nat
    BY <1>2, <2>1, <2>2, MinOfNaturals
  <2>4. PICK d, f : d = at(m) /\ f = acc.diver
    OBVIOUS
  <2>5. acc.i \in Nat /\ NumDiving \in Nat \ {0} /\ NumBfs \in Nat \ {0}
    BY ThreadFacts DEF Assignments
  <2>6. (acc.i + m) % NumDiving \in 0..(NumDiving - 1)
    <3>1. acc.i + m \in Nat
      BY <2>3, <2>5
    <3> QED BY <2>5, <3>1, ModFacts
  <2>7. d \in Divers
    BY <2>4, <2>5, <2>6 DEF Divers
  <2>8. PICK g : g = [f EXCEPT ![d].queue = Append(@, <<n, node[n].lb>>)]
    OBVIOUS
  <2>9. AssignOne(acc, n) = [diver |-> g, i |-> acc.i + m + 1]
    BY <1>2, <2>1, <2>4, <2>8 DEF AssignOne
  <2>10. f \in [Divers -> DiverType] /\ \A e \in Divers : f[e].hand = diver[e].hand
    BY <2>4 DEF Assignments
  <2>11. f[d] \in DiverType /\ f[d].queue \in Seq((DOMAIN tree) \X Bounds)
    BY <2>7, <2>10 DEF DiverType
  <2>12. Append(f[d].queue, <<n, node[n].lb>>) \in Seq((DOMAIN tree) \X Bounds)
    BY <2>11, AppendProperties
  <2>13. PICK q : q = Append(f[d].queue, <<n, node[n].lb>>)
    OBVIOUS
  <2>14. g = [f EXCEPT ![d] = [f[d] EXCEPT !.queue = q]]
    BY <2>8, <2>13
  <2>15. [f[d] EXCEPT !.queue = q] \in DiverType /\ [f[d] EXCEPT !.queue = q].hand = f[d].hand
    BY <2>11, <2>12, <2>13 DEF DiverType
  <2>16. g \in [Divers -> DiverType] /\ \A e \in Divers : g[e].hand = diver[e].hand
    BY <2>7, <2>10, <2>14, <2>15
  <2>17. acc.i + m + 1 \in Nat
    <3>1. PICK i : i = acc.i
      OBVIOUS
    <3>2. i \in Nat /\ m \in Nat
      BY <2>3, <2>5, <3>1
    <3>3. i + m + 1 \in Nat
      BY ONLY <3>2
    <3> QED BY <3>1, <3>3
  <2> QED BY <2>9, <2>16, <2>17 DEF Assignments
<1> QED BY <1>1, <1>2

(* A loop over the entries of a sequence that keeps a set of states. *)
Loop(first, h, f, N) == f[0] = first /\ \A k \in 1..N : f[k] = AssignOne(f[k - 1], h[k])

(* The states of the loop. *)
Looped(first, h, size) ==
    CHOOSE g : g = [k \in 0..size |-> IF k = 0 THEN first ELSE AssignOne(g[k - 1], h[k])]

(* A loop whose every pass stays in a set ends in that set. *)
LEMMA AssignLoop ==
  ASSUME NEW size \in Nat, NEW h, NEW first, NEW A, first \in A,
         \A k \in 1..size : \A a \in A : AssignOne(a, h[k]) \in A
  PROVE  Looped(first, h, size)[size] \in A
<1> DEFINE Bad == {N \in Nat : ~ \E f : f = [k \in 0..N |-> f[k]] /\ Loop(first, h, f, N)}
<1>1. Bad = {}
  <2>1. SUFFICES ASSUME Bad # {} PROVE FALSE
    OBVIOUS
  <2>2. PICK N \in Bad : \A y \in Bad : N <= y
    BY <2>1, LeastNatural
  <2>3. CASE N = 0
    <3>1. PICK f : f = [k \in 0..0 |-> first]
      OBVIOUS
    <3>2. f = [k \in 0..0 |-> f[k]] /\ f[0] = first
      BY <3>1
    <3>3. Loop(first, h, f, 0)
      BY <3>2 DEF Loop
    <3> QED BY <2>3, <3>2, <3>3
  <2>4. CASE N # 0
    <3>0. N \in Nat /\ N - 1 \in Nat /\ ~(N <= N - 1)
      BY <2>2, <2>4
    <3>1. N \in Nat /\ N - 1 \in Nat /\ N - 1 \notin Bad
      BY <3>0, <2>2
    <3>2. PICK f : f = [k \in 0..(N - 1) |-> f[k]] /\ Loop(first, h, f, N - 1)
      BY <3>1
    <3>3. PICK g : g = [k \in 0..N |-> IF k = N THEN AssignOne(f[N - 1], h[N]) ELSE f[k]]
      OBVIOUS
    <3>4. g = [k \in 0..N |-> g[k]]
      BY <3>3
    <3>5. g[0] = first
      BY <2>4, <3>1, <3>2, <3>3 DEF Loop
    <3>6. ASSUME NEW k \in 1..N PROVE g[k] = AssignOne(g[k - 1], h[k])
      <4>1. k - 1 \in 0..(N - 1) /\ k - 1 \in 0..N /\ k - 1 # N
        BY <3>1
      <4>2. g[k - 1] = f[k - 1]
        BY <3>3, <4>1
      <4>3. CASE k = N
        <5>1. g[k] = AssignOne(f[N - 1], h[N])
          BY <3>1, <3>3, <4>3
        <5> QED BY <4>2, <4>3, <5>1
      <4>4. CASE k # N
        <5>1. k \in 1..(N - 1) /\ k \in 0..N
          BY <3>1, <4>4
        <5>2. g[k] = f[k]
          BY <3>3, <4>4, <5>1
        <5>3. f[k] = AssignOne(f[k - 1], h[k])
          BY <3>2, <5>1 DEF Loop
        <5> QED BY <4>2, <5>2, <5>3
      <4> QED BY <4>3, <4>4
    <3> QED BY <3>1, <3>4, <3>5, <3>6 DEF Loop
  <2> QED BY <2>3, <2>4
<1>2. PICK f : f = [k \in 0..size |-> f[k]] /\ Loop(first, h, f, size)
  BY <1>1
<1>3. f = [k \in 0..size |-> IF k = 0 THEN first ELSE AssignOne(f[k - 1], h[k])]
  <2>1. ASSUME NEW k \in 0..size PROVE f[k] = IF k = 0 THEN first ELSE AssignOne(f[k - 1], h[k])
    <3>1. k = 0 \/ k \in 1..size
      OBVIOUS
    <3> QED BY <1>2, <3>1 DEF Loop
  <2> QED BY <1>2, <2>1
<1> DEFINE F == Looped(first, h, size)
<1>4. F = [k \in 0..size |-> IF k = 0 THEN first ELSE AssignOne(F[k - 1], h[k])]
  BY <1>3 DEF Looped
<1> HIDE DEF F
<1>5. F[0] = first /\ \A k \in 1..size : F[k] = AssignOne(F[k - 1], h[k])
  <2>1. F[0] = first
    <3>1. 0 \in 0..size
      OBVIOUS
    <3> QED BY <1>4, <3>1
  <2>2. ASSUME NEW k \in 1..size PROVE F[k] = AssignOne(F[k - 1], h[k])
    <3>1. k \in 0..size /\ k # 0
      OBVIOUS
    <3> QED BY <1>4, <3>1
  <2> QED BY <2>1, <2>2
<1>6. \A k \in 0..size : F[k] \in A
  <2> DEFINE Odd == {k \in 0..size : F[k] \notin A}
  <2>1. SUFFICES ASSUME Odd # {} PROVE FALSE
    OBVIOUS
  <2>2. Odd \in SUBSET Nat
    OBVIOUS
  <2>3. PICK N \in Odd : \A y \in Odd : N <= y
    BY <2>1, <2>2, LeastNatural
  <2>4. N \in 1..size /\ N - 1 \in 0..size /\ N - 1 \notin Odd
    BY <2>3, <1>5
  <2>5. F[N - 1] \in A
    BY <2>4
  <2> QED BY <2>3, <2>4, <2>5, <1>5
<1> QED BY <1>6 DEF F

(* The nodes of the backlogs are open and told apart by their keys. *)
LEMMA BacklogFacts ==
  ASSUME HoldInv
  PROVE  /\ Backlogs \subseteq Pending /\ IsFiniteSet(Backlogs) /\ Backlogs \subseteq DOMAIN tree
         /\ \A n \in Backlogs : node[n].lb \in Bounds /\ id[n] \in Int \X Int /\ n \in Nodes
         /\ \A m, n \in Backlogs : id[m] = id[n] => m = n
<1>1. Backlogs \subseteq Pending
  BY DEF HoldInv, HeldInv, HeldOnce, Held, Backlogs
<1>2. IsFiniteSet(Pending)
  BY OpenAreFinite DEF HoldInv, NodeTypes
<1>3. IsFiniteSet(Backlogs)
  BY <1>1, <1>2, FS_Subset
<1>4. \A n \in Pending : n \in Nodes /\ node[n].lb \in Bounds /\ id[n] \in Int \X Int /\ n \in DOMAIN tree
  BY DEF HoldInv, NodeTypes, NodeType, Pending, TreeShape, Known
<1> QED BY <1>1, <1>3, <1>4 DEF HoldInv, IdInv

(* Assigning the dives leaves what the workers have in hand. *)
LEMMA AssignedFacts ==
  ASSUME HoldInv, NEW u
  PROVE  /\ AssignedDives(u) \in [Divers -> DiverType]
         /\ \A d \in Divers : AssignedDives(u)[d].hand = diver[d].hand
<1>0. diver \in [Divers -> DiverType]
  BY DEF HoldInv, NodeTypes
<1>1. CASE NumDiving = 0
  <2>1. AssignedDives(u) = diver
    BY <1>1 DEF AssignedDives
  <2> QED BY <1>0, <2>1
<1>2. CASE NumDiving # 0
  <2> DEFINE S == {n \in Backlogs : node[n].lb < u}
             K == [n \in Backlogs |-> <<node[n].lb>> \o id[n]]
             x == [n \in Backlogs |-> node[n].lb]
  <2>1. IsFiniteSet(S) /\ S \subseteq DOMAIN tree /\ \A n \in S : node[n].lb \in Bounds
    BY BacklogFacts, FS_Subset
  <2>2. Ordered(S, K)
    <3>1. ASSUME NEW n \in S PROVE x[n] \in Int /\ id[n] \in Int \X Int
      <4>1. n \in Backlogs /\ x[n] = node[n].lb
        OBVIOUS
      <4>2. node[n].lb \in Nat /\ id[n] \in Int \X Int
        BY <4>1, BacklogFacts, BoundFacts
      <4> QED BY <4>1, <4>2
    <3>2. \A n \in S : K[n] = <<x[n]>> \o id[n]
      OBVIOUS
    <3>3. \A m, n \in S : id[m] = id[n] => m = n
      BY BacklogFacts
    <3> HIDE DEF S, K, x
    <3>4. Keyed(S, K, x, id)
      BY <3>1, <3>2, <3>3 DEF Keyed
    <3> QED BY <3>4, TriplesOrdered
  <2> HIDE DEF S, K
  <2>3. PICK h : h = SortedBy(S, K)
    OBVIOUS
  <2>4. h \in Seq(S) /\ Len(h) \in Nat
    BY <2>1, <2>2, <2>3, SortedEnumerates, LenProperties
  <2>5. PICK size : size = Min({Len(h), NumDiving * DivesPerWorker})
    OBVIOUS
  <2>6. size \in Nat /\ size <= Len(h)
    <3>1. NumDiving * DivesPerWorker \in Nat
      BY HorizonAssumption
    <3>2. {Len(h), NumDiving * DivesPerWorker} \in SUBSET Nat
      BY <2>4, <3>1
    <3> QED BY <2>5, <3>2, MinOfNaturals
  <2>7. PICK first : first = [diver |-> diver, i |-> 0]
    OBVIOUS
  <2>8. first \in Assignments
    BY <1>0, <2>7 DEF Assignments
  <2>9. ASSUME NEW k \in 1..size, NEW a \in Assignments PROVE AssignOne(a, h[k]) \in Assignments
    <3>1. k \in 1..Len(h)
      BY <2>4, <2>6
    <3>2. h[k] \in S
      BY <2>4, <3>1, ElementOfSeq
    <3>3. h[k] \in DOMAIN tree /\ node[h[k]].lb \in Bounds
      BY <2>1, <3>2
    <3> QED BY <1>2, <3>3, AssignOneFacts
  <2>10. PICK F : F = Looped(first, h, size)
    OBVIOUS
  <2>11. F[size] \in Assignments
    BY <2>6, <2>8, <2>9, <2>10, AssignLoop
  <2>12. AssignedDives(u) = F[size].diver
    BY <1>2, <2>3, <2>5, <2>7, <2>10 DEF AssignedDives, Looped, S, K
  <2> QED BY <2>11, <2>12 DEF Assignments
<1> QED BY <1>1, <1>2

-----------------------------------------------------------------------------
(* Balancing the loads.  The nodes dealt to two workers differ in rank.    *)

(* A worker is dealt the nodes whose rank is its own modulo the number of   *)
(* workers, each once.                                                      *)
LEMMA DealtFacts ==
  ASSUME HoldInv, NEW w \in Bfs
  PROVE  /\ Reverse(Dealt(w)) \in Seq(Nodes) /\ NoRepeats(Reverse(Dealt(w)))
         /\ Range(Reverse(Dealt(w))) = {n \in Backlogs : Rank(Backlogs, id, n) % NumBfs = w}
<1> DEFINE S == {n \in Backlogs : Rank(Backlogs, id, n) % NumBfs = w}
<1>1. /\ IsFiniteSet(S) /\ S \subseteq Nodes /\ (\A n \in S : id[n] \in Int \X Int)
      /\ \A m, n \in S : id[m] = id[n] => m = n
  BY BacklogFacts, FS_Subset
<1>2. PICK s : s = Dealt(w)
  OBVIOUS
<1>3. s = SortedBy(S, id)
  BY <1>2 DEF Dealt
<1> HIDE DEF S
<1>4. Ordered(S, id)
  BY <1>1, PairsOrdered
<1>5. s \in Seq(S) /\ Len(s) = Cardinality(S) /\ Range(s) = S
      /\ \A i, j \in 1..Cardinality(S) : s[i] = s[j] => i = j
  BY <1>1, <1>3, <1>4, SortedEnumerates
<1>6. s \in Seq(Nodes)
  BY <1>1, <1>5
<1>7. NoRepeats(s)
  BY <1>5 DEF NoRepeats
<1>8. Reverse(s) \in Seq(Nodes) /\ NoRepeats(Reverse(s)) /\ Range(Reverse(s)) = Range(s)
  BY <1>6, <1>7, ReverseNoRepeats
<1> QED BY <1>2, <1>5, <1>8 DEF S

(* What a worker has after balancing: its stack behind what it was dealt.  *)
Shuffled(W) ==
    /\ W \in [Bfs -> WorkerType] /\ HeldOnce(Pending, W)
    /\ \A w \in Bfs : /\ W[w].current = worker[w].current /\ W[w].last = worker[w].last
                      /\ W[w].box = worker[w].box /\ W[w].cutoff = worker[w].cutoff
                      /\ W[w].ceiling = worker[w].ceiling /\ W[w].seq = worker[w].seq

(* Balancing the loads shuffles the nodes of the backlogs among the         *)
(* workers.                                                                 *)
LEMMA BalancedFacts ==
  ASSUME HoldInv
  PROVE  Shuffled(Balanced)
<1>0. worker \in [Bfs -> WorkerType] /\ HeldOnce(Pending, worker) /\ NoNode \notin Nodes
      /\ NumBfs \in Nat \ {0}
  BY TreeFacts, ThreadFacts DEF HoldInv, NodeTypes, HeldInv, NoNode
<1>1. CASE ~(NumBfs > 1 /\ NeedsBalance)
  <2>1. Balanced = worker
    BY <1>1 DEF Balanced
  <2> QED BY <1>0, <2>1 DEF Shuffled
<1>2. CASE NumBfs > 1 /\ NeedsBalance
  <2> DEFINE part(w) == {n \in Backlogs : Rank(Backlogs, id, n) % NumBfs = w}
             r(w) == Reverse(Dealt(w))
             p(w) == worker[w].plunge
             k(w) == [worker[w] EXCEPT !.plunge = r(w) \o p(w), !.backlog = {}]
  <2>1. \A w \in Bfs : r(w) \in Seq(Nodes) /\ NoRepeats(r(w)) /\ Range(r(w)) = part(w)
    BY DealtFacts
  <2>2. Balanced = [w \in Bfs |-> k(w)]
    BY <1>2 DEF Balanced
  <2> HIDE DEF r
  <2>3. \A w \in Bfs : /\ worker[w] \in WorkerType /\ p(w) \in Seq(Nodes) /\ Tidy(worker[w])
                       /\ worker[w].backlog \subseteq Backlogs
    BY <1>0 DEF WorkerType, HeldOnce, Backlogs
  <2>4. \A v, w \in Bfs : Range(p(v)) \cap worker[w].backlog = {}
                          /\ worker[v].current \notin worker[w].backlog
    <3>1. ASSUME NEW v \in Bfs, NEW w \in Bfs
          PROVE  Range(p(v)) \cap worker[w].backlog = {} /\ worker[v].current \notin worker[w].backlog
      <4>1. CASE v = w
        BY <2>3, <4>1 DEF Tidy
      <4>2. CASE v # w
        <5>1. Held(worker[v]) \cap Held(worker[w]) = {} /\ worker[w].backlog \subseteq Nodes
          BY <1>0, <4>2 DEF HeldOnce, WorkerType
        <5> QED BY <1>0, <5>1 DEF Held
      <4> QED BY <4>1, <4>2
    <3> QED BY <3>1
  <2>5. \A v \in Bfs : Range(p(v)) \cap Backlogs = {} /\ worker[v].current \notin Backlogs
    BY <2>4 DEF Backlogs
  <2>6. ASSUME NEW w \in Bfs
        PROVE  /\ r(w) \o p(w) \in Seq(Nodes) /\ NoRepeats(r(w) \o p(w))
               /\ Range(r(w) \o p(w)) = part(w) \cup Range(p(w))
    <3>1. NoRepeats(p(w)) /\ Range(r(w)) \cap Range(p(w)) = {}
      BY <2>1, <2>3, <2>5 DEF Tidy
    <3> QED BY <2>1, <2>3, <3>1, ConcatNoRepeats
  <2>7. PICK W : W = Balanced
    OBVIOUS
  <2>8. ASSUME NEW w \in Bfs
        PROVE  /\ W[w] \in WorkerType /\ W[w].plunge = r(w) \o p(w) /\ W[w].backlog = {}
               /\ W[w].current = worker[w].current /\ W[w].last = worker[w].last
               /\ W[w].box = worker[w].box /\ W[w].cutoff = worker[w].cutoff
               /\ W[w].ceiling = worker[w].ceiling /\ W[w].seq = worker[w].seq
    <3>1. W[w] = k(w)
      BY <2>2, <2>7
    <3> HIDE DEF p
    <3>2. PICK q : q = r(w) \o p(w)
      OBVIOUS
    <3>3. q \in Seq(Nodes) /\ W[w] = [worker[w] EXCEPT !.plunge = q, !.backlog = {}]
      BY <2>6, <3>1, <3>2
    <3>4. worker[w] \in WorkerType
      BY <2>3
    <3> QED BY <3>2, <3>3, <3>4 DEF WorkerType
  <2>9. W \in [Bfs -> WorkerType]
    BY <2>2, <2>7, <2>8
  <2> HIDE DEF k, p, part
  <2>10. ASSUME NEW w \in Bfs
         PROVE  /\ Held(W[w]) = part(w) \cup Range(p(w)) \cup ({worker[w].current} \ {NoNode})
                /\ Held(worker[w]) = worker[w].backlog \cup Range(p(w))
                                       \cup ({worker[w].current} \ {NoNode})
    BY <2>6, <2>8 DEF Held, p
  <2>11. \A w \in Bfs : Tidy(W[w])
    <3>1. ASSUME NEW w \in Bfs PROVE Tidy(W[w])
      <4>1. worker[w].current \notin Range(p(w)) /\ worker[w].current \notin part(w)
        BY <2>3, <2>5 DEF Tidy, p, part
      <4> QED BY <2>6, <2>8, <4>1 DEF Tidy
    <3> QED BY <3>1
  <2>12. \A n \in Backlogs : Rank(Backlogs, id, n) % NumBfs \in Bfs
    <3>1. ASSUME NEW n \in Backlogs PROVE Rank(Backlogs, id, n) % NumBfs \in Bfs
      <4>1. Rank(Backlogs, id, n) \in Nat
        <5>1. Ordered(Backlogs, id)
          BY BacklogFacts, PairsOrdered
        <5> QED BY <5>1, BacklogFacts, RanksNumber
      <4> QED BY <1>0, <4>1, ModFacts DEF Bfs
    <3> QED BY <3>1
  <2>13. Backlogs = UNION {part(w) : w \in Bfs}
    BY <2>12 DEF part
  <2>14. ASSUME NEW v \in Bfs, NEW w \in Bfs, v # w PROVE Held(W[v]) \cap Held(W[w]) = {}
    <3>1. part(v) \cap part(w) = {} /\ part(v) \subseteq Backlogs /\ part(w) \subseteq Backlogs
      BY <2>14 DEF part
    <3>2. Held(worker[v]) \cap Held(worker[w]) = {}
      BY <1>0, <2>14 DEF HeldOnce
    <3>3. /\ Range(p(v)) \cap Backlogs = {} /\ worker[v].current \notin Backlogs
          /\ Range(p(w)) \cap Backlogs = {} /\ worker[w].current \notin Backlogs
      BY <2>5 DEF p
    <3> QED BY <2>10, <3>1, <3>2, <3>3
  <2>15. Pending = UNION {Held(W[w]) : w \in Bfs}
    <3>1. Pending = UNION {Held(worker[w]) : w \in Bfs}
      BY <1>0 DEF HeldOnce
    <3>2. ASSUME NEW n \in Pending PROVE \E w \in Bfs : n \in Held(W[w])
      <4>1. PICK w \in Bfs : n \in Held(worker[w])
        BY <3>1
      <4>2. CASE n \in worker[w].backlog
        <5>1. n \in Backlogs
          BY <4>2 DEF Backlogs
        <5>2. PICK v \in Bfs : n \in part(v)
          BY <2>13, <5>1
        <5> QED BY <2>10, <5>2
      <4>3. CASE n \notin worker[w].backlog
        BY <2>10, <4>1, <4>3
      <4> QED BY <4>2, <4>3
    <3>3. ASSUME NEW w \in Bfs, NEW n \in Held(W[w]) PROVE n \in Pending
      <4>1. CASE n \in part(w)
        <5>1. n \in Backlogs
          BY <4>1 DEF part
        <5> QED BY <5>1, BacklogFacts
      <4>2. CASE n \notin part(w)
        <5>1. n \in Held(worker[w])
          BY <2>10, <3>3, <4>2
        <5> QED BY <3>1, <5>1
      <4> QED BY <4>1, <4>2
    <3> QED BY <3>2, <3>3
  <2>16. HeldOnce(Pending, W)
    BY <2>11, <2>14, <2>15 DEF HeldOnce
  <2>17. Shuffled(W)
    BY <2>8, <2>9, <2>16 DEF Shuffled
  <2> QED BY <2>7, <2>17
<1> QED BY <1>1, <1>2

-----------------------------------------------------------------------------
(* The status the callback decides on, and what it leaves to the threads.  *)

(* The statuses of the search. *)
Statuses == {"UNSET", "OPTIMAL", "INFEASIBLE", "TIME_LIMIT", "WORK_LIMIT"}

(* With work left, a search out of time or of work units is ended. *)
LEMMA StatusFacts ==
  ASSUME NEW lower, NEW inc
  PROVE  /\ StatusAfter(lower, inc) \in Statuses
         /\ /\ \E w \in Bfs : HasWork(worker[w])
            /\ late \/ Target + Step > WorkLimit[tree]
            => StatusAfter(lower, inc) # "UNSET"
  BY DEF StatusAfter, Statuses

(* A thread is released where it waited, with the new incumbent and without *)
(* its solutions.                                                           *)
LEMMA ReleasedFacts ==
  ASSUME NEW c \in ContextType, c.pc = "sync", NEW inc, UpperOf(inc) \in Bounds, NEW st,
         NEW d, d = Released(c, inc, st)
  PROVE  /\ d \in ContextType /\ Point(d) = Point(c) /\ d.work = c.work
         /\ d.upper = UpperOf(inc) /\ d.found = {} /\ (st # "UNSET" => d.pc # "sync")
<1>1. UpperOf(inc) \in Bounds
  OBVIOUS
<1>2. PICK p : p = IF c.work >= Target + Step /\ st = "UNSET" THEN "sync" ELSE c.ret
  OBVIOUS
<1>3. d = [c EXCEPT !.upper = UpperOf(inc), !.found = {}, !.pc = p]
  BY <1>2 DEF Released
<1>4. c.ret \in {"loop", "presolved", "solved", "dived"}
  BY DEF ContextType
<1>5. p \in {"sync", c.ret} /\ (st # "UNSET" => p = c.ret)
  BY <1>2
<1>6. /\ d \in ContextType /\ d.pc = p /\ d.ret = c.ret /\ d.work = c.work
      /\ d.upper = UpperOf(inc) /\ d.found = {}
  BY <1>1, <1>3, <1>4, <1>5 DEF ContextType
<1> QED BY <1>4, <1>5, <1>6 DEF Point

(* What the callback changes. *)
LEMMA SyncFacts ==
  ASSUME HoldInv, SyncCallback
  PROVE  /\ phase = "merge" /\ ~Shutdown /\ (\A t \in Threads : ctx[t].pc = "sync")
         /\ incumbent' = Merged /\ Merged \in Incumbents
         /\ lb_numerical' \in Bounds /\ lb_numerical' <= lb_numerical
         /\ (\A w \in Bfs : lb_numerical' <= worker[w].ceiling)
         /\ (lb_numerical' = lb_numerical \/ \E w \in Bfs : lb_numerical' = worker[w].ceiling)
         /\ status' = StatusAfter(LowerBound(lb_numerical', Merged), Merged)
         /\ Shuffled(worker') /\ diver' \in [Divers -> DiverType]
         /\ (\A d \in Divers : diver'[d].hand = diver[d].hand)
         /\ DOMAIN ctx' = Threads
         /\ \A t \in Threads : /\ ctx'[t] \in ContextType /\ Point(ctx'[t]) = Point(ctx[t])
                               /\ ctx'[t].work = ctx[t].work /\ ctx'[t].upper = UpperOf(Merged)
                               /\ ctx'[t].found = {}
                               /\ status' # "UNSET" => ctx'[t].pc # "sync"
<1>1. phase = "merge" /\ ~Shutdown /\ (\A t \in Threads : ctx[t].pc = "sync")
  BY DEF SyncCallback, HoldInv, CallbackInv
<1>2. PICK inc, num, st :
        /\ inc = Merged /\ num = Min({lb_numerical} \cup {worker[w].ceiling : w \in Bfs})
        /\ st = StatusAfter(LowerBound(num, inc), inc)
  OBVIOUS
<1>3. /\ incumbent' = inc /\ lb_numerical' = num /\ status' = st /\ diver' = AssignedDives(UpperOf(inc))
      /\ ctx' = [t \in Threads |-> Released(ctx[t], inc, st)] /\ worker' = Balanced
  BY <1>2 DEF SyncCallback
<1>4. inc \in Incumbents /\ UpperOf(inc) \in Bounds
  BY <1>2, MergedFacts
<1>5. /\ num \in Bounds /\ num <= lb_numerical /\ (\A w \in Bfs : num <= worker[w].ceiling)
      /\ (num = lb_numerical \/ \E w \in Bfs : num = worker[w].ceiling)
  <2> DEFINE S == {lb_numerical} \cup {worker[w].ceiling : w \in Bfs}
  <2>1. lb_numerical \in Bounds /\ \A w \in Bfs : worker[w].ceiling \in Bounds
    BY DEF HoldInv, SyncTypes, NodeTypes, WorkerType
  <2>2. S \in SUBSET Bounds /\ S # {}
    BY <2>1
  <2>3. num = Min(S)
    BY <1>2
  <2>4. num \in Bounds /\ num \in S /\ \A y \in S : num <= y
    BY <2>2, <2>3, MinBounds
  <2> QED BY <2>4
<1>6. ASSUME NEW t \in Threads
      PROVE  /\ ctx'[t] \in ContextType /\ Point(ctx'[t]) = Point(ctx[t])
             /\ ctx'[t].work = ctx[t].work /\ ctx'[t].upper = UpperOf(inc) /\ ctx'[t].found = {}
             /\ st # "UNSET" => ctx'[t].pc # "sync"
  <2>1. ctx'[t] = Released(ctx[t], inc, st)
    BY <1>3
  <2>2. ctx[t] \in ContextType /\ ctx[t].pc = "sync"
    BY <1>1 DEF HoldInv, SyncTypes
  <2> QED BY <1>4, <2>1, <2>2, ReleasedFacts
<1>7. DOMAIN ctx' = Threads
  BY <1>3
<1>8. Shuffled(worker')
  BY <1>3, BalancedFacts
<1>9. diver' \in [Divers -> DiverType] /\ \A d \in Divers : diver'[d].hand = diver[d].hand
  BY <1>3, AssignedFacts
<1> QED BY <1>1, <1>2, <1>3, <1>4, <1>5, <1>6, <1>7, <1>8, <1>9

(* The merge at a barrier keeps HoldInv. *)
LEMMA SyncHold ==
  ASSUME HoldInv, SyncCallback PROVE HoldInv'
<1>1. /\ UNCHANGED <<tree, node, addr, id, manager, late>> /\ phase' = "run"
      /\ inbox' \subseteq inbox /\ generation' = generation + 1
  BY DEF SyncCallback, treeVars
<1>2. Pending' = Pending
  BY <1>1, SetsStay DEF Pending
<1>3. /\ worker' \in [Bfs -> WorkerType] /\ HeldOnce(Pending, worker')
      /\ \A w \in Bfs : worker'[w].current = worker[w].current /\ worker'[w].seq = worker[w].seq
  BY SyncFacts DEF Shuffled
<1>4. NodeTypes'
  <2>1. DiverType' = DiverType
    BY <1>1, SetsStay DEF DiverType
  <2>2. NodeType'
    BY <1>1, SetsStay DEF NodeType, HoldInv, NodeTypes
  <2> QED BY <1>1, <1>3, <2>1, <2>2, SetsStay, SyncFacts DEF HoldInv, NodeTypes
<1>5. SyncTypes'
  <2>1. ctx' \in [Threads -> ContextType]
    <3>1. ctx' = [t \in Threads |-> ctx'[t]]
      BY DEF SyncCallback
    <3> QED BY <3>1, SyncFacts
  <2>2. status' \in Statuses
    BY SyncFacts, StatusFacts
  <2>3. incumbent' \in Bounds \X Int \X Nat
    BY SyncFacts DEF Incumbents
  <2>4. lb_numerical' \in Bounds
    BY SyncFacts
  <2>5. /\ inbox \subseteq Nat \X Nat
        /\ manager \in {"start", "registered", "complete", "stopped", "halted"}
    BY DEF HoldInv, SyncTypes
  <2> QED BY <1>1, <2>1, <2>2, <2>3, <2>4, <2>5, SetsStay DEF SyncTypes, Statuses
<1>6. ASSUME NEW w \in Bfs PROVE BfsInv(worker[w], ctx[w])'
  <2>1. w \in Threads /\ Point(ctx'[w]) = Point(ctx[w]) /\ ~Shutdown
    BY SyncFacts, ThreadFacts
  <2>2. BfsInv(worker[w], ctx[w])
    BY DEF HoldInv
  <2>3. Solving(ctx[w]) <=> Solving(ctx'[w])
    BY <2>1 DEF Solving
  <2>4. (late \/ Target > WorkLimit[tree]) /\ worker[w].current # NoNode => status' # "UNSET"
    <3>1. Target \in Nat /\ Step \in Nat /\ WorkLimit[tree] \in Nat
      <4>1. generation \in Nat /\ tree \in Trees
        BY DEF HoldInv, BarrierInv, NodeTypes
      <4> QED BY <4>1, HorizonAssumption DEF Target
    <3>2. Target > WorkLimit[tree] => Target + Step > WorkLimit[tree]
      BY <3>1
    <3> QED BY <3>2, SyncFacts, StatusFacts DEF HasWork
  <2>5. worker'[w].current # NoNode => Solving(ctx'[w]) \/ status' # "UNSET"
    BY <1>3, <2>1, <2>2, <2>3, <2>4 DEF BfsInv
  <2>6. Solving(ctx'[w]) => worker'[w].current # NoNode
    BY <1>3, <2>2, <2>3 DEF BfsInv
  <2> QED BY <2>5, <2>6 DEF BfsInv, Shutdown, Solving, Point, NoNode
<1>7. ASSUME NEW d \in Divers PROVE DiverInv(diver[d], ctx[d])'
  <2>1. Point(ctx'[d]) = Point(ctx[d]) /\ diver'[d].hand = diver[d].hand
    BY SyncFacts, ThreadFacts
  <2>2. DiverInv(diver[d], ctx[d])
    BY DEF HoldInv
  <2> QED BY <2>1, <2>2 DEF DiverInv, Point, NoNode
<1>8. CallbackInv'
  BY <1>1, SetsStay, SyncFacts DEF CallbackInv, Shutdown
<1>9. HeldInv'
  BY <1>2, <1>3, HeldPrime
<1>10. IdInv'
  BY <1>1, <1>2, <1>3, SetsStay DEF HoldInv, IdInv
<1>11. BarrierInv'
  <2>1. WorkIsCounted'
    BY <1>5, SetsStay DEF SyncTypes, ContextType, WorkIsCounted
  <2> QED BY <2>1, ReleaseBarrier DEF HoldInv
<1>12. TreeShape' /\ 1 \notin Pending'
  BY <1>1, <1>2, SetsStay DEF HoldInv, TreeShape, Known, OpenKids, Open
<1> QED BY <1>4, <1>5, <1>6, <1>7, <1>8, <1>9, <1>10, <1>11, <1>12, SetsStay DEF HoldInv

-----------------------------------------------------------------------------
(* The start.                                                              *)
LEMMA InitHold ==
  ASSUME Init PROVE HoldInv
<1>1. /\ tree \in Trees /\ {1, 2, 3} \subseteq Nodes /\ NodeType /\ TreeShape /\ Pending = {2, 3}
      /\ NoNode \notin Nodes /\ Infinity \in Bounds
  BY InitTree, TreeFacts, BoundFacts DEF Init, NoNode
<1>2. addr = [n \in Nodes |-> n] /\ addr \in [Nodes -> Nodes]
  BY DEF Init
<1>3. id \in [Nodes -> Int \X Int] /\ id[2] = <<-1, 0>> /\ id[3] = <<-1, 1>>
  <2>1. id = [n \in Nodes |-> IF n \in {2, 3} THEN <<-1, n - 2>> ELSE <<-2, 0>>]
    BY DEF Init
  <2>2. \A n \in Nodes : n \in Nat
    BY <1>1, TreeFacts
  <2>3. id[2] = <<-1, 0>> /\ id[3] = <<-1, 1>>
    BY <1>1, <2>1
  <2>4. \A n \in Nodes : (IF n \in {2, 3} THEN <<-1, n - 2>> ELSE <<-2, 0>>) \in Int \X Int
    BY <2>2
  <2> QED BY <2>1, <2>3, <2>4
<1>4. ASSUME NEW w \in Bfs
      PROVE  /\ worker[w] \in WorkerType /\ worker[w].current = NoNode /\ worker[w].backlog = {}
             /\ worker[w].seq = 0 /\ NoRepeats(worker[w].plunge)
             /\ Range(worker[w].plunge) = IF NumBfs = 1 THEN {2, 3}
                                          ELSE IF w = 0 THEN {2} ELSE IF w = 1 THEN {3} ELSE {}
             /\ worker[w].box = 1 /\ worker[w].last = NoNode /\ worker[w].ceiling = Infinity
  <2>1. PICK p : p = IF NumBfs = 1 THEN <<3, 2>>
                     ELSE CASE w = 0 -> <<2>> [] w = 1 -> <<3>> [] OTHER -> <<>>
    OBVIOUS
  <2>2. worker[w] = [plunge |-> p, backlog |-> {}, current |-> NoNode, last |-> NoNode, box |-> 1,
                     cutoff |-> Infinity, ceiling |-> Infinity, seq |-> 0]
    BY <2>1 DEF Init
  <2>3. p = IF NumBfs = 1 THEN <<3, 2>> ELSE IF w = 0 THEN <<2>> ELSE IF w = 1 THEN <<3>> ELSE <<>>
    BY <2>1
  <2>4. p \in Seq(Nodes) /\ NoRepeats(p)
        /\ Range(p) = IF NumBfs = 1 THEN {2, 3}
                      ELSE IF w = 0 THEN {2} ELSE IF w = 1 THEN {3} ELSE {}
    <3>1. CASE p = <<3, 2>> /\ NumBfs = 1
      <4>1. p \in Seq(Nodes) /\ Len(p) = 2 /\ p[1] = 3 /\ p[2] = 2
        BY <1>1, <3>1
      <4>2. NoRepeats(p)
        BY <4>1 DEF NoRepeats
      <4>3. \A x : x \in Range(p) <=> \E i \in 1..Len(p) : p[i] = x
        BY <4>1, RangeFacts
      <4>4. Range(p) = {2, 3}
        BY <4>1, <4>3
      <4> QED BY <3>1, <4>1, <4>2, <4>4
    <3>2. CASE NumBfs # 1 /\ w \in {0, 1}
      <4>1. PICK n \in {2, 3} : p = <<n>> /\ (w = 0 <=> n = 2)
        BY <2>3, <3>2
      <4>2. p \in Seq(Nodes) /\ Len(p) = 1 /\ p[1] = n
        BY <1>1, <4>1
      <4>3. NoRepeats(p)
        BY <4>2 DEF NoRepeats
      <4>4. \A x : x \in Range(p) <=> \E i \in 1..Len(p) : p[i] = x
        BY <4>2, RangeFacts
      <4>5. Range(p) = {n}
        BY <4>2, <4>4
      <4> QED BY <3>2, <4>1, <4>2, <4>3, <4>5
    <3>3. CASE NumBfs # 1 /\ w \notin {0, 1}
      <4>1. p = <<>>
        BY <2>3, <3>3
      <4>2. p \in Seq(Nodes) /\ Len(p) = 0
        BY <4>1
      <4>3. NoRepeats(p)
        BY <4>2 DEF NoRepeats
      <4>4. \A x : x \in Range(p) <=> \E i \in 1..Len(p) : p[i] = x
        BY <4>2, RangeFacts
      <4>5. Range(p) = {}
        BY <4>2, <4>4
      <4> QED BY <3>3, <4>2, <4>3, <4>5
    <3> QED BY <2>3, <3>1, <3>2, <3>3
  <2> QED BY <1>1, <2>2, <2>4, BoundFacts DEF WorkerType
<1>5. worker \in [Bfs -> WorkerType]
  <2>1. worker = [w \in Bfs |-> worker[w]]
    BY DEF Init
  <2> QED BY <1>4, <2>1
<1>6. diver \in [Divers -> DiverType] /\ \A d \in Divers : diver[d].hand = NoNode
  <2>1. diver = [d \in Divers |-> [queue |-> <<>>, hand |-> NoNode]]
    BY DEF Init
  <2>2. [queue |-> <<>>, hand |-> NoNode] \in DiverType
    BY DEF DiverType
  <2> QED BY <2>1, <2>2
<1>7. ctx \in [Threads -> ContextType] /\ \A t \in Threads : ctx[t].pc = "loop" /\ ctx[t].work = 0
  <2>1. PICK u : u = InitialUpper[tree]
    OBVIOUS
  <2>2. ctx = [t \in Threads |-> [pc |-> "loop", ret |-> "loop", work |-> 0, upper |-> u,
                                  found |-> {}]]
    BY <2>1 DEF Init
  <2>3. u \in Bounds
    BY <1>1, <2>1, HorizonAssumption
  <2>4. [pc |-> "loop", ret |-> "loop", work |-> 0, upper |-> u, found |-> {}] \in ContextType
    BY <2>3 DEF ContextType
  <2> QED BY <2>2, <2>4
<1>8. NodeTypes
  BY <1>1, <1>2, <1>3, <1>5, <1>6 DEF NodeTypes
<1>9. SyncTypes
  <2>1. incumbent \in Bounds \X Int \X Nat
    BY <1>1 DEF Init, NobodyYet
  <2> QED BY <1>1, <1>7, <2>1 DEF Init, SyncTypes
<1>10. \A w \in Bfs : BfsInv(worker[w], ctx[w])
  BY <1>4, <1>7, ThreadFacts DEF BfsInv, Solving, Point
<1>11. \A d \in Divers : DiverInv(diver[d], ctx[d])
  BY <1>7, ThreadFacts DEF DiverInv, Point
<1>12. CallbackInv
  BY <1>7 DEF Init, CallbackInv, Shutdown
<1>13. HeldInv
  <2>1. ASSUME NEW w \in Bfs
        PROVE  Tidy(worker[w]) /\ Held(worker[w]) = Range(worker[w].plunge)
    <3>1. NoNode \notin Range(worker[w].plunge)
      BY <1>1, <1>4 DEF NoNode
    <3> QED BY <1>4, <3>1 DEF Tidy, Held
  <2>2. NumBfs \in Nat \ {0} /\ Bfs = 0..(NumBfs - 1)
    BY ThreadFacts DEF Bfs
  <2>3. CASE NumBfs = 1
    <3>1. Bfs = {0}
      BY <2>2, <2>3
    <3>2. Held(worker[0]) = {2, 3}
      BY <1>4, <2>1, <2>3, <3>1
    <3> QED BY <1>1, <2>1, <3>1, <3>2 DEF HeldInv, HeldOnce
  <2>4. CASE NumBfs # 1
    <3>1. 0 \in Bfs /\ 1 \in Bfs
      BY <2>2, <2>4
    <3>2. \A w \in Bfs : Held(worker[w]) = IF w = 0 THEN {2} ELSE IF w = 1 THEN {3} ELSE {}
      BY <1>4, <2>1, <2>4
    <3>3. Pending = UNION {Held(worker[w]) : w \in Bfs}
      BY <1>1, <3>1, <3>2
    <3>4. \A v, w \in Bfs : v # w => Held(worker[v]) \cap Held(worker[w]) = {}
      BY <3>2
    <3> QED BY <2>1, <3>3, <3>4 DEF HeldInv, HeldOnce
  <2> QED BY <2>3, <2>4
<1>14. IdInv
  <2>1. \A m, n \in Pending : id[m] = id[n] => m = n
    BY <1>1, <1>3
  <2>2. \A n \in Pending : id[n][1] = -1
    BY <1>1, <1>3
  <2>3. \A w \in Bfs : w # -1
    BY ThreadFacts DEF Bfs
  <2> QED BY <2>1, <2>2, <2>3 DEF IdInv
<1>15. BarrierInv
  <2>1. generation \in Nat /\ Contexts
    BY DEF Init, Contexts, Fields
  <2>2. Target \in Nat /\ 0 < Target
    BY <2>1, HorizonEnd DEF Past
  <2> QED BY <1>7, <2>1, <2>2 DEF BarrierInv, NobodyOutrunsTheBarrier
<1> QED BY <1>1, <1>8, <1>9, <1>10, <1>11, <1>12, <1>13, <1>14, <1>15 DEF HoldInv

-----------------------------------------------------------------------------
(* Every step keeps HoldInv. *)
LEMMA NextHold ==
  ASSUME HoldInv, ProducerInv, [Next]_vars PROVE HoldInv'
  BY BfsHold, DivingHold, SyncHold, OthersHold DEF Next, CallbackStep

(* HoldInv and ProducerInv hold in every reachable state. *)
LEMMA HoldAlways == Spec => [](HoldInv /\ ProducerInv)
<1>1. Init => HoldInv /\ ProducerInv
  BY InitHold, InitProducer
<1>2. HoldInv /\ ProducerInv /\ [Next]_vars => HoldInv' /\ ProducerInv'
  BY NextHold, NextProducer
<1> QED BY <1>1, <1>2, PTL DEF Spec

(* Only BeginNode touches strayed, and it never unsets it. *)
LEMMA StrayedStays ==
  ASSUME [Next]_vars PROVE (strayed => strayed') /\ (strayed \in BOOLEAN => strayed' \in BOOLEAN)
<1>1. CASE \E w \in Bfs : BfsStep(w)
  <2>1. PICK w \in Bfs : BfsStep(w)
    BY <1>1
  <2>2. CASE BeginNode(w)
    <3>1. PICK good : strayed' = (strayed \/ ~good)
      BY <2>2, Zenon DEF BeginNode
    <3> QED BY <3>1, Zenon
  <2>3. CASE ~BeginNode(w)
    <3>1. strayed' = strayed
      BY <2>1, <2>3 DEF BfsStep, Fathom, PresolveCloses, OutOfTime, SolveLp, LpStopped, LpCloses,
         LpFails, LpIsInteger, LpBranches, Idle, Leave, endVars
    <3> QED BY <3>1, Zenon
  <2> QED BY <2>2, <2>3
<1>2. CASE \E d \in Divers : DivingStep(d)
  <2>1. strayed' = strayed
    BY <1>2 DEF DivingStep, SkipDive, Dive, DiveEnds, Idle, Leave, endVars
  <2> QED BY <2>1, Zenon
<1>3. CASE CallbackStep
  <2>1. strayed' = strayed
    BY <1>3 DEF CallbackStep, Barrier, CheckProducers, FallAsleep, SyncCallback, Finish,
       syncOthers, endVars
  <2> QED BY <2>1, Zenon
<1>4. CASE ProducerStep \/ ManagerStep \/ TimeOver \/ UNCHANGED vars
  <2>1. strayed' = strayed
    BY <1>4 DEF ProducerStep, QueueSolution, Advance, NotifyProgress, ManagerStep,
       RegisterProducer, RegistrationComplete, DeregisterProducer, HaltProducer, TimeOver,
       producerOthers, managerOthers, endVars, vars
  <2> QED BY <2>1, Zenon
<1> QED BY <1>1, <1>2, <1>3, <1>4 DEF Next

(* strayed is a Boolean. *)
LEMMA StrayedIsBoolean == Spec => [](strayed \in BOOLEAN)
<1>1. Init => strayed \in BOOLEAN
  BY Zenon DEF Init
<1>2. strayed \in BOOLEAN /\ [Next]_vars => (strayed \in BOOLEAN)'
  BY StrayedStays
<1> QED BY <1>1, <1>2, PTL DEF Spec

(* The search keeps to its types. *)
THEOREM HorizonTypeCorrect == Spec => []TypeOK
<1>1. HoldInv /\ ProducerInv /\ strayed \in BOOLEAN => TypeOK
  <2> SUFFICES ASSUME HoldInv, ProducerInv, strayed \in BOOLEAN PROVE TypeOK
    OBVIOUS
  <2>1. \A w \in Bfs :
          LET k == worker[w] IN
            /\ k.plunge \in Seq(Nodes) /\ k.backlog \subseteq Nodes
            /\ {k.current, k.last, k.box} \subseteq Nodes \cup {NoNode}
            /\ {k.cutoff, k.ceiling} \subseteq Bounds /\ k.seq \in Nat
    BY DEF HoldInv, NodeTypes, WorkerType
  <2>2. \A t \in Threads :
          /\ ctx[t].pc \in {"loop", "presolved", "solved", "dived", "sync", "done"}
          /\ ctx[t].upper \in Bounds /\ ctx[t].work \in Nat
    BY DEF HoldInv, SyncTypes, ContextType
  <2>3. producer.work \in 0..LastWork
    BY DEF ProducerInv, Stamps
  <2>4. Upper \in Bounds
    BY UpperFacts DEF HoldInv, NodeTypes, SyncTypes, Incumbents, Upper
  <2> QED BY <2>1, <2>2, <2>3, <2>4 DEF TypeOK, HoldInv, NodeTypes, SyncTypes
<1> QED BY <1>1, HoldAlways, StrayedIsBoolean, PTL

(* No thread goes on past the end of a horizon before the barrier of that  *)
(* horizon, even one that records the work of several horizons at once     *)
(* (work_unit_scheduler_t::on_work_recorded), until the scheduler shuts    *)
(* down.                                                                   *)
THEOREM BarrierHolds == Spec => []NobodyOutrunsTheBarrier
<1>1. HoldInv => NobodyOutrunsTheBarrier
  BY DEF HoldInv, BarrierInv
<1> QED BY <1>1, HoldAlways, PTL

(* Every node still to be solved is in exactly one queue or hand, however  *)
(* many workers there are and however often                                *)
(* deterministic_balance_worker_loads dealt out their backlogs.            *)
THEOREM HorizonHeldOnce == Spec => []EveryNodeHeldOnce
<1>1. HoldInv => EveryNodeHeldOnce
  <2> SUFFICES ASSUME HoldInv PROVE EveryNodeHeldOnce
    OBVIOUS
  <2>1. HeldOnce(Pending, worker)
    BY DEF HoldInv, HeldInv
  <2>2. ASSUME NEW w \in Bfs PROVE QueueSize(worker[w]) = Cardinality(Held(worker[w]))
    <3>1. PICK p, b, c : p = worker[w].plunge /\ b = worker[w].backlog /\ c = worker[w].current
      OBVIOUS
    <3>2. p \in Seq(Nodes) /\ NoRepeats(p) /\ Range(p) \cap b = {} /\ c \notin Range(p) \cup b
      BY <2>1, <3>1 DEF HoldInv, NodeTypes, WorkerType, HeldOnce, Tidy
    <3>3. IsFiniteSet(Range(p)) /\ Cardinality(Range(p)) = Len(p) /\ Len(p) \in Nat
      BY <3>2, CountNoRepeats, LenProperties
    <3>4. IsFiniteSet(b) /\ Cardinality(b) \in Nat
      <4>1. b \subseteq Backlogs
        BY <3>1 DEF Backlogs
      <4> QED BY <4>1, BacklogFacts, FS_Subset, FS_CardinalityType
    <3>5. IsFiniteSet(Range(p) \cup b) /\ Cardinality(Range(p) \cup b) = Len(p) + Cardinality(b)
      <4>1. PICK r : r = Range(p)
        OBVIOUS
      <4>2. r \cap b = {} /\ IsFiniteSet(r) /\ Cardinality(r) = Len(p) /\ Cardinality({}) = 0
        BY <3>2, <3>3, <4>1, FS_EmptySet
      <4>3. IsFiniteSet(r \cup b)
            /\ Cardinality(r \cup b) = Cardinality(r) + Cardinality(b) - Cardinality(r \cap b)
        BY <3>4, <4>2, FS_Union
      <4>4. Cardinality(r \cap b) = 0
        BY <4>2
      <4>5. Cardinality(r \cup b) = Len(p) + Cardinality(b)
        BY <3>3, <3>4, <4>2, <4>3, <4>4
      <4> QED BY <4>1, <4>3, <4>5
    <3>6. PICK S : S = Range(p) \cup b
      OBVIOUS
    <3>7. Held(worker[w]) = S \cup ({c} \ {NoNode})
      BY <3>1, <3>6 DEF Held
    <3>8. QueueSize(worker[w]) = Len(p) + Cardinality(b) + (IF c = NoNode THEN 0 ELSE 1)
      BY <3>1 DEF QueueSize
    <3>9. CASE c = NoNode
      <4>1. Held(worker[w]) = S
        BY <3>7, <3>9
      <4> QED BY <3>3, <3>4, <3>5, <3>6, <3>8, <3>9, <4>1
    <3>10. CASE c # NoNode
      <4>1. Held(worker[w]) = S \cup {c}
        BY <3>7, <3>10
      <4>2. Cardinality(S \cup {c}) = Cardinality(S) + 1
        BY <3>2, <3>5, <3>6, FS_AddElement
      <4> QED BY <3>3, <3>4, <3>5, <3>6, <3>8, <3>10, <4>1, <4>2
    <3> QED BY <3>9, <3>10
  <2> QED BY <2>1, <2>2 DEF EveryNodeHeldOnce, HeldOnce
<1> QED BY <1>1, HoldAlways, PTL

-----------------------------------------------------------------------------
(* Nothing is lost while no worker is led astray: a node in hand is solved *)
(* in its own box.                                                         *)
BoxInv(k) == k.current # NoNode => k.box = k.current

(* A worker's own upper bound is that of a solution that will be merged,   *)
(* and the cutoff its LP was given is no better.                           *)
UpperInv(c) == c.upper = Upper \/ \E s \in c.found : s[1] = c.upper
CutoffInv(k, c) == Solving(c) => c.upper <= k.cutoff
WorkerInv(k, c) == BoxInv(k) /\ UpperInv(c) /\ CutoffInv(k, c)

(* A bound that a solution, or the bound of a node the LP solver failed    *)
(* on, makes good.  Nodes are closed with such bounds only.                *)
Covered(b) ==
    \/ Upper <= b \/ lb_numerical <= b \/ (\E w \in Bfs : worker[w].ceiling <= b)
    \/ \E t \in Threads : \E s \in ctx[t].found : s[1] <= b
ClosedInv == \A p \in Nodes : node[p].status = "closed" => Covered(node[p].lb)

(* What is taken for a solution is no better than the best one. *)
PointsInv ==
    /\ Opt <= Upper /\ (\A t \in Threads : \A s \in ctx[t].found : Opt <= s[1])
    /\ \A s \in inbox : Opt <= s[2]

(* A status that is decided on is true. *)
StatusIsTrue ==
    lb_numerical = Infinity =>
        /\ status = "OPTIMAL" => Upper = Opt
        /\ status = "INFEASIBLE" => Opt = Infinity

(* The invariant of the bounds, inductive until a worker is led astray. *)
BoundInv ==
    /\ \A w \in Bfs : WorkerInv(worker[w], ctx[w])
    /\ Settled /\ ClosedInv /\ PointsInv /\ StatusIsTrue

(* The bounds are numbers. *)
LEMMA NumberFacts ==
  ASSUME HoldInv
  PROVE  /\ Opt \in Bounds /\ Opt \in Nat /\ Infinity \in Nat
         /\ Upper \in Bounds /\ Upper \in Nat /\ lb_numerical \in Bounds /\ lb_numerical \in Nat
         /\ (\A p \in Nodes : node[p].lb \in Bounds /\ node[p].lb \in Nat)
         /\ (\A w \in Bfs : worker[w].ceiling \in Bounds /\ worker[w].ceiling \in Nat
                            /\ worker[w].cutoff \in Nat)
         /\ (\A t \in Threads : ctx[t].upper \in Bounds /\ ctx[t].upper \in Nat)
         /\ (\A t \in Threads : \A s \in ctx[t].found : s[1] \in Bounds /\ s[1] \in Nat)
         /\ (\A s \in inbox : s[2] \in Nat)
<1>1. tree \in Trees /\ Bounds \subseteq Nat /\ Infinity \in Nat
  BY BoundFacts DEF HoldInv, NodeTypes
<1>2. Opt \in Bounds
  BY <1>1, OptFacts
<1>3. Upper \in Bounds /\ lb_numerical \in Bounds
  BY <1>1, UpperFacts DEF HoldInv, SyncTypes, Incumbents, Upper
<1>4. \A p \in Nodes : node[p].lb \in Bounds
  BY DEF HoldInv, NodeTypes, NodeType
<1>5. \A w \in Bfs : worker[w].ceiling \in Bounds /\ worker[w].cutoff \in Bounds
  BY DEF HoldInv, NodeTypes, WorkerType
<1>6. \A t \in Threads : ctx[t].upper \in Bounds /\ ctx[t].found \subseteq Solutions
  BY DEF HoldInv, SyncTypes, ContextType
<1>7. \A s \in Solutions : s[1] \in Bounds
  BY DEF Solutions
<1>8. \A s \in inbox : s[2] \in Nat
  BY DEF HoldInv, SyncTypes
<1> QED BY <1>1, <1>2, <1>3, <1>4, <1>5, <1>6, <1>7, <1>8

(* What the invariant says of the optimum. *)
LEMMA OptimumIsCovered ==
  ASSUME HoldInv, Settled, ClosedInv
  PROVE  \/ Opt = Infinity \/ Covered(Opt) \/ \E n \in Pending : node[n].lb <= Opt
<1>1. tree \in Trees
  BY DEF HoldInv, NodeTypes
<1>2. CASE \E l \in Leaves : Opt = tree[l].obj
  <2>1. PICK l \in Leaves : Opt = tree[l].obj
    BY <1>2
  <2>2. PICK p \in Nodes : node[p].status \in {"pending", "closed"} /\ node[p].lb <= tree[l].obj
    BY DEF Settled
  <2>3. CASE node[p].status = "pending"
    BY <2>1, <2>2, <2>3 DEF Pending
  <2>4. CASE node[p].status = "closed"
    <3>1. PICK b : b = node[p].lb
      OBVIOUS
    <3>2. Covered(b) /\ b <= Opt
      BY <2>1, <2>2, <2>4, <3>1 DEF ClosedInv
    <3>3. /\ b \in Nat /\ Opt \in Nat /\ Upper \in Nat /\ lb_numerical \in Nat
          /\ (\A w \in Bfs : worker[w].ceiling \in Nat)
          /\ \A t \in Threads : \A s \in ctx[t].found : s[1] \in Nat
      BY <1>1, <3>1, NumberFacts
    <3>4. Covered(Opt)
      BY <3>2, <3>3 DEF Covered
    <3> QED BY <3>4
  <2> QED BY <2>2, <2>3, <2>4
<1> QED BY <1>1, <1>2, OptFacts

(* The step of one best-first worker.  NewCover(k, c, b): the bound b is   *)
(* made good by what the worker, now k with thread state c, has.           *)
NewCover(k, c, b) == Upper <= b \/ k.ceiling <= b \/ \E s \in c.found : s[1] <= b

(* The step of one worker keeps BoundInv if the nodes it closes are         *)
(* covered.                                                                 *)
LEMMA BoundStep ==
  ASSUME HoldInv, BoundInv, NEW w \in Bfs, NEW k \in WorkerType, NEW c \in ContextType,
         worker' = [worker EXCEPT ![w] = k], ctx' = [ctx EXCEPT ![w] = c],
         UNCHANGED <<tree, incumbent, lb_numerical, status, inbox>>,
         BoxInv(k), UpperInv(c), CutoffInv(k, c), Settled', NodeType',
         k.ceiling <= worker[w].ceiling, ctx[w].found \subseteq c.found,
         \A s \in c.found : s \in ctx[w].found \/ Opt <= s[1],
         \A p \in Nodes : node'[p].status = "closed" =>
           \/ NewCover(k, c, node'[p].lb)
           \/ \E q \in Nodes : node[q].status = "closed" /\ node'[p].lb = node[q].lb
  PROVE  BoundInv'
<1>1. /\ worker'[w] = k /\ (\A v \in Bfs : v # w => worker'[v] = worker[v])
      /\ ctx'[w] = c /\ (\A t \in Threads : t # w => ctx'[t] = ctx[t]) /\ w \in Threads
  BY ThreadFacts DEF HoldInv, NodeTypes, SyncTypes
<1>2. Upper' = Upper /\ Opt' = Opt
  BY DEF Upper, UpperOf, Opt
<1>3. ASSUME NEW v \in Bfs PROVE WorkerInv(worker[v], ctx[v])'
  <2>1. WorkerInv(worker[v], ctx[v]) /\ v \in Threads
    BY ThreadFacts DEF BoundInv
  <2>2. \/ worker'[v] = k /\ ctx'[v] = c
        \/ worker'[v] = worker[v] /\ ctx'[v] = ctx[v]
    BY <1>1, <2>1
  <2>3. WorkerInv(k, c)
    BY DEF WorkerInv
  <2> QED BY <1>2, <2>1, <2>2, <2>3
          DEF WorkerInv, BoxInv, UpperInv, CutoffInv, Solving, Point, NoNode
<1>4. ASSUME NEW p \in Nodes, node'[p].status = "closed" PROVE Covered(node[p].lb)'
  <2>1. PICK b : b = node'[p].lb
    OBVIOUS
  <2>2. CASE NewCover(k, c, b)
    BY <1>1, <1>2, <2>1, <2>2, SetsStay DEF NewCover, Covered
  <2>3. CASE Covered(b)
    <3>1. \/ Upper <= b \/ lb_numerical <= b \/ (\E v \in Bfs : worker[v].ceiling <= b)
          \/ \E t \in Threads : \E s \in ctx[t].found : s[1] <= b
      BY <2>3 DEF Covered
    <3>2. CASE Upper <= b \/ lb_numerical <= b
      BY <1>2, <2>1, <3>2 DEF Covered
    <3>3. CASE \E v \in Bfs : worker[v].ceiling <= b
      <4>1. PICK v \in Bfs : worker[v].ceiling <= b
        BY <3>3
      <4>2. b \in Nat /\ worker[v].ceiling \in Nat /\ worker[w].ceiling \in Nat /\ k.ceiling \in Nat
        <5>1. b \in Bounds /\ k.ceiling \in Bounds
          BY <2>1, SetsStay DEF NodeType, WorkerType
        <5> QED BY <5>1, NumberFacts, BoundFacts
      <4>3. worker'[v].ceiling <= b
        <5>1. CASE v = w
          BY <1>1, <4>1, <4>2, <5>1
        <5>2. CASE v # w
          BY <1>1, <4>1, <5>2
        <5> QED BY <5>1, <5>2
      <4> QED BY <2>1, <4>3, SetsStay DEF Covered
    <3>4. CASE \E t \in Threads : \E s \in ctx[t].found : s[1] <= b
      <4>1. PICK t \in Threads : \E s \in ctx[t].found : s[1] <= b
        BY <3>4
      <4>2. ctx[t].found \subseteq ctx'[t].found
        BY <1>1
      <4> QED BY <2>1, <4>1, <4>2, SetsStay DEF Covered
    <3> QED BY <3>1, <3>2, <3>3, <3>4
  <2> QED BY <1>4, <2>1, <2>2, <2>3 DEF BoundInv, ClosedInv
<1>5. ClosedInv'
  BY <1>4, SetsStay DEF ClosedInv
<1>6. PointsInv'
  <2>1. PointsInv
    BY DEF BoundInv
  <2>2. \A t \in Threads : \A s \in ctx'[t].found : Opt <= s[1]
    BY <1>1, <2>1 DEF PointsInv
  <2> QED BY <1>2, <2>1, <2>2, SetsStay DEF PointsInv
<1>7. StatusIsTrue'
  BY <1>2 DEF BoundInv, StatusIsTrue
<1>8. Nodes' = Nodes
  BY SetsStay
<1> QED BY <1>3, <1>5, <1>6, <1>7, <1>8, SetsStay DEF BoundInv

(* A node is closed with a bound that admits every point below it. *)
LEMMA CloseBound ==
  ASSUME HoldInv, BoundInv, NEW w \in Bfs, NEW k \in WorkerType, NEW c \in ContextType,
         worker' = [worker EXCEPT ![w] = k], ctx' = [ctx EXCEPT ![w] = c],
         UNCHANGED <<tree, incumbent, lb_numerical, status, inbox>>,
         NEW n \in Pending, NEW b \in Bounds, node' = Closed(n, b),
         \A l \in Leaves : n \in Path(l) => b <= tree[l].obj,
         BoxInv(k), UpperInv(c), CutoffInv(k, c), k.ceiling <= worker[w].ceiling,
         ctx[w].found \subseteq c.found, \A s \in c.found : s \in ctx[w].found \/ Opt <= s[1],
         NewCover(k, c, b)
  PROVE  BoundInv'
<1>1. tree \in Trees /\ NodeType /\ TreeShape /\ Settled /\ n \in Nodes /\ node[n].status = "pending"
  BY DEF HoldInv, NodeTypes, BoundInv, Pending
<1>2. NodeType'
  BY <1>1, ClosedKeepsShape
<1>3. Settled'
  BY <1>1, ClosedSettles
<1>4. ASSUME NEW p \in Nodes, node'[p].status = "closed"
      PROVE  \/ NewCover(k, c, node'[p].lb)
             \/ \E q \in Nodes : node[q].status = "closed" /\ node'[p].lb = node[q].lb
  BY <1>1, <1>4, ClosedNodesBounds
<1> QED BY <1>2, <1>3, <1>4, BoundStep

(* The points below a node. *)
LEMMA PointsBelow ==
  ASSUME tree \in Trees, NEW n \in DOMAIN tree, NEW l \in Leaves, n \in Path(l)
  PROVE  tree[n].obj <= tree[l].obj /\ (n = l \/ tree[n].kind = "frac")
<1>1. l \in DOMAIN tree /\ tree[l].kind \in {"frac", "int", "numerical"} /\ tree[l].obj \in Nat
  BY TreeFacts DEF Leaves
<1>2. CASE n = l
  BY <1>1, <1>2
<1>3. CASE n \in Ancestors(l)
  BY <1>1, <1>3, PathIsFractional
<1> QED BY <1>2, <1>3 DEF Path

(* A bound no better than the worker's own upper bound is made good. *)
LEMMA UpperCovers ==
  ASSUME NEW c, UpperInv(c), NEW k, NEW b, c.upper <= b
  PROVE  NewCover(k, c, b)
  BY DEF UpperInv, NewCover

(* A node fathomed has a bound the worker's upper bound covers. *)
LEMMA FathomBound ==
  ASSUME HoldInv, BoundInv, NEW w \in Bfs, Fathom(w) PROVE BoundInv'
<1>1. At(w, "loop") /\ ~Shutdown /\ HasWork(worker[w])
  BY DEF Fathom
<1>2. PICK k, n : k = Dequeue(worker[w]) /\ n = k.current
  OBVIOUS
<1> DEFINE j == [k EXCEPT !.current = NoNode]
<1>3. /\ node' = Closed(n, node[n].lb) /\ worker' = [worker EXCEPT ![w] = j]
      /\ UNCHANGED <<tree, ctx, incumbent, lb_numerical, status, inbox>>
      /\ node[n].lb > ctx[w].upper
  BY <1>2 DEF Fathom, syncVars, envVars
<1>4. /\ k \in WorkerType /\ worker[w].current = NoNode /\ n \in Pending /\ tree \in Trees
      /\ n \in Nodes /\ node[n].status = "pending"
      /\ ctx[w] \in ContextType /\ node[n].lb \in Bounds /\ DOMAIN ctx = Threads
      /\ k.last = worker[w].last /\ k.box = worker[w].box /\ k.cutoff = worker[w].cutoff
      /\ k.ceiling = worker[w].ceiling
  BY <1>1, <1>2, TakeFacts
<1>5. /\ j \in WorkerType /\ j.current = NoNode /\ j.last = worker[w].last /\ j.box = worker[w].box
      /\ j.cutoff = worker[w].cutoff /\ j.ceiling = worker[w].ceiling
  BY <1>4 DEF WorkerType
<1> HIDE DEF j
<1>6. WorkerInv(worker[w], ctx[w]) /\ Settled
  BY DEF BoundInv
<1>7. BoxInv(j) /\ UpperInv(ctx[w]) /\ CutoffInv(j, ctx[w])
  BY <1>4, <1>5, <1>6 DEF WorkerInv, BoxInv, CutoffInv
<1>8. ctx[w].upper <= node[n].lb /\ j.ceiling <= worker[w].ceiling
  <2>1. w \in Threads
    BY ThreadFacts
  <2> QED BY <1>3, <1>4, <1>5, <2>1, NumberFacts
<1>9. NewCover(j, ctx[w], node[n].lb)
  BY <1>7, <1>8, UpperCovers
<1>10. \A l \in Leaves : n \in Path(l) => node[n].lb <= tree[l].obj
  BY <1>4, <1>6, PendingAdmits DEF HoldInv
<1>11. ctx' = [ctx EXCEPT ![w] = ctx[w]]
  BY <1>3, <1>4 DEF HoldInv, SyncTypes
<1> QED BY <1>3, <1>4, <1>5, <1>7, <1>8, <1>9, <1>10, <1>11, CloseBound

(* The node in hand is solved in its own box. *)
LEMMA BeginNodeBound ==
  ASSUME HoldInv, BoundInv, NEW w \in Bfs, BeginNode(w), ~strayed' PROVE BoundInv'
<1>1. At(w, "loop") /\ ~Shutdown /\ HasWork(worker[w])
  BY DEF BeginNode
<1>2. PICK k, n : k = Dequeue(worker[w]) /\ n = k.current
  OBVIOUS
<1>3. PICK good, box, c :
        /\ worker' = [worker EXCEPT ![w] = [k EXCEPT !.box = box, !.cutoff = ctx[w].upper]]
        /\ c = Recorded(ctx[w], tree[n].pre, "presolved") /\ ctx' = [ctx EXCEPT ![w] = c]
        /\ UNCHANGED <<tree, node, incumbent, lb_numerical, status, inbox>>
        /\ good = (~IsChild(w, n) \/ k.box \in {Parent(n), n})
        /\ box = IF good THEN n ELSE NoNode
        /\ strayed' = (strayed \/ ~good)
  BY <1>2 DEF BeginNode, treeVars, syncVars, envVars
<1>4. /\ k \in WorkerType /\ worker[w].current = NoNode /\ n \in Pending /\ tree \in Trees
      /\ n \in Nodes /\ node[n].status = "pending" /\ n # NoNode /\ n \in DOMAIN tree
      /\ ctx[w] \in ContextType /\ k.last = worker[w].last /\ k.box = worker[w].box
      /\ k.ceiling = worker[w].ceiling
  BY <1>1, <1>2, TakeFacts
<1>5. WorkerInv(worker[w], ctx[w]) /\ Settled /\ ClosedInv
  BY DEF BoundInv
<1>6. box = n
  BY <1>3
<1>7. /\ c \in ContextType /\ Point(c) = "presolved" /\ c.upper = ctx[w].upper
      /\ c.found = ctx[w].found
  BY <1>3, <1>4, NodeFacts, RecordedFacts
<1> DEFINE j == [k EXCEPT !.box = box, !.cutoff = ctx[w].upper]
<1>8. /\ j \in WorkerType /\ j.current = n /\ j.box = n /\ j.cutoff = ctx[w].upper
      /\ j.ceiling = worker[w].ceiling
  BY <1>2, <1>3, <1>4, <1>6 DEF WorkerType, ContextType
<1> HIDE DEF j
<1>9. worker' = [worker EXCEPT ![w] = j]
  BY <1>3 DEF j
<1>10. BoxInv(j) /\ UpperInv(c) /\ CutoffInv(j, c) /\ j.ceiling <= worker[w].ceiling
  <2>1. w \in Threads
    BY ThreadFacts
  <2>2. ctx[w].upper \in Nat /\ worker[w].ceiling \in Nat
    BY <2>1, NumberFacts
  <2> QED BY <1>4, <1>5, <1>7, <1>8, <2>2 DEF BoxInv, WorkerInv, UpperInv, CutoffInv
<1>11. Settled' /\ NodeType'
  BY <1>3, <1>5, SetsStay DEF HoldInv, NodeTypes, NodeType, Settled, Leaves, Path
<1>12. ASSUME NEW p \in Nodes, node'[p].status = "closed"
       PROVE  \E q \in Nodes : node[q].status = "closed" /\ node'[p].lb = node[q].lb
  BY <1>3, <1>12
<1> QED BY <1>3, <1>7, <1>8, <1>9, <1>10, <1>11, <1>12, BoundStep

(* A worker that leaves the tree as it is. *)
LEMMA StayBound ==
  ASSUME HoldInv, BoundInv, NEW w \in Bfs, NEW c \in ContextType, ctx' = [ctx EXCEPT ![w] = c],
         UNCHANGED <<tree, node, worker, incumbent, lb_numerical, status, inbox>>,
         c.upper = ctx[w].upper, c.found = ctx[w].found, Solving(c) => Solving(ctx[w])
  PROVE  BoundInv'
<1>1. WorkerInv(worker[w], ctx[w]) /\ Settled
  BY DEF BoundInv
<1>2. worker[w] \in WorkerType /\ worker' = [worker EXCEPT ![w] = worker[w]]
  BY DEF HoldInv, NodeTypes
<1>3. /\ BoxInv(worker[w]) /\ UpperInv(c) /\ CutoffInv(worker[w], c)
      /\ worker[w].ceiling <= worker[w].ceiling
  BY <1>1, NumberFacts DEF WorkerInv, UpperInv, CutoffInv
<1>4. Settled' /\ NodeType'
  BY <1>1, SetsStay DEF HoldInv, NodeTypes, NodeType, Settled, Leaves, Path
<1>5. ASSUME NEW p \in Nodes, node'[p].status = "closed"
      PROVE  \E q \in Nodes : node[q].status = "closed" /\ node'[p].lb = node[q].lb
  BY <1>5
<1> QED BY <1>2, <1>3, <1>4, <1>5, BoundStep

(* Steps of a worker that close no node keep BoundInv. *)
LEMMA WaitingBound ==
  ASSUME HoldInv, BoundInv, NEW w \in Bfs,
         OutOfTime(w) \/ SolveLp(w) \/ LpStopped(w) \/ Idle(w) \/ Leave(w)
  PROVE  BoundInv'
<1>1. UNCHANGED <<tree, node, worker, incumbent, lb_numerical, status, inbox>>
  BY DEF OutOfTime, SolveLp, LpStopped, Idle, Leave, treeVars, syncVars, envVars
<1>2. ctx[w] \in ContextType /\ generation \in Nat
  BY ThreadFacts DEF HoldInv, SyncTypes, BarrierInv
<1>3. CASE SolveLp(w)
  <2>1. PICK n, c : n = worker[w].current /\ c = Recorded(ctx[w], tree[n].lp, "solved")
    OBVIOUS
  <2>2. ctx' = [ctx EXCEPT ![w] = c] /\ ctx[w].pc = "presolved"
    BY <1>3, <2>1 DEF SolveLp, Lp, Node, At
  <2>3. n \in DOMAIN tree /\ tree \in Trees
    BY <2>1, <2>2, HandFacts
  <2>4. c \in ContextType /\ c.upper = ctx[w].upper /\ c.found = ctx[w].found
    <3>1. tree[n].lp \in Nat
      BY <2>3, NodeFacts
    <3> QED BY <1>2, <2>1, <3>1, RecordedFacts
  <2>5. Solving(ctx[w])
    BY <2>2 DEF Solving, Point
  <2> QED BY <1>1, <2>2, <2>4, <2>5, StayBound
<1>4. CASE OutOfTime(w) \/ LpStopped(w) \/ Idle(w)
  <2>1. PICK c : c = NextSync(ctx[w])
    OBVIOUS
  <2>2. ctx' = [ctx EXCEPT ![w] = c]
    BY <1>4, <2>1 DEF OutOfTime, LpStopped, Idle
  <2>3. c \in ContextType /\ Point(c) = "loop" /\ c.upper = ctx[w].upper /\ c.found = ctx[w].found
    BY <1>2, <2>1, NextSyncFacts
  <2>4. ~Solving(c)
    BY <2>3 DEF Solving
  <2> QED BY <1>1, <2>2, <2>3, <2>4, StayBound
<1>5. CASE Leave(w)
  <2>1. PICK c : c = [ctx[w] EXCEPT !.pc = "done"]
    OBVIOUS
  <2>2. ctx' = [ctx EXCEPT ![w] = c]
    BY <1>5, <2>1 DEF Leave
  <2>3. /\ c \in ContextType /\ c.pc = "done" /\ c.upper = ctx[w].upper
        /\ c.found = ctx[w].found
    BY <1>2, <2>1 DEF ContextType
  <2>4. ~Solving(c)
    BY <2>3 DEF Solving, Point
  <2> QED BY <1>1, <2>2, <2>3, <2>4, StayBound
<1> QED BY <1>3, <1>4, <1>5

(* What closing the node in hand leaves to the worker. *)
LEMMA HandBound ==
  ASSUME HoldInv, BoundInv, NEW w \in Bfs, ctx[w].pc \in {"presolved", "solved"},
         NEW n, n = worker[w].current, NEW k, k.last = addr[n], k.box = worker[w].box,
         k.current = NoNode
  PROVE  /\ BoxInv(k) /\ worker[w].box = n /\ UpperInv(ctx[w]) /\ ctx[w].upper <= worker[w].cutoff
         /\ Settled
<1>1. n # NoNode /\ n \in Nodes
  BY HandFacts
<1>2. WorkerInv(worker[w], ctx[w]) /\ Settled
  BY DEF BoundInv
<1>3. Solving(ctx[w])
  BY DEF Solving, Point
<1>4. worker[w].box = n /\ UpperInv(ctx[w]) /\ ctx[w].upper <= worker[w].cutoff
  BY <1>1, <1>2, <1>3 DEF WorkerInv, BoxInv, CutoffInv
<1> QED BY <1>1, <1>2, <1>4 DEF BoxInv

(* A thread that has left its node. *)
LEMMA LoopContext ==
  ASSUME NEW c \in ContextType, NEW d, d = [c EXCEPT !.pc = "loop"]
  PROVE  /\ d \in ContextType /\ d.pc = "loop" /\ ~Solving(d) /\ d.upper = c.upper
         /\ d.found = c.found
  BY DEF ContextType, Solving, Point

(* A node closed by presolve or by its LP is closed at the cutoff, which is *)
(* covered.                                                                 *)
LEMMA ClosingBound ==
  ASSUME HoldInv, BoundInv, NEW w \in Bfs, PresolveCloses(w) \/ LpCloses(w) PROVE BoundInv'
<1>1. /\ ctx[w].pc \in {"presolved", "solved"}
      /\ UNCHANGED <<tree, incumbent, lb_numerical, status, inbox>>
      /\ ctx' = [ctx EXCEPT ![w] = [ctx[w] EXCEPT !.pc = "loop"]]
  BY DEF PresolveCloses, LpCloses, At, syncVars, envVars
<1>2. PICK n, c : n = worker[w].current /\ c = [ctx[w] EXCEPT !.pc = "loop"]
  OBVIOUS
<1>3. /\ ctx[w] \in ContextType /\ tree[n].obj \in Bounds /\ n \in DOMAIN tree /\ tree \in Trees
      /\ n \in Pending /\ n # NoNode
  BY <1>1, <1>2, HandFacts
<1>4. PICK b \in Bounds :
        /\ CloseNode(w, b)
        /\ \/ b = Infinity /\ (tree[n].kind \in {"conflict", "infeasible"} \/ worker[w].box = NoNode)
           \/ b = ctx[w].upper /\ tree[n].obj > worker[w].cutoff
           \/ b = tree[n].obj /\ tree[n].obj > ctx[w].upper
  BY <1>2, <1>3, BoundFacts DEF PresolveCloses, LpCloses, CutOff, Lp, Node, ContextType
<1>5. c \in ContextType /\ ~Solving(c) /\ c.upper = ctx[w].upper /\ c.found = ctx[w].found
  BY <1>2, <1>3, LoopContext
<1>6. PICK k \in WorkerType :
        /\ node' = Closed(n, b) /\ worker' = [worker EXCEPT ![w] = k]
        /\ k.current = NoNode /\ k.last = addr[n] /\ k.box = worker[w].box
        /\ k.cutoff = worker[w].cutoff /\ k.ceiling = worker[w].ceiling
  BY <1>1, <1>2, <1>4, CloseNodeFacts
<1>7. BoxInv(k) /\ worker[w].box = n /\ UpperInv(ctx[w]) /\ ctx[w].upper <= worker[w].cutoff
  BY <1>1, <1>2, <1>6, HandBound
<1>8. /\ Infinity \in Nat /\ Upper \in Bounds /\ ctx[w].upper \in Nat /\ worker[w].cutoff \in Nat
      /\ worker[w].ceiling \in Nat /\ tree[n].obj \in Nat /\ b \in Nat
  BY <1>3, NumberFacts, BoundFacts, ThreadFacts
<1>9. UpperInv(c) /\ CutoffInv(k, c) /\ k.ceiling <= worker[w].ceiling
  BY <1>5, <1>6, <1>7, <1>8 DEF UpperInv, CutoffInv
<1>10. NewCover(k, c, b)
  <2>1. CASE b = Infinity
    BY <1>8, <2>1 DEF NewCover, Bounds
  <2>2. CASE b # Infinity
    <3>1. c.upper <= b
      BY <1>4, <1>5, <1>8, <2>2
    <3> QED BY <1>9, <3>1, UpperCovers
  <2> QED BY <2>1, <2>2
<1>11. ASSUME NEW l \in Leaves, n \in Path(l) PROVE b <= tree[l].obj
  <2>1. tree[n].obj <= tree[l].obj /\ (n = l \/ tree[n].kind = "frac")
    BY <1>3, <1>11, PointsBelow
  <2>2. tree[l].kind \in {"int", "numerical"} /\ tree[l].obj \in Nat
    BY <1>3, TreeFacts DEF Leaves
  <2>3. tree[n].kind \notin {"conflict", "infeasible"}
    BY <2>1, <2>2
  <2> QED BY <1>3, <1>4, <1>7, <1>8, <2>1, <2>2, <2>3
<1>12. ctx[w].found \subseteq c.found /\ (\A s \in c.found : s \in ctx[w].found)
  BY <1>5
<1>13. ctx' = [ctx EXCEPT ![w] = c]
  BY <1>1, <1>2
<1> QED BY <1>1, <1>3, <1>5, <1>6, <1>7, <1>9, <1>10, <1>11, <1>12, <1>13, CloseBound

(* A node whose LP fails is covered by the worker's ceiling. *)
LEMMA LpFailsBound ==
  ASSUME HoldInv, BoundInv, NEW w \in Bfs, LpFails(w) PROVE BoundInv'
<1>1. /\ ctx[w].pc \in {"presolved", "solved"}
      /\ UNCHANGED <<tree, incumbent, lb_numerical, status, inbox>>
      /\ ctx' = [ctx EXCEPT ![w] = [ctx[w] EXCEPT !.pc = "loop"]]
  BY DEF LpFails, At, syncVars, envVars
<1>2. PICK n, c : n = worker[w].current /\ c = [ctx[w] EXCEPT !.pc = "loop"]
  OBVIOUS
<1>3. /\ ctx[w] \in ContextType /\ n \in Nodes /\ node[n].status = "pending" /\ tree \in Trees
      /\ n \in Pending /\ node[n].lb \in Bounds
  BY <1>1, <1>2, HandFacts
<1>4. PICK b \in Bounds : b = node[n].lb
  BY <1>3
<1>5. c \in ContextType /\ ~Solving(c) /\ c.upper = ctx[w].upper /\ c.found = ctx[w].found
  BY <1>2, <1>3, LoopContext
<1>6. PICK k \in WorkerType :
        /\ node' = Closed(n, b) /\ worker' = [worker EXCEPT ![w] = k]
        /\ k.current = NoNode /\ k.last = addr[n] /\ k.box = worker[w].box
        /\ k.ceiling <= b /\ k.ceiling <= worker[w].ceiling
  BY <1>2, <1>4, LpFailsFacts
<1>7. BoxInv(k) /\ UpperInv(ctx[w]) /\ Settled
  BY <1>1, <1>2, <1>6, HandBound
<1>8. UpperInv(c) /\ CutoffInv(k, c) /\ NewCover(k, c, b)
  BY <1>5, <1>6, <1>7 DEF UpperInv, CutoffInv, NewCover
<1>9. \A l \in Leaves : n \in Path(l) => b <= tree[l].obj
  BY <1>3, <1>4, <1>7, PendingAdmits DEF HoldInv
<1>10. ctx[w].found \subseteq c.found /\ (\A s \in c.found : s \in ctx[w].found)
  BY <1>5
<1>11. ctx' = [ctx EXCEPT ![w] = c]
  BY <1>1, <1>2
<1>12. n \in Pending /\ b \in Bounds /\ c \in ContextType
  BY <1>3, <1>4, <1>5
<1> QED BY <1>1, <1>6, <1>7, <1>8, <1>9, <1>10, <1>11, <1>12, CloseBound

(* A node whose LP solution is integral is covered by that solution, or by  *)
(* a better one.                                                            *)
LEMMA LpIsIntegerBound ==
  ASSUME HoldInv, BoundInv, NEW w \in Bfs, LpIsInteger(w) PROVE BoundInv'
<1>1. /\ ctx[w].pc \in {"presolved", "solved"}
      /\ UNCHANGED <<tree, incumbent, lb_numerical, status, inbox>>
  BY DEF LpIsInteger, At, syncVars, envVars
<1>2. PICK n, v : n = worker[w].current /\ v = tree[n].obj
  OBVIOUS
<1>3. /\ ctx[w] \in ContextType /\ v \in Bounds /\ v \in Nat /\ n \in Nodes /\ w \in Threads
      /\ n \in Pending /\ n \in DOMAIN tree /\ tree \in Trees
  BY <1>1, <1>2, HandFacts, ThreadFacts, BoundFacts
<1>4. CloseNode(w, v) /\ tree[n].kind = "int"
  BY <1>2 DEF LpIsInteger, Lp, Node
<1>5. PICK d, c : d = WithSolution(ctx[w], w, v, n) /\ c = [d EXCEPT !.pc = "loop"]
  OBVIOUS
<1>6. /\ d \in ContextType
      /\ v < ctx[w].upper => d.upper = v /\ d.found = ctx[w].found \cup {<<v, w, n>>}
      /\ ~(v < ctx[w].upper) => d.upper = ctx[w].upper /\ d.found = ctx[w].found
  BY <1>3, <1>5, WithSolutionFacts
<1>7. c \in ContextType /\ ~Solving(c) /\ c.upper = d.upper /\ c.found = d.found
  BY <1>5, <1>6, LoopContext
<1>8. ctx' = [ctx EXCEPT ![w] = c]
  BY <1>2, <1>5 DEF LpIsInteger, Lp, Node
<1>9. PICK k \in WorkerType :
        /\ node' = Closed(n, v) /\ worker' = [worker EXCEPT ![w] = k]
        /\ k.current = NoNode /\ k.last = addr[n] /\ k.box = worker[w].box
        /\ k.ceiling = worker[w].ceiling
  BY <1>1, <1>2, <1>4, CloseNodeFacts
<1>10. BoxInv(k) /\ UpperInv(ctx[w])
  BY <1>1, <1>2, <1>9, HandBound
<1>11. ctx[w].upper \in Nat /\ worker[w].ceiling \in Nat /\ k.ceiling <= worker[w].ceiling
  BY <1>3, <1>9, NumberFacts
<1>12. ctx[w].found \subseteq c.found /\ (\A s \in c.found : s \in ctx[w].found \/ s[1] = v)
  BY <1>6, <1>7
<1>13. UpperInv(c) /\ c.upper <= v
  <2>1. CASE v < ctx[w].upper
    <3>1. <<v, w, n>> \in c.found /\ c.upper = v
      BY <1>6, <1>7, <2>1
    <3> QED BY <1>3, <3>1 DEF UpperInv
  <2>2. CASE ~(v < ctx[w].upper)
    BY <1>3, <1>6, <1>7, <1>10, <1>11, <2>2 DEF UpperInv
  <2> QED BY <2>1, <2>2
<1>14. CutoffInv(k, c) /\ NewCover(k, c, v)
  BY <1>7, <1>13, UpperCovers DEF CutoffInv
<1>15. ASSUME NEW l \in Leaves, n \in Path(l) PROVE v <= tree[l].obj
  BY <1>2, <1>3, <1>15, PointsBelow
<1>16. \A s \in c.found : s \in ctx[w].found \/ Opt <= s[1]
  <2>1. Opt <= v
    BY <1>2, <1>3, <1>4, OptFacts DEF Leaves
  <2> QED BY <1>12, <2>1
<1> QED BY <1>1, <1>3, <1>7, <1>8, <1>9, <1>10, <1>11, <1>12, <1>13, <1>14, <1>15, <1>16, CloseBound

(* Branching closes no node. *)
LEMMA LpBranchesBound ==
  ASSUME HoldInv, BoundInv, NEW w \in Bfs, LpBranches(w) PROVE BoundInv'
<1>1. /\ ctx[w].pc \in {"presolved", "solved"}
      /\ UNCHANGED <<tree, incumbent, lb_numerical, status, inbox>>
      /\ ctx' = [ctx EXCEPT ![w] = [ctx[w] EXCEPT !.pc = "loop"]]
  BY DEF LpBranches, At, syncVars, envVars
<1>2. PICK n, c : n = worker[w].current /\ c = [ctx[w] EXCEPT !.pc = "loop"]
  OBVIOUS
<1>3. /\ ctx[w] \in ContextType /\ n \in Nodes /\ node[n].status = "pending" /\ tree \in Trees
      /\ NodeType /\ TreeShape /\ NoNode \notin Nodes
  BY <1>1, <1>2, HandFacts DEF HoldInv, NodeTypes
<1>4. tree[n].kind = "frac" /\ node' = Branched(n, tree[n].obj)
  BY <1>2, LpBranchesFacts
<1>5. c \in ContextType /\ ~Solving(c) /\ c.upper = ctx[w].upper /\ c.found = ctx[w].found
  BY <1>2, <1>3, LoopContext
<1>6. PICK k \in WorkerType : /\ worker' = [worker EXCEPT ![w] = k] /\ k.last = addr[n]
                              /\ Enqueued(k, worker[w], n)
  BY <1>2, EnqueuedFacts
<1>7. k.current = NoNode /\ k.box = worker[w].box /\ k.ceiling = worker[w].ceiling
  BY <1>6 DEF Enqueued
<1>8. BoxInv(k) /\ UpperInv(ctx[w]) /\ Settled
  BY <1>1, <1>2, <1>6, <1>7, HandBound
<1>9. UpperInv(c) /\ CutoffInv(k, c) /\ k.ceiling <= worker[w].ceiling
  BY <1>5, <1>7, <1>8, NumberFacts DEF UpperInv, CutoffInv
<1>10. Settled'
  BY <1>1, <1>3, <1>4, <1>8, BranchedSettles
<1>11. /\ NodeType' /\ (\A p \in Nodes : p \notin {n, 2 * n, 2 * n + 1} => node'[p] = node[p])
       /\ node'[n].status = "branched" /\ node'[2 * n].status = "pending"
       /\ node'[2 * n + 1].status = "pending"
  <2>1. /\ NodeType' /\ (\A p \in Nodes : p \notin {n, 2 * n, 2 * n + 1} => node'[p] = node[p])
        /\ node'[n].status = "branched"
        /\ \A a \in {2 * n, 2 * n + 1} :
             node'[a] = [status |-> "pending", lb |-> tree[n].obj, kids |-> 0]
    BY <1>1, <1>3, <1>4, BranchedKeepsShape
  <2> QED BY <2>1
<1>12. ASSUME NEW p \in Nodes, node'[p].status = "closed"
       PROVE  \E q \in Nodes : node[q].status = "closed" /\ node'[p].lb = node[q].lb
  BY <1>11, <1>12
<1>13. ctx[w].found \subseteq c.found /\ (\A s \in c.found : s \in ctx[w].found)
  BY <1>5
<1>14. ctx' = [ctx EXCEPT ![w] = c]
  BY <1>1, <1>2
<1> QED BY <1>1, <1>4, <1>5, <1>6, <1>8, <1>9, <1>10, <1>11, <1>12, <1>13, <1>14, BoundStep

(* Every step of a best-first worker that is not led astray keeps BoundInv. *)
LEMMA BfsBound ==
  ASSUME HoldInv, BoundInv, NEW w \in Bfs, BfsStep(w), ~strayed' PROVE BoundInv'
  BY FathomBound, BeginNodeBound, WaitingBound, ClosingBound, LpFailsBound, LpIsIntegerBound,
     LpBranchesBound DEF BfsStep

(* A solution that a tree attains is no better than its best point. *)
LEMMA AttainedFacts ==
  ASSUME tree \in Trees, NEW v \in Nat, Attained(tree, v)
  PROVE  Opt <= v
<1>1. Opt \in Nat /\ Opt <= Infinity /\ Infinity \in Nat
  BY OptFacts, BoundFacts DEF Bounds
<1>2. CASE v >= Infinity
  BY <1>1, <1>2
<1>3. CASE \E l \in DOMAIN tree : tree[l].kind \in {"int", "numerical"} /\ tree[l].obj <= v
  <2>1. PICK l \in Leaves : tree[l].obj <= v
    BY <1>3 DEF Leaves
  <2>2. Opt <= tree[l].obj /\ tree[l].obj \in Nat
    BY OptFacts
  <2> QED BY <1>1, <2>1, <2>2
<1> QED BY <1>2, <1>3 DEF Attained

(* A step that changes what one diver has found, or nothing. *)
LEMMA DiverBound ==
  ASSUME HoldInv, BoundInv, NEW d \in Divers, NEW c \in ContextType, ctx' = [ctx EXCEPT ![d] = c],
         UNCHANGED <<tree, node, worker, incumbent, lb_numerical, status, inbox>>,
         ctx[d].found \subseteq c.found, \A s \in c.found : s \in ctx[d].found \/ Opt <= s[1]
  PROVE  BoundInv'
<1>1. /\ ctx'[d] = c /\ (\A t \in Threads : t # d => ctx'[t] = ctx[t]) /\ d \in Threads
      /\ \A w \in Bfs : w \in Threads /\ w # d
  BY ThreadFacts DEF HoldInv, SyncTypes
<1>2. Upper' = Upper /\ Opt' = Opt
  BY DEF Upper, UpperOf, Opt
<1>3. ASSUME NEW w \in Bfs PROVE WorkerInv(worker[w], ctx[w])'
  <2>1. WorkerInv(worker[w], ctx[w]) /\ ctx'[w] = ctx[w] /\ worker'[w] = worker[w]
    BY <1>1 DEF BoundInv
  <2> QED BY <1>2, <2>1 DEF WorkerInv, BoxInv, UpperInv, CutoffInv, Solving, Point, NoNode
<1>4. \A t \in Threads : ctx[t].found \subseteq ctx'[t].found
  BY <1>1
<1>5. \A b : Covered(b) => Covered(b)'
  BY <1>2, <1>4, SetsStay DEF Covered
<1>6. ClosedInv'
  BY <1>5, SetsStay DEF BoundInv, ClosedInv
<1>7. PointsInv'
  <2>1. PointsInv
    BY DEF BoundInv
  <2>2. \A t \in Threads : \A s \in ctx'[t].found : Opt <= s[1]
    BY <1>1, <2>1 DEF PointsInv
  <2> QED BY <1>2, <2>1, <2>2, SetsStay DEF PointsInv
<1>8. StatusIsTrue'
  BY <1>2 DEF BoundInv, StatusIsTrue
<1>9. Settled'
  BY SetsStay DEF BoundInv, Settled, Leaves, Path
<1> QED BY <1>3, <1>6, <1>7, <1>8, <1>9, SetsStay DEF BoundInv

(* Every step of a diving worker keeps BoundInv: a dive finds solutions of  *)
(* the tree.                                                                *)
LEMMA DivingBound ==
  ASSUME HoldInv, BoundInv, NEW d \in Divers, DivingStep(d) PROVE BoundInv'
<1>1. /\ UNCHANGED <<tree, node, worker, incumbent, lb_numerical, status, inbox>>
      /\ d \in Threads /\ ctx[d] \in ContextType /\ generation \in Nat /\ tree \in Trees
      /\ diver[d] \in DiverType /\ ctx \in [Threads -> ContextType]
  BY ThreadFacts DEF HoldInv, SyncTypes, NodeTypes, BarrierInv, DivingStep, SkipDive, Dive, DiveEnds,
     Idle, Leave, treeVars, syncVars, envVars
<1>2. ASSUME NEW c \in ContextType, ctx' = [ctx EXCEPT ![d] = c], c.found = ctx[d].found
      PROVE  BoundInv'
  <2>1. ctx[d].found \subseteq c.found /\ \A s \in c.found : s \in ctx[d].found
    BY <1>2
  <2> QED BY <1>1, <1>2, <2>1, DiverBound
<1>3. CASE SkipDive(d)
  <2>1. ctx' = [ctx EXCEPT ![d] = ctx[d]]
    BY <1>1, <1>3 DEF SkipDive
  <2> QED BY <1>1, <1>2, <2>1
<1>4. CASE Dive(d)
  <2>1. PICK c : ctx' = [ctx EXCEPT ![d] = c] /\ c.found = ctx[d].found
    <3>1. PICK n : ctx' = [ctx EXCEPT ![d] = Recorded(ctx[d], tree[n].pre + tree[n].lp, "dived")]
      BY <1>4 DEF Dive
    <3>2. PICK c : c = Recorded(ctx[d], tree[n].pre + tree[n].lp, "dived")
      OBVIOUS
    <3>3. c.found = ctx[d].found
      BY <1>1, <3>2 DEF Recorded, ContextType
    <3> QED BY <3>1, <3>2, <3>3
  <2>2. c \in ContextType
    <3>1. HoldInv'
      BY DivingHold
    <3>2. ctx' \in [Threads -> ContextType]
      BY <3>1, SetsStay DEF HoldInv, SyncTypes
    <3>3. ctx'[d] = c
      BY <1>1, <2>1
    <3> QED BY <1>1, <3>2, <3>3
  <2> QED BY <1>2, <2>1, <2>2
<1>5. CASE DiveEnds(d)
  <2>1. PICK h, v : h = diver[d].hand /\ v = tree[h].dive
    OBVIOUS
  <2>2. ctx[d].pc = "dived"
    BY <1>5 DEF DiveEnds, At
  <2>3. h \in DOMAIN tree /\ h \in Nodes
    <3>1. h # NoNode
      BY <2>1, <2>2 DEF HoldInv, DiverInv, Point
    <3> QED BY <1>1, <2>1, <3>1, TreeFacts DEF DiverType
  <2>4. v \in Nat /\ Attained(tree, v)
    BY <1>1, <2>1, <2>3, NodeFacts
  <2>5. Opt <= v
    BY <1>1, <2>4, AttainedFacts
  <2>6. PICK e : /\ e \in {WithSolution(ctx[d], d, v, h), ctx[d]}
                 /\ ctx' = [ctx EXCEPT ![d] = [e EXCEPT !.pc = "loop"]]
    BY <1>5, <2>1 DEF DiveEnds
  <2>7. /\ e \in ContextType /\ ctx[d].found \subseteq e.found
        /\ \A s \in e.found : s \in ctx[d].found \/ s[1] = v
    <3>1. CASE e = ctx[d]
      BY <1>1, <3>1
    <3>2. CASE e = WithSolution(ctx[d], d, v, h)
      <4>1. /\ e \in ContextType
            /\ e.found = ctx[d].found \/ e.found = ctx[d].found \cup {<<v, d, h>>}
        BY <1>1, <2>3, <2>4, <3>2, WithSolutionFacts
      <4> QED BY <4>1
    <3> QED BY <2>6, <3>1, <3>2
  <2>8. PICK c : c = [e EXCEPT !.pc = "loop"]
    OBVIOUS
  <2>9. c \in ContextType /\ c.found = e.found
    BY <2>7, <2>8, LoopContext
  <2>10. ctx[d].found \subseteq c.found /\ \A s \in c.found : s \in ctx[d].found \/ Opt <= s[1]
    BY <2>5, <2>7, <2>9
  <2>11. ctx' = [ctx EXCEPT ![d] = c]
    BY <2>6, <2>8
  <2> QED BY <1>1, <2>9, <2>10, <2>11, DiverBound
<1>6. CASE Idle(d)
  <2>1. PICK c : c = NextSync(ctx[d])
    OBVIOUS
  <2>2. ctx' = [ctx EXCEPT ![d] = c]
    BY <1>6, <2>1 DEF Idle
  <2>3. c \in ContextType /\ c.found = ctx[d].found
    BY <1>1, <2>1, NextSyncFacts
  <2> QED BY <1>2, <2>2, <2>3
<1>7. CASE Leave(d)
  <2>1. PICK c : c = [ctx[d] EXCEPT !.pc = "done"]
    OBVIOUS
  <2>2. ctx' = [ctx EXCEPT ![d] = c]
    BY <1>7, <2>1 DEF Leave
  <2>3. c \in ContextType /\ c.found = ctx[d].found
    BY <1>1, <2>1 DEF ContextType
  <2> QED BY <1>2, <2>2, <2>3
<1> QED BY <1>3, <1>4, <1>5, <1>6, <1>7 DEF DivingStep

(* Steps outside the search. *)
LEMMA OthersBound ==
  ASSUME HoldInv, BoundInv, ProducerInv,
         (CallbackStep /\ ~SyncCallback) \/ ProducerStep \/ ManagerStep \/ TimeOver \/ UNCHANGED vars
  PROVE  BoundInv'
<1>1. UNCHANGED <<tree, node, worker, ctx, incumbent, lb_numerical, status>>
  BY DEF CallbackStep, Barrier, CheckProducers, FallAsleep, Finish, ProducerStep, QueueSolution,
     Advance, NotifyProgress, ManagerStep, RegisterProducer, RegistrationComplete,
     DeregisterProducer, HaltProducer, TimeOver, vars, syncOthers, producerOthers, managerOthers,
     treeVars, syncVars, envVars, endVars
<1>2. Upper' = Upper /\ Opt' = Opt
  BY <1>1 DEF Upper, UpperOf, Opt
<1>3. PointsInv /\ tree \in Trees
  BY DEF BoundInv, HoldInv, NodeTypes
<1>4. \A s \in inbox' : Opt <= s[2]
  <2>1. CASE QueueSolution
    <3>1. PICK i \in 1..Len(Heuristics[tree]) :
            /\ i \in DOMAIN Heuristics[tree] /\ Heuristics[tree][i][2] \in Nat
            /\ producer.work \in Nat
            /\ inbox' = inbox \cup {<<producer.work, Heuristics[tree][i][2]>>}
      BY <2>1, ProducerSends
    <3>2. PICK v, u : v = Heuristics[tree][i][2] /\ u = producer.work
      OBVIOUS
    <3>3. Attained(tree, v) /\ v \in Nat
      BY <1>3, <3>1, <3>2, HorizonAssumption
    <3>4. Opt <= v
      BY <1>3, <3>3, AttainedFacts
    <3>5. inbox' = inbox \cup {<<u, v>>}
      BY <3>1, <3>2
    <3> QED BY <1>3, <3>4, <3>5 DEF PointsInv
  <2>2. CASE ~QueueSolution
    <3>1. UNCHANGED inbox
      BY <2>2 DEF CallbackStep, Barrier, CheckProducers, FallAsleep, Finish, ProducerStep,
         Advance, NotifyProgress, ManagerStep, RegisterProducer, RegistrationComplete,
         DeregisterProducer, HaltProducer, TimeOver, vars, syncOthers, managerOthers, envVars
    <3> QED BY <1>3, <3>1 DEF PointsInv
  <2> QED BY <2>1, <2>2
<1>5. PointsInv'
  BY <1>1, <1>2, <1>3, <1>4, SetsStay DEF PointsInv
<1>6. ASSUME NEW w \in Bfs PROVE WorkerInv(worker[w], ctx[w])'
  <2>1. WorkerInv(worker[w], ctx[w])
    BY DEF BoundInv
  <2> QED BY <1>1, <1>2, <2>1 DEF WorkerInv, BoxInv, UpperInv, CutoffInv, Solving, Point, NoNode
<1>7. ClosedInv'
  BY <1>1, <1>2, SetsStay DEF BoundInv, ClosedInv, Covered
<1>8. Settled' /\ StatusIsTrue'
  BY <1>1, <1>2, SetsStay DEF BoundInv, Settled, Leaves, Path, StatusIsTrue
<1> QED BY <1>5, <1>6, <1>7, <1>8, SetsStay DEF BoundInv

-----------------------------------------------------------------------------
(* The status of the callback.  No node is open if nobody has work.        *)
LEMMA NoWorkLeft ==
  ASSUME HoldInv, \A w \in Bfs : ~HasWork(worker[w])
  PROVE  Pending = {}
<1>1. ASSUME NEW w \in Bfs PROVE Held(worker[w]) = {}
  <2>1. worker[w].current = NoNode /\ worker[w].plunge = <<>> /\ worker[w].backlog = {}
    BY DEF HasWork
  <2>2. PICK p : p = worker[w].plunge
    OBVIOUS
  <2>3. p \in Seq(Nodes) /\ Len(p) = 0
    BY <2>1, <2>2
  <2>4. \A x : x \in Range(p) <=> \E i \in 1..Len(p) : p[i] = x
    BY <2>3, RangeFacts
  <2>5. Range(p) = {}
    BY <2>3, <2>4
  <2> QED BY <2>1, <2>2, <2>5 DEF Held
<1> QED BY <1>1 DEF HoldInv, HeldInv, HeldOnce

(* An incumbent as good as the lower bound is as good as every open node. *)
LEMMA LowerBoundFacts ==
  ASSUME HoldInv, NEW num \in Bounds, NEW inc, UpperOf(inc) \in Nat, UpperOf(inc) < Infinity,
         UpperOf(inc) <= LowerBound(num, inc)
  PROVE  \A n \in Pending : UpperOf(inc) <= node[n].lb
<1> DEFINE S == {num} \cup {node[n].lb : n \in UNION {Held(worker[w]) : w \in Bfs}}
<1>1. Pending = UNION {Held(worker[w]) : w \in Bfs} /\ Infinity \in Nat
      /\ \A n \in Pending : node[n].lb \in Bounds /\ node[n].lb \in Nat
  BY NumberFacts DEF HoldInv, HeldInv, HeldOnce, Pending
<1>2. S \in SUBSET Bounds /\ S # {}
  BY <1>1
<1>3. PICK lb : lb = Min(S)
  OBVIOUS
<1>4. \A n \in Pending : node[n].lb \in S
  BY <1>1
<1>5. LowerBound(num, inc) = IF lb = Infinity /\ inc # NobodyYet THEN UpperOf(inc) ELSE lb
  BY <1>3 DEF LowerBound
<1> HIDE DEF S
<1>6. lb \in Bounds /\ lb \in Nat /\ \A n \in Pending : lb <= node[n].lb
  BY <1>2, <1>3, <1>4, MinBounds, BoundFacts
<1>7. CASE lb = Infinity
  BY <1>1, <1>6, <1>7
<1>8. CASE lb # Infinity
  <2>1. UpperOf(inc) <= lb
    BY <1>5, <1>8
  <2> QED BY <1>1, <1>6, <2>1
<1> QED BY <1>7, <1>8

(* What is merged is a solution. *)
LEMMA OptBelowMerged ==
  ASSUME HoldInv, BoundInv PROVE Opt <= UpperOf(Merged)
<1>1. PointsInv
  BY DEF BoundInv
<1>2. PICK u : u = UpperOf(Merged)
  OBVIOUS
<1>3. \/ u = Upper \/ (\E t \in Threads : \E s \in ctx[t].found : u = s[1])
      \/ \E s \in inbox : u = s[2]
  BY <1>2, MergedFacts
<1>4. Opt <= u
  BY <1>1, <1>3 DEF PointsInv
<1> QED BY <1>2, <1>4

(* The incumbent of the merge is the optimum if no open node is better,    *)
(* and the LP solver has not failed.                                       *)
LEMMA MergedIsOptimal ==
  ASSUME HoldInv, BoundInv, SyncCallback, lb_numerical' = Infinity,
         \A n \in Pending : UpperOf(Merged) <= node[n].lb
  PROVE  UpperOf(Merged) = Opt
<1>1. PICK u : u = UpperOf(Merged)
  OBVIOUS
<1>2. /\ u \in Nat /\ u <= Infinity /\ Infinity \in Nat /\ u <= Upper
      /\ \A t \in Threads : \A s \in ctx[t].found : u <= s[1]
  <2>1. u \in Bounds
    BY <1>1, MergedFacts DEF Incumbents
  <2> QED BY <1>1, <2>1, MergedFacts, BoundFacts DEF Bounds
<1>3. Opt <= u
  BY <1>1, OptBelowMerged
<1>4. Infinity <= lb_numerical /\ \A w \in Bfs : Infinity <= worker[w].ceiling
  BY SyncFacts
<1>5. Opt = Infinity \/ Covered(Opt) \/ \E n \in Pending : node[n].lb <= Opt
  BY OptimumIsCovered DEF BoundInv
<1>6. u <= Opt
  <2>1. /\ Opt \in Nat /\ Upper \in Nat /\ lb_numerical \in Nat
        /\ (\A w \in Bfs : worker[w].ceiling \in Nat) /\ (\A n \in Pending : node[n].lb \in Nat)
        /\ \A t \in Threads : \A s \in ctx[t].found : s[1] \in Nat
    BY NumberFacts DEF Pending
  <2>2. CASE Opt = Infinity
    BY <1>2, <2>2
  <2>3. CASE Covered(Opt)
    <3>1. \/ Upper <= Opt \/ lb_numerical <= Opt \/ (\E w \in Bfs : worker[w].ceiling <= Opt)
          \/ \E t \in Threads : \E s \in ctx[t].found : s[1] <= Opt
      BY <2>3 DEF Covered
    <3> QED BY <1>2, <1>4, <2>1, <3>1
  <2>4. CASE \E n \in Pending : node[n].lb <= Opt
    BY <1>1, <1>2, <2>1, <2>4
  <2> QED BY <1>5, <2>2, <2>3, <2>4
<1> QED BY <1>1, <1>2, <1>3, <1>6, NumberFacts

(* The status decided at a barrier is right. *)
LEMMA StatusSound ==
  ASSUME HoldInv, BoundInv, SyncCallback PROVE StatusIsTrue'
<1>1. SUFFICES ASSUME lb_numerical' = Infinity
               PROVE  /\ status' = "OPTIMAL" => UpperOf(Merged) = Opt
                      /\ status' = "INFEASIBLE" => Opt = Infinity
  <2>1. Upper' = UpperOf(Merged) /\ Opt' = Opt
    BY SyncFacts DEF Upper, UpperOf, Opt, SyncCallback, treeVars
  <2> QED BY <2>1 DEF StatusIsTrue
<1>2. PICK inc, lower : inc = Merged /\ lower = LowerBound(lb_numerical', inc)
  OBVIOUS
<1>3. status' = StatusAfter(lower, inc)
  BY <1>2, SyncFacts
<1>4. UpperOf(inc) \in Nat /\ UpperOf(inc) <= Infinity /\ Infinity \in Nat
  <2>1. UpperOf(inc) \in Bounds
    BY <1>2, MergedFacts DEF Incumbents
  <2> QED BY <2>1, BoundFacts DEF Bounds
<1>5. CASE \A w \in Bfs : ~HasWork(worker[w])
  <2>1. Pending = {}
    BY <1>5, NoWorkLeft
  <2>2. UpperOf(Merged) = Opt
    BY <1>1, <2>1, MergedIsOptimal
  <2>3. status' = IF UpperOf(inc) = Infinity THEN "INFEASIBLE" ELSE "OPTIMAL"
    BY <1>3, <1>5 DEF StatusAfter
  <2> QED BY <1>2, <2>2, <2>3
<1>6. CASE ~(\A w \in Bfs : ~HasWork(worker[w]))
  <2>1. status' = IF UpperOf(inc) < Infinity /\ UpperOf(inc) <= lower THEN "OPTIMAL"
                  ELSE IF Target + Step > WorkLimit[tree] THEN "WORK_LIMIT"
                  ELSE IF late THEN "TIME_LIMIT"
                  ELSE "UNSET"
    BY <1>3, <1>6 DEF StatusAfter
  <2>2. CASE UpperOf(inc) < Infinity /\ UpperOf(inc) <= lower
    <3>1. lb_numerical' \in Bounds
      BY SyncFacts
    <3>2. \A n \in Pending : UpperOf(inc) <= node[n].lb
      <4>1. PICK num \in Bounds : num = lb_numerical'
        BY <3>1
      <4>2. UpperOf(inc) <= LowerBound(num, inc)
        BY <1>2, <2>2, <4>1
      <4> QED BY <1>4, <2>2, <4>2, LowerBoundFacts
    <3>3. UpperOf(Merged) = Opt
      BY <1>1, <1>2, <3>2, MergedIsOptimal
    <3> QED BY <2>1, <2>2, <3>3
  <2>3. CASE ~(UpperOf(inc) < Infinity /\ UpperOf(inc) <= lower)
    BY <2>1, <2>3
  <2> QED BY <2>2, <2>3
<1> QED BY <1>5, <1>6

(* The merge at a barrier keeps BoundInv. *)
LEMMA SyncBound ==
  ASSUME HoldInv, BoundInv, SyncCallback PROVE BoundInv'
<1>1. UNCHANGED <<tree, node, addr>> /\ inbox' \subseteq inbox
  BY DEF SyncCallback, treeVars
<1>2. PICK u : u = UpperOf(Merged)
  OBVIOUS
<1>3. /\ u \in Nat /\ u <= Upper /\ (\A t \in Threads : \A s \in ctx[t].found : u <= s[1])
  <2>1. u \in Bounds
    BY <1>2, MergedFacts DEF Incumbents
  <2> QED BY <1>2, <2>1, MergedFacts, BoundFacts
<1>4. /\ Upper' = u /\ Opt' = Opt
  BY <1>1, <1>2, SyncFacts DEF Upper, UpperOf, Opt
<1>5. /\ lb_numerical' \in Bounds /\ lb_numerical' <= lb_numerical
      /\ \A t \in Threads : /\ Point(ctx'[t]) = Point(ctx[t]) /\ ctx'[t].upper = u
                            /\ ctx'[t].found = {}
      /\ \A w \in Bfs : /\ worker'[w].current = worker[w].current /\ worker'[w].last = worker[w].last
                        /\ worker'[w].box = worker[w].box /\ worker'[w].cutoff = worker[w].cutoff
                        /\ worker'[w].ceiling = worker[w].ceiling
  BY <1>2, SyncFacts DEF Shuffled
<1>6. ASSUME NEW w \in Bfs PROVE WorkerInv(worker[w], ctx[w])'
  <2>1. WorkerInv(worker[w], ctx[w]) /\ w \in Threads
    BY ThreadFacts DEF BoundInv
  <2>2. u <= ctx[w].upper
    BY <1>3, <2>1 DEF WorkerInv, UpperInv
  <2>3. ctx[w].upper \in Nat /\ worker[w].cutoff \in Nat
    BY <2>1, NumberFacts
  <2>4. PICK k, c : k = worker'[w] /\ c = ctx'[w]
    OBVIOUS
  <2>5. BoxInv(k)
    BY <1>5, <2>1, <2>4 DEF WorkerInv, BoxInv
  <2>6. CutoffInv(k, c)
    BY <1>3, <1>5, <2>1, <2>2, <2>3, <2>4 DEF WorkerInv, CutoffInv, Solving
  <2>7. c.upper = Upper'
    BY <1>4, <1>5, <2>1, <2>4
  <2> QED BY <2>4, <2>5, <2>6, <2>7 DEF WorkerInv, BoxInv, UpperInv, CutoffInv, Solving, Point, NoNode
<1>7. ASSUME NEW p \in Nodes, node[p].status = "closed" PROVE Covered(node[p].lb)'
  <2>1. PICK b : b = node[p].lb
    OBVIOUS
  <2>2. Covered(b)
    BY <1>7, <2>1 DEF BoundInv, ClosedInv
  <2>3. /\ b \in Nat /\ Upper \in Nat /\ lb_numerical \in Nat /\ lb_numerical' \in Nat
        /\ \A t \in Threads : \A s \in ctx[t].found : s[1] \in Nat
    BY <1>5, <2>1, NumberFacts, BoundFacts
  <2>4. u <= b \/ lb_numerical' <= b \/ (\E w \in Bfs : worker'[w].ceiling <= b)
    <3>1. \/ Upper <= b \/ lb_numerical <= b \/ (\E w \in Bfs : worker[w].ceiling <= b)
          \/ \E t \in Threads : \E s \in ctx[t].found : s[1] <= b
      BY <2>2 DEF Covered
    <3> QED BY <1>3, <1>5, <2>3, <3>1
  <2> QED BY <1>1, <1>4, <2>1, <2>4, SetsStay DEF Covered
<1>8. ClosedInv'
  BY <1>1, <1>7, SetsStay DEF ClosedInv
<1>9. PointsInv'
  <2>1. PointsInv
    BY DEF BoundInv
  <2>2. Opt <= u
    BY <1>2, OptBelowMerged
  <2> QED BY <1>1, <1>4, <1>5, <2>1, <2>2, SetsStay DEF PointsInv
<1>10. Settled'
  BY <1>1, SetsStay DEF BoundInv, Settled, Leaves, Path
<1>11. StatusIsTrue'
  BY StatusSound
<1> QED BY <1>6, <1>8, <1>9, <1>10, <1>11, SetsStay DEF BoundInv

-----------------------------------------------------------------------------
(* BoundInv holds at the start. *)
LEMMA InitBound ==
  ASSUME Init PROVE BoundInv
<1>1. HoldInv
  BY InitHold
<1>2. Settled /\ Pending = {2, 3} /\ node[1].status = "branched"
      /\ \A n \in Nodes \ {1, 2, 3} : node[n].status = "none"
  BY InitSettles, InitTree DEF Init
<1>3. /\ Upper = InitialUpper[tree]
      /\ (\A t \in Threads : ctx[t].pc = "loop" /\ ctx[t].upper = Upper /\ ctx[t].found = {})
      /\ (\A w \in Bfs : worker[w].current = NoNode /\ worker[w].last = NoNode)
      /\ inbox = {} /\ status = "UNSET"
  <2>1. UpperOf(NobodyYet) = InitialUpper[tree]
    <3>1. Infinity \in Bounds /\ InitialUpper[tree] \in Bounds /\ InitialUpper[tree] <= Infinity
      BY <1>1, BoundFacts, HorizonAssumption DEF HoldInv, NodeTypes, Bounds
    <3>2. PICK i : i = InitialUpper[tree]
      OBVIOUS
    <3>3. UpperOf(NobodyYet) = Min({i, Infinity}) /\ {i, Infinity} \in SUBSET Bounds
      BY <3>1, <3>2 DEF UpperOf, NobodyYet
    <3>4. Min({i, Infinity}) \in {i, Infinity} /\ Min({i, Infinity}) <= i
      BY <3>3, MinBounds
    <3>5. i \in Nat /\ Infinity \in Nat /\ i <= Infinity
      BY <3>1, <3>2, BoundFacts
    <3> QED BY <3>2, <3>3, <3>4, <3>5
  <2> QED BY <2>1 DEF Init, Upper
<1>4. ASSUME NEW w \in Bfs PROVE WorkerInv(worker[w], ctx[w])
  <2>1. w \in Threads
    BY ThreadFacts
  <2> QED BY <1>3, <2>1 DEF WorkerInv, BoxInv, UpperInv, CutoffInv, Solving, Point
<1>5. ClosedInv
  <2>1. \A p \in Nodes : node[p].status # "closed"
    BY <1>2 DEF Pending
  <2> QED BY <2>1 DEF ClosedInv
<1>6. PointsInv
  <2>1. tree \in Trees /\ InitialUpper[tree] \in Nat /\ Attained(tree, InitialUpper[tree])
    BY <1>1, BoundFacts, HorizonAssumption DEF HoldInv, NodeTypes
  <2>2. Opt <= Upper
    BY <1>3, <2>1, AttainedFacts
  <2> QED BY <1>3, <2>2 DEF PointsInv
<1>7. StatusIsTrue
  BY <1>3 DEF StatusIsTrue
<1> QED BY <1>2, <1>3, <1>4, <1>5, <1>6, <1>7 DEF BoundInv

(* Until a recycled address leads a worker astray, no step discards the    *)
(* optimum.  strayed is never unset.                                       *)
LEMMA BoundAlways == Spec => [](HoldInv /\ ProducerInv /\ (strayed \/ BoundInv))
<1>1. Init => HoldInv /\ ProducerInv /\ (strayed \/ BoundInv)
  BY InitHold, InitProducer, InitBound
<1>2. ASSUME HoldInv, ProducerInv, BoundInv, [Next]_vars, ~strayed' PROVE BoundInv'
  BY <1>2, BfsBound, DivingBound, SyncBound, OthersBound DEF Next, CallbackStep
<1>3. [Next]_vars => (strayed => strayed')
  BY StrayedStays
<1>4. /\ HoldInv /\ ProducerInv /\ (strayed \/ BoundInv) /\ [Next]_vars
      => HoldInv' /\ ProducerInv' /\ (strayed \/ BoundInv)'
  BY <1>2, <1>3, NextHold, NextProducer
<1> QED BY <1>1, <1>4, PTL DEF Spec

(* No part of the tree that may hold the optimum is closed, whatever the   *)
(* workers' pace, the merges, the balancing and the upper bound the search *)
(* starts with, until solve_node_deterministic takes a node for a child of *)
(* the node solved last because their parent has the address of a node     *)
(* freed since: that comparison is the only thing in the search that can   *)
(* lose the optimum.                                                       *)
THEOREM HorizonOptimumKept == Spec => []OptimumNotDiscarded
<1>1. HoldInv /\ BoundInv => OptimumNeverDiscarded
  <2> SUFFICES ASSUME HoldInv, BoundInv PROVE OptimumNeverDiscarded
    OBVIOUS
  <2> DEFINE S == {Upper, lb_numerical} \cup {node[n].lb : n \in Pending}
                  \cup {worker[w].ceiling : w \in Bfs}
                  \cup {s[1] : s \in UNION {ctx[t].found : t \in Threads}}
  <2>1. S \in SUBSET Bounds /\ S # {}
    <3>1. /\ Upper \in Bounds /\ lb_numerical \in Bounds /\ (\A n \in Pending : node[n].lb \in Bounds)
          /\ (\A w \in Bfs : worker[w].ceiling \in Bounds)
          /\ \A t \in Threads : \A s \in ctx[t].found : s[1] \in Bounds
      BY NumberFacts DEF Pending
    <3> QED BY <3>1
  <2>2. \E v \in S : v <= Opt
    <3>1. Opt = Infinity \/ Covered(Opt) \/ \E n \in Pending : node[n].lb <= Opt
      BY OptimumIsCovered DEF BoundInv
    <3>2. Upper \in Bounds /\ Upper <= Infinity
      BY NumberFacts DEF Bounds
    <3> QED BY <3>1, <3>2 DEF Covered
  <2>3. PICK m : m = Min(S)
    OBVIOUS
  <2>4. OptimumNeverDiscarded <=> Opt >= m
    BY <2>3 DEF OptimumNeverDiscarded
  <2> HIDE DEF S
  <2>5. m \in Nat /\ \A y \in S : m <= y /\ y \in Nat
    BY <2>1, <2>3, MinBounds, BoundFacts
  <2> QED BY <2>2, <2>4, <2>5, NumberFacts
<1>2. HoldInv /\ (strayed \/ BoundInv) => OptimumNotDiscarded
  BY <1>1 DEF OptimumNotDiscarded
<1> QED BY <1>2, BoundAlways, PTL

(* What the callback stores as the status of the search is true, as long   *)
(* as the LP solver has not failed anywhere and no recycled address has    *)
(* led a worker astray: OPTIMAL is stored for the optimum and INFEASIBLE   *)
(* for a problem without a solution only.                                  *)
THEOREM HorizonStatusSound == Spec => []StatusIsSound
<1>1. (strayed \/ BoundInv) => StatusIsSound
  BY DEF BoundInv, StatusIsTrue, StatusIsSound
<1> QED BY <1>1, BoundAlways, PTL

-----------------------------------------------------------------------------
(* Where addresses do not come back, no worker is led astray: the parent   *)
(* of a node is the node solved last only if it is, and leaf_problem then  *)
(* holds its box.                                                          *)
OwnBox(k) == IF k.current = NoNode THEN k.last \in {NoNode, k.box} ELSE k.box = k.current
AddressInv ==
    /\ ~strayed /\ addr = [m \in Nodes |-> m]
    /\ \A w \in Bfs : OwnBox(worker[w])
(* The address of the parent is that of the node solved last only if it is *)
(* that node.                                                              *)
LEMMA BeginNodeAddress ==
  ASSUME HoldInv, AddressInv, NEW w \in Bfs, BeginNode(w) PROVE AddressInv'
<1>1. At(w, "loop") /\ ~Shutdown /\ HasWork(worker[w])
  BY DEF BeginNode
<1>2. PICK k, n : k = Dequeue(worker[w]) /\ n = k.current
  OBVIOUS
<1>3. PICK good :
        /\ worker' = [worker EXCEPT ![w] =
             [k EXCEPT !.box = IF good THEN n ELSE NoNode, !.cutoff = ctx[w].upper]]
        /\ good = (~IsChild(w, n) \/ k.box \in {Parent(n), n})
        /\ strayed' = (strayed \/ ~good) /\ addr' = addr
  BY <1>2 DEF BeginNode, treeVars
<1>4. /\ k \in WorkerType /\ worker[w].current = NoNode /\ n \in Pending /\ tree \in Trees
      /\ n \in Nodes /\ n # NoNode /\ k.last = worker[w].last /\ k.box = worker[w].box
      /\ DOMAIN worker = Bfs
  BY <1>1, <1>2, TakeFacts
<1>5. good
  <2>1. Parent(n) \in Nodes /\ Parent(n) # NoNode
    <3>1. n \in Nat /\ n # 1 /\ n # 0 /\ Nodes \subseteq Nat \ {0}
      BY <1>4, TreeFacts DEF HoldInv, Pending
    <3>2. n \div 2 \in Nodes
      BY <1>4, <3>1 DEF HoldInv, TreeShape, Known, Pending
    <3> QED BY <3>1, <3>2 DEF Parent, NoNode
  <2>2. IsChild(w, n) => Parent(n) = worker[w].last
    BY <2>1 DEF IsChild, AddressInv
  <2>3. worker[w].last \in {NoNode, worker[w].box}
    BY <1>4 DEF AddressInv, OwnBox
  <2> QED BY <1>3, <1>4, <2>1, <2>2, <2>3
<1>6. worker'[w].current = n /\ worker'[w].box = n /\ \A v \in Bfs : v # w => worker'[v] = worker[v]
  BY <1>2, <1>3, <1>4, <1>5 DEF WorkerType
<1>7. \A v \in Bfs : OwnBox(worker[v])'
  BY <1>4, <1>6 DEF AddressInv, OwnBox, NoNode
<1>8. ~strayed'
  BY <1>3, <1>5, Zenon DEF AddressInv
<1> QED BY <1>3, <1>7, <1>8, SetsStay DEF AddressInv

(* A worker that has closed or branched its node. *)
LEMMA DoneAddress ==
  ASSUME HoldInv, AddressInv, NEW w \in Bfs, NEW k, worker' = [worker EXCEPT ![w] = k],
         ctx[w].pc \in {"presolved", "solved"}, k.current = NoNode,
         k.last = addr[worker[w].current], k.box = worker[w].box,
         addr' = addr, strayed' = strayed
  PROVE  AddressInv'
<1>1. worker[w].current \in Nodes /\ worker[w].current # NoNode /\ DOMAIN worker = Bfs
  BY HandFacts DEF HoldInv, NodeTypes
<1>2. k.last = k.box
  BY <1>1 DEF AddressInv, OwnBox
<1>3. worker'[w] = k /\ \A v \in Bfs : v # w => worker'[v] = worker[v]
  BY <1>1
<1>4. \A v \in Bfs : OwnBox(worker[v])'
  BY <1>2, <1>3 DEF AddressInv, OwnBox, NoNode
<1> QED BY <1>4, SetsStay DEF AddressInv

(* Every step of a best-first worker keeps AddressInv. *)
LEMMA BfsAddress ==
  ASSUME HoldInv, AddressInv, Reuse = FALSE, NEW w \in Bfs, BfsStep(w) PROVE AddressInv'
<1>1. CASE BeginNode(w)
  BY <1>1, BeginNodeAddress
<1>2. CASE Fathom(w)
  <2>1. PICK k : k = Dequeue(worker[w])
    OBVIOUS
  <2>2. /\ At(w, "loop") /\ ~Shutdown /\ HasWork(worker[w])
        /\ worker' = [worker EXCEPT ![w] = [k EXCEPT !.current = NoNode]]
        /\ addr' = addr /\ strayed' = strayed
    BY <1>2, <2>1 DEF Fathom, endVars
  <2>3. /\ k \in WorkerType /\ worker[w].current = NoNode /\ k.last = worker[w].last
        /\ k.box = worker[w].box /\ DOMAIN worker = Bfs
    BY <2>1, <2>2, TakeFacts
  <2>4. PICK j : j = [k EXCEPT !.current = NoNode]
    OBVIOUS
  <2>5. j.current = NoNode /\ j.last = worker[w].last /\ j.box = worker[w].box
    BY <2>3, <2>4 DEF WorkerType
  <2>6. worker'[w] = j /\ \A v \in Bfs : v # w => worker'[v] = worker[v]
    BY <2>2, <2>3, <2>4
  <2>7. \A v \in Bfs : OwnBox(worker[v])'
    BY <2>3, <2>5, <2>6 DEF AddressInv, OwnBox, NoNode
  <2> QED BY <2>2, <2>7, SetsStay DEF AddressInv
<1>3. CASE PresolveCloses(w) \/ LpCloses(w) \/ LpIsInteger(w)
  <2>1. PICK b : CloseNode(w, b)
    BY <1>3 DEF PresolveCloses, LpCloses, LpIsInteger
  <2>2. /\ ctx[w].pc \in {"presolved", "solved"} /\ addr' = addr /\ strayed' = strayed
    BY <1>3 DEF PresolveCloses, LpCloses, LpIsInteger, At, endVars
  <2>3. PICK k : /\ worker' = [worker EXCEPT ![w] = k] /\ k.current = NoNode
                 /\ k.last = addr[worker[w].current] /\ k.box = worker[w].box
    BY <2>1, <2>2, CloseNodeFacts
  <2> QED BY <2>2, <2>3, DoneAddress
<1>4. CASE LpFails(w)
  <2>1. PICK c, a :
          /\ worker' = [worker EXCEPT ![w].last = a, ![w].current = NoNode, ![w].ceiling = c]
          /\ a = addr[worker[w].current]
    BY <1>4 DEF LpFails, Node
  <2>2. /\ ctx[w].pc \in {"presolved", "solved"} /\ addr' = addr /\ strayed' = strayed
        /\ worker \in [Bfs -> WorkerType]
    BY <1>4 DEF LpFails, At, endVars, HoldInv, NodeTypes
  <2>3. PICK k : k = [worker[w] EXCEPT !.last = a, !.current = NoNode, !.ceiling = c]
    OBVIOUS
  <2>4. worker[w] \in WorkerType /\ worker' = [worker EXCEPT ![w] = k]
    BY <2>1, <2>2, <2>3
  <2>5. k.current = NoNode /\ k.last = a /\ k.box = worker[w].box
    BY <2>3, <2>4 DEF WorkerType
  <2> QED BY <2>1, <2>2, <2>4, <2>5, DoneAddress
<1>5. CASE LpBranches(w)
  <2>1. addr = [m \in Nodes |-> m]
    BY DEF AddressInv
  <2>2. ctx[w].pc \in {"presolved", "solved"} /\ addr' = addr /\ strayed' = strayed
    BY <1>5, <2>1, LpBranchesFacts DEF LpBranches, At, endVars
  <2>3. PICK k : /\ worker' = [worker EXCEPT ![w] = k] /\ k.last = addr[worker[w].current]
                 /\ Enqueued(k, worker[w], worker[w].current)
    BY <1>5, EnqueuedFacts
  <2>4. k.current = NoNode /\ k.box = worker[w].box
    BY <2>3 DEF Enqueued
  <2> QED BY <2>2, <2>3, <2>4, DoneAddress
<1>6. CASE OutOfTime(w) \/ SolveLp(w) \/ LpStopped(w) \/ Idle(w) \/ Leave(w)
  <2>1. worker' = worker /\ addr' = addr /\ strayed' = strayed
    BY <1>6 DEF OutOfTime, SolveLp, LpStopped, Idle, Leave, treeVars, endVars
  <2> QED BY <2>1, SetsStay DEF AddressInv, OwnBox, NoNode
<1> QED BY <1>1, <1>2, <1>3, <1>4, <1>5, <1>6 DEF BfsStep

(* Where the allocator never gives a freed address out again no worker is  *)
(* led astray, so that the optimum is kept and the status right without    *)
(* exception.                                                              *)
THEOREM HorizonNoReuseNoStraying ==
  ASSUME Reuse = FALSE PROVE Spec => []~strayed
<1>1. Init => AddressInv
  <2> SUFFICES ASSUME Init PROVE AddressInv
    OBVIOUS
  <2>1. ~strayed /\ addr = [m \in Nodes |-> m]
    BY Zenon DEF Init
  <2>2. \A w \in Bfs : worker[w].current = NoNode /\ worker[w].last = NoNode
    BY DEF Init
  <2> QED BY <2>1, <2>2 DEF AddressInv, OwnBox
<1>2. ASSUME HoldInv, AddressInv, [Next]_vars PROVE AddressInv'
  <2>1. CASE \E w \in Bfs : BfsStep(w)
    BY <1>2, <2>1, BfsAddress
  <2>2. CASE SyncCallback
    <3>1. /\ addr' = addr /\ strayed' = strayed
          /\ \A w \in Bfs : /\ worker'[w].current = worker[w].current
                            /\ worker'[w].last = worker[w].last /\ worker'[w].box = worker[w].box
      BY <1>2, <2>2, SyncFacts DEF Shuffled, SyncCallback, treeVars, endVars
    <3> QED BY <1>2, <3>1, SetsStay DEF AddressInv, OwnBox, NoNode
  <2>3. CASE \/ \E d \in Divers : DivingStep(d)
             \/ (CallbackStep /\ ~SyncCallback) \/ ProducerStep \/ ManagerStep \/ TimeOver
             \/ UNCHANGED vars
    <3>1. worker' = worker /\ addr' = addr /\ strayed' = strayed
      BY <2>3 DEF DivingStep, SkipDive, Dive, DiveEnds, Idle, Leave, CallbackStep, Barrier,
         CheckProducers, FallAsleep, Finish, ProducerStep, QueueSolution, Advance, NotifyProgress,
         ManagerStep, RegisterProducer, RegistrationComplete, DeregisterProducer, HaltProducer,
         TimeOver, vars, syncOthers, producerOthers, managerOthers, treeVars, endVars
    <3> QED BY <1>2, <3>1, SetsStay DEF AddressInv, OwnBox, NoNode
  <2> QED BY <1>2, <2>1, <2>2, <2>3 DEF Next, CallbackStep
<1>3. AddressInv => ~strayed
  BY DEF AddressInv
<1>4. HoldInv /\ AddressInv /\ [Next]_vars => AddressInv'
  BY <1>2
<1> QED BY <1>1, <1>3, <1>4, HoldAlways, PTL DEF Spec

=============================================================================
