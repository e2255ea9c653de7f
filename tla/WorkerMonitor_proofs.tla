----------------------- MODULE WorkerMonitor_proofs ------------------------
(* Theorems about the worker monitor and the shutdown of the server, for   *)
(* any number of workers, of spawn attempts and of failures, and about the *)
(* result slots that workers and monitor write, for any number of slots,   *)
(* results and deaths.                                                     *)
EXTENDS WorkerMonitor, ResultSlots, FiniteSetTheorems, WellFoundedInduction, TLAPS

(* A non-empty set of naturals has its minimum: the dead worker that the   *)
(* loop over `dead' treats next is one of them.                            *)
LEMMA MinOfNaturals ==
  ASSUME NEW S \in SUBSET Nat, S # {}
  PROVE  Min(S) \in S
<1> DEFINE R == {p \in Nat \X Nat : p[1] < p[2]}
<1>1. IsWellFoundedOn(R, Nat)
  BY NatLessThanWellFounded, Zenon DEF OpToRel
<1>2. PICK x \in S : \A y \in S : ~(<<y, x>> \in R)
  BY <1>1, WFMin, Zenon
<1>3. \A y \in Nat : y < x => <<y, x>> \in R
  OBVIOUS
<1>4. ASSUME NEW y \in S PROVE x =< y
  <2> HIDE DEF R
  <2>1. x \in Nat /\ y \in Nat
    OBVIOUS
  <2>2. ~(y < x)
    BY <1>2, <1>3, <2>1, Zenon
  <2> QED BY <2>1, <2>2
<1> QED BY <1>4 DEF Min

-----------------------------------------------------------------------------
(* The invariant.  Neither property is inductive: that no process is left  *)
(* behind needs to know who remembers each live process, and that every    *)
(* spawned process has a pid of its own needs the number of spawns.        *)

Unreaped(p) == proc[p] \notin {"none", "reaped"}

(* worker_pids names unreaped processes that were spawned for that index. *)
TableIsTrue ==
    \A i \in Indices : worker_pids[i] # 0 =>
      /\ worker_pids[i] < next_pid
      /\ index[worker_pids[i]] = i
      /\ Unreaped(worker_pids[i])

(* So does the pid the monitor has not entered yet. *)
ReplacementIsTrue ==
    new_pid # 0 =>
      /\ mon_pc = "store"
      /\ new_pid < next_pid
      /\ index[new_pid] = Min(dead)
      /\ Unreaped(new_pid)

(* Dead workers have left the table, and are dealt with within one pass. *)
DeadAreOut ==
    /\ \A i \in dead : worker_pids[i] = 0
    /\ mon_pc \in {"loop", "scan", "stopped"} => dead = {}

NotYetSpawned == \A p \in Pids : p >= next_pid => proc[p] = "none"

(* A live process is in the table, about to be entered, or killed. *)
LiveAreKnown ==
    \A p \in Pids : proc[p] \in Live =>
      worker_pids[index[p]] = p \/ new_pid = p \/ killed[p]

(* The order of the shutdown: nobody is killed while the server runs, and  *)
(* the monitor has stopped when main reaps the workers.                    *)
Phases ==
    /\ sig_pc = "sigwait" <=> keep_running
    /\ keep_running => ~shutdown_requested /\ \A p \in Pids : ~killed[p]
    /\ sig_pc # "done" => main_pc = "serve"
    /\ main_pc \in {"kill", "wait", "exit"} \/ exit_code \in {"0", "1"} => mon_pc = "stopped"
    /\ main_pc = "exit" \/ exit_code \in {"0", "1"} => \A i \in Indices : worker_pids[i] = 0

(* The indices whose dead worker has not been replaced. *)
Owed ==
    DeadIndices \cup
    {i \in dead : ~(i = Min(dead) /\ new_pid # 0 /\ proc[new_pid] \notin Exited)}

(* A worker is spawned only for one that has failed. *)
SpawnsMatchFailures ==
    /\ next_pid <= NumWorkers + 1 + failures
    /\ mon_pc = "spawn" => next_pid <= NumWorkers + failures
    /\ keep_running => next_pid + Cardinality(Owed) <= NumWorkers + 1 + failures

WorkersInv ==
    /\ TypeOK /\ TableIsTrue /\ ReplacementIsTrue /\ DeadAreOut /\ NotYetSpawned
    /\ LiveAreKnown /\ Phases /\ SpawnsMatchFailures

-----------------------------------------------------------------------------
(* Arithmetic of indices and pids; 0 is neither. *)
LEMMA PidFacts ==
  /\ Indices \subseteq Pids /\ Indices \subseteq Nat /\ Pids \subseteq Nat
  /\ 0 \notin Pids
  /\ IsFiniteSet(Indices)
  /\ \A p \in Nat : p \in Pids <=> 0 < p /\ p <= NumWorkers + MaxFailures
<1>1. IsFiniteSet(Indices)
  BY WorkersAssumption, FS_Interval DEF Indices
<1> QED BY <1>1, WorkersAssumption DEF Indices, Pids

(* An entry of worker_pids is a number. *)
LEMMA PidIsNatural == \A p \in {0} \cup Pids : p \in Nat
  BY PidFacts

(* The dead worker that is treated next. *)
LEMMA MinOfDead ==
  ASSUME TypeOK, dead # {}
  PROVE  Min(dead) \in dead /\ Min(dead) \in Indices
  BY MinOfNaturals, PidFacts DEF TypeOK

(* Owed is a finite set of indices. *)
LEMMA OwedFinite ==
  ASSUME TypeOK
  PROVE  Owed \subseteq Indices /\ IsFiniteSet(Owed) /\ Cardinality(Owed) \in Nat
<1>1. Owed \subseteq Indices
  BY DEF Owed, DeadIndices, TypeOK
<1>2. IsFiniteSet(Owed)
  BY <1>1, PidFacts, FS_Subset
<1> QED BY <1>1, <1>2, FS_CardinalityType

(* A step by which nobody more is owed, and nothing is spawned, keeps the  *)
(* count.                                                                  *)
LEMMA CountKept ==
  ASSUME TypeOK, SpawnsMatchFailures, keep_running' => keep_running /\ Owed' \subseteq Owed,
         mon_pc' = "spawn" => mon_pc = "spawn",
         next_pid' = next_pid, failures' = failures \/ failures' = failures + 1
  PROVE  SpawnsMatchFailures'
<1>1. keep_running' => /\ IsFiniteSet(Owed') /\ Cardinality(Owed') \in Nat
                       /\ Cardinality(Owed') <= Cardinality(Owed)
  BY OwedFinite, FS_Subset, FS_CardinalityType
<1>2. next_pid \in Nat /\ failures \in Nat /\ NumWorkers \in Nat /\ Cardinality(Owed) \in Nat
  BY OwedFinite, WorkersAssumption DEF TypeOK
<1>3. /\ next_pid' <= NumWorkers + 1 + failures'
      /\ mon_pc' = "spawn" => next_pid' <= NumWorkers + failures'
  <2>1. /\ next_pid <= NumWorkers + 1 + failures
        /\ mon_pc = "spawn" => next_pid <= NumWorkers + failures
    BY DEF SpawnsMatchFailures
  <2> QED BY <1>2, <2>1
<1>4. ASSUME keep_running' PROVE next_pid' + Cardinality(Owed') <= NumWorkers + 1 + failures'
  <2>1. next_pid + Cardinality(Owed) <= NumWorkers + 1 + failures
    BY <1>4 DEF SpawnsMatchFailures
  <2> QED BY <1>1, <1>2, <1>4, <2>1
<1> QED BY <1>3, <1>4 DEF SpawnsMatchFailures

(* The server starts with one process per table entry, none of them dead. *)
LEMMA InitWorkers == Init => WorkersInv
<1> SUFFICES ASSUME Init PROVE WorkersInv
  OBVIOUS
<1> USE PidFacts, WorkersAssumption DEF Init
<1>1. PICK S \in SUBSET Indices \ {{}} :
         /\ worker_pids = [i \in Indices |-> IF i \in S THEN i ELSE 0]
         /\ proc = [p \in Pids |-> IF p \in S THEN "init" ELSE "none"]
         /\ deadline = [i \in Indices |-> IF i \in S THEN "armed" ELSE "off"]
  OBVIOUS
<1>2. TypeOK
  <2>1. next_pid \in 1..(NumWorkers + MaxFailures + 1)
    OBVIOUS
  <2>2. wedged \in BOOLEAN
    OBVIOUS
  <2>3. 1 \in Indices
    BY DEF Indices
  <2>4. index \in [Pids -> Indices]
    BY <2>3
  <2>5. /\ proc \in [Pids -> {"none", "reaped"} \cup Live \cup Exited]
        /\ worker_pids \in [Indices -> {0} \cup Pids]
        /\ deadline \in [Indices -> {"off", "armed", "expired"}]
    BY <1>1 DEF Live
  <2>6. /\ killed \in [Pids -> BOOLEAN] /\ ready_flags \in [Indices -> BOOLEAN]
        /\ failures \in 0..MaxFailures /\ attempt \in 0..SpawnRetries
    OBVIOUS
  <2> QED BY <2>1, <2>2, <2>4, <2>5, <2>6 DEF TypeOK
<1>3. TableIsTrue /\ ReplacementIsTrue /\ DeadAreOut /\ NotYetSpawned
  <2>1. \A i \in Indices : i < next_pid
    BY DEF Indices
  <2> QED BY <1>1, <2>1 DEF TableIsTrue, ReplacementIsTrue, DeadAreOut, NotYetSpawned, Unreaped
<1>4. LiveAreKnown /\ Phases
  BY <1>1 DEF LiveAreKnown, Live, Phases
<1>5. Owed = {}
  BY <1>1 DEF Owed, DeadIndices, Exited
<1>6. SpawnsMatchFailures
  BY <1>5, FS_EmptySet DEF SpawnsMatchFailures
<1> QED BY <1>2, <1>3, <1>4, <1>6 DEF WorkersInv

(* A worker process changes its own state only.  Only a failure can make   *)
(* a replacement due while the server runs.                                *)
LEMMA WorkerStep ==
  ASSUME WorkersInv, NEW p \in Pids, Worker(p)
  PROVE  WorkersInv'
<1> USE PidFacts DEF WorkersInv
<1>1. UNCHANGED <<index, killed, next_pid, worker_pids, flagVars, monVars, sig_pc, mainVars>>
  BY DEF Worker
<1> USE <1>1 DEF flagVars, monVars, mainVars
<1>2. PICK st \in Live \cup Exited : proc' = [proc EXCEPT ![p] = st]
  BY DEF Worker, PublishReady, Hang, Fail, StopCleanly, DieKilled, Live, Exited
<1>3. proc[p] \in Live
  BY DEF Worker, PublishReady, Hang, Fail, StopCleanly, DieKilled, Live
<1>4. /\ failures' \in 0..MaxFailures
      /\ failures' = failures \/ failures' = failures + 1
      /\ ready_flags' \in [Indices -> BOOLEAN]
  <2>1. ready_flags' \in [Indices -> BOOLEAN]
    BY DEF TypeOK, Worker, PublishReady, Hang, Fail, StopCleanly, DieKilled
  <2>2. failures \in 0..MaxFailures /\ MaxFailures \in Nat
    BY WorkersAssumption DEF TypeOK
  <2>3. failures' = failures \/ (failures < MaxFailures /\ failures' = failures + 1)
    BY DEF Worker, PublishReady, Hang, Fail, StopCleanly, DieKilled
  <2> QED BY <2>1, <2>2, <2>3
<1>5. TypeOK'
  BY <1>2, <1>4 DEF TypeOK
<1>6. \A q \in Pids : Unreaped(q) => Unreaped(q)'
  BY <1>2 DEF Unreaped, Live, Exited, TypeOK
<1>7. TableIsTrue' /\ ReplacementIsTrue' /\ DeadAreOut' /\ Phases'
  BY <1>6 DEF TableIsTrue, ReplacementIsTrue, DeadAreOut, Phases, TypeOK
<1>8. NotYetSpawned'
  BY <1>2, <1>3 DEF NotYetSpawned, TypeOK, Live
<1>9. LiveAreKnown'
  BY <1>2, <1>3 DEF LiveAreKnown, TypeOK
<1>10. SpawnsMatchFailures'
  <2>1. CASE ~keep_running \/ st \in Live
    <3>1. keep_running => Owed' \subseteq Owed
      BY <1>2, <1>3, <2>1 DEF Owed, DeadIndices, TypeOK, Live, Exited
    <3> QED BY <1>4, <3>1, CountKept
  <2>2. CASE keep_running /\ st \notin Live
    <3>1. failures' = failures + 1
      BY <1>2, <2>2 DEF Worker, PublishReady, Hang, Fail, StopCleanly, DieKilled, Phases,
         Live, TypeOK
    <3>2. Owed' \subseteq Owed \cup {index[p]}
      <4>1. SUFFICES ASSUME NEW i \in Owed', i \notin Owed PROVE i = index[p]
        OBVIOUS
      <4>2. CASE i \in DeadIndices'
        BY <1>2, <4>1, <4>2 DEF Owed, DeadIndices, TypeOK, TableIsTrue
      <4>3. CASE i \notin DeadIndices'
        <5>1. i \in dead /\ i = Min(dead) /\ new_pid # 0 /\ proc'[new_pid] \in Exited
          BY <4>1, <4>3 DEF Owed
        <5>2. proc[new_pid] \notin Exited
          BY <4>1, <5>1 DEF Owed
        <5>3. new_pid = p
          BY <1>2, <5>1, <5>2 DEF TypeOK
        <5> QED BY <5>1, <5>3 DEF ReplacementIsTrue
      <4> QED BY <4>2, <4>3
    <3>3. /\ IsFiniteSet(Owed \cup {index[p]})
          /\ Cardinality(Owed \cup {index[p]}) <= Cardinality(Owed) + 1
      BY OwedFinite, FS_AddElement
    <3>4. IsFiniteSet(Owed') /\ Cardinality(Owed') <= Cardinality(Owed \cup {index[p]})
      BY <3>2, <3>3, FS_Subset
    <3>5. Cardinality(Owed') \in Nat /\ Cardinality(Owed \cup {index[p]}) \in Nat
      BY <3>3, <3>4, FS_CardinalityType
    <3>6. next_pid \in Nat /\ failures \in Nat /\ NumWorkers \in Nat /\ Cardinality(Owed) \in Nat
      BY OwedFinite, WorkersAssumption DEF TypeOK
    <3> QED BY <2>2, <3>1, <3>3, <3>4, <3>5, <3>6 DEF SpawnsMatchFailures
  <2> QED BY <1>2, <2>1, <2>2
<1> QED BY <1>5, <1>7, <1>8, <1>9, <1>10

(* A step that touches neither the processes nor what is remembered of     *)
(* them, and respects the order of the shutdown, keeps the invariant.      *)
LEMMA SameWorkers ==
  ASSUME WorkersInv, TypeOK', Phases', keep_running' => keep_running,
         UNCHANGED <<proc, index, killed, next_pid, failures, worker_pids, dead, new_pid>>,
         mon_pc' = "spawn" => mon_pc = "spawn", new_pid # 0 => mon_pc' = "store",
         mon_pc' \in {"loop", "scan", "stopped"} => dead = {}
  PROVE  WorkersInv'
<1> USE DEF WorkersInv
<1>1. TableIsTrue' /\ ReplacementIsTrue' /\ NotYetSpawned' /\ LiveAreKnown'
  BY DEF TableIsTrue, ReplacementIsTrue, NotYetSpawned, LiveAreKnown, Unreaped
<1>2. DeadAreOut'
  BY DEF DeadAreOut
<1>3. Owed' = Owed
  BY DEF Owed, DeadIndices
<1>4. SpawnsMatchFailures'
  BY <1>3, CountKept
<1> QED BY <1>1, <1>2, <1>4

(* The scan of the monitor: what it takes out of the table is reaped and   *)
(* put on its list, unless it ended cleanly during a shutdown.             *)
LEMMA ScanStep ==
  ASSUME WorkersInv, Running, Scan, UNCHANGED <<sig_pc, mainVars>>
  PROVE  WorkersInv'
<1> USE PidFacts DEF WorkersInv, Scan
<1>1. UNCHANGED <<index, killed, next_pid, failures, ready_flags, flagVars, attempt, new_pid,
                  sig_pc, mainVars>>
  OBVIOUS
<1> USE <1>1 DEF flagVars, mainVars
<1>2. /\ mon_pc = "scan" /\ mon_pc' \in {"fatal", "next"} /\ dead = {} /\ new_pid = 0
      /\ dead' \subseteq DeadIndices /\ DeadIndices \subseteq Indices
      /\ fatal_exit' \in BOOLEAN
  BY DEF DeadAreOut, ReplacementIsTrue, DeadIndices
<1>3. /\ proc' = [p \in Pids |-> IF \E i \in DeadIndices : p = worker_pids[i]
                                 THEN "reaped" ELSE proc[p]]
      /\ worker_pids' = [i \in Indices |-> IF i \in DeadIndices THEN 0 ELSE worker_pids[i]]
  OBVIOUS
<1>4. TypeOK'
  <2>1. proc' \in [Pids -> {"none", "reaped"} \cup Live \cup Exited]
    BY <1>3 DEF TypeOK
  <2>2. worker_pids' \in [Indices -> {0} \cup Pids]
    BY <1>3 DEF TypeOK
  <2>3. deadline' \in [Indices -> {"off", "armed", "expired"}]
    BY DEF TypeOK
  <2> QED BY <1>2, <2>1, <2>2, <2>3 DEF TypeOK
<1>5. ASSUME NEW i \in Indices, worker_pids'[i] # 0
      PROVE  /\ worker_pids'[i] = worker_pids[i] /\ i \notin DeadIndices
             /\ worker_pids[i] \in Pids /\ worker_pids[i] # 0
             /\ proc'[worker_pids[i]] = proc[worker_pids[i]]
  <2>1. worker_pids'[i] = worker_pids[i] /\ i \notin DeadIndices /\ worker_pids[i] \in Pids
    BY <1>3, <1>5 DEF TypeOK
  <2>2. ASSUME NEW j \in DeadIndices PROVE worker_pids[j] # worker_pids[i]
    BY <1>2, <1>5, <2>1, <2>2 DEF TableIsTrue, DeadIndices
  <2> QED BY <1>3, <1>5, <2>1, <2>2
<1>6. TableIsTrue'
  BY <1>5 DEF TableIsTrue, Unreaped
<1>7. ReplacementIsTrue' /\ Phases' /\ DeadAreOut'
  <2>1. \A i \in Indices : worker_pids[i] = 0 => worker_pids'[i] = 0
    BY <1>5
  <2>2. main_pc \notin {"kill", "wait", "exit"} /\ exit_code \notin {"0", "1"}
    BY <1>2 DEF Phases
  <2>3. Phases'
    BY <2>2 DEF Phases
  <2>4. \A i \in dead' : worker_pids'[i] = 0
    BY <1>2, <1>3
  <2> QED BY <1>2, <2>3, <2>4 DEF ReplacementIsTrue, DeadAreOut
<1>8. NotYetSpawned'
  <2>1. ASSUME NEW p \in Pids, p >= next_pid, NEW i \in DeadIndices PROVE p # worker_pids[i]
    <3>1. worker_pids[i] < next_pid
      BY <1>2, <2>1 DEF TableIsTrue, DeadIndices
    <3>2. i \in Indices
      BY <1>2
    <3>5. worker_pids[i] \in {0} \cup Pids
      BY <3>2 DEF TypeOK
    <3>3. worker_pids[i] \in Nat
      BY <3>5, PidIsNatural, Zenon
    <3>4. next_pid \in Nat /\ p \in Nat
      BY DEF TypeOK
    <3> QED BY <2>1, <3>1, <3>3, <3>4
  <2> QED BY <1>3, <2>1 DEF NotYetSpawned
<1>9. LiveAreKnown'
  <2> SUFFICES ASSUME NEW p \in Pids, proc'[p] \in Live
               PROVE  worker_pids'[index[p]] = p \/ new_pid = p \/ killed[p]
    BY DEF LiveAreKnown
  <2>1. proc[p] \in Live
    BY <1>3 DEF Live
  <2>2. index[p] \in Indices
    BY DEF TypeOK
  <2>3. worker_pids[index[p]] = p => index[p] \notin DeadIndices
    BY <2>1 DEF DeadIndices, Live, Exited
  <2> QED BY <1>3, <2>1, <2>2, <2>3 DEF LiveAreKnown
<1>10. SpawnsMatchFailures'
  <2>1. DeadIndices' = {}
    <3> SUFFICES ASSUME NEW i \in Indices, worker_pids'[i] # 0
                 PROVE  proc'[worker_pids'[i]] \notin Exited
      BY DEF DeadIndices
    <3> QED BY <1>5 DEF DeadIndices
  <2>2. Owed' \subseteq Owed
    BY <1>2, <2>1 DEF Owed
  <2> QED BY <1>2, <2>2, CountKept
<1> QED BY <1>4, <1>6, <1>7, <1>8, <1>9, <1>10

(* The decision of the monitor to replace the next dead worker, or not. *)
LEMMA NextDeadStep ==
  ASSUME WorkersInv, Running, NextDead, UNCHANGED <<sig_pc, mainVars>>
  PROVE  WorkersInv'
<1> USE PidFacts DEF WorkersInv
<1>1. UNCHANGED <<procVars, worker_pids, flagVars, deadline, fatal_exit, new_pid, sig_pc, mainVars>>
  BY DEF NextDead
<1> USE <1>1 DEF procVars, flagVars, mainVars
<1>2. /\ mon_pc = "next" /\ dead # {} /\ new_pid = 0
      /\ Min(dead) \in dead /\ Min(dead) \in Indices
  BY MinOfDead DEF NextDead, ReplacementIsTrue
<1>3. CASE mon_pc' = mon_pc /\ dead' = dead \ {Min(dead)} /\ UNCHANGED <<ready_flags, attempt>>
  <2>1. TypeOK' /\ TableIsTrue' /\ ReplacementIsTrue' /\ NotYetSpawned' /\ LiveAreKnown' /\ Phases'
    BY <1>2, <1>3 DEF TypeOK, TableIsTrue, ReplacementIsTrue, NotYetSpawned, LiveAreKnown,
       Phases, Unreaped
  <2>2. DeadAreOut'
    BY <1>2, <1>3 DEF DeadAreOut
  <2>3. Owed' \subseteq Owed
    BY <1>2, <1>3 DEF Owed, DeadIndices
  <2>4. SpawnsMatchFailures'
    BY <1>2, <1>3, <2>3, CountKept
  <2> QED BY <2>1, <2>2, <2>4
<1>4. CASE /\ keep_running /\ mon_pc' = "spawn" /\ attempt' = 1 /\ dead' = dead
           /\ ready_flags' = [ready_flags EXCEPT ![Min(dead)] = FALSE]
  <2>1. TypeOK'
    BY <1>2, <1>4, WorkersAssumption DEF TypeOK
  <2>2. TableIsTrue' /\ ReplacementIsTrue' /\ NotYetSpawned' /\ LiveAreKnown' /\ DeadAreOut'
    BY <1>2, <1>4 DEF TableIsTrue, ReplacementIsTrue, NotYetSpawned, LiveAreKnown, DeadAreOut,
       Unreaped
  <2>3. Phases'
    BY <1>2, <1>4 DEF Phases
  <2>4. Owed' = Owed /\ Min(dead) \in Owed
    BY <1>2, <1>4 DEF Owed, DeadIndices
  <2>5. Cardinality(Owed) > 0
    BY <2>4, OwedFinite, FS_EmptySet
  <2>6. next_pid \in Nat /\ failures \in Nat /\ NumWorkers \in Nat /\ Cardinality(Owed) \in Nat
    BY OwedFinite, WorkersAssumption DEF TypeOK
  <2>7. next_pid + Cardinality(Owed) <= NumWorkers + 1 + failures
    BY <1>4 DEF SpawnsMatchFailures
  <2>8. SpawnsMatchFailures'
    BY <2>4, <2>5, <2>6, <2>7 DEF SpawnsMatchFailures
  <2> QED BY <2>1, <2>2, <2>3, <2>8
<1> QED BY <1>3, <1>4 DEF NextDead

(* The replacement of a dead worker gets a pid no process has had. *)
LEMMA SpawnStep ==
  ASSUME WorkersInv, Running, Spawn, UNCHANGED <<sig_pc, mainVars>>
  PROVE  WorkersInv'
<1> USE PidFacts DEF WorkersInv
<1>1. UNCHANGED <<killed, failures, worker_pids, ready_flags, flagVars, deadline, dead,
                  fatal_exit, sig_pc, mainVars>>
  BY DEF Spawn
<1> USE <1>1 DEF flagVars, mainVars
<1>2. /\ mon_pc = "spawn" /\ dead # {} /\ new_pid = 0
      /\ Min(dead) \in dead /\ Min(dead) \in Indices
  BY MinOfDead DEF Spawn, TypeOK, ReplacementIsTrue
<1>3. Phases'
  <2>1. main_pc \notin {"kill", "wait", "exit"} /\ exit_code \notin {"0", "1"}
    BY <1>2 DEF Phases
  <2> QED BY <2>1 DEF Phases
<1>4. CASE /\ UNCHANGED <<proc, index, new_pid, next_pid>> /\ attempt' \in 0..SpawnRetries
           /\ mon_pc' \in {"spawn", "store"}
  <2>1. TypeOK'
    BY <1>2, <1>4 DEF TypeOK
  <2> QED BY <1>2, <1>3, <1>4, <2>1, SameWorkers
<1>5. CASE /\ proc' = [proc EXCEPT ![next_pid] = "init"]
           /\ index' = [index EXCEPT ![next_pid] = Min(dead)]
           /\ new_pid' = next_pid /\ next_pid' = next_pid + 1
           /\ mon_pc' = "store" /\ attempt' = attempt
  <2>0. next_pid \in Nat /\ failures \in Nat /\ NumWorkers \in Nat /\ MaxFailures \in Nat
    BY WorkersAssumption DEF TypeOK
  <2>1. next_pid \in Pids /\ next_pid # 0
    <3>1. next_pid <= NumWorkers + failures /\ 0 < next_pid /\ failures <= MaxFailures
      BY <1>2 DEF SpawnsMatchFailures, TypeOK
    <3> QED BY <2>0, <3>1
  <2>2. TypeOK'
    <3>1. next_pid + 1 \in 1..(NumWorkers + MaxFailures + 1)
      BY <2>0, <2>1
    <3>2. "init" \in Live
      BY DEF Live
    <3>3. proc' \in [Pids -> {"none", "reaped"} \cup Live \cup Exited] /\ index' \in [Pids -> Indices]
      BY <1>2, <1>5, <2>1, <3>2 DEF TypeOK
    <3> QED BY <1>2, <1>5, <2>1, <3>1, <3>3 DEF TypeOK
  <2>3. \A i \in Indices : worker_pids[i] # 0 =>
          worker_pids[i] \in Pids /\ worker_pids[i] < next_pid /\ worker_pids[i] # next_pid
    <3> SUFFICES ASSUME NEW i \in Indices, worker_pids[i] # 0
                 PROVE  worker_pids[i] \in Pids /\ worker_pids[i] < next_pid /\ worker_pids[i] # next_pid
      OBVIOUS
    <3>1. worker_pids[i] \in Pids
      BY DEF TypeOK
    <3>2. worker_pids[i] < next_pid
      BY DEF TableIsTrue
    <3> QED BY <2>0, <3>1, <3>2
  <2>4. TableIsTrue'
    <3> SUFFICES ASSUME NEW i \in Indices, worker_pids[i] # 0
                 PROVE  /\ worker_pids[i] < next_pid + 1
                        /\ index'[worker_pids[i]] = i
                        /\ Unreaped(worker_pids[i])'
      BY <1>5 DEF TableIsTrue
    <3>1. worker_pids[i] \in Pids /\ worker_pids[i] < next_pid /\ worker_pids[i] # next_pid
      BY <2>3
    <3>2. index'[worker_pids[i]] = i /\ proc'[worker_pids[i]] = proc[worker_pids[i]]
      BY <1>5, <3>1 DEF TableIsTrue, TypeOK
    <3>4. worker_pids[i] \in Nat
      BY <3>1
    <3>3. worker_pids[i] < next_pid + 1
      BY <2>0, <3>1, <3>4
    <3> QED BY <3>2, <3>3 DEF TableIsTrue, Unreaped
  <2>5. ReplacementIsTrue' /\ DeadAreOut'
    BY <1>2, <1>5, <2>0, <2>1 DEF ReplacementIsTrue, DeadAreOut, Unreaped, TypeOK
  <2>6. NotYetSpawned'
    BY <1>5, <2>0 DEF NotYetSpawned, TypeOK
  <2>7. LiveAreKnown'
    BY <1>2, <1>5 DEF LiveAreKnown, TypeOK
  <2>8. keep_running => next_pid' + Cardinality(Owed') <= NumWorkers + 1 + failures
    <3>1. DeadIndices' \subseteq DeadIndices
      BY <1>5, <2>3 DEF DeadIndices, TypeOK
    <3>2. Owed' \subseteq Owed \ {Min(dead)}
      <4>1. proc'[new_pid'] \notin Exited /\ new_pid' # 0
        BY <1>5, <2>1 DEF Exited, TypeOK
      <4>2. Min(dead) \notin DeadIndices
        BY <1>2 DEF DeadIndices, DeadAreOut
      <4>3. Owed = DeadIndices \cup dead
        BY <1>2 DEF Owed
      <4>4. Owed' = DeadIndices' \cup (dead \ {Min(dead)})
        BY <4>1 DEF Owed
      <4> QED BY <3>1, <4>2, <4>3, <4>4
    <3>3. Min(dead) \in Owed
      BY <1>2 DEF Owed
    <3>4. /\ IsFiniteSet(Owed \ {Min(dead)})
          /\ Cardinality(Owed \ {Min(dead)}) = Cardinality(Owed) - 1
      BY <3>3, OwedFinite, FS_RemoveElement
    <3>5. IsFiniteSet(Owed') /\ Cardinality(Owed') <= Cardinality(Owed \ {Min(dead)})
      BY <3>2, <3>4, FS_Subset
    <3>6. Cardinality(Owed') \in Nat /\ Cardinality(Owed) \in Nat
      BY <3>5, OwedFinite, FS_CardinalityType
    <3>7. keep_running => next_pid + Cardinality(Owed) <= NumWorkers + 1 + failures
      BY DEF SpawnsMatchFailures
    <3>8. Cardinality(Owed') <= Cardinality(Owed) - 1
      BY <3>4, <3>5
    <3> HIDE <1>1
    <3> QED BY <1>5, <2>0, <3>6, <3>7, <3>8
  <2>9. SpawnsMatchFailures'
    <3>1. next_pid <= NumWorkers + failures
      BY <1>2 DEF SpawnsMatchFailures
    <3>2. next_pid' <= NumWorkers + 1 + failures'
      BY <1>5, <2>0, <3>1
    <3> QED BY <1>5, <2>8, <3>2 DEF SpawnsMatchFailures
  <2> QED BY <1>3, <2>2, <2>4, <2>5, <2>6, <2>7, <2>9
<1>6. CASE /\ \/ attempt < SpawnRetries /\ attempt' = attempt + 1 /\ UNCHANGED mon_pc
              \/ attempt >= SpawnRetries /\ mon_pc' = "store" /\ UNCHANGED attempt
           /\ UNCHANGED <<proc, index, new_pid, next_pid>>
  <2>1. attempt \in 0..SpawnRetries /\ SpawnRetries \in Nat
    BY WorkersAssumption DEF TypeOK
  <2>2. attempt' \in 0..SpawnRetries
    BY <1>6, <2>1
  <2> QED BY <1>2, <1>4, <1>6, <2>2
<1> QED BY <1>5, <1>6 DEF Spawn

(* The monitor enters the replacement in the table, or gives up. *)
LEMMA StoreStep ==
  ASSUME WorkersInv, Running, Store, UNCHANGED <<sig_pc, mainVars>>
  PROVE  WorkersInv'
<1> USE PidFacts DEF WorkersInv
<1>1. UNCHANGED <<procVars, ready_flags, fatal_exit, keep_running, shutdown_requested, sig_pc, mainVars>>
  BY DEF Store, flagVars
<1> USE <1>1 DEF procVars, mainVars
<1>2. /\ mon_pc = "store" /\ mon_pc' = "next" /\ dead # {}
      /\ Min(dead) \in dead /\ Min(dead) \in Indices
      /\ dead' = dead \ {Min(dead)} /\ new_pid' = 0 /\ attempt' = 0
  BY MinOfDead DEF Store, MonGoto, TypeOK
<1>3. new_pid \in Nat
  BY DEF TypeOK
<1>4. Phases'
  <2>1. main_pc \notin {"kill", "wait", "exit"} /\ exit_code \notin {"0", "1"}
    BY <1>2 DEF Phases
  <2> QED BY <2>1 DEF Phases
<1>5. /\ {fatal', sigterm'} \subseteq BOOLEAN
      /\ deadline' \in [Indices -> {"off", "armed", "expired"}]
  BY <1>2 DEF Store, RequestFatalShutdown, flagVars, TypeOK
<1>8. 0 \in 0..SpawnRetries
  BY WorkersAssumption
<1>6. CASE new_pid = 0 /\ UNCHANGED worker_pids
  <2>1. TypeOK'
    BY <1>2, <1>5, <1>6, <1>8 DEF TypeOK
  <2>2. TableIsTrue' /\ ReplacementIsTrue' /\ NotYetSpawned' /\ LiveAreKnown'
    BY <1>2, <1>6 DEF TableIsTrue, ReplacementIsTrue, NotYetSpawned, LiveAreKnown, Unreaped
  <2>3. DeadAreOut'
    BY <1>2, <1>6 DEF DeadAreOut
  <2>4. Owed' \subseteq Owed
    BY <1>2, <1>6 DEF Owed, DeadIndices
  <2>5. SpawnsMatchFailures'
    BY <1>2, <2>4, CountKept
  <2> QED BY <1>4, <2>1, <2>2, <2>3, <2>5
<1>7. CASE new_pid # 0 /\ worker_pids' = [worker_pids EXCEPT ![Min(dead)] = new_pid]
  <2>0. /\ new_pid < next_pid /\ index[new_pid] = Min(dead) /\ Unreaped(new_pid)
        /\ new_pid \in Pids
    BY <1>7 DEF ReplacementIsTrue, TypeOK
  <2>1. TypeOK'
    <3>1. worker_pids' \in [Indices -> {0} \cup Pids]
      BY <1>2, <1>7, <2>0 DEF TypeOK
    <3> QED BY <1>2, <1>5, <1>8, <3>1 DEF TypeOK
  <2>2. TableIsTrue'
    BY <1>2, <1>7, <2>0 DEF TableIsTrue, Unreaped, TypeOK
  <2>3. ReplacementIsTrue' /\ NotYetSpawned'
    BY <1>2 DEF ReplacementIsTrue, NotYetSpawned
  <2>4. DeadAreOut'
    BY <1>2, <1>7 DEF DeadAreOut, TypeOK
  <2>5. LiveAreKnown'
    <3> SUFFICES ASSUME NEW p \in Pids, proc[p] \in Live
                 PROVE  worker_pids'[index[p]] = p \/ killed[p]
      BY DEF LiveAreKnown
    <3>1. CASE new_pid = p
      BY <1>2, <1>7, <2>0, <3>1 DEF TypeOK
    <3>2. CASE worker_pids[index[p]] = p
      <4>1. index[p] # Min(dead)
        BY <1>2, <3>2 DEF DeadAreOut
      <4> QED BY <1>7, <3>2, <4>1 DEF TypeOK
    <3> QED BY <3>1, <3>2 DEF LiveAreKnown
  <2>6. Owed' \subseteq Owed
    <3> SUFFICES ASSUME NEW i \in Owed' PROVE i \in Owed
      OBVIOUS
    <3>1. CASE i \in dead'
      BY <1>2, <3>1 DEF Owed
    <3>2. CASE i = Min(dead) /\ i \in DeadIndices'
      <4>1. proc[new_pid] \in Exited
        BY <1>2, <1>7, <3>2 DEF DeadIndices, TypeOK
      <4> QED BY <1>2, <3>2, <4>1 DEF Owed
    <3>3. CASE i # Min(dead) /\ i \in DeadIndices'
      BY <1>7, <3>3 DEF Owed, DeadIndices, TypeOK
    <3> QED BY <3>1, <3>2, <3>3 DEF Owed
  <2>7. SpawnsMatchFailures'
    BY <1>2, <2>6, CountKept
  <2> QED BY <1>4, <2>1, <2>2, <2>3, <2>4, <2>5, <2>7
<1> QED BY <1>3, <1>6, <1>7 DEF Store

(* The other steps of the monitor look at the table and at the flags. *)
LEMMA QuietMonitorStep ==
  ASSUME WorkersInv, Running, Loop \/ FatalExit \/ CheckReady, UNCHANGED <<sig_pc, mainVars>>
  PROVE  WorkersInv'
<1> USE DEF WorkersInv
<1>1. /\ UNCHANGED <<procVars, worker_pids, ready_flags, keep_running, shutdown_requested, dead,
                     attempt, new_pid, sig_pc, mainVars>>
      /\ mon_pc # "store" /\ mon_pc' \in {"scan", "stopped", "next", "loop"}
      /\ mon_pc' \in {"loop", "scan", "stopped"} => dead = {}
      /\ mon_pc' # "stopped" => mon_pc # "stopped"
  BY DEF Loop, FatalExit, CheckReady, MonGoto, flagVars, DeadAreOut
<1> USE <1>1 DEF procVars, mainVars
<1>2. TypeOK'
  <2>1. deadline' \in [Indices -> {"off", "armed", "expired"}]
    BY DEF Loop, FatalExit, CheckReady, TypeOK
  <2>2. {fatal', sigterm', fatal_exit'} \subseteq BOOLEAN
    BY DEF Loop, FatalExit, CheckReady, RequestFatalShutdown, flagVars, TypeOK
  <2> QED BY <2>1, <2>2 DEF TypeOK
<1>3. Phases'
  BY DEF Phases
<1>4. new_pid = 0
  BY DEF ReplacementIsTrue
<1> QED BY <1>2, <1>3, <1>4, SameWorkers

(* A deadline passes, or the server is sent SIGTERM. *)
LEMMA OutsideStep ==
  ASSUME WorkersInv, (\E i \in Indices : Expire(i)) \/ SigTerm
  PROVE  WorkersInv'
<1> USE DEF WorkersInv
<1>1. UNCHANGED <<procVars, worker_pids, ready_flags, fatal, keep_running, shutdown_requested,
                  mon_pc, dead, fatal_exit, attempt, new_pid, sig_pc, mainVars>>
  BY DEF Expire, SigTerm, flagVars, monVars
<1> USE <1>1 DEF procVars, mainVars
<1>2. /\ deadline' \in [Indices -> {"off", "armed", "expired"}]
      /\ sigterm' \in BOOLEAN
  BY DEF Expire, SigTerm, flagVars, monVars, TypeOK
<1>3. TypeOK' /\ Phases'
  BY <1>2 DEF TypeOK, Phases
<1>4. new_pid # 0 => mon_pc' = "store"
  BY DEF ReplacementIsTrue
<1>5. mon_pc' \in {"loop", "scan", "stopped"} => dead = {}
  BY DEF DeadAreOut
<1> QED BY <1>3, <1>4, <1>5, SameWorkers

(* kill_all_workers and the flags of a shutdown: a process that was killed *)
(* stays killed, and nobody more is owed.                                  *)
LEMMA KillStep ==
  ASSUME WorkersInv, TypeOK', Phases', keep_running' => keep_running,
         UNCHANGED <<proc, index, next_pid, failures, worker_pids, dead, new_pid, mon_pc>>,
         KillAll \/ UNCHANGED killed
  PROVE  WorkersInv'
<1> USE DEF WorkersInv
<1>1. \A p \in Pids : killed[p] => killed'[p]
  BY DEF KillAll
<1>2. LiveAreKnown'
  BY <1>1 DEF LiveAreKnown
<1>3. TableIsTrue' /\ ReplacementIsTrue' /\ NotYetSpawned' /\ DeadAreOut'
  BY DEF TableIsTrue, ReplacementIsTrue, NotYetSpawned, DeadAreOut, Unreaped
<1>4. Owed' = Owed
  BY DEF Owed, DeadIndices
<1>5. SpawnsMatchFailures'
  BY <1>4, CountKept
<1> QED BY <1>2, <1>3, <1>5

(* The signal thread lowers keep_running before it kills. *)
LEMMA SignalStep ==
  ASSUME WorkersInv, SignalThread
  PROVE  WorkersInv'
<1> USE DEF WorkersInv
<1>1. UNCHANGED <<proc, index, next_pid, failures, worker_pids, ready_flags, monVars, mainVars>>
  BY DEF SignalThread
<1> USE <1>1 DEF monVars, mainVars
<1>2. KillAll \/ UNCHANGED killed
  BY DEF SignalThread, SigWait, SigKill
<1>3. TypeOK'
  <2>1. killed' \in [Pids -> BOOLEAN]
    BY <1>2 DEF KillAll, TypeOK
  <2>2. /\ sig_pc' \in {"sigwait", "kill", "done"}
        /\ {fatal', keep_running', shutdown_requested', sigterm'} \subseteq BOOLEAN
    BY DEF SignalThread, SigWait, SigKill, flagVars, TypeOK
  <2> QED BY <2>1, <2>2 DEF TypeOK
<1>4. /\ ~keep_running' /\ sig_pc' # "sigwait" /\ sig_pc # "done"
  BY DEF SignalThread, SigWait, SigKill, flagVars, Phases
<1>5. Phases'
  BY <1>4 DEF Phases
<1> QED BY <1>2, <1>3, <1>4, <1>5, KillStep

(* main: the steps that leave the table alone. *)
LEMMA MainQuietStep ==
  ASSUME WorkersInv, Main, ~MainReaps, ~MainLeaves
  PROVE  WorkersInv'
<1> USE DEF WorkersInv
<1>1. /\ UNCHANGED <<index, next_pid, failures, ready_flags, flagVars, monVars, sig_pc, wedged>>
      /\ UNCHANGED <<proc, worker_pids>>
      /\ KillAll \/ UNCHANGED killed
  BY DEF Main, MainStops, MainJoins, MainKills, MainExits, Watchdog
<1> USE <1>1 DEF monVars, flagVars
<1>2. /\ main_pc' \in {"serve", "join", "kill", "wait", "exit", "gone"}
      /\ exit_code' \in {"none", "0", "1", "watchdog"}
      /\ main_pc' \in {"kill", "wait", "exit"} \/ exit_code' \in {"0", "1"} => mon_pc = "stopped"
      /\ main_pc' = "exit" \/ exit_code' \in {"0", "1"} => \A i \in Indices : worker_pids[i] = 0
      /\ sig_pc = "done"
  BY DEF Main, MainStops, MainJoins, MainKills, MainExits, Watchdog, Phases, Running, TypeOK
<1>3. TypeOK'
  <2>1. killed' \in [Pids -> BOOLEAN]
    BY <1>1 DEF KillAll, TypeOK
  <2> QED BY <1>2, <2>1 DEF TypeOK
<1>4. ~keep_running
  BY <1>2 DEF Phases
<1>5. Phases'
  BY <1>2, <1>4 DEF Phases
<1> QED BY <1>3, <1>5, KillStep

(* main reaps the dead, and drops the table once the rest has been killed. *)
LEMMA MainTableStep ==
  ASSUME WorkersInv, Main, MainReaps \/ MainLeaves
  PROVE  WorkersInv'
<1> USE PidFacts DEF WorkersInv
<1>1. UNCHANGED <<index, next_pid, failures, ready_flags, flagVars, monVars, sig_pc, wedged, exit_code>>
  BY DEF Main, MainReaps, MainLeaves
<1> USE <1>1 DEF monVars, flagVars
<1>2. /\ main_pc = "wait" /\ main_pc' \in {"wait", "exit"} /\ exit_code = "none"
      /\ mon_pc = "stopped" /\ sig_pc = "done" /\ ~keep_running
  BY DEF Main, MainReaps, MainLeaves, Phases, Running
<1>3. dead = {} /\ new_pid = 0
  BY <1>2 DEF DeadAreOut, ReplacementIsTrue
<1>4. SpawnsMatchFailures'
  BY <1>2, CountKept
<1>5. CASE MainReaps
  <2>1. /\ proc' = [p \in Pids |-> IF \E i \in DeadIndices : p = worker_pids[i]
                                   THEN "reaped" ELSE proc[p]]
        /\ worker_pids' = [i \in Indices |-> IF i \in DeadIndices THEN 0 ELSE worker_pids[i]]
        /\ killed' = killed /\ main_pc' = main_pc
    BY <1>5 DEF MainReaps
  <2>2. TypeOK' /\ Phases'
    <3>1. proc' \in [Pids -> {"none", "reaped"} \cup Live \cup Exited]
      BY <2>1 DEF TypeOK
    <3>2. worker_pids' \in [Indices -> {0} \cup Pids]
      BY <2>1 DEF TypeOK
    <3> QED BY <1>2, <2>1, <3>1, <3>2 DEF TypeOK, Phases
  <2>3. TableIsTrue'
    <3> SUFFICES ASSUME NEW i \in Indices, worker_pids'[i] # 0
                 PROVE  /\ worker_pids'[i] = worker_pids[i] /\ worker_pids[i] # 0
                        /\ proc'[worker_pids[i]] = proc[worker_pids[i]]
      BY DEF TableIsTrue, Unreaped
    <3>1. worker_pids'[i] = worker_pids[i] /\ i \notin DeadIndices /\ worker_pids[i] \in Pids
      BY <2>1 DEF TypeOK
    <3>2. ASSUME NEW j \in DeadIndices PROVE worker_pids[j] # worker_pids[i]
      BY <3>1, <3>2 DEF TableIsTrue, DeadIndices
    <3> QED BY <2>1, <3>1, <3>2
  <2>4. NotYetSpawned'
    <3>1. ASSUME NEW p \in Pids, p >= next_pid, NEW i \in DeadIndices PROVE p # worker_pids[i]
      <4>1. worker_pids[i] < next_pid /\ worker_pids[i] \in {0} \cup Pids
        BY <3>1 DEF TableIsTrue, DeadIndices, TypeOK
      <4>2. worker_pids[i] \in Nat
        BY <4>1, PidIsNatural, Zenon
      <4>3. next_pid \in Nat /\ p \in Nat
        BY DEF TypeOK
      <4> QED BY <3>1, <4>1, <4>2, <4>3
    <3> QED BY <2>1, <3>1 DEF NotYetSpawned
  <2>5. LiveAreKnown'
    <3> SUFFICES ASSUME NEW p \in Pids, proc'[p] \in Live
                 PROVE  worker_pids'[index[p]] = p \/ new_pid = p \/ killed[p]
      BY <2>1 DEF LiveAreKnown
    <3>1. proc[p] \in Live
      BY <2>1 DEF Live
    <3>2. index[p] \in Indices
      BY DEF TypeOK
    <3>3. worker_pids[index[p]] = p => index[p] \notin DeadIndices
      BY <3>1 DEF DeadIndices, Live, Exited
    <3> QED BY <2>1, <3>1, <3>2, <3>3 DEF LiveAreKnown
  <2> QED BY <1>3, <1>4, <2>2, <2>3, <2>4, <2>5 DEF ReplacementIsTrue, DeadAreOut
<1>6. CASE MainLeaves
  <2>1. /\ worker_pids' = [i \in Indices |-> 0] /\ proc' = proc
        /\ killed' = [p \in Pids |-> killed[p] \/ \E i \in Indices : worker_pids[i] = p]
    BY <1>6 DEF MainLeaves, KillAll
  <2>2. TypeOK' /\ Phases'
    <3>1. killed' \in [Pids -> BOOLEAN]
      BY <2>1 DEF TypeOK
    <3>2. worker_pids' \in [Indices -> {0} \cup Pids]
      BY <2>1
    <3> QED BY <1>2, <2>1, <3>1, <3>2 DEF TypeOK, Phases
  <2>3. TableIsTrue' /\ NotYetSpawned'
    BY <2>1 DEF TableIsTrue, NotYetSpawned
  <2>4. LiveAreKnown'
    BY <1>3, <2>1 DEF LiveAreKnown, TypeOK
  <2> QED BY <1>3, <1>4, <2>2, <2>3, <2>4 DEF ReplacementIsTrue, DeadAreOut
<1> QED BY <1>5, <1>6

(* Every step of the server and of its workers keeps the invariant. *)
LEMMA WorkersStep == WorkersInv /\ [Next]_vars => WorkersInv'
<1> SUFFICES ASSUME WorkersInv, [Next]_vars PROVE WorkersInv'
  OBVIOUS
<1>1. CASE \E p \in Pids : Worker(p)
  BY <1>1, WorkerStep
<1>2. CASE (\E i \in Indices : Expire(i)) \/ SigTerm
  BY <1>2, OutsideStep
<1>3. CASE Monitor
  BY <1>3, QuietMonitorStep, ScanStep, NextDeadStep, SpawnStep, StoreStep DEF Monitor
<1>4. CASE SignalThread
  BY <1>4, SignalStep
<1>5. CASE Main
  BY <1>5, MainQuietStep, MainTableStep
<1>6. CASE UNCHANGED vars
  <2>1. TypeOK' /\ Phases'
    BY <1>6 DEF WorkersInv, vars, procVars, flagVars, monVars, mainVars, TypeOK, Phases
  <2> QED BY <1>6, <2>1, KillStep DEF vars, procVars, flagVars, monVars, mainVars
<1> QED BY <1>1, <1>2, <1>3, <1>4, <1>5, <1>6 DEF Next

(* The invariant holds in every behaviour. *)
LEMMA WorkersInvariant == Spec => []WorkersInv
  BY InitWorkers, WorkersStep, PTL DEF Spec

(* worker_pids names only children of the server that have not been        *)
(* reaped: kill_all_workers never signals a pid that the system may have   *)
(* given to somebody else.                                                 *)
THEOREM KillsOnlyItsOwn == Spec => []PidsAreOwn
<1>1. WorkersInv => PidsAreOwn
  BY DEF WorkersInv, TableIsTrue, Unreaped, PidsAreOwn
<1> QED BY <1>1, WorkersInvariant, PTL

(* When main returns, every worker ever spawned has exited or has been     *)
(* sent SIGKILL, whatever the monitor was doing when the signal thread and *)
(* main ran kill_all_workers.                                              *)
THEOREM NobodyLeftBehind == Spec => []NoWorkerLeftBehind
<1>1. WorkersInv => NoWorkerLeftBehind
  <2> SUFFICES ASSUME WorkersInv, exit_code \in {"0", "1"}, NEW p \in Pids, proc[p] \in Live
               PROVE  killed[p]
    BY DEF NoWorkerLeftBehind
  <2>1. mon_pc = "stopped" /\ \A i \in Indices : worker_pids[i] = 0
    BY DEF WorkersInv, Phases
  <2>2. new_pid = 0
    BY <2>1 DEF WorkersInv, ReplacementIsTrue
  <2>3. p # 0 /\ index[p] \in Indices
    BY PidFacts DEF WorkersInv, TypeOK
  <2> QED BY <2>1, <2>2, <2>3 DEF WorkersInv, LiveAreKnown
<1> QED BY <1>1, WorkersInvariant, PTL

(* A fatal worker failure, also one found during a shutdown, shows in the  *)
(* exit code.                                                              *)
THEOREM FatalFailureIsReported == Spec => []FatalIsReported
<1>1. Init => FatalIsReported
  BY DEF Init, FatalIsReported
<1>2. FatalIsReported /\ [Next]_vars => FatalIsReported'
  <2> SUFFICES ASSUME FatalIsReported, [Next]_vars PROVE FatalIsReported'
    OBVIOUS
  <2>1. CASE Monitor
    BY <2>1 DEF Monitor, Running, mainVars, FatalIsReported
  <2>2. CASE Main
    <3>1. UNCHANGED fatal
      BY <2>2 DEF Main, flagVars
    <3>2. exit_code' = exit_code \/ exit_code' = "watchdog" \/ exit_code' = IF fatal THEN "1" ELSE "0"
      BY <2>2 DEF Main, MainStops, MainJoins, MainKills, MainReaps, MainLeaves, MainExits, Watchdog
    <3> QED BY <3>1, <3>2 DEF FatalIsReported
  <2>3. CASE UNCHANGED <<fatal, exit_code>>
    BY <2>3 DEF FatalIsReported
  <2>4. CASE SignalThread
    BY <2>3, <2>4 DEF SignalThread, SigWait, SigKill, flagVars, mainVars
  <2> QED BY <2>1, <2>2, <2>3, <2>4 DEF Next, Worker, Expire, SigTerm, vars, flagVars, mainVars
<1> QED BY <1>1, <1>2, PTL DEF Spec

-----------------------------------------------------------------------------
(* The result slots keep and deliver whole results, for any number of      *)
(* writers, except those into whose entry a second writer wrote meanwhile. *)

Reading == {"copy_job", "copy_status", "clear_claimed", "clear_ready"}
WriterPoints == {"idle", "load_ready", "cas", "recheck", "unclaim", "write_job", "write_status",
                 "store_ready", "store_unclaimed", "stream"}

(* The invariant.  Writers that meet in a slot are both disturbed; so an   *)
(* undisturbed one is alone in its slot, which is not visible and holds    *)
(* what it has written.                                                    *)
MeetingIsNoted ==
    \A v, w \in Writers : v # w /\ Writing(v) /\ Writing(w) /\ wr_at[v] = wr_at[w]
                            => wr_res[w] \in disturbed

WriteIsHidden ==
    \A w \in Writers : wr_res[w] \notin disturbed =>
      /\ Writing(w) => ~ready[wr_at[w]]
      /\ wr_pc[w] = "store_ready" => /\ status_half[wr_at[w]] = wr_res[w]
                                     /\ ~retrieved[wr_at[w]]

(* What a slot holds belongs to a writer in it, or to a disturbed one. *)
SlotIsOurs ==
    \A w \in Writers : wr_pc[w] \in {"write_status", "store_ready"} =>
      job_half[wr_at[w]] = wr_res[w] \/ {job_half[wr_at[w]], wr_res[w]} \subseteq disturbed

(* Nobody writes into a visible entry that is not disturbed. *)
VisibleIsWhole ==
    /\ \A s \in Slots : ready[s] => job_half[s] = status_half[s] \/ job_half[s] \in disturbed
    /\ \A w \in Writers : Writing(w) /\ ready[wr_at[w]] => job_half[wr_at[w]] \in disturbed

ReadIsVisible ==
    /\ rd_pc \in Reading => ready[rd_at]
    /\ rd_pc = "copy_status" =>
         rd_job = job_half[rd_at] \/ {rd_job, job_half[rd_at]} \subseteq disturbed
    /\ rd_pc \in {"clear_claimed", "clear_ready"} =>
         retrieved[rd_at] \/ job_half[rd_at] \in disturbed

ResultsInv ==
    /\ ResultTypeOK /\ MeetingIsNoted /\ WriteIsHidden /\ SlotIsOurs /\ VisibleIsWhole
    /\ ReadIsVisible /\ ReadsWhatWasWritten /\ NothingLost

-----------------------------------------------------------------------------

(* The slots start empty. *)
LEMMA InitResults == ResultInit => ResultsInv
<1> SUFFICES ASSUME ResultInit PROVE ResultsInv
  OBVIOUS
<1>1. 1 \in Slots /\ 0 \in Produced /\ 0 \in 0..MaxDeaths
  BY ResultSlotsAssumption DEF Slots, Produced
<1>2. ResultTypeOK
  BY <1>1 DEF ResultInit, ResultTypeOK
<1>3. MeetingIsNoted /\ WriteIsHidden /\ SlotIsOurs /\ VisibleIsWhole
  BY DEF ResultInit, MeetingIsNoted, WriteIsHidden, SlotIsOurs, VisibleIsWhole, Writing
<1>4. ReadIsVisible /\ ReadsWhatWasWritten /\ NothingLost
  BY DEF ResultInit, ReadIsVisible, ReadsWhatWasWritten, NothingLost, Reading
<1> QED BY <1>2, <1>3, <1>4 DEF ResultsInv

(* The place of a writer after it moved on, dropped its result or died. *)
LEMMA WriterMoves ==
  ASSUME ResultTypeOK, NEW w \in Writers, NextFree(w) \/ Done(w)
  PROVE  /\ wr_pc' \in [Writers -> WriterPoints]
         /\ wr_at' \in [Writers -> Slots] /\ wr_res' \in [Writers -> Produced]
         /\ wr_pc'[w] \in {"idle", "load_ready"}
<1>1. /\ wr_pc \in [Writers -> WriterPoints]
      /\ wr_at \in [Writers -> Slots] /\ wr_res \in [Writers -> Produced]
  BY DEF ResultTypeOK, WriterPoints
<1>2. 1 \in Slots /\ 0 \in Produced
  BY ResultSlotsAssumption DEF Slots, Produced
<1>3. CASE Done(w)
  BY <1>1, <1>2, <1>3 DEF Done, WriterPoints
<1>4. CASE wr_at[w] < MAX_RESULTS /\ NextFree(w) /\ ~Done(w)
  <2>1. wr_at[w] + 1 \in Slots
    BY <1>1, <1>4, ResultSlotsAssumption DEF Slots
  <2>2. /\ wr_pc' = [wr_pc EXCEPT ![w] = "load_ready"]
        /\ wr_at' = [wr_at EXCEPT ![w] = wr_at[w] + 1]
        /\ UNCHANGED wr_res
    BY <1>4 DEF NextFree
  <2> QED BY <1>1, <2>1, <2>2 DEF WriterPoints
<1> QED BY <1>3, <1>4 DEF NextFree

(* A step of a writer that leaves the slots alone and after which it is    *)
(* not in the middle of writing.                                           *)
LEMMA WriterSame ==
  ASSUME ResultsInv, NEW w \in Writers, ResultTypeOK', disturbed \subseteq disturbed',
         \A v \in Writers \ {w} : /\ wr_pc'[v] = wr_pc[v] /\ wr_at'[v] = wr_at[v]
                                  /\ wr_res'[v] = wr_res[v],
         UNCHANGED <<ready, retrieved, job_half, status_half, rdVars, published, delivered>>,
         ~Writing(w)'
  PROVE  ResultsInv'
<1> USE DEF ResultsInv, rdVars
<1>1. ReadIsVisible' /\ ReadsWhatWasWritten' /\ NothingLost'
  BY DEF ReadIsVisible, ReadsWhatWasWritten, NothingLost
<1>2. MeetingIsNoted' /\ WriteIsHidden' /\ SlotIsOurs'
  BY DEF MeetingIsNoted, WriteIsHidden, SlotIsOurs, Writing
<1>3. VisibleIsWhole'
  BY DEF VisibleIsWhole, Writing
<1> QED BY <1>1, <1>2, <1>3

(* Two names for the set of program points. *)
LEMMA WriterTypes ==
  ResultTypeOK <=>
    /\ ready \in [Slots -> BOOLEAN] /\ claimed \in [Slots -> BOOLEAN]
    /\ retrieved \in [Slots -> BOOLEAN]
    /\ job_half \in [Slots -> Produced] /\ status_half \in [Slots -> Produced]
    /\ wr_pc \in [Writers -> WriterPoints]
    /\ wr_at \in [Writers -> Slots] /\ wr_res \in [Writers -> Produced]
    /\ rd_pc \in {"check", "copy_job", "copy_status", "clear_claimed", "clear_ready"}
    /\ rd_at \in Slots /\ rd_job \in Produced /\ rd_status \in Produced
    /\ delivered \subseteq Produced /\ published \subseteq Produced /\ disturbed \subseteq Produced
    /\ produced \in Produced /\ deaths \in 0..MaxDeaths /\ orphaned \subseteq Slots
  BY DEF ResultTypeOK, WriterPoints

(* Steps of the writer. *)
LEMMA WriterStep ==
  ASSUME ResultsInv, NEW w \in Writers, Writer(w) \/ Die(w)
  PROVE  ResultsInv'
<1> USE DEF ResultsInv
<1>a. \A v \in Writers \ {w} : /\ wr_pc'[v] = wr_pc[v] /\ wr_at'[v] = wr_at[v]
                               /\ wr_res'[v] = wr_res[v]
  BY DEF ResultTypeOK, Writer, Die, Produce, LoadReady, Cas, Recheck, Unclaim, WriteJob, WriteStatus,
     StoreReady, StoreUnclaimed, StreamFails, NextFree, Done, WrGoto
<1>0. wr_at[w] \in Slots /\ wr_res[w] \in Produced /\ UNCHANGED rdVars /\ UNCHANGED delivered
  BY DEF ResultTypeOK, Writer, Die
<1> USE <1>0 DEF rdVars
<1>1. CASE Produce(w) /\ Writer(w)
  <2>1. produced + 1 \in Produced
    BY <1>1, ResultSlotsAssumption DEF Produce, ResultTypeOK, Produced
  <2>2. ResultTypeOK' /\ wr_pc'[w] = "load_ready"
    BY <1>1, <2>1 DEF Produce, Writer, WrGoto, slotVars, ResultTypeOK
  <2> QED BY <1>1, <1>a, <2>2, WriterSame DEF Produce, Writer, slotVars, Writing
<1>2. CASE (LoadReady(w) \/ Cas(w) \/ Unclaim(w)) /\ Writer(w)
  <2>1. /\ UNCHANGED <<ready, retrieved, job_half, status_half, histVars, deaths, orphaned>>
        /\ claimed' \in [Slots -> BOOLEAN]
    BY <1>2 DEF LoadReady, Cas, Unclaim, Writer, slotVars, ResultTypeOK
  <2>2. \/ NextFree(w)
        \/ /\ wr_pc' = [wr_pc EXCEPT ![w] = "cas"] \/ wr_pc' = [wr_pc EXCEPT ![w] = "recheck"]
           /\ UNCHANGED <<wr_at, wr_res>>
    BY <1>2 DEF LoadReady, Cas, Unclaim, WrGoto
  <2>3. /\ wr_pc' \in [Writers -> WriterPoints]
        /\ wr_at' \in [Writers -> Slots] /\ wr_res' \in [Writers -> Produced]
        /\ wr_pc'[w] \in {"idle", "load_ready", "cas", "recheck"}
    BY <2>2, WriterMoves, WriterTypes DEF WriterPoints
  <2>4. ResultTypeOK'
    BY <2>1, <2>3 DEF ResultTypeOK, WriterPoints, histVars
  <2> QED BY <1>a, <2>1, <2>3, <2>4, WriterSame DEF Writing, histVars
<1>3. CASE Recheck(w) /\ Writer(w)
  <2> DEFINE others == WritingAt(wr_at[w])
  <2>1. /\ UNCHANGED <<slotVars, wr_at, wr_res, produced, published, deaths, orphaned>>
        /\ wr_pc[w] = "recheck"
        /\ wr_pc' = [wr_pc EXCEPT ![w] = IF ready[wr_at[w]] THEN "unclaim" ELSE "write_job"]
        /\ disturbed' = IF ready[wr_at[w]] \/ others = {} THEN disturbed
                        ELSE disturbed \cup {wr_res[v] : v \in others \cup {w}}
    BY <1>3 DEF Recheck, WrGoto, Writer
  <2>2. others \subseteq Writers /\ \A v \in Writers : v \in others <=> Writing(v) /\ wr_at[v] = wr_at[w]
    BY DEF WritingAt
  <2> HIDE DEF others
  <2>3. /\ disturbed \subseteq disturbed' /\ disturbed' \subseteq Produced
        /\ ~ready[wr_at[w]] => \A v \in others : {wr_res[v], wr_res[w]} \subseteq disturbed'
    BY <2>1, <2>2 DEF ResultTypeOK
  <2>4. ResultTypeOK'
    BY <2>1, <2>3 DEF ResultTypeOK, slotVars
  <2>5. CASE ready[wr_at[w]]
    <3>1. ~Writing(w)'
      BY <2>1, <2>5 DEF Writing, ResultTypeOK
    <3> QED BY <1>a, <2>1, <2>3, <2>4, <3>1, WriterSame DEF slotVars
  <2>6. CASE ~ready[wr_at[w]]
    <3>1. wr_pc'[w] = "write_job" /\ wr_at'[w] = wr_at[w] /\ wr_res'[w] = wr_res[w]
      BY <2>1, <2>6 DEF ResultTypeOK
    <3>2. MeetingIsNoted'
      <4> SUFFICES ASSUME NEW u \in Writers, NEW v \in Writers, u # v, Writing(u)', Writing(v)',
                          wr_at'[u] = wr_at'[v]
                   PROVE  wr_res'[v] \in disturbed'
        BY DEF MeetingIsNoted
      <4>1. CASE u # w /\ v # w
        BY <1>a, <2>3, <4>1 DEF MeetingIsNoted, Writing
      <4>2. CASE u = w \/ v = w
        <5>1. PICK x \in {u, v} : x # w
          BY <4>2
        <5>2. x \in others
          BY <1>a, <2>2, <3>1, <4>2, <5>1 DEF Writing
        <5> QED BY <1>a, <2>3, <2>6, <3>1, <4>2, <5>1, <5>2
      <4> QED BY <4>1, <4>2
    <3>3. WriteIsHidden' /\ SlotIsOurs'
      BY <1>a, <2>1, <2>3, <2>6, <3>1 DEF WriteIsHidden, SlotIsOurs, Writing, slotVars
    <3>4. VisibleIsWhole'
      BY <1>a, <2>1, <2>3, <2>6, <3>1 DEF VisibleIsWhole, Writing, slotVars
    <3>5. ReadIsVisible' /\ ReadsWhatWasWritten' /\ NothingLost'
      BY <2>1, <2>3 DEF ReadIsVisible, ReadsWhatWasWritten, NothingLost, slotVars
    <3> QED BY <2>4, <3>2, <3>3, <3>4, <3>5
  <2> QED BY <2>5, <2>6
<1>4. CASE WriteJob(w) /\ Writer(w)
  <2>1. /\ UNCHANGED <<ready, claimed, retrieved, status_half, wr_at, wr_res, produced, published,
                       disturbed, deaths, orphaned>>
        /\ wr_pc[w] = "write_job" /\ wr_pc' = [wr_pc EXCEPT ![w] = "write_status"]
        /\ job_half' = [job_half EXCEPT ![wr_at[w]] = wr_res[w]]
    BY <1>4 DEF WriteJob, WrGoto, Writer, histVars
  <2>2. ResultTypeOK'
    BY <2>1 DEF ResultTypeOK
  <2>3. Writing(w) /\ wr_pc'[w] = "write_status"
    BY <2>1 DEF Writing, ResultTypeOK
  <2>4. /\ job_half'[wr_at[w]] = wr_res[w]
        /\ \A s \in Slots : s # wr_at[w] => job_half'[s] = job_half[s]
    BY <2>1 DEF ResultTypeOK
  <2>5. ready[wr_at[w]] => wr_res[w] \in disturbed /\ job_half[wr_at[w]] \in disturbed
    BY <2>3 DEF WriteIsHidden, VisibleIsWhole
  <2>6. MeetingIsNoted' /\ WriteIsHidden'
    BY <1>a, <2>1, <2>3 DEF MeetingIsNoted, WriteIsHidden, Writing
  <2>7. SlotIsOurs'
    <3> SUFFICES ASSUME NEW v \in Writers, wr_pc'[v] \in {"write_status", "store_ready"}
                 PROVE  \/ job_half'[wr_at[v]] = wr_res[v]
                        \/ {job_half'[wr_at[v]], wr_res[v]} \subseteq disturbed
      BY <2>1 DEF SlotIsOurs
    <3>1. CASE v = w
      BY <2>4, <3>1
    <3>2. CASE v # w
      <4>1. wr_pc[v] \in {"write_status", "store_ready"} /\ Writing(v) /\ wr_at[v] \in Slots
        BY <1>a, <3>2 DEF Writing, ResultTypeOK
      <4>2. wr_at[v] = wr_at[w] => {wr_res[v], wr_res[w]} \subseteq disturbed
        BY <2>3, <3>2, <4>1 DEF MeetingIsNoted
      <4> QED BY <2>4, <4>1, <4>2 DEF SlotIsOurs
    <3> QED BY <3>1, <3>2
  <2>8. VisibleIsWhole'
    <3>1. ASSUME NEW s \in Slots, ready[s]
          PROVE  job_half'[s] = status_half[s] \/ job_half'[s] \in disturbed
      BY <2>4, <2>5, <3>1 DEF VisibleIsWhole
    <3>2. ASSUME NEW v \in Writers, Writing(v)', ready[wr_at[v]]
          PROVE  job_half'[wr_at[v]] \in disturbed
      <4>1. Writing(v) /\ wr_at[v] \in Slots
        BY <1>a, <2>3, <3>2 DEF Writing, ResultTypeOK
      <4> QED BY <2>4, <2>5, <3>2, <4>1 DEF VisibleIsWhole
    <3> QED BY <2>1, <3>1, <3>2 DEF VisibleIsWhole
  <2>9. ReadIsVisible'
    <3>1. rd_at \in Slots
      BY DEF ResultTypeOK
    <3> QED BY <2>1, <2>4, <2>5, <3>1 DEF ReadIsVisible, Reading
  <2>10. ReadsWhatWasWritten' /\ NothingLost'
    BY <2>1, <2>4, <2>5 DEF ReadsWhatWasWritten, NothingLost
  <2> QED BY <2>2, <2>6, <2>7, <2>8, <2>9, <2>10
<1>5. CASE WriteStatus(w) /\ Writer(w)
  <2>1. /\ UNCHANGED <<ready, claimed, job_half, wr_at, wr_res, produced, published, disturbed,
                       deaths, orphaned>>
        /\ wr_pc[w] = "write_status" /\ wr_pc' = [wr_pc EXCEPT ![w] = "store_ready"]
        /\ status_half' = [status_half EXCEPT ![wr_at[w]] = wr_res[w]]
        /\ retrieved' = [retrieved EXCEPT ![wr_at[w]] = FALSE]
    BY <1>5 DEF WriteStatus, WrGoto, Writer, histVars
  <2>2. ResultTypeOK'
    BY <2>1 DEF ResultTypeOK
  <2>3. Writing(w) /\ wr_pc'[w] = "store_ready"
    BY <2>1 DEF Writing, ResultTypeOK
  <2>4. /\ status_half'[wr_at[w]] = wr_res[w] /\ ~retrieved'[wr_at[w]]
        /\ \A s \in Slots : s # wr_at[w] =>
             status_half'[s] = status_half[s] /\ retrieved'[s] = retrieved[s]
        /\ \A s \in Slots : retrieved'[s] => retrieved[s]
    BY <2>1 DEF ResultTypeOK
  <2>5. ready[wr_at[w]] => job_half[wr_at[w]] \in disturbed
    BY <2>3 DEF VisibleIsWhole
  <2>6. MeetingIsNoted' /\ SlotIsOurs'
    BY <1>a, <2>1, <2>3 DEF MeetingIsNoted, SlotIsOurs, Writing
  <2>7. WriteIsHidden'
    <3> SUFFICES ASSUME NEW v \in Writers, wr_res[v] \notin disturbed
                 PROVE  /\ Writing(v)' => ~ready[wr_at[v]]
                        /\ wr_pc'[v] = "store_ready" =>
                             status_half'[wr_at[v]] = wr_res[v] /\ ~retrieved'[wr_at[v]]
      BY <2>1 DEF WriteIsHidden
    <3>1. CASE v = w
      BY <2>3, <2>4, <3>1 DEF WriteIsHidden
    <3>2. CASE v # w
      <4>1. wr_pc'[v] = wr_pc[v] /\ wr_at[v] \in Slots
        BY <1>a, <3>2 DEF ResultTypeOK
      <4>2. Writing(v) => wr_at[v] # wr_at[w]
        BY <2>3, <3>2 DEF MeetingIsNoted
      <4> QED BY <2>4, <4>1, <4>2 DEF WriteIsHidden, Writing
    <3> QED BY <3>1, <3>2
  <2>8. VisibleIsWhole'
    BY <1>a, <2>1, <2>3, <2>4, <2>5 DEF VisibleIsWhole, Writing
  <2>9. ReadIsVisible' /\ ReadsWhatWasWritten' /\ NothingLost'
    BY <2>1, <2>4, <2>5 DEF ReadIsVisible, ReadsWhatWasWritten, NothingLost, ResultTypeOK, Reading
  <2> QED BY <2>2, <2>6, <2>7, <2>8, <2>9
<1>6. CASE StoreReady(w) /\ Writer(w)
  <2>1. /\ UNCHANGED <<claimed, retrieved, job_half, status_half, wr_at, wr_res, produced,
                       disturbed, deaths, orphaned>>
        /\ wr_pc[w] = "store_ready" /\ wr_pc' = [wr_pc EXCEPT ![w] = "store_unclaimed"]
        /\ ready' = [ready EXCEPT ![wr_at[w]] = TRUE]
        /\ published' = published \cup {wr_res[w]}
    BY <1>6 DEF StoreReady, WrGoto, Writer
  <2>2. ResultTypeOK'
    BY <2>1 DEF ResultTypeOK
  <2>3. Writing(w) /\ ~Writing(w)'
    BY <2>1 DEF Writing, ResultTypeOK
  <2>4. ready'[wr_at[w]] /\ \A s \in Slots : s # wr_at[w] => ready'[s] = ready[s]
    BY <2>1 DEF ResultTypeOK
  <2>5. \/ {job_half[wr_at[w]], wr_res[w]} \subseteq disturbed
        \/ /\ job_half[wr_at[w]] = wr_res[w] /\ status_half[wr_at[w]] = wr_res[w]
           /\ ~retrieved[wr_at[w]]
    BY <2>1, <2>3 DEF SlotIsOurs, WriteIsHidden
  <2>6. MeetingIsNoted' /\ SlotIsOurs'
    BY <1>a, <2>1, <2>3 DEF MeetingIsNoted, SlotIsOurs, Writing
  <2>7. ASSUME NEW v \in Writers, v # w, Writing(v), wr_at[v] = wr_at[w]
        PROVE  /\ wr_res[v] \in disturbed /\ wr_res[w] \in disturbed
               /\ job_half[wr_at[w]] \in disturbed
    BY <2>1, <2>3, <2>7 DEF MeetingIsNoted, SlotIsOurs
  <2>8. WriteIsHidden'
    BY <1>a, <2>1, <2>3, <2>4, <2>7 DEF WriteIsHidden, Writing, ResultTypeOK
  <2>9. VisibleIsWhole'
    BY <1>a, <2>1, <2>3, <2>4, <2>5, <2>7 DEF VisibleIsWhole, Writing, ResultTypeOK
  <2>10. ReadIsVisible' /\ ReadsWhatWasWritten'
    BY <2>1, <2>4 DEF ReadIsVisible, ReadsWhatWasWritten, ResultTypeOK
  <2>11. NothingLost'
    <3>1. \A s \in Slots : ready[s] => ready'[s]
      BY <2>4
    <3> QED BY <2>1, <2>4, <2>5, <3>1 DEF NothingLost
  <2> QED BY <2>2, <2>6, <2>8, <2>9, <2>10, <2>11
<1>7. CASE (StoreUnclaimed(w) /\ Writer(w)) \/ Die(w)
  <2>1. /\ UNCHANGED <<ready, retrieved, job_half, status_half, histVars>>
        /\ claimed' \in [Slots -> BOOLEAN] /\ orphaned' \subseteq Slots
        /\ \/ Done(w)
           \/ wr_pc' = [wr_pc EXCEPT ![w] = "stream"] /\ UNCHANGED <<wr_at, wr_res>>
        /\ deaths' = deaths \/ (deaths < MaxDeaths /\ deaths' = deaths + 1)
    BY <1>7 DEF StoreUnclaimed, WrGoto, Die, Writer, slotVars, ResultTypeOK
  <2>2. deaths' \in 0..MaxDeaths
    BY <2>1, ResultSlotsAssumption DEF ResultTypeOK
  <2>3. /\ wr_pc' \in [Writers -> WriterPoints]
        /\ wr_at' \in [Writers -> Slots] /\ wr_res' \in [Writers -> Produced]
        /\ wr_pc'[w] \in {"idle", "load_ready", "stream"}
    BY <2>1, WriterMoves, WriterTypes DEF WriterPoints
  <2>4. ResultTypeOK'
    BY <2>1, <2>2, <2>3 DEF ResultTypeOK, WriterPoints, histVars
  <2> QED BY <1>a, <2>1, <2>3, <2>4, WriterSame DEF Writing, histVars
<1>8. CASE StreamFails(w) /\ Writer(w)
  <2> DEFINE others == WritingAt(wr_at[w])
  <2>1. /\ UNCHANGED <<ready, claimed, retrieved, job_half, produced, published, deaths, orphaned>>
        /\ wr_pc[w] = "stream" /\ Done(w)
        /\ status_half' = [status_half EXCEPT ![wr_at[w]] = wr_res[w]]
        /\ disturbed' = disturbed \cup {wr_res[v] : v \in others}
             \cup (IF ready[wr_at[w]] THEN {job_half[wr_at[w]]} \ {wr_res[w]} ELSE {})
    BY <1>8 DEF StreamFails, Writer
  <2>2. others \subseteq Writers /\ \A v \in Writers : v \in others <=> Writing(v) /\ wr_at[v] = wr_at[w]
    BY DEF WritingAt
  <2> HIDE DEF others
  <2>3. /\ disturbed \subseteq disturbed' /\ disturbed' \subseteq Produced
        /\ (\A v \in others : wr_res[v] \in disturbed')
        /\ ready[wr_at[w]] /\ job_half[wr_at[w]] # wr_res[w] => job_half[wr_at[w]] \in disturbed'
    BY <2>1, <2>2 DEF ResultTypeOK
  <2>4. /\ status_half'[wr_at[w]] = wr_res[w] /\ status_half' \in [Slots -> Produced]
        /\ \A s \in Slots : s # wr_at[w] => status_half'[s] = status_half[s]
    BY <2>1 DEF ResultTypeOK
  <2>5. /\ wr_pc' \in [Writers -> WriterPoints]
        /\ wr_at' \in [Writers -> Slots] /\ wr_res' \in [Writers -> Produced] /\ ~Writing(w)'
    BY <2>1, WriterMoves DEF Writing
  <2>6. ResultTypeOK'
    BY <2>1, <2>3, <2>4, <2>5 DEF ResultTypeOK, WriterPoints
  <2>7. MeetingIsNoted' /\ SlotIsOurs'
    BY <1>a, <2>1, <2>3, <2>5 DEF MeetingIsNoted, SlotIsOurs, Writing
  <2>8. WriteIsHidden'
    <3> SUFFICES ASSUME NEW v \in Writers, wr_res'[v] \notin disturbed', Writing(v)'
                 PROVE  /\ ~ready[wr_at'[v]]
                        /\ wr_pc'[v] = "store_ready" =>
                             status_half'[wr_at'[v]] = wr_res'[v] /\ ~retrieved[wr_at'[v]]
      BY <2>1 DEF WriteIsHidden, Writing
    <3>1. v # w /\ Writing(v) /\ wr_at[v] \in Slots /\ wr_res[v] \notin disturbed'
      BY <1>a, <2>5 DEF Writing, ResultTypeOK
    <3>2. wr_at[v] # wr_at[w]
      BY <2>2, <2>3, <3>1
    <3> QED BY <1>a, <2>3, <2>4, <3>1, <3>2 DEF WriteIsHidden
  <2>9. VisibleIsWhole'
    BY <1>a, <2>1, <2>3, <2>4, <2>5 DEF VisibleIsWhole, Writing
  <2>10. ReadIsVisible' /\ ReadsWhatWasWritten' /\ NothingLost'
    BY <2>1, <2>3 DEF ReadIsVisible, ReadsWhatWasWritten, NothingLost
  <2> QED BY <2>6, <2>7, <2>8, <2>9, <2>10
<1> QED BY <1>1, <1>2, <1>3, <1>4, <1>5, <1>6, <1>7, <1>8 DEF Writer

(* Steps of the reader. *)
LEMMA ReaderStep ==
  ASSUME ResultsInv, Reader
  PROVE  ResultsInv'
<1> USE DEF ResultsInv
<1>0. UNCHANGED <<wr_pc, wr_at, wr_res, produced, published, disturbed, deaths, orphaned,
                  job_half, status_half>>
  BY DEF Reader, RdCheck, RdCopyJob, RdCopyStatus, RdClearClaimed, RdClearReady, wrVars, slotVars,
     histVars
<1>1. rd_at' \in Slots
  <2>1. rd_at' = rd_at \/ rd_at' = IF rd_at < MAX_RESULTS THEN rd_at + 1 ELSE 1
    BY DEF Reader, RdCheck, RdCopyJob, RdCopyStatus, RdClearClaimed, RdClearReady, NextResult
  <2> QED BY <2>1, ResultSlotsAssumption DEF ResultTypeOK, Slots
<1>2. 0 \in Produced /\ rd_at \in Slots /\ job_half[rd_at] \in Produced /\ status_half[rd_at] \in Produced
  BY ResultSlotsAssumption DEF ResultTypeOK, Produced
<1>3. ResultTypeOK'
  <2>1. /\ rd_pc' \in {"check", "copy_job", "copy_status", "clear_claimed", "clear_ready"}
        /\ {rd_job', rd_status'} \subseteq Produced /\ delivered' \subseteq Produced
    BY <1>2 DEF Reader, RdCheck, RdCopyJob, RdCopyStatus, RdClearClaimed, RdClearReady, NextResult,
       RdGoto, ResultTypeOK
  <2>2. /\ ready' = ready \/ ready' = [ready EXCEPT ![rd_at] = FALSE]
        /\ claimed' = claimed \/ claimed' = [claimed EXCEPT ![rd_at] = FALSE]
        /\ retrieved' = retrieved \/ retrieved' = [retrieved EXCEPT ![rd_at] = TRUE]
    BY DEF Reader, RdCheck, RdCopyJob, RdCopyStatus, RdClearClaimed, RdClearReady, slotVars
  <2>3. {ready, claimed, retrieved} \subseteq [Slots -> BOOLEAN]
    BY DEF ResultTypeOK
  <2>4. /\ ready' \in [Slots -> BOOLEAN] /\ claimed' \in [Slots -> BOOLEAN]
        /\ retrieved' \in [Slots -> BOOLEAN]
    BY <2>2, <2>3
  <2> QED BY <1>0, <1>1, <2>1, <2>4 DEF ResultTypeOK
<1>4. /\ \A s \in Slots : ready'[s] => ready[s]
      /\ \A s \in Slots : retrieved'[s] => retrieved[s] \/ (s = rd_at /\ ready[s])
  BY DEF Reader, RdCheck, RdCopyJob, RdCopyStatus, RdClearClaimed, RdClearReady, slotVars, ResultTypeOK,
     ReadIsVisible, Reading, RdGoto
<1>5. MeetingIsNoted' /\ WriteIsHidden' /\ SlotIsOurs' /\ VisibleIsWhole'
  <2>1. \A w \in Writers : wr_at[w] \in Slots /\ (wr_pc[w] = "store_ready" => Writing(w))
    BY DEF ResultTypeOK, Writing
  <2>2. \A w \in Writers : Writing(w)' <=> Writing(w)
    BY <1>0 DEF Writing
  <2> QED BY <1>0, <1>4, <2>1, <2>2 DEF MeetingIsNoted, WriteIsHidden, SlotIsOurs, VisibleIsWhole
<1>6. ReadIsVisible' /\ ReadsWhatWasWritten'
  BY <1>0, <1>2 DEF Reader, RdCheck, RdCopyJob, RdCopyStatus, RdClearClaimed, RdClearReady,
     NextResult, RdGoto, slotVars, ResultTypeOK, ReadIsVisible, Reading, ReadsWhatWasWritten, VisibleIsWhole
<1>7. NothingLost'
  <2> SUFFICES ASSUME NEW n \in published \ (delivered' \cup disturbed)
               PROVE  \E s \in Slots : ready'[s] /\ ~retrieved'[s] /\ job_half[s] = n
    BY <1>0 DEF NothingLost
  <2>1. delivered \subseteq delivered'
    BY DEF Reader, RdCheck, RdCopyJob, RdCopyStatus, RdClearClaimed, RdClearReady
  <2>2. PICK s \in Slots : ready[s] /\ ~retrieved[s] /\ job_half[s] = n
    BY <2>1 DEF NothingLost
  <2>3. CASE RdCopyStatus
    BY <2>2, <2>3 DEF RdCopyStatus, RdGoto, ReadIsVisible, ResultTypeOK
  <2>4. CASE RdClearReady
    BY <2>2, <2>4 DEF RdClearReady, ReadIsVisible, ResultTypeOK
  <2> QED BY <2>2, <2>3, <2>4 DEF Reader, RdCheck, RdCopyJob, RdClearClaimed, slotVars
<1> QED BY <1>3, <1>5, <1>6, <1>7

(* Every step keeps the invariant. *)
LEMMA ResultsStep == ResultsInv /\ [ResultNext]_resultVars => ResultsInv'
<1> SUFFICES ASSUME ResultsInv, [ResultNext]_resultVars PROVE ResultsInv'
  OBVIOUS
<1>1. CASE \E v \in Writers : Writer(v) \/ Die(v)
  BY <1>1, WriterStep
<1>2. CASE Reader
  BY <1>2, ReaderStep
<1>3. CASE UNCHANGED resultVars
  BY <1>3 DEF resultVars, slotVars, wrVars, rdVars, histVars, ResultsInv, ResultTypeOK,
     MeetingIsNoted, WriteIsHidden, SlotIsOurs, VisibleIsWhole, ReadIsVisible, ReadsWhatWasWritten,
     NothingLost, Writing
<1> QED BY <1>1, <1>2, <1>3 DEF ResultNext

(* For any number of writers, wherever they are killed or overtaken: the   *)
(* outcome the reader hands on for a job is the one its writer stored,     *)
(* unless a second writer was in the same slot at the same time or noted   *)
(* its own failure there.                                                  *)
THEOREM ResultsAreWhole == ResultSpec => []ReadsWhatWasWritten
<1>1. ResultsInv => ReadsWhatWasWritten
  BY DEF ResultsInv
<1> QED BY <1>1, InitResults, ResultsStep, PTL DEF ResultSpec

(* For any number of writers, a visible result waits in a slot until it    *)
(* has been delivered: neither a later result nor the recycling of slots   *)
(* loses it, unless a second writer was in the slot at the same time.      *)
THEOREM ResultsAreKept == ResultSpec => []NothingLost
<1>1. ResultsInv => NothingLost
  BY DEF ResultsInv
<1> QED BY <1>1, InitResults, ResultsStep, PTL DEF ResultSpec

(* What a single writer has in its slot when its result is visible. *)
OneWriterInv(w) ==
    /\ disturbed = {}
    /\ wr_pc[w] \in {"write_status", "store_ready", "store_unclaimed", "stream"} =>
         job_half[wr_at[w]] = wr_res[w]

(* With one writer at a time (one worker process, whose jobs the monitor   *)
(* fails after it has died and before it is replaced) nobody ever meets    *)
(* another in a slot, so that every result is whole and none is lost.      *)
THEOREM OneWriterIsUndisturbed ==
  ASSUME NEW CONSTANT w, Writers = {w}
  PROVE  ResultSpec => [](disturbed = {})
<1>1. ResultInit => OneWriterInv(w)
  BY DEF ResultInit, OneWriterInv
<1>2. ASSUME ResultsInv, OneWriterInv(w), [ResultNext]_resultVars PROVE OneWriterInv(w)'
  <2>0. ResultTypeOK /\ wr_at[w] \in Slots
    BY <1>2 DEF ResultsInv, ResultTypeOK
  <2>1. CASE Recheck(w)
    <3>1. WritingAt(wr_at[w]) = {}
      BY <2>1 DEF WritingAt, Writing, Recheck, WrGoto
    <3> QED BY <1>2, <2>0, <2>1, <3>1 DEF Recheck, WrGoto, OneWriterInv, slotVars, ResultTypeOK
  <2>2. CASE StreamFails(w)
    <3>1. WritingAt(wr_at[w]) = {}
      BY <2>2 DEF WritingAt, Writing, StreamFails
    <3>2. job_half[wr_at[w]] = wr_res[w]
      BY <1>2, <2>2 DEF StreamFails, OneWriterInv
    <3> QED BY <1>2, <2>0, <2>2, <3>1, <3>2 DEF StreamFails, Done, OneWriterInv, ResultTypeOK
  <2>3. CASE WriteJob(w) \/ WriteStatus(w) \/ StoreReady(w) \/ StoreUnclaimed(w)
    BY <1>2, <2>0, <2>3 DEF WriteJob, WriteStatus, StoreReady, StoreUnclaimed, WrGoto, Done,
       OneWriterInv, histVars, ResultTypeOK
  <2>4. CASE Produce(w) \/ LoadReady(w) \/ Cas(w) \/ Unclaim(w) \/ Die(w)
    <3>1. disturbed' = disturbed /\ job_half' = job_half
      BY <2>4 DEF Produce, LoadReady, Cas, Unclaim, Die, histVars, slotVars
    <3>2. wr_pc'[w] \in {"idle", "load_ready", "cas", "recheck"}
      BY <2>0, <2>4 DEF Produce, LoadReady, Cas, Unclaim, Die, NextFree, Done, WrGoto, ResultTypeOK
    <3> QED BY <1>2, <3>1, <3>2 DEF OneWriterInv
  <2>5. CASE Reader \/ UNCHANGED resultVars
    BY <1>2, <2>5 DEF Reader, RdCheck, RdCopyJob, RdCopyStatus, RdClearClaimed, RdClearReady,
       resultVars, wrVars, slotVars, histVars, OneWriterInv
  <2> QED BY <1>2, <2>1, <2>2, <2>3, <2>4, <2>5 DEF ResultNext, Writer
<1>3. ResultsInv /\ OneWriterInv(w) /\ [ResultNext]_resultVars => OneWriterInv(w)'
  BY <1>2
<1>4. OneWriterInv(w) => disturbed = {}
  BY DEF OneWriterInv
<1> QED BY <1>1, <1>3, <1>4, InitResults, ResultsStep, PTL DEF ResultSpec
=============================================================================
