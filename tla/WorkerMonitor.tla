--------------------------- MODULE WorkerMonitor ---------------------------
(***************************************************************************)
(* The worker processes of the server: worker_monitor_thread, which reaps  *)
(* and respawns them, and the shutdown of the server by the signal thread  *)
(* and main, which kills them while the monitor may be spawning another.   *)
(*                                                                         *)
(* What becomes of the jobs of a dead worker (mark_worker_jobs_failed) is  *)
(* in module JobLifecycle, what becomes of the jobs at shutdown            *)
(* (cancel_all_active_jobs_for_shutdown) in JobWait.                       *)
(***************************************************************************)
EXTENDS Naturals, FiniteSets, FiniteSetsExt

CONSTANTS
    NumWorkers,   \* config.num_workers
    SpawnRetries, \* kWorkerSpawnRetries
    MaxFailures,  \* bound on workers that die by themselves
    Hangs,        \* may a worker hang before it is ready?
    SpawnFails,   \* may posix_spawn fail?
    Wedges        \* may another thread fail to join?

ASSUME WorkersAssumption ==
    /\ {NumWorkers, SpawnRetries} \subseteq Nat \ {0} /\ MaxFailures \in Nat
    /\ {Hangs, SpawnFails, Wedges} \subseteq BOOLEAN

VARIABLES
    \* processes by pid: state, worker index, has it been sent SIGKILL?
    proc, index, killed, next_pid, failures,
    \* worker_pids (0: none) and, in shared memory, worker_ready_flags
    worker_pids, ready_flags,
    \* fatal_worker_failure, keep_running, shutdown_requested, SIGTERM pending
    fatal, keep_running, shutdown_requested, sigterm,
    \* the monitor: program point, worker_ready_deadline, `dead' still to do,
    \* was there a fatal exit, attempts, pid of the replacement
    mon_pc, deadline, dead, fatal_exit, attempt, new_pid,
    \* the signal thread; main; does another thread hang; exit code
    sig_pc, main_pc, wedged, exit_code

procVars == <<proc, index, killed, next_pid, failures>>
monVars  == <<mon_pc, deadline, dead, fatal_exit, attempt, new_pid>>
flagVars == <<fatal, keep_running, shutdown_requested, sigterm>>
mainVars == <<main_pc, wedged, exit_code>>
vars == <<procVars, worker_pids, ready_flags, flagVars, monVars, sig_pc, mainVars>>

Indices == 1..NumWorkers
Pids == 1..(NumWorkers + MaxFailures)
Live == {"init", "ready", "hung"}
Exited == {"crashed", "gpu_unhealthy", "attach_failed", "exit0"}
Running == exit_code = "none"

(* Some of the first workers may have failed to start; one has not.  The   *)
(* monitor arms the deadlines as it starts.                                *)
Init ==
    /\ \E S \in SUBSET Indices \ {{}} :
         /\ SpawnFails \/ S = Indices
         /\ worker_pids = [i \in Indices |-> IF i \in S THEN i ELSE 0]
         /\ proc = [p \in Pids |-> IF p \in S THEN "init" ELSE "none"]
         /\ deadline = [i \in Indices |-> IF i \in S THEN "armed" ELSE "off"]
    /\ index = [p \in Pids |-> IF p \in Indices THEN p ELSE 1]
    /\ killed = [p \in Pids |-> FALSE]
    /\ next_pid = NumWorkers + 1
    /\ failures = 0
    /\ ready_flags = [i \in Indices |-> FALSE]
    /\ fatal = FALSE /\ keep_running = TRUE /\ shutdown_requested = FALSE
    /\ sigterm = FALSE
    /\ mon_pc = "loop" /\ dead = {} /\ fatal_exit = FALSE /\ attempt = 0 /\ new_pid = 0
    /\ sig_pc = "sigwait" /\ main_pc = "serve" /\ exit_code = "none"
    /\ wedged \in {FALSE, Wedges}

-----------------------------------------------------------------------------
(* Worker processes. *)

(* The startup probe succeeded. *)
PublishReady(p) ==
    /\ proc[p] = "init"
    /\ proc' = [proc EXCEPT ![p] = "ready"]
    /\ ready_flags' = [ready_flags EXCEPT ![index[p]] = TRUE]
    /\ UNCHANGED failures

Hang(p) ==
    /\ Hangs
    /\ proc[p] = "init"
    /\ proc' = [proc EXCEPT ![p] = "hung"]
    /\ UNCHANGED <<ready_flags, failures>>

(* A crash, a failed GPU probe, a failed attachment, an unexpected exit. *)
Fail(p) ==
    /\ failures < MaxFailures
    /\ proc[p] \in {"init", "ready"}
    /\ \E how \in Exited :
         /\ how = "attach_failed" => proc[p] = "init"
         /\ proc' = [proc EXCEPT ![p] = how]
    /\ failures' = failures + 1
    /\ UNCHANGED ready_flags

(* The worker loop sees shutdown_requested between two jobs. *)
StopCleanly(p) ==
    /\ shutdown_requested
    /\ proc[p] = "ready"
    /\ proc' = [proc EXCEPT ![p] = "exit0"]
    /\ UNCHANGED <<ready_flags, failures>>

(* SIGKILL takes effect; in the GPU driver that may take any time. *)
DieKilled(p) ==
    /\ killed[p]
    /\ proc[p] \in Live
    /\ proc' = [proc EXCEPT ![p] = "crashed"]
    /\ UNCHANGED <<ready_flags, failures>>

Worker(p) ==
    /\ PublishReady(p) \/ Hang(p) \/ Fail(p) \/ StopCleanly(p) \/ DieKilled(p)
    /\ UNCHANGED <<index, killed, next_pid, worker_pids, flagVars, monVars, sig_pc, mainVars>>

-----------------------------------------------------------------------------
(* worker_monitor_thread *)

MonGoto(from, to) == mon_pc = from /\ mon_pc' = to

(* request_fatal_worker_shutdown *)
RequestFatalShutdown == fatal' = TRUE /\ sigterm' = TRUE

DeadIndices == {i \in Indices : worker_pids[i] # 0 /\ proc[worker_pids[i]] \in Exited}

(* A loop that does not look at keep_running. *)
LoopForever ==
    /\ MonGoto("loop", "scan")
    /\ UNCHANGED <<procVars, worker_pids, ready_flags, flagVars, deadline, dead, fatal_exit,
                   attempt, new_pid>>

(* while (keep_running) *)
Loop ==
    /\ MonGoto("loop", IF keep_running THEN "scan" ELSE "stopped")
    /\ UNCHANGED <<procVars, worker_pids, ready_flags, flagVars, deadline, dead, fatal_exit,
                   attempt, new_pid>>

(* A scan that keeps the pids of the dead. *)
ScanKeepsPids ==
    /\ MonGoto("scan", "next")
    /\ dead' = DeadIndices
    /\ proc' = [p \in Pids |-> IF \E i \in DeadIndices : p = worker_pids[i]
                               THEN "reaped" ELSE proc[p]]
    /\ UNCHANGED <<index, killed, next_pid, failures, worker_pids, ready_flags, flagVars,
                   deadline, fatal_exit, attempt, new_pid>>

(* Under worker_pids_mutex: reap every dead child and look at how it died. *)
Scan ==
    /\ mon_pc = "scan"
    /\ LET how(i) == proc[worker_pids[i]] IN
       /\ fatal_exit' = \E i \in DeadIndices : how(i) \in {"gpu_unhealthy", "attach_failed"}
       /\ dead' = {i \in DeadIndices : ~(how(i) = "exit0" /\ shutdown_requested)}
    /\ mon_pc' = IF fatal_exit' THEN "fatal" ELSE "next"
    /\ proc' = [p \in Pids |-> IF \E i \in DeadIndices : p = worker_pids[i]
                               THEN "reaped" ELSE proc[p]]
    /\ worker_pids' = [i \in Indices |-> IF i \in DeadIndices THEN 0 ELSE worker_pids[i]]
    /\ deadline' = [i \in Indices |-> IF i \in DeadIndices THEN "off" ELSE deadline[i]]
    /\ UNCHANGED <<index, killed, next_pid, failures, ready_flags, flagVars, attempt, new_pid>>

FatalExit ==
    /\ MonGoto("fatal", "next")
    /\ deadline' = [i \in Indices |-> "off"]
    /\ RequestFatalShutdown
    /\ UNCHANGED <<procVars, worker_pids, ready_flags, keep_running, shutdown_requested,
                   dead, fatal_exit, attempt, new_pid>>

(* A respawn that leaves the ready flag of the dead worker up. *)
NextDeadKeepsFlag ==
    /\ mon_pc = "next" /\ dead # {}
    /\ IF fatal_exit \/ fatal \/ ~keep_running \/ shutdown_requested
       THEN dead' = dead \ {Min(dead)} /\ UNCHANGED <<mon_pc, attempt>>
       ELSE mon_pc' = "spawn" /\ attempt' = 1 /\ UNCHANGED dead
    /\ UNCHANGED <<procVars, worker_pids, ready_flags, flagVars, deadline, fatal_exit, new_pid>>

(* The next dead worker: no replacement when the server is going down. *)
NextDead ==
    /\ mon_pc = "next" /\ dead # {}
    /\ \/ /\ fatal_exit \/ fatal \/ ~keep_running \/ shutdown_requested
          /\ dead' = dead \ {Min(dead)}
          /\ UNCHANGED <<mon_pc, ready_flags, attempt>>
       \/ /\ ~(fatal_exit \/ fatal \/ ~keep_running \/ shutdown_requested)
          /\ ready_flags' = [ready_flags EXCEPT ![Min(dead)] = FALSE]
          /\ mon_pc' = "spawn" /\ attempt' = 1
          /\ UNCHANGED dead
    /\ UNCHANGED <<procVars, worker_pids, flagVars, deadline, fatal_exit, new_pid>>

(* spawn_single_worker, with no lock on worker_pids. *)
Spawn ==
    /\ mon_pc = "spawn"
    /\ \/ /\ proc' = [proc EXCEPT ![next_pid] = "init"]
          /\ index' = [index EXCEPT ![next_pid] = Min(dead)]
          /\ new_pid' = next_pid /\ next_pid' = next_pid + 1
          /\ mon_pc' = "store"
          /\ UNCHANGED attempt
       \/ /\ SpawnFails
          /\ \/ attempt < SpawnRetries /\ attempt' = attempt + 1 /\ UNCHANGED mon_pc
             \/ attempt >= SpawnRetries /\ mon_pc' = "store" /\ UNCHANGED attempt
          /\ UNCHANGED <<proc, index, new_pid, next_pid>>
    /\ UNCHANGED <<killed, failures, worker_pids, ready_flags, flagVars, deadline, dead,
                   fatal_exit>>

(* Failed attempts that nobody reports. *)
StoreIgnoresFailure ==
    /\ MonGoto("store", "next")
    /\ \/ /\ new_pid > 0
          /\ worker_pids' = [worker_pids EXCEPT ![Min(dead)] = new_pid]
          /\ deadline' = [deadline EXCEPT ![Min(dead)] = "armed"]
       \/ new_pid = 0 /\ UNCHANGED <<worker_pids, deadline>>
    /\ dead' = dead \ {Min(dead)}
    /\ new_pid' = 0 /\ attempt' = 0
    /\ UNCHANGED <<procVars, ready_flags, flagVars, fatal_exit>>

(* Enter its pid, under worker_pids_mutex, and wait for it to be ready. *)
Store ==
    /\ MonGoto("store", "next")
    /\ \/ /\ new_pid > 0
          /\ worker_pids' = [worker_pids EXCEPT ![Min(dead)] = new_pid]
          /\ deadline' = [deadline EXCEPT ![Min(dead)] = "armed"]
          /\ UNCHANGED flagVars
       \/ /\ new_pid = 0
          /\ RequestFatalShutdown
          /\ UNCHANGED <<worker_pids, deadline, keep_running, shutdown_requested>>
    /\ dead' = dead \ {Min(dead)}
    /\ new_pid' = 0 /\ attempt' = 0
    /\ UNCHANGED <<procVars, ready_flags, fatal_exit>>

(* A worker that never becomes ready takes the server down. *)
CheckReady ==
    /\ mon_pc = "next" /\ dead = {}
    /\ mon_pc' = "loop" /\ fatal_exit' = FALSE
    /\ LET late == {i \in Indices : deadline[i] = "expired" /\ ~ready_flags[i]} IN
       \/ fatal /\ UNCHANGED <<deadline, flagVars>>
       \/ /\ ~fatal /\ late = {}
          /\ deadline' = [i \in Indices |-> IF ready_flags[i] THEN "off" ELSE deadline[i]]
          /\ UNCHANGED flagVars
       \/ /\ ~fatal /\ late # {}
          /\ deadline' = [i \in Indices |-> "off"]
          /\ RequestFatalShutdown
          /\ UNCHANGED <<keep_running, shutdown_requested>>
    /\ UNCHANGED <<procVars, worker_pids, ready_flags, dead, attempt, new_pid>>

Monitor ==
    /\ Running
    /\ \/ Loop \/ Scan \/ FatalExit \/ NextDead \/ Spawn \/ Store \/ CheckReady
    /\ UNCHANGED <<sig_pc, mainVars>>

(* Time passes. *)
Expire(i) ==
    /\ Running
    /\ deadline[i] = "armed"
    /\ deadline' = [deadline EXCEPT ![i] = "expired"]
    /\ UNCHANGED <<procVars, worker_pids, ready_flags, flagVars, mon_pc, dead, fatal_exit,
                   attempt, new_pid, sig_pc, mainVars>>

-----------------------------------------------------------------------------
(* Shutdown: the signal thread, then shutdown_all in main. *)

(* kill_all_workers, under worker_pids_mutex *)
KillAll == killed' = [p \in Pids |-> killed[p] \/ \E i \in Indices : worker_pids[i] = p]

SigTerm ==
    /\ Running /\ ~sigterm
    /\ sigterm' = TRUE
    /\ UNCHANGED <<procVars, worker_pids, ready_flags, fatal, keep_running,
                   shutdown_requested, monVars, sig_pc, mainVars>>

(* sigwait returns. *)
SigWait ==
    /\ sig_pc = "sigwait" /\ sigterm
    /\ sig_pc' = "kill"
    /\ keep_running' = FALSE /\ shutdown_requested' = TRUE
    /\ UNCHANGED <<killed, fatal, sigterm>>

SigKill ==
    /\ sig_pc = "kill"
    /\ sig_pc' = "done"
    /\ KillAll
    /\ UNCHANGED flagVars

SignalThread ==
    /\ Running
    /\ SigWait \/ SigKill
    /\ UNCHANGED <<proc, index, next_pid, failures, worker_pids, ready_flags, monVars, mainVars>>

(* server->Wait() returns and the signal thread is joined. *)
MainStops ==
    /\ main_pc = "serve" /\ sig_pc = "done"
    /\ main_pc' = "join"
    /\ KillAll
    /\ UNCHANGED <<proc, worker_pids, exit_code>>

(* A main that does not wait for the monitor. *)
MainJoinsNotMonitor ==
    /\ main_pc = "join" /\ ~wedged
    /\ main_pc' = "kill"
    /\ UNCHANGED <<proc, killed, worker_pids, exit_code>>

MainJoins ==
    /\ main_pc = "join" /\ mon_pc = "stopped" /\ ~wedged
    /\ main_pc' = "kill"
    /\ UNCHANGED <<proc, killed, worker_pids, exit_code>>

(* wait_for_workers *)
MainKills ==
    /\ main_pc = "kill"
    /\ main_pc' = "wait"
    /\ KillAll
    /\ UNCHANGED <<proc, worker_pids, exit_code>>

MainReaps ==
    /\ main_pc = "wait"
    /\ DeadIndices # {}
    /\ proc' = [p \in Pids |-> IF \E i \in DeadIndices : p = worker_pids[i]
                               THEN "reaped" ELSE proc[p]]
    /\ worker_pids' = [i \in Indices |-> IF i \in DeadIndices THEN 0 ELSE worker_pids[i]]
    /\ UNCHANGED <<main_pc, killed, exit_code>>

(* All are gone, or the grace period is over and the rest is abandoned. *)
MainLeaves ==
    /\ main_pc = "wait"
    /\ main_pc' = "exit"
    /\ KillAll
    /\ worker_pids' = [i \in Indices |-> 0]
    /\ UNCHANGED <<proc, exit_code>>

MainExits ==
    /\ main_pc = "exit"
    /\ main_pc' = "gone"
    /\ exit_code' = IF fatal THEN "1" ELSE "0"
    /\ UNCHANGED <<proc, killed, worker_pids>>

(* The watchdog, armed by the signal thread, when shutdown_all wedges. *)
Watchdog ==
    /\ main_pc = "join" /\ wedged
    /\ main_pc' = "gone"
    /\ exit_code' = "watchdog"
    /\ UNCHANGED <<proc, killed, worker_pids>>

Main ==
    /\ Running
    /\ \/ MainStops \/ MainJoins \/ MainKills \/ MainReaps \/ MainLeaves \/ MainExits
       \/ Watchdog
    /\ UNCHANGED <<index, next_pid, failures, ready_flags, flagVars, monVars, sig_pc, wedged>>

-----------------------------------------------------------------------------

Next ==
    \/ \E p \in Pids : Worker(p)
    \/ \E i \in Indices : Expire(i)
    \/ Monitor \/ SigTerm \/ SignalThread \/ Main

(* The threads of the server run, and time passes.  Workers owe nothing.   *)
Spec ==
    /\ Init /\ [][Next]_vars
    /\ WF_vars(Monitor) /\ WF_vars(SignalThread) /\ WF_vars(Main)
    /\ \A i \in Indices : WF_vars(Expire(i))

-----------------------------------------------------------------------------
(* Properties. *)

TypeOK ==
    /\ proc \in [Pids -> {"none", "reaped"} \cup Live \cup Exited]
    /\ index \in [Pids -> Indices] /\ killed \in [Pids -> BOOLEAN]
    /\ next_pid \in 1..(NumWorkers + MaxFailures + 1) /\ failures \in 0..MaxFailures
    /\ worker_pids \in [Indices -> {0} \cup Pids] /\ ready_flags \in [Indices -> BOOLEAN]
    /\ {fatal, keep_running, shutdown_requested, sigterm, fatal_exit, wedged} \subseteq BOOLEAN
    /\ mon_pc \in {"loop", "scan", "fatal", "next", "spawn", "store", "stopped"}
    /\ deadline \in [Indices -> {"off", "armed", "expired"}]
    /\ dead \subseteq Indices /\ attempt \in 0..SpawnRetries /\ new_pid \in {0} \cup Pids
    /\ mon_pc \in {"spawn", "store"} => dead # {}
    /\ sig_pc \in {"sigwait", "kill", "done"}
    /\ main_pc \in {"serve", "join", "kill", "wait", "exit", "gone"}
    /\ exit_code \in {"none", "0", "1", "watchdog"}

(* worker_pids names only children that have not been reaped, so that      *)
(* kill_all_workers never signals a process that is not the server's.      *)
PidsAreOwn == \A i \in Indices : worker_pids[i] # 0 => proc[worker_pids[i]] # "reaped"

(* When main returns, every worker ever spawned has exited or been sent    *)
(* SIGKILL, although the monitor may have been spawning a replacement      *)
(* while kill_all_workers ran.                                             *)
NoWorkerLeftBehind ==
    exit_code \in {"0", "1"} => \A p \in Pids : proc[p] \in Live => killed[p]

(* A worker that hangs before it is ready brings the server down, and the  *)
(* exit code tells; also when it replaces one that had been ready.         *)
HungWorkerStopsServer ==
    \A p \in Pids : proc[p] = "hung" ~> ~Running

(* A failure the monitor finds fatal never ends in exit code 0, although   *)
(* the monitor may find it when the server is going down already.          *)
FatalIsReported == fatal => exit_code # "0"

(* A signal, or a failure the monitor finds fatal, ends the server, and    *)
(* the exit code tells.                                                    *)
ShutdownCompletes ==
    /\ sigterm ~> ~Running
    /\ []FatalIsReported

(* A dead worker is replaced by a live one unless the server goes down. *)
DeadIsReplaced ==
    \A i \in Indices :
      i \in DeadIndices ~> (~keep_running \/ (worker_pids[i] # 0 /\ i \notin DeadIndices))
=============================================================================
