------------------------------ MODULE JobWait ------------------------------
(***************************************************************************)
(* WaitForCompletion: handler threads that wait for one job, and whoever   *)
(* may end it meanwhile: result_retrieval_thread, cancel_job, delete_job,  *)
(* worker_monitor_thread and the shutdown of the server.                   *)
(*                                                                         *)
(* Handlers that wait at the same time share one JobWaiter, found in       *)
(* waiting_threads.  Whoever signals it takes it out of there, so that a   *)
(* later handler makes a new one: JobWaiters are numbered.  QUEUED and     *)
(* PROCESSING are one status here, "ACTIVE".  What the job's worker does   *)
(* is module JobLifecycle's business; here it ends the job somehow.        *)
(***************************************************************************)
EXTENDS Naturals, Sequences, FiniteSets

CONSTANTS
    Handlers,     \* handler threads; each serves one call of WaitForCompletion
    Cancels,      \* may a client cancel the job?
    Deletes,      \* may a client delete it?
    MaxFaults     \* bound on crashes of the worker and shutdowns of the server

ASSUME HandlersAssumption == IsFiniteSet(Handlers)
ASSUME FlagsAssumption == {Cancels, Deletes} \subseteq BOOLEAN /\ MaxFaults \in Nat

VARIABLES
    \* job_tracker: the status of the job
    tracker,
    \* waiting_threads: the JobWaiter of the job (0: no entry); JobWaiters made
    waiting, made, w_ready, w_success,
    \* handlers: program point, JobWaiter held, answer
    pc, waiter, reply,
    \* the worker: "run", "published", "dead", "marked", "gone"; the slot's
    \* cancelled flag; results of the job in result_queue; faults so far
    work, flag, results, faults,
    \* who else is between two steps: the result thread, cancel_job, shutdown
    io_pc, io_out, can_pc, can_delete, stop_pc,
    \* history: the statuses the job had during each call
    seen

waitVars == <<waiting, made, w_ready, w_success>>
handVars == <<pc, waiter, reply>>
envVars  == <<work, flag, results, faults>>
ioVars   == <<io_pc, io_out>>
canVars  == <<can_pc, can_delete>>
vars == <<tracker, waitVars, handVars, envVars, ioVars, canVars, stop_pc, seen>>

Terminal == {"COMPLETED", "FAILED", "CANCELLED"}
Outcome == {"SUCCESS", "ERROR", "CANCELLED"}
StatusOf(out) == CASE out = "SUCCESS" -> "COMPLETED"
                   [] out = "ERROR" -> "FAILED"
                   [] out = "CANCELLED" -> "CANCELLED"
JobWaiters == 1..Cardinality(Handlers)

Init ==
    /\ tracker = "ACTIVE"
    /\ waiting = 0 /\ made = 0
    /\ w_ready = [g \in JobWaiters |-> FALSE]
    /\ w_success = [g \in JobWaiters |-> FALSE]
    /\ pc = [h \in Handlers |-> "idle"]
    /\ waiter = [h \in Handlers |-> 0]
    /\ reply = [h \in Handlers |-> "none"]
    /\ work = "run" /\ flag = FALSE /\ results = <<>> /\ faults = 0
    /\ io_pc = "idle" /\ io_out = "ERROR"
    /\ can_pc = "idle" /\ can_delete = FALSE
    /\ stop_pc = "idle"
    /\ seen = [h \in Handlers |-> {}]

(* cancel_job keeps tracker_mutex until it has signalled the waiter. *)
TrackerFree == can_pc # "signal"

(* Mark the JobWaiter, notify its handlers, drop the entry. *)
Signal(success) ==
    /\ w_ready' = [g \in JobWaiters |-> w_ready[g] \/ g = waiting]
    /\ w_success' = [g \in JobWaiters |-> IF g = waiting THEN success ELSE w_success[g]]
    /\ waiting' = 0
    /\ UNCHANGED made

-----------------------------------------------------------------------------
(* A handler of WaitForCompletion. *)

Goto(h, from, to) == pc[h] = from /\ pc' = [pc EXCEPT ![h] = to]

(* The handler answers and drops its JobWaiter. *)
Return(h, answer) ==
    /\ pc' = [pc EXCEPT ![h] = "done"]
    /\ reply' = [reply EXCEPT ![h] = answer]
    /\ waiter' = [waiter EXCEPT ![h] = 0]

(* The fast path: an unknown or finished job is answered at once. *)
FastPath(h) ==
    /\ pc[h] = "idle"
    /\ TrackerFree
    /\ \/ tracker # "ACTIVE" /\ Return(h, tracker)
       \/ tracker = "ACTIVE" /\ Goto(h, "idle", "register") /\ UNCHANGED <<reply, waiter>>
    /\ UNCHANGED waitVars

Register(h) ==
    /\ Goto(h, "register", "loop")
    /\ \/ /\ waiting # 0
          /\ waiter' = [waiter EXCEPT ![h] = waiting]
          /\ UNCHANGED waitVars
       \/ /\ waiting = 0
          /\ made' = made + 1
          /\ waiting' = made + 1
          /\ waiter' = [waiter EXCEPT ![h] = made + 1]
          /\ UNCHANGED <<w_ready, w_success>>
    /\ UNCHANGED reply

(* while (!waiter->ready); the client may have gone. *)
Loop(h) ==
    /\ pc[h] = "loop"
    /\ \/ w_ready[waiter[h]] /\ Goto(h, "loop", "answer") /\ UNCHANGED <<reply, waiter>>
       \/ ~w_ready[waiter[h]] /\ Goto(h, "loop", "poll") /\ UNCHANGED <<reply, waiter>>
       \/ ~w_ready[waiter[h]] /\ Return(h, "client_cancelled")
    /\ UNCHANGED waitVars

(* A loop that relies on the condition variable alone. *)
PollNever(h) ==
    /\ TrackerFree
    /\ Goto(h, "poll", "loop")
    /\ UNCHANGED <<waiter, reply, waitVars>>

(* check_job_status, without the waiter's mutex; if the job is not done,   *)
(* cv.wait_for, which ends by a signal or after 200 ms.                    *)
Poll(h) ==
    /\ TrackerFree
    /\ Goto(h, "poll", IF tracker \in Terminal THEN "answer" ELSE "loop")
    /\ UNCHANGED <<waiter, reply, waitVars>>

Answer(h) ==
    /\ pc[h] = "answer"
    /\ \/ w_success[waiter[h]] /\ Return(h, "COMPLETED")
       \/ ~w_success[waiter[h]] /\ Goto(h, "answer", "recheck") /\ UNCHANGED <<reply, waiter>>
    /\ UNCHANGED waitVars

(* The authoritative status; an unfinished job is answered FAILED. *)
Recheck(h) ==
    /\ pc[h] = "recheck"
    /\ TrackerFree
    /\ Return(h, IF tracker = "ACTIVE" THEN "FAILED" ELSE tracker)
    /\ UNCHANGED waitVars

(* The steps of a call that do not wait for a client to start it. *)
Waits(h) ==
    /\ Register(h) \/ Loop(h) \/ Poll(h) \/ Answer(h) \/ Recheck(h)
    /\ UNCHANGED <<tracker, envVars, ioVars, canVars, stop_pc>>

Calls(h) == FastPath(h) /\ UNCHANGED <<tracker, envVars, ioVars, canVars, stop_pc>>

-----------------------------------------------------------------------------
(* The worker of the job, and worker_monitor_thread when it dies. *)

WorkerPublish(out) ==
    /\ work = "run"
    /\ out = "CANCELLED" => flag
    /\ work' = "published"
    /\ results' = Append(results, out)
    /\ UNCHANGED <<tracker, flag, faults>>

WorkerReset ==
    /\ work = "published"
    /\ work' = "gone"
    /\ UNCHANGED <<tracker, flag, results, faults>>

(* Killed by a cancel or a shutdown, or by itself. *)
WorkerDie ==
    /\ work \in {"run", "published"}
    /\ \/ flag /\ UNCHANGED faults
       \/ ~flag /\ faults < MaxFaults /\ faults' = faults + 1
    /\ work' = "dead"
    /\ UNCHANGED <<tracker, flag, results>>

(* mark_worker_jobs_failed: a result, unless result_queue is full, ... *)
MonitorResult ==
    /\ work = "dead"
    /\ work' = "marked"
    /\ results' \in {results, Append(results, IF flag THEN "CANCELLED" ELSE "ERROR")}
    /\ UNCHANGED <<tracker, flag, faults>>

(* ... then the status.  It does not signal the waiters. *)
MonitorStatus ==
    /\ work = "marked"
    /\ TrackerFree
    /\ work' = "gone"
    /\ tracker' = IF tracker = "NOT_FOUND" THEN tracker
                  ELSE IF flag THEN "CANCELLED" ELSE "FAILED"
    /\ UNCHANGED <<flag, results, faults>>

Worker ==
    /\ \/ \E out \in Outcome : WorkerPublish(out)
       \/ WorkerReset \/ WorkerDie \/ MonitorResult \/ MonitorStatus
    /\ UNCHANGED <<waitVars, handVars, ioVars, canVars, stop_pc>>

-----------------------------------------------------------------------------
(* result_retrieval_thread: the status, then the waiters. *)

(* The waiters first. *)
CollectStoreLate ==
    /\ io_pc = "idle" /\ results # <<>> /\ TrackerFree
    /\ io_pc' = "signal"
    /\ io_out' = Head(results)
    /\ results' = Tail(results)
    /\ Signal(Head(results) = "SUCCESS")
    /\ UNCHANGED <<tracker, work, flag, faults>>

CollectStore ==
    /\ io_pc = "idle" /\ results # <<>> /\ TrackerFree
    /\ io_pc' = "signal"
    /\ io_out' = Head(results)
    /\ results' = Tail(results)
    /\ tracker' = IF tracker = "NOT_FOUND" THEN tracker ELSE StatusOf(Head(results))
    /\ UNCHANGED <<work, flag, faults, waitVars>>

CollectSignal ==
    /\ io_pc = "signal"
    /\ io_pc' = "idle" /\ io_out' = "ERROR"
    /\ Signal(io_out = "SUCCESS")
    /\ UNCHANGED <<tracker, envVars>>

Collector ==
    /\ CollectStore \/ CollectSignal
    /\ UNCHANGED <<handVars, canVars, stop_pc>>

-----------------------------------------------------------------------------
(* cancel_job and delete_job *)

(* Flag the slot, if the job is still in one, and set the status.  A job   *)
(* that has ended is left alone.                                           *)
CancelStatus(del) ==
    /\ can_pc = "idle"
    /\ IF del THEN Deletes /\ tracker # "NOT_FOUND" ELSE Cancels /\ tracker = "ACTIVE"
    /\ can_delete' = del
    /\ \/ /\ tracker = "ACTIVE"
          /\ tracker' = "CANCELLED"
          /\ flag' = (flag \/ work # "gone")
          /\ can_pc' = "signal"
       \/ /\ tracker # "ACTIVE"
          /\ can_pc' = "erase"
          /\ UNCHANGED <<tracker, flag>>
    /\ UNCHANGED <<work, results, faults, waitVars>>

CancelSignal ==
    /\ can_pc = "signal"
    /\ can_pc' = IF can_delete THEN "erase" ELSE "idle"
    /\ Signal(FALSE)
    /\ UNCHANGED <<tracker, envVars, can_delete>>

(* "No waiter handling here" *)
DeleteErase ==
    /\ can_pc = "erase"
    /\ can_pc' = "idle"
    /\ can_delete' = FALSE
    /\ tracker' = "NOT_FOUND"
    /\ UNCHANGED <<envVars, waitVars>>

CancelContinues ==
    /\ CancelSignal \/ DeleteErase
    /\ UNCHANGED <<handVars, ioVars, stop_pc>>

Canceller ==
    \/ (\E del \in BOOLEAN : CancelStatus(del)) /\ UNCHANGED <<handVars, ioVars, stop_pc>>
    \/ CancelContinues

-----------------------------------------------------------------------------
(* cancel_all_active_jobs_for_shutdown *)

ShutdownStatus ==
    /\ stop_pc = "idle" /\ TrackerFree
    /\ faults < MaxFaults
    /\ faults' = faults + 1
    /\ stop_pc' = "signal"
    /\ flag' = (flag \/ work # "gone")
    /\ tracker' = IF tracker = "ACTIVE" THEN "CANCELLED" ELSE tracker
    /\ UNCHANGED <<work, results, waitVars>>

ShutdownSignal ==
    /\ stop_pc = "signal"
    /\ stop_pc' = "done"
    /\ Signal(FALSE)
    /\ UNCHANGED <<tracker, envVars>>

Shutdown ==
    /\ ShutdownStatus \/ ShutdownSignal
    /\ UNCHANGED <<handVars, ioVars, canVars>>

-----------------------------------------------------------------------------

InCall(h) == pc[h] \notin {"idle", "done"}

(* History: the terminal statuses a call could have seen, from its first   *)
(* look on; of a call that has ended, those that bear on its answer.       *)
Observe ==
    seen' = [h \in Handlers |->
      CASE pc'[h] = pc[h] /\ ~InCall(h) -> seen[h]
        [] pc'[h] # pc[h] /\ pc'[h] = "done" ->
             (seen[h] \cup {tracker'}) \cap {reply'[h], "NOT_FOUND"}
        [] OTHER -> (seen[h] \cup {tracker'}) \ {"ACTIVE"}]

Next ==
    /\ \/ \E h \in Handlers : Calls(h) \/ Waits(h)
       \/ Worker \/ Collector \/ Canceller \/ Shutdown
    /\ Observe

(* Every thread runs on.  The worker ends the job, one way or another:     *)
(* JobLifecycle shows under which conditions.                              *)
Spec ==
    /\ Init /\ [][Next]_vars
    /\ \A h \in Handlers : WF_vars(Waits(h) /\ Observe)
    /\ WF_vars(Worker /\ Observe) /\ WF_vars(Collector /\ Observe)
    /\ WF_vars(CancelContinues /\ Observe)
    /\ WF_vars(ShutdownSignal /\ Shutdown /\ Observe)

-----------------------------------------------------------------------------
(* Properties. *)

TypeOK ==
    /\ tracker \in {"ACTIVE", "NOT_FOUND"} \cup Terminal
    /\ waiting \in 0..made /\ made \in 0..Cardinality(Handlers)
    /\ {w_ready, w_success} \subseteq [JobWaiters -> BOOLEAN]
    /\ pc \in [Handlers -> {"idle", "register", "loop", "poll", "answer",
                            "recheck", "done"}]
    /\ waiter \in [Handlers -> 0..made]
    /\ reply \in [Handlers -> {"none", "client_cancelled", "NOT_FOUND"} \cup Terminal]
    /\ work \in {"run", "published", "dead", "marked", "gone"}
    /\ {flag, can_delete} \subseteq BOOLEAN
    /\ faults \in 0..MaxFaults
    /\ results \in Seq(Outcome)
    /\ io_pc \in {"idle", "signal"} /\ io_out \in Outcome
    /\ can_pc \in {"idle", "signal", "erase"}
    /\ stop_pc \in {"idle", "signal", "done"}

(* WaitForCompletion answers with a status that the job really had while   *)
(* the call was running: a handler woken by a signal never finds the job   *)
(* unfinished (it would answer FAILED), nor takes over the outcome that an *)
(* earlier JobWaiter was given.  The one exception: a job that is deleted  *)
(* during the call may still be answered COMPLETED, when its result comes  *)
(* in after the deletion.                                                  *)
AnswerWasTrue ==
    \A h \in Handlers :
      \/ reply[h] \in {"none", "client_cancelled"} \cup seen[h]
      \/ reply[h] = "COMPLETED" /\ "NOT_FOUND" \in seen[h]

(* A call of WaitForCompletion returns once the job ends, unless the job   *)
(* is deleted: even when the handler registers after the only signal, or   *)
(* no signal comes at all because worker_monitor_thread ended the job.     *)
WaitReturnsUnlessDeleted ==
    \A h \in Handlers : InCall(h) ~> (pc[h] = "done" \/ tracker = "NOT_FOUND")

(* The same without the exception.  delete_job: "No waiter handling here:  *)
(* cancel_job() already notified and erased any waiter for a               *)
(* queued/running job, and a job that was already terminal had its waiters *)
(* signaled when it reached that state."                                   *)
EveryWaitReturns == \A h \in Handlers : InCall(h) ~> pc[h] = "done"
=============================================================================
