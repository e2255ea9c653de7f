---------------------------- MODULE JobLifecycle ----------------------------
(***************************************************************************)
(* The life of a job in the gRPC server: submission, the dispatch of its   *)
(* payload to the worker that claimed it, the solve, the delivery of the   *)
(* result, cancellation, deletion, and the death and respawn of workers.   *)
(*                                                                         *)
(* Five kinds of threads and processes meet here: the handler threads      *)
(* (submit, CheckStatus, cancel_job, delete_job), result_retrieval_thread, *)
(* which first dispatches payloads and then collects results, the worker   *)
(* processes, and worker_monitor_thread.                                   *)
(*                                                                         *)
(* Claiming a job slot and writing a result slot are single steps here;    *)
(* modules JobSlots and ResultSlots take them apart.  Payloads all have    *)
(* the same size, so that the size check of recv_job_data_pipe passes.     *)
(***************************************************************************)
EXTENDS Naturals, Sequences, FiniteSets, FiniteSetsExt

CONSTANTS
    NumSlots,     \* MAX_JOBS
    NumResults,   \* MAX_RESULTS
    Workers,      \* worker indices
    Jobs,         \* job ids generate_job_id may return
    ChunkedJobs,  \* the ones submitted with FinishChunkedUpload
    Malformed,    \* chunked ones that fail validation when they are written
    MaxDeaths,    \* bound on workers that die by themselves
    MaxCancels,   \* bound on jobs that a client cancels or deletes
    Deletes,      \* do clients delete jobs?
    SlowDispatch, \* may a worker's pipe read time out with data on its way?
    PipeHolds,    \* payloads a pipe takes before its writer has to wait
    None          \* no job, no worker

ASSUME BoundsAssumption ==
    /\ {NumSlots, NumResults} \subseteq Nat \ {0}
    /\ {MaxDeaths, MaxCancels, PipeHolds} \subseteq Nat
    /\ {SlowDispatch, Deletes} \subseteq BOOLEAN
ASSUME JobsAssumption ==
    /\ IsFiniteSet(Jobs) /\ IsFiniteSet(Workers)
    /\ None \notin Jobs \cup Workers
    /\ Malformed \subseteq ChunkedJobs
    /\ ChunkedJobs \in {{}, Jobs}

Slots == 1..NumSlots
Results == 1..NumResults

VARIABLES
    \* job_tracker: status ("none" without an entry), whose solution is stored
    tracker, stored,
    \* pending_job_data and pending_chunked_data
    pending,
    \* job_queue, by slot
    ready, claimed, cancelled, data_sent, enqueue_seq, job_id, worker_pid,
    worker_index,
    next_seq,
    \* the submitting handler thread
    sub_pc, sub_slot, sub_job,
    \* the thread in cancel_job or delete_job (it holds tracker_mutex)
    can_pc, can_job, can_slot, can_pid, can_delete,
    \* workers: pid, is it alive, program point, slot, job, payload read,
    \* outcome, cursor in result_queue
    pid, alive, wk_pc, wk_slot, wk_job, wk_data, wk_out, wk_at,
    next_pid,
    \* the pipes to and from each worker, as the jobs whose data is in them
    to_worker, from_worker,
    \* result_queue, by slot; history: jobs whose result found no slot
    r_ready, r_job, r_status, r_index, dropped,
    \* result_retrieval_thread: program point, slot, job, worker, outcome,
    \* data, the process whose pipe its descriptor was when it looked it up
    io_pc, io_at, io_job, io_idx, io_out, io_data, io_fd,
    \* worker_monitor_thread: program point, worker, slot, job, was_cancelled
    mon_pc, mon_w, mon_slot, mon_job, mon_cancelled,
    \* history: ids handed out, jobs a client asked to cancel or delete,
    \* jobs deleted, number of deaths
    issued, asked, deleted, deaths

trackVars == <<tracker, stored>>
slotVars  == <<ready, claimed, cancelled, data_sent, enqueue_seq, job_id,
               worker_pid, worker_index>>
subVars   == <<sub_pc, sub_slot, sub_job, next_seq, issued>>
canVars   == <<can_pc, can_job, can_slot, can_pid, can_delete, asked, deleted>>
procVars  == <<pid, alive, next_pid, deaths>>
wkVars    == <<wk_pc, wk_slot, wk_job, wk_data, wk_out, wk_at>>
resVars   == <<r_ready, r_job, r_status, r_index, dropped>>
ioVars    == <<io_pc, io_at, io_job, io_idx, io_out, io_data, io_fd>>
monVars   == <<mon_pc, mon_w, mon_slot, mon_job, mon_cancelled>>
vars == <<trackVars, pending, slotVars, subVars, canVars, procVars, wkVars,
          to_worker, from_worker, resVars, ioVars, monVars>>

Terminal == {"COMPLETED", "FAILED", "CANCELLED"}
Status == {"none", "QUEUED", "PROCESSING"} \cup Terminal
Outcome == {"SUCCESS", "ERROR", "CANCELLED"}
StatusOf(out) == CASE out = "SUCCESS" -> "COMPLETED"
                   [] out = "ERROR" -> "FAILED"
                   [] out = "CANCELLED" -> "CANCELLED"

Init ==
    /\ tracker = [j \in Jobs |-> "none"]
    /\ stored = [j \in Jobs |-> None]
    /\ pending = {}
    /\ ready = [s \in Slots |-> FALSE]
    /\ claimed = [s \in Slots |-> FALSE]
    /\ cancelled = [s \in Slots |-> FALSE]
    /\ data_sent = [s \in Slots |-> FALSE]
    /\ enqueue_seq = [s \in Slots |-> 0]
    /\ job_id = [s \in Slots |-> None]
    /\ worker_pid = [s \in Slots |-> 0]
    /\ worker_index = [s \in Slots |-> None]
    /\ sub_pc = "idle" /\ sub_slot = 1 /\ sub_job = None /\ next_seq = 1
    /\ issued = {}
    /\ can_pc = "idle" /\ can_job = None /\ can_slot = 1 /\ can_pid = 0
    /\ can_delete = FALSE /\ asked = {} /\ deleted = {}
    /\ pid \in {f \in [Workers -> 1..Cardinality(Workers)] :
                  \A v, w \in Workers : f[v] = f[w] => v = w}
    /\ alive = [w \in Workers |-> TRUE]
    /\ next_pid = Cardinality(Workers) + 1
    /\ deaths = 0
    /\ wk_pc = [w \in Workers |-> "idle"]
    /\ wk_slot = [w \in Workers |-> 1]
    /\ wk_job = [w \in Workers |-> None]
    /\ wk_data = [w \in Workers |-> None]
    /\ wk_out = [w \in Workers |-> "ERROR"]
    /\ wk_at = [w \in Workers |-> 1]
    /\ to_worker = [w \in Workers |-> <<>>]
    /\ from_worker = [w \in Workers |-> <<>>]
    /\ r_ready = [r \in Results |-> FALSE]
    /\ r_job = [r \in Results |-> None]
    /\ r_status = [r \in Results |-> "ERROR"]
    /\ r_index = [r \in Results |-> None]
    /\ dropped = {}
    /\ io_pc = "dispatch" /\ io_at = 1 /\ io_job = None /\ io_idx = None
    /\ io_out = "ERROR" /\ io_data = None /\ io_fd = 0
    /\ mon_pc = "idle" /\ mon_w = None /\ mon_slot = 1 /\ mon_job = None
    /\ mon_cancelled = FALSE

(* A handler thread in cancel_job holds tracker_mutex from end to end. *)
TrackerFree == can_pc \notin {"flag", "kill", "status"}

(* A client knows the id of a job once its submission has returned. *)
Known(j) == j \in issued /\ ~(sub_pc # "idle" /\ sub_job = j)

-----------------------------------------------------------------------------
(* submit_job_async and submit_chunked_job_async. *)

(* Reserve the first free slot, populate it and keep the payload.  With no *)
(* free slot the call answers "Job queue full" and changes nothing.        *)
SubmitReserve(j) ==
    /\ sub_pc = "idle"
    /\ j \notin issued
    /\ LET free == {s \in Slots : ~ready[s] /\ ~claimed[s]} IN
       /\ free # {}
       /\ LET s == Min(free) IN
          /\ sub_slot' = s
          /\ claimed' = [claimed EXCEPT ![s] = TRUE]
          /\ cancelled' = [cancelled EXCEPT ![s] = FALSE]
          /\ data_sent' = [data_sent EXCEPT ![s] = FALSE]
          /\ job_id' = [job_id EXCEPT ![s] = j]
          /\ worker_pid' = [worker_pid EXCEPT ![s] = 0]
          /\ worker_index' = [worker_index EXCEPT ![s] = None]
    /\ sub_pc' = "track"
    /\ sub_job' = j
    /\ issued' = issued \cup {j}
    /\ pending' = pending \cup {j}
    /\ UNCHANGED <<trackVars, ready, enqueue_seq, next_seq>>

(* Register the job, under tracker_mutex. *)
SubmitTrack ==
    /\ sub_pc = "track"
    /\ TrackerFree
    /\ sub_pc' = "publish"
    /\ tracker' = [tracker EXCEPT ![sub_job] = "QUEUED"]
    /\ UNCHANGED <<stored, pending, slotVars, sub_slot, sub_job, next_seq, issued>>

(* publish_ready_job_slot *)
SubmitPublish ==
    /\ sub_pc = "publish"
    /\ sub_pc' = "idle"
    /\ enqueue_seq' = [enqueue_seq EXCEPT ![sub_slot] = next_seq]
    /\ next_seq' = next_seq + 1
    /\ ready' = [ready EXCEPT ![sub_slot] = TRUE]
    /\ claimed' = [claimed EXCEPT ![sub_slot] = FALSE]
    /\ sub_job' = None
    /\ sub_slot' = 1
    /\ UNCHANGED <<trackVars, pending, cancelled, data_sent, job_id, worker_pid,
                   worker_index, issued>>

Submit ==
    /\ \/ \E j \in Jobs : SubmitReserve(j)
       \/ SubmitTrack
       \/ SubmitPublish
    /\ UNCHANGED <<canVars, procVars, wkVars, to_worker, from_worker, resVars,
                   ioVars, monVars>>

-----------------------------------------------------------------------------
(* check_job_status, cancel_job and delete_job. *)

SlotsOf(j) == {s \in Slots : ready[s] /\ job_id[s] = j}

(* The only write of check_job_status. *)
CheckStatus(j) ==
    /\ Known(j) /\ TrackerFree
    /\ tracker[j] = "QUEUED"
    /\ \E s \in SlotsOf(j) : claimed[s]
    /\ tracker' = [tracker EXCEPT ![j] = "PROCESSING"]
    /\ UNCHANGED <<stored, pending, slotVars, canVars, alive>>

(* CancelJob (del = FALSE) or DeleteResult (del = TRUE): lock tracker_mutex *)
(* and look for the job.  A job found in a slot is cancelled there in the  *)
(* next steps; otherwise, as for a finished job, the answer is immediate.  *)
CancelBegin(j, del) ==
    /\ can_pc = "idle"
    /\ Known(j) /\ tracker[j] # "none"
    /\ IF del THEN Deletes ELSE tracker[j] \notin Terminal
    /\ j \in asked \/ Cardinality(asked) < MaxCancels
    /\ asked' = asked \cup {j}
    /\ LET inSlot == tracker[j] \notin Terminal /\ SlotsOf(j) # {} IN
       \/ /\ inSlot
          /\ LET s == Min(SlotsOf(j)) IN
             /\ can_slot' = s
             /\ can_pid' = IF claimed[s] THEN worker_pid[s] ELSE 0
          /\ can_pc' = "flag" /\ can_job' = j /\ can_delete' = del
          /\ UNCHANGED tracker
       \/ /\ ~inSlot
          /\ tracker' = IF tracker[j] \in Terminal THEN tracker
                        ELSE [tracker EXCEPT ![j] = "CANCELLED"]
          /\ IF del THEN can_pc' = "erase" /\ can_job' = j /\ can_delete' = TRUE
                    ELSE UNCHANGED <<can_pc, can_job, can_delete>>
          /\ UNCHANGED <<can_slot, can_pid>>
    /\ UNCHANGED <<stored, pending, slotVars, deleted, alive>>

(* On return the thread's locals are gone. *)
CancelGoto(from, to) ==
    /\ can_pc = from
    /\ can_pc' = to
    /\ IF to = "idle"
       THEN can_job' = None /\ can_slot' = 1 /\ can_pid' = 0 /\ can_delete' = FALSE
       ELSE UNCHANGED <<can_job, can_slot, can_pid, can_delete>>
    /\ UNCHANGED asked

(* job_queue[i].cancelled.store(true) *)
CancelFlag ==
    /\ CancelGoto("flag", IF can_pid > 0 THEN "kill" ELSE "status")
    /\ cancelled' = [cancelled EXCEPT ![can_slot] = TRUE]
    /\ UNCHANGED <<trackVars, pending, ready, claimed, data_sent, enqueue_seq,
                   job_id, worker_pid, worker_index, deleted, alive>>

(* kill(p, SIGKILL); a pid that has been reaped names no process. *)
Kill(p) == alive' = [w \in Workers |-> alive[w] /\ pid[w] # p]

CancelKill ==
    /\ CancelGoto("kill", "status")
    /\ Kill(can_pid)
    /\ UNCHANGED <<trackVars, pending, slotVars, deleted>>

(* Set the status and unlock tracker_mutex. *)
CancelStatus ==
    /\ CancelGoto("status", IF can_delete THEN "erase" ELSE "idle")
    /\ tracker' = [tracker EXCEPT ![can_job] = "CANCELLED"]
    /\ UNCHANGED <<stored, pending, slotVars, deleted, alive>>

(* The rest of delete_job: the tracker entry, then the payload. *)
DeleteErase ==
    /\ CancelGoto("erase", "idle")
    /\ tracker' = [tracker EXCEPT ![can_job] = "none"]
    /\ stored' = [stored EXCEPT ![can_job] = None]
    /\ pending' = pending \ {can_job}
    /\ deleted' = deleted \cup {can_job}
    /\ UNCHANGED <<slotVars, alive>>

Client ==
    /\ \/ \E j \in Jobs : \/ CheckStatus(j)
                          \/ \E del \in BOOLEAN : CancelBegin(j, del)
       \/ CancelFlag
       \/ CancelKill
       \/ CancelStatus
       \/ DeleteErase
    /\ UNCHANGED <<subVars, pid, next_pid, deaths, wkVars, to_worker,
                   from_worker, resVars, ioVars, monVars>>

-----------------------------------------------------------------------------
(* worker_process *)

WkGoto(w, from, to) ==
    /\ wk_pc[w] = from
    /\ wk_pc' = [wk_pc EXCEPT ![w] = to]

(* claim_ready_job_slot: the lowest ticket among the unclaimed slots. *)
WkClaim(w) ==
    /\ WkGoto(w, "idle", "pid")
    /\ \E s \in Slots :
         /\ ready[s] /\ ~claimed[s]
         /\ \A t \in Slots : ready[t] /\ ~claimed[t] => enqueue_seq[s] <= enqueue_seq[t]
         /\ claimed' = [claimed EXCEPT ![s] = TRUE]
         /\ wk_slot' = [wk_slot EXCEPT ![w] = s]
    /\ UNCHANGED <<wk_job, wk_data, wk_out, wk_at, ready, cancelled, data_sent,
                   enqueue_seq, job_id, worker_pid, worker_index, to_worker,
                   from_worker, resVars>>

(* Record pid and index in the slot; copy the job id out of it. *)
WkRecordPid(w) ==
    /\ WkGoto(w, "pid", "check")
    /\ worker_pid' = [worker_pid EXCEPT ![wk_slot[w]] = pid[w]]
    /\ worker_index' = [worker_index EXCEPT ![wk_slot[w]] = w]
    /\ wk_job' = [wk_job EXCEPT ![w] = job_id[wk_slot[w]]]
    /\ UNCHANGED <<wk_slot, wk_data, wk_out, wk_at, ready, claimed, cancelled,
                   data_sent, enqueue_seq, job_id, to_worker, from_worker, resVars>>

(* Go and publish the outcome, from the first result slot on. *)
PublishFrom(w, from, out) ==
    /\ WkGoto(w, from, "publish")
    /\ wk_out' = [wk_out EXCEPT ![w] = out]
    /\ wk_at' = [wk_at EXCEPT ![w] = 1]
    /\ UNCHANGED <<wk_slot, wk_job, slotVars, from_worker, resVars>>

(* if (job.cancelled) ..., before the payload is read. *)
WkCheck(w) ==
    \/ /\ cancelled[wk_slot[w]]
       /\ PublishFrom(w, "check", "CANCELLED")
       /\ UNCHANGED <<wk_data, to_worker>>
    \/ /\ ~cancelled[wk_slot[w]]
       /\ WkGoto(w, "check", "read")
       /\ UNCHANGED <<wk_slot, wk_job, wk_data, wk_out, wk_at, slotVars,
                      to_worker, from_worker, resVars>>

(* read_problem_from_pipe *)
WkRead(w) ==
    /\ to_worker[w] # <<>>
    /\ WkGoto(w, "read", "solve")
    /\ wk_data' = [wk_data EXCEPT ![w] = Head(to_worker[w])]
    /\ to_worker' = [to_worker EXCEPT ![w] = Tail(to_worker[w])]
    /\ UNCHANGED <<wk_slot, wk_job, wk_out, wk_at, slotVars, from_worker, resVars>>

(* Will the dispatcher still write w's payload, or is it about to? *)
DataComing(w) ==
    \/ wk_job[w] \in pending /\ ~cancelled[wk_slot[w]] /\ ~data_sent[wk_slot[w]]
    \/ io_pc \in {"send", "write"} /\ io_job = wk_job[w]

(* A read that waits for as long as it takes. *)
WkReadTimeoutNever(w) ==
    /\ to_worker[w] = <<>> /\ ~alive[w]
    /\ PublishFrom(w, "read", "ERROR")
    /\ UNCHANGED <<wk_data, to_worker>>

(* read_from_pipe gives up: nothing came for 120 seconds. *)
WkReadTimeout(w) ==
    /\ to_worker[w] = <<>>
    /\ DataComing(w) => SlowDispatch
    /\ PublishFrom(w, "read", "ERROR")
    /\ UNCHANGED <<wk_data, to_worker>>

(* run_lp_solve, run_mip_solve or run_vrp_solve on the payload read. *)
WkSolve(w) ==
    /\ \E out \in {"SUCCESS", "ERROR"} : PublishFrom(w, "solve", out)
    /\ UNCHANGED <<wk_data, to_worker>>

(* publish_result and store_simple_result, one result slot at a time.      *)
(* After the last slot the result is dropped.                              *)
WkPublish(w) ==
    /\ \/ /\ r_ready[wk_at[w]]
          /\ WkGoto(w, "publish", IF wk_at[w] = NumResults THEN "reset" ELSE "publish")
          /\ wk_at' = [wk_at EXCEPT ![w] = IF @ = NumResults THEN 1 ELSE @ + 1]
          /\ dropped' = IF wk_at[w] = NumResults THEN dropped \cup {wk_job[w]} ELSE dropped
          /\ UNCHANGED <<r_ready, r_job, r_status, r_index>>
       \/ /\ ~r_ready[wk_at[w]]
          /\ WkGoto(w, "publish", IF wk_out[w] = "SUCCESS" THEN "stream" ELSE "reset")
          /\ r_job' = [r_job EXCEPT ![wk_at[w]] = wk_job[w]]
          /\ r_status' = [r_status EXCEPT ![wk_at[w]] = wk_out[w]]
          /\ r_index' = [r_index EXCEPT ![wk_at[w]] = w]
          /\ r_ready' = [r_ready EXCEPT ![wk_at[w]] = TRUE]
          /\ UNCHANGED <<wk_at, dropped>>
    /\ UNCHANGED <<wk_slot, wk_job, wk_data, wk_out, slotVars, to_worker, from_worker>>

(* write_result_to_pipe, after the metadata is visible. *)
WkStream(w) ==
    /\ WkGoto(w, "stream", "streaming")
    /\ from_worker' = [from_worker EXCEPT ![w] = Append(@, wk_data[w])]
    /\ UNCHANGED <<wk_slot, wk_job, wk_data, wk_out, wk_at, slotVars, to_worker, resVars>>

(* The write is over once the pipe holds what is not read. *)
WkStreamed(w) ==
    /\ Len(from_worker[w]) <= PipeHolds
    /\ WkGoto(w, "streaming", "reset")
    /\ UNCHANGED <<wk_slot, wk_job, wk_data, wk_out, wk_at, slotVars, to_worker,
                   from_worker, resVars>>

(* write_protobuf_to_pipe refuses the header before the first byte.  The   *)
(* failure is stored in the result slot, which is public since WkPublish.  *)
WkStreamFails(w) ==
    /\ WkGoto(w, "stream", "reset")
    /\ r_status' = [r_status EXCEPT ![wk_at[w]] = "ERROR"]
    /\ UNCHANGED <<wk_slot, wk_job, wk_data, wk_out, wk_at, slotVars, to_worker,
                   from_worker, r_ready, r_job, r_index, dropped>>

(* The stores of reset_job_slot up to `claimed'; `cancelled' comes later. *)
ResetSlot(s) ==
    /\ ready' = [ready EXCEPT ![s] = FALSE]
    /\ enqueue_seq' = [enqueue_seq EXCEPT ![s] = 0]
    /\ worker_pid' = [worker_pid EXCEPT ![s] = 0]
    /\ worker_index' = [worker_index EXCEPT ![s] = None]
    /\ data_sent' = [data_sent EXCEPT ![s] = FALSE]
    /\ claimed' = [claimed EXCEPT ![s] = FALSE]
    /\ UNCHANGED <<cancelled, job_id>>
ResetCancelled(s) ==
    /\ cancelled' = [cancelled EXCEPT ![s] = FALSE]
    /\ UNCHANGED <<ready, claimed, data_sent, enqueue_seq, job_id, worker_pid,
                   worker_index>>

WkReset(w) ==
    /\ WkGoto(w, "reset", "reset_cancelled")
    /\ ResetSlot(wk_slot[w])
    /\ wk_job' = [wk_job EXCEPT ![w] = None]
    /\ wk_data' = [wk_data EXCEPT ![w] = None]
    /\ wk_at' = [wk_at EXCEPT ![w] = 1]
    /\ wk_out' = [wk_out EXCEPT ![w] = "ERROR"]
    /\ UNCHANGED <<wk_slot, to_worker, from_worker, resVars>>
WkResetCancelled(w) ==
    /\ WkGoto(w, "reset_cancelled", "idle")
    /\ ResetCancelled(wk_slot[w])
    /\ wk_slot' = [wk_slot EXCEPT ![w] = 1]
    /\ UNCHANGED <<wk_job, wk_data, wk_out, wk_at, to_worker, from_worker, resVars>>

Worker(w) ==
    /\ alive[w]
    /\ \/ WkClaim(w)
       \/ WkRecordPid(w)
       \/ WkCheck(w)
       \/ WkRead(w)
       \/ WkReadTimeout(w)
       \/ WkSolve(w)
       \/ WkPublish(w)
       \/ WkStream(w)
       \/ WkStreamed(w)
       \/ WkStreamFails(w)
       \/ WkReset(w)
       \/ WkResetCancelled(w)
    /\ UNCHANGED <<trackVars, pending, subVars, canVars, procVars, ioVars, monVars>>

(* A crash of the solver, or the out-of-memory killer. *)
Die(w) ==
    /\ alive[w] /\ deaths < MaxDeaths
    /\ alive' = [alive EXCEPT ![w] = FALSE]
    /\ deaths' = deaths + 1
    /\ UNCHANGED <<trackVars, pending, slotVars, subVars, canVars, pid, next_pid,
                   wkVars, to_worker, from_worker, resVars, ioVars, monVars>>

-----------------------------------------------------------------------------
(* result_retrieval_thread: a pass over job_queue that dispatches payloads *)
(* and a pass over result_queue, for ever.                                 *)

IoClear ==
    /\ io_job' = None /\ io_idx' = None /\ io_fd' = 0
    /\ io_out' = "ERROR" /\ io_data' = None

(* The next slot of the pass, or the other pass. *)
IoNext(pass, size, other) ==
    /\ IoClear
    /\ IF io_at < size THEN io_pc' = pass /\ io_at' = io_at + 1
                       ELSE io_pc' = other /\ io_at' = 1
IoNextSlot == IoNext("dispatch", NumSlots, "collect")
IoNextResult == IoNext("collect", NumResults, "dispatch")

(* Is the slot claimed and its payload not yet sent?  Copy job and worker. *)
Undelivered(s) ==
    ready[s] /\ claimed[s] /\ ~data_sent[s] /\ ~cancelled[s] /\ worker_index[s] # None

DispatchCheck ==
    /\ io_pc = "dispatch"
    /\ \/ /\ Undelivered(io_at)
          /\ io_pc' = "take"
          /\ io_job' = job_id[io_at]
          /\ io_idx' = worker_index[io_at]
          /\ UNCHANGED <<io_at, io_out, io_data, io_fd>>
       \/ ~Undelivered(io_at) /\ IoNextSlot
    /\ UNCHANGED <<trackVars, pending, slotVars, alive, to_worker, from_worker, r_ready>>

(* A dispatcher that leaves the payload where it was. *)
DispatchTakeKept ==
    /\ io_pc = "take"
    /\ \/ /\ io_job \in pending
          /\ io_pc' = "send"
          /\ UNCHANGED <<io_at, io_job, io_idx, io_out, io_data, io_fd>>
       \/ io_job \notin pending /\ IoNextSlot
    /\ UNCHANGED <<trackVars, pending, slotVars, alive, to_worker, from_worker, r_ready>>

(* Move the payload out of the pending map. *)
DispatchTake ==
    /\ io_pc = "take"
    /\ \/ /\ io_job \in pending
          /\ pending' = pending \ {io_job}
          /\ io_pc' = "send"
          /\ UNCHANGED <<io_at, io_job, io_idx, io_out, io_data, io_fd>>
       \/ /\ io_job \notin pending
          /\ IoNextSlot
          /\ UNCHANGED pending
    /\ UNCHANGED <<trackVars, slotVars, alive, to_worker, from_worker, r_ready>>

(* Look the descriptor up under worker_pipes_mutex, which is then released. *)
Lookup(from, to) ==
    /\ io_pc = from
    /\ io_pc' = to
    /\ io_fd' = pid[io_idx]
    /\ UNCHANGED <<io_at, io_job, io_idx, io_out, io_data, trackVars, pending,
                   slotVars, alive, to_worker, from_worker, r_ready>>
DispatchLookup == Lookup("send", "write")

(* spawn_worker has closed the descriptor since. *)
Stale == \A w \in Workers : pid[w] # io_fd
(* Its number may by now be that of a pipe made later.  (A replacement has *)
(* a larger pid than the process it replaces.)                             *)
MadeLater(v) == Stale /\ pid[v] > io_fd

(* Write to the pipe of worker w: the bytes start to go in. *)
WriteTo(w) ==
    /\ to_worker' = [to_worker EXCEPT ![w] = Append(@, io_job)]
    /\ io_pc' = "flush"
    /\ io_fd' = pid[w]
    /\ UNCHANGED <<io_out, alive>>

(* A dead worker's pipe is broken, and a closed descriptor is not valid;   *)
(* after a broken chunked write the worker named in the slot is killed.    *)
WriteBreaks ==
    /\ Stale \/ \E w \in Workers : pid[w] = io_fd /\ ~alive[w]
    /\ io_pc' = "sent"
    /\ io_out' = "ERROR"
    /\ IF io_job \in ChunkedJobs THEN Kill(worker_pid[io_at]) ELSE UNCHANGED alive
    /\ UNCHANGED <<io_fd, to_worker>>

(* The number now names a connection or a file, which takes the bytes. *)
WriteGoesElsewhere ==
    /\ Stale
    /\ io_pc' = "sent"
    /\ io_out' = "SUCCESS"
    /\ UNCHANGED <<io_fd, to_worker, alive>>

(* The payload goes to the pipe the descriptor stands for now.  Malformed  *)
(* chunks are refused before anything is written.                          *)
DispatchWrite ==
    /\ io_pc = "write"
    /\ \/ /\ io_job \in Malformed
          /\ io_pc' = "sent"
          /\ io_out' = "ERROR"
          /\ UNCHANGED <<io_fd, to_worker, alive>>
       \/ /\ io_job \notin Malformed
          /\ \/ \E w \in Workers : (pid[w] = io_fd \/ MadeLater(w)) /\ alive[w] /\ WriteTo(w)
             \/ WriteBreaks
             \/ WriteGoesElsewhere
    /\ UNCHANGED <<io_at, io_job, io_idx, io_data, trackVars, pending, slotVars,
                   from_worker, r_ready>>

(* write_to_pipe polls until the pipe has taken all of it, for as long as  *)
(* the worker lives: there is no limit to this wait.  When the worker is   *)
(* replaced meanwhile, the rest goes wherever the number leads.            *)
DispatchFlush ==
    /\ io_pc = "flush"
    /\ \/ /\ \E w \in Workers : pid[w] = io_fd /\ alive[w] /\ Len(to_worker[w]) <= PipeHolds
          /\ io_pc' = "sent"
          /\ io_out' = "SUCCESS"
          /\ UNCHANGED <<io_fd, to_worker, alive>>
       \/ \E w \in Workers : MadeLater(w) /\ alive[w] /\ WriteTo(w)
       \/ WriteBreaks
       \/ WriteGoesElsewhere
    /\ UNCHANGED <<io_at, io_job, io_idx, io_data, trackVars, pending, slotVars,
                   from_worker, r_ready>>

(* Note in the slot that it was sent, or give the job up. *)
DispatchNote ==
    /\ io_pc = "sent"
    /\ \/ /\ io_out = "SUCCESS"
          /\ data_sent' = [data_sent EXCEPT ![io_at] = TRUE]
          /\ UNCHANGED cancelled
       \/ /\ io_out = "ERROR"
          /\ cancelled' = [cancelled EXCEPT ![io_at] = TRUE]
          /\ UNCHANGED data_sent
    /\ IoNextSlot
    /\ UNCHANGED <<trackVars, pending, ready, claimed, enqueue_seq, job_id,
                   worker_pid, worker_index, alive, to_worker, from_worker, r_ready>>

(* Copy the metadata of a ready result. *)
CollectCheck ==
    /\ io_pc = "collect"
    /\ \/ /\ r_ready[io_at]
          /\ io_job' = r_job[io_at]
          /\ io_out' = r_status[io_at]
          /\ io_idx' = r_index[io_at]
          /\ io_pc' = IF r_status[io_at] = "SUCCESS" THEN "read" ELSE "store"
          /\ UNCHANGED <<io_at, io_data, io_fd>>
       \/ ~r_ready[io_at] /\ IoNextResult
    /\ UNCHANGED <<trackVars, pending, slotVars, alive, to_worker, from_worker, r_ready>>

CollectLookup == Lookup("read", "receive")

(* No payload will come from worker w: nothing is on its way, or the       *)
(* worker died while it was writing.                                       *)
NoPayload(w) ==
    \/ from_worker[w] = <<>> /\ ~(alive[w] /\ wk_pc[w] = "stream")
    \/ Len(from_worker[w]) = 1 /\ ~alive[w] /\ wk_pc[w] = "streaming"

(* read_result_from_pipe on the pipe the descriptor stands for now: a      *)
(* payload; or the end of a dead worker's pipe, a timeout when nothing is  *)
(* on its way, or the error of a closed descriptor.                        *)
CollectRead ==
    /\ io_pc = "receive"
    /\ io_pc' = "store"
    /\ \/ \E w \in Workers :
            /\ pid[w] = io_fd \/ MadeLater(w)
            /\ from_worker[w] # <<>>
            /\ io_data' = Head(from_worker[w])
            /\ from_worker' = [from_worker EXCEPT ![w] = Tail(@)]
            /\ UNCHANGED io_out
       \/ /\ Stale \/ \E w \in Workers : pid[w] = io_fd /\ NoPayload(w)
          /\ io_out' = "ERROR"
          /\ UNCHANGED <<io_data, from_worker>>
    /\ UNCHANGED <<io_at, io_job, io_idx, io_fd, trackVars, pending, slotVars, alive,
                   to_worker, r_ready>>

(* A store that makes an entry when it finds none: job_tracker[job_id]. *)
CollectStoreInserts ==
    /\ io_pc = "store"
    /\ TrackerFree
    /\ tracker' = [tracker EXCEPT ![io_job] = StatusOf(io_out)]
    /\ stored' = [stored EXCEPT ![io_job] = IF io_out = "SUCCESS" THEN io_data ELSE @]
    /\ r_ready' = [r_ready EXCEPT ![io_at] = FALSE]
    /\ IoNextResult
    /\ UNCHANGED <<pending, slotVars, alive, to_worker, from_worker>>

(* Under tracker_mutex: status and solution, if the job is still tracked,  *)
(* whatever its status is.  Then the result slot is free again.            *)
CollectStore ==
    /\ io_pc = "store"
    /\ TrackerFree
    /\ \/ /\ tracker[io_job] # "none"
          /\ tracker' = [tracker EXCEPT ![io_job] = StatusOf(io_out)]
          /\ stored' = [stored EXCEPT ![io_job] = IF io_out = "SUCCESS" THEN io_data ELSE @]
       \/ tracker[io_job] = "none" /\ UNCHANGED trackVars
    /\ r_ready' = [r_ready EXCEPT ![io_at] = FALSE]
    /\ IoNextResult
    /\ UNCHANGED <<pending, slotVars, alive, to_worker, from_worker>>

Io ==
    /\ \/ DispatchCheck
       \/ DispatchTake
       \/ DispatchLookup
       \/ DispatchWrite
       \/ DispatchFlush
       \/ DispatchNote
       \/ CollectCheck
       \/ CollectLookup
       \/ CollectRead
       \/ CollectStore
    /\ UNCHANGED <<subVars, canVars, pid, next_pid, deaths, wkVars, r_job,
                   r_status, r_index, dropped, monVars>>

-----------------------------------------------------------------------------
(* worker_monitor_thread: mark_worker_jobs_failed, then a new process. *)

MonitorReap(w) ==
    /\ mon_pc = "idle" /\ ~alive[w]
    /\ mon_pc' = "mark"
    /\ mon_w' = w
    /\ UNCHANGED <<mon_slot, mon_job, mon_cancelled, trackVars, pending, slotVars,
                   pid, alive, next_pid, wkVars, to_worker, from_worker, resVars>>

OfDeadWorker == {s \in Slots : ready[s] /\ claimed[s] /\ worker_pid[s] = pid[mon_w]}

(* For the dead worker's slot: drop the payload (of the unary map only)    *)
(* and post a result without payload, if there is room for one.            *)
MonitorMark ==
    /\ mon_pc = "mark"
    /\ OfDeadWorker # {}
    /\ LET s == Min(OfDeadWorker)
           j == job_id[s]
           free == {r \in Results : ~r_ready[r]}
       IN
       /\ mon_slot' = s
       /\ mon_job' = j
       /\ mon_cancelled' = cancelled[s]
       /\ pending' = IF j \in ChunkedJobs THEN pending ELSE pending \ {j}
       /\ \/ free = {} /\ UNCHANGED resVars
          \/ /\ free # {}
             /\ LET r == Min(free) IN
                /\ r_ready' = [r_ready EXCEPT ![r] = TRUE]
                /\ r_job' = [r_job EXCEPT ![r] = j]
                /\ r_status' = [r_status EXCEPT
                                  ![r] = IF cancelled[s] THEN "CANCELLED" ELSE "ERROR"]
                /\ r_index' = [r_index EXCEPT ![r] = None]
                /\ UNCHANGED dropped
    /\ mon_pc' = "reset"
    /\ UNCHANGED <<mon_w, trackVars, slotVars, pid, alive, next_pid, wkVars,
                   to_worker, from_worker>>

MonitorReset ==
    /\ mon_pc = "reset"
    /\ mon_pc' = "reset_cancelled"
    /\ ResetSlot(mon_slot)
    /\ UNCHANGED <<mon_w, mon_slot, mon_job, mon_cancelled, trackVars, pending,
                   pid, alive, next_pid, wkVars, to_worker, from_worker, resVars>>
MonitorResetCancelled ==
    /\ mon_pc = "reset_cancelled"
    /\ mon_pc' = "status"
    /\ ResetCancelled(mon_slot)
    /\ UNCHANGED <<mon_w, mon_slot, mon_job, mon_cancelled, trackVars, pending,
                   pid, alive, next_pid, wkVars, to_worker, from_worker, resVars>>

MonitorStatus ==
    /\ mon_pc = "status"
    /\ TrackerFree
    /\ tracker' = IF tracker[mon_job] = "none" THEN tracker
                  ELSE [tracker EXCEPT ![mon_job] =
                          IF mon_cancelled THEN "CANCELLED" ELSE "FAILED"]
    /\ mon_pc' = "mark"
    /\ mon_slot' = 1 /\ mon_job' = None /\ mon_cancelled' = FALSE
    /\ UNCHANGED <<mon_w, stored, pending, slotVars, pid, alive, next_pid, wkVars,
                   to_worker, from_worker, resVars>>

(* spawn_single_worker: new pipes and a new process. *)
MonitorRespawn ==
    /\ mon_pc = "mark"
    /\ OfDeadWorker = {}
    /\ pid' = [pid EXCEPT ![mon_w] = next_pid]
    /\ next_pid' = next_pid + 1
    /\ alive' = [alive EXCEPT ![mon_w] = TRUE]
    /\ to_worker' = [to_worker EXCEPT ![mon_w] = <<>>]
    /\ from_worker' = [from_worker EXCEPT ![mon_w] = <<>>]
    /\ wk_pc' = [wk_pc EXCEPT ![mon_w] = "idle"]
    /\ wk_slot' = [wk_slot EXCEPT ![mon_w] = 1]
    /\ wk_job' = [wk_job EXCEPT ![mon_w] = None]
    /\ wk_data' = [wk_data EXCEPT ![mon_w] = None]
    /\ wk_out' = [wk_out EXCEPT ![mon_w] = "ERROR"]
    /\ wk_at' = [wk_at EXCEPT ![mon_w] = 1]
    /\ mon_pc' = "idle" /\ mon_w' = None
    /\ UNCHANGED <<mon_slot, mon_job, mon_cancelled, trackVars, pending, slotVars, resVars>>

Monitor ==
    /\ \/ \E w \in Workers : MonitorReap(w)
       \/ MonitorMark
       \/ MonitorReset
       \/ MonitorResetCancelled
       \/ MonitorStatus
       \/ MonitorRespawn
    /\ UNCHANGED <<subVars, canVars, deaths, ioVars>>

Next ==
    \/ Submit
    \/ Client
    \/ \E w \in Workers : Worker(w) \/ Die(w)
    \/ Io
    \/ Monitor

Spec == Init /\ [][Next]_vars

(* A descriptor whose number has been given to something else may never be *)
(* ready: the thread that polls it may stay there for ever.                *)
Astray == io_pc \in {"write", "flush", "receive"} /\ Stale
IoRuns == ~Astray /\ Io

(* Every thread of the server and every live process keeps running; a      *)
(* client need not ask for anything.                                       *)
SubmitContinues == sub_pc # "idle" /\ Submit
CancelContinues == can_pc # "idle" /\ Client
Fairness ==
    /\ WF_vars(SubmitContinues)
    /\ WF_vars(CancelContinues)
    /\ WF_vars(IoRuns)
    /\ WF_vars(Monitor)
    /\ \A w \in Workers : WF_vars(Worker(w))

FairSpec == Spec /\ Fairness

-----------------------------------------------------------------------------
(* Properties. *)

TypeOK ==
    /\ tracker \in [Jobs -> Status]
    /\ stored \in [Jobs -> Jobs \cup {None}]
    /\ pending \subseteq issued /\ issued \subseteq Jobs
    /\ asked \subseteq issued /\ deleted \subseteq asked
    /\ \A f \in {ready, claimed, cancelled, data_sent} : f \in [Slots -> BOOLEAN]
    /\ enqueue_seq \in [Slots -> 0..Cardinality(Jobs)]
    /\ job_id \in [Slots -> Jobs \cup {None}]
    /\ worker_index \in [Slots -> Workers \cup {None}]
    /\ \A s \in Slots : worker_pid[s] \in 0..(next_pid - 1)
    /\ \A v, w \in Workers : pid[v] = pid[w] => v = w
    /\ \A w \in Workers :
         /\ wk_pc[w] \in {"idle", "pid", "check", "read", "solve", "publish",
                          "stream", "streaming", "reset", "reset_cancelled"}
         /\ wk_slot[w] \in Slots /\ wk_at[w] \in Results
         /\ wk_out[w] \in Outcome
         /\ {wk_job[w], wk_data[w]} \subseteq Jobs \cup {None}
         /\ to_worker[w] \in Seq(Jobs) /\ from_worker[w] \in Seq(Jobs)
    /\ r_status \in [Results -> Outcome]
    /\ \A r \in Results : r_ready[r] => r_job[r] \in Jobs
    /\ io_pc \in {"dispatch", "take", "send", "write", "flush", "sent", "collect",
                 "read", "receive", "store"}
    /\ mon_pc \in {"idle", "mark", "reset", "reset_cancelled", "status"}

(* A payload is in one place at a time: in a pending map, in the hands of  *)
(* the dispatcher, in one worker's pipe or with one worker.  So no problem *)
(* is solved twice, whoever dies and whatever is cancelled.                *)
PayloadInOnePlace ==
    \A j \in Jobs :
      LET inPipe == {x \in Workers \X (1..Cardinality(Jobs)) :
                       x[2] <= Len(to_worker[x[1]]) /\ to_worker[x[1]][x[2]] = j}
          held == {w \in Workers : wk_pc[w] = "solve" /\ wk_data[w] = j}
          one(b) == IF b THEN 1 ELSE 0
      IN  one(j \in pending) + one(io_pc \in {"send", "write"} /\ io_job = j)
            + Cardinality(inPipe) + Cardinality(held) <= 1

(* DeleteResult is final: no late result, reaped worker or status check    *)
(* brings the tracker entry or the payload of a deleted job back.          *)
DeletedStaysDeleted ==
    \A j \in deleted : tracker[j] = "none" /\ j \notin pending

(* A job reported COMPLETED has the solution of its own problem. *)
CompletedWithOwnSolution ==
    \A j \in Jobs : tracker[j] = "COMPLETED" => stored[j] = j

(* A job is reported CANCELLED only when a client asked for that. *)
CancelledOnlyOnRequest ==
    \A j \in Jobs : tracker[j] = "CANCELLED" => j \in asked

(* A terminal status is final, until the job is deleted. *)
TerminalIsFinal ==
    [][\A j \in Jobs : tracker[j] \in Terminal => tracker'[j] \in {tracker[j], "none"}]_vars

(* `data_sent' says that the payload of the job in the slot has been sent  *)
(* (or is being sent), as the comment on the field has it.                 *)
DataSentMeansSent ==
    \A s \in Slots : ready[s] /\ data_sent[s] => job_id[s] \notin pending

(* The payload of a job that has ended is not kept: the dispatcher has     *)
(* sent it, or mark_worker_jobs_failed has discarded it.                   *)
PayloadDroppedAtEnd ==
    \A j \in Jobs : tracker[j] \in Terminal => j \notin pending

(* Is the retrieval thread in a pipe write that its reader holds up, or on *)
(* a descriptor that has become something else?                            *)
IoHeldUp == io_pc = "flush" \/ Astray

(* Is j in a slot whose worker died between the claim and the store of its *)
(* pid?  mark_worker_jobs_failed does not find such a slot.                *)
Orphaned(j) ==
    \E s \in SlotsOf(j) :
      /\ claimed[s] /\ worker_pid[s] = 0
      /\ \A w \in Workers : ~(alive[w] /\ wk_pc[w] = "pid" /\ wk_slot[w] = s)

(* Every job that was accepted ends, or is deleted: it is dispatched and   *)
(* solved, found cancelled, rejected, or reaped with its killed worker.    *)
(* Three things can take that away: the retrieval thread is held up in one *)
(* pipe for good, the job's result found result_queue full, and the kill   *)
(* that cancel_job meant for another job has orphaned the slot.            *)
EveryJobEnds ==
    []<>~IoHeldUp =>
      \A j \in Jobs :
        (tracker[j] = "QUEUED") ~>
          (tracker[j] \in Terminal \cup {"none"} \/ j \in dropped \/ Orphaned(j))

(* The same without exceptions. *)
EveryJobAlwaysEnds ==
    \A j \in Jobs : (tracker[j] = "QUEUED") ~> (tracker[j] \in Terminal \cup {"none"})
=============================================================================
