------------------------------ MODULE JobSlots ------------------------------
(***************************************************************************)
(* The lock-free protocol on the job slots that the gRPC server process    *)
(* and its worker processes share in memory (grpc_job_queue.hpp and the    *)
(* submitting half of grpc_job_management.cpp).                            *)
(*                                                                         *)
(* A handler thread reserves a slot with a compare-and-swap on `claimed',  *)
(* fills it, takes a ticket and publishes it.  A worker scans the slots    *)
(* for the lowest ticket, claims it with a compare-and-swap, re-checks it, *)
(* records its pid, works and resets the slot.  A worker may be killed at  *)
(* any point; the monitor thread then resets the slot that bears its pid.  *)
(*                                                                         *)
(* A load or store of a shared field that another thread can tell apart is *)
(* a step of its own.  Fields that take no part in the protocol            *)
(* (data_size, data_sent, ...) are left out; module JobLifecycle has them. *)
(***************************************************************************)
EXTENDS Naturals

CONSTANTS
    MAX_JOBS,     \* number of slots
    Submitters,   \* gRPC handler threads that submit jobs
    Workers,      \* pids the worker processes may have
    FirstWorkers, \* the pids started with the server; the others are respawns
    Jobs,         \* job ids generate_job_id may return
    None          \* no pid, no job, nobody holds the mutex

ASSUME SlotsAssumption == MAX_JOBS \in Nat \ {0}
ASSUME ThreadsAssumption ==
    /\ None \notin Workers \cup Jobs \cup Submitters
    /\ FirstWorkers \subseteq Workers

Slots == 1..MAX_JOBS

VARIABLES
    \* shared memory: the fields of JobQueueEntry, by slot
    ready, claimed, enqueue_seq, worker_pid, job_id,
    \* next_job_enqueue_seq and the holder of job_enqueue_mutex
    next_seq, enqueue_lock,
    \* handler threads: program point, slot looked at or held, job in hand
    sub_pc, sub_at, sub_job,
    \* ids handed out by generate_job_id
    issued,
    \* worker processes: program point, scan cursor, best slot and its ticket
    wk_pc, wk_at, best_slot, best_seq,
    \* worker processes: "unborn", "alive", "dead" or "reaped"
    life,
    \* monitor thread: program point, dead pid, slot looked at
    mon_pc, mon_pid, mon_at,
    \* history: jobs some worker has taken; and for each scanning worker the
    \* tickets that have been dispatchable ever since its scan began
    started, waiting

slotVars  == <<ready, claimed, enqueue_seq, worker_pid, job_id>>
queueVars == <<next_seq, enqueue_lock>>
subVars   == <<sub_pc, sub_at, sub_job>>
scanVars  == <<wk_at, best_slot, best_seq>>
monVars   == <<mon_pc, mon_pid, mon_at>>
vars == <<slotVars, queueVars, subVars, issued, wk_pc, scanVars, life, monVars,
          started, waiting>>

SubPC == {"idle", "load_ready", "cas", "populate", "ticket", "store_ready",
          "store_unclaimed"}
WkPC  == {"idle", "load_ready", "load_claimed", "load_seq", "cas", "recheck",
          "unclaim", "store_pid", "work", "reset_seq", "reset_claimed", "gone"}
(* The points at which a worker has selected a slot. *)
Selected == {"cas", "recheck", "unclaim", "store_pid", "work", "reset_seq",
             "reset_claimed"}
MonPC == {"idle", "check", "reset_ready", "reset_seq", "reset_claimed"}

TypeOK ==
    /\ ready \in [Slots -> BOOLEAN]
    /\ claimed \in [Slots -> BOOLEAN]
    /\ enqueue_seq \in [Slots -> Nat]
    /\ worker_pid \in [Slots -> Workers \cup {None}]
    /\ job_id \in [Slots -> Jobs \cup {None}]
    /\ next_seq \in Nat \ {0}
    /\ enqueue_lock \in Submitters \cup {None}
    /\ sub_pc \in [Submitters -> SubPC]
    /\ sub_at \in [Submitters -> Slots]
    /\ sub_job \in [Submitters -> Jobs \cup {None}]
    /\ issued \in SUBSET Jobs
    /\ wk_pc \in [Workers -> WkPC]
    /\ wk_at \in [Workers -> Slots]
    /\ best_slot \in [Workers -> Slots \cup {0}]
    /\ best_seq \in [Workers -> Nat]
    /\ \A w \in Workers : wk_pc[w] \in Selected => best_slot[w] # 0
    /\ life \in [Workers -> {"unborn", "alive", "dead", "reaped"}]
    /\ mon_pc \in MonPC
    /\ mon_pid \in Workers \cup {None}
    /\ mon_at \in Slots
    /\ mon_pc # "idle" => mon_pid # None
    /\ started \in SUBSET (Jobs \cup {None})
    /\ waiting \in [Workers -> SUBSET Nat]

Init ==
    /\ ready = [s \in Slots |-> FALSE]
    /\ claimed = [s \in Slots |-> FALSE]
    /\ enqueue_seq = [s \in Slots |-> 0]
    /\ worker_pid = [s \in Slots |-> None]
    /\ job_id = [s \in Slots |-> None]
    /\ next_seq = 1
    /\ enqueue_lock = None
    /\ sub_pc = [p \in Submitters |-> "idle"]
    /\ sub_at = [p \in Submitters |-> 1]
    /\ sub_job = [p \in Submitters |-> None]
    /\ issued = {}
    /\ wk_pc = [w \in Workers |-> "idle"]
    /\ wk_at = [w \in Workers |-> 1]
    /\ best_slot = [w \in Workers |-> 0]
    /\ best_seq = [w \in Workers |-> 0]
    /\ life = [w \in Workers |-> IF w \in FirstWorkers THEN "alive" ELSE "unborn"]
    /\ mon_pc = "idle"
    /\ mon_pid = None
    /\ mon_at = 1
    /\ started = {}
    /\ waiting = [w \in Workers |-> {}]

-----------------------------------------------------------------------------
(* Submission: submit_job_async and submit_chunked_job_async. *)

SubGoto(p, from, to) ==
    /\ sub_pc[p] = from
    /\ sub_pc' = [sub_pc EXCEPT ![p] = to]

(* generate_job_id, and the start of the loop over the slots. *)
BeginSubmit(p) ==
    /\ SubGoto(p, "idle", "load_ready")
    /\ \E j \in Jobs \ issued :
          /\ issued' = issued \cup {j}
          /\ sub_job' = [sub_job EXCEPT ![p] = j]
    /\ UNCHANGED <<slotVars, queueVars, sub_at, waiting>>

(* The end of the handler: the thread is free for another request. *)
SubmitReturns(p) ==
    /\ sub_pc' = [sub_pc EXCEPT ![p] = "idle"]
    /\ sub_at' = [sub_at EXCEPT ![p] = 1]
    /\ sub_job' = [sub_job EXCEPT ![p] = None]

(* A loop that runs one slot too far. *)
NextFreeCandidatePastEnd(p) ==
    /\ sub_at[p] <= MAX_JOBS
    /\ sub_pc' = [sub_pc EXCEPT ![p] = "load_ready"]
    /\ sub_at' = [sub_at EXCEPT ![p] = sub_at[p] + 1]
    /\ UNCHANGED sub_job

(* The next turn of the loop, or "Job queue full" after the last slot. *)
NextFreeCandidate(p) ==
    \/ /\ sub_at[p] < MAX_JOBS
       /\ sub_pc' = [sub_pc EXCEPT ![p] = "load_ready"]
       /\ sub_at' = [sub_at EXCEPT ![p] = sub_at[p] + 1]
       /\ UNCHANGED sub_job
    \/ sub_at[p] = MAX_JOBS /\ SubmitReturns(p)

(* if (job_queue[i].ready.load()) continue; *)
SubmitLoadReady(p) ==
    /\ sub_pc[p] = "load_ready"
    /\ \/ ready[sub_at[p]] /\ NextFreeCandidate(p)
       \/ /\ ~ready[sub_at[p]]
          /\ SubGoto(p, "load_ready", "cas")
          /\ UNCHANGED <<sub_at, sub_job>>
    /\ UNCHANGED <<slotVars, queueVars, issued, waiting>>

(* A slot that becomes claimed is no longer dispatchable for any scan. *)
NoLongerWaiting(t) == waiting' = [w \in Workers |-> waiting[w] \ {t}]

(* A reservation that does not look at the flag it sets. *)
SubmitCasUnguarded(p) ==
    /\ SubGoto(p, "cas", "populate")
    /\ claimed' = [claimed EXCEPT ![sub_at[p]] = TRUE]
    /\ NoLongerWaiting(enqueue_seq[sub_at[p]])
    /\ UNCHANGED <<ready, enqueue_seq, worker_pid, job_id, queueVars, sub_at,
                   sub_job, issued>>

(* claimed.compare_exchange_strong(false, true).  `ready' is not looked at *)
(* again after the exchange.                                               *)
SubmitCas(p) ==
    /\ sub_pc[p] = "cas"
    /\ \/ /\ ~claimed[sub_at[p]]
          /\ SubGoto(p, "cas", "populate")
          /\ claimed' = [claimed EXCEPT ![sub_at[p]] = TRUE]
          /\ NoLongerWaiting(enqueue_seq[sub_at[p]])
          /\ UNCHANGED <<sub_at, sub_job>>
       \/ /\ claimed[sub_at[p]]
          /\ NextFreeCandidate(p)
          /\ UNCHANGED <<claimed, waiting>>
    /\ UNCHANGED <<ready, enqueue_seq, worker_pid, job_id, queueVars, issued>>

(* Fill the reserved slot.  The payload and tracker entries made next are  *)
(* private to the server process (module JobLifecycle).                    *)
Populate(p) ==
    /\ SubGoto(p, "populate", "ticket")
    /\ job_id' = [job_id EXCEPT ![sub_at[p]] = sub_job[p]]
    /\ worker_pid' = [worker_pid EXCEPT ![sub_at[p]] = None]
    /\ UNCHANGED <<ready, claimed, enqueue_seq, queueVars, sub_at, sub_job,
                   issued, waiting>>

(* A ticket drawn without holding job_enqueue_mutex. *)
TakeTicketUnlocked(p) ==
    /\ SubGoto(p, "ticket", "store_ready")
    /\ next_seq' = next_seq + 1
    /\ enqueue_seq' = [enqueue_seq EXCEPT ![sub_at[p]] = next_seq]
    /\ UNCHANGED <<ready, claimed, worker_pid, job_id, enqueue_lock, sub_at,
                   sub_job, issued, waiting>>

(* publish_ready_job_slot: lock job_enqueue_mutex, draw the ticket and     *)
(* store it in the slot.                                                   *)
TakeTicket(p) ==
    /\ SubGoto(p, "ticket", "store_ready")
    /\ enqueue_lock = None
    /\ enqueue_lock' = p
    /\ next_seq' = next_seq + 1
    /\ enqueue_seq' = [enqueue_seq EXCEPT ![sub_at[p]] = next_seq]
    /\ UNCHANGED <<ready, claimed, worker_pid, job_id, sub_at, sub_job, issued,
                   waiting>>

PublishReady(p) ==
    /\ SubGoto(p, "store_ready", "store_unclaimed")
    /\ ready' = [ready EXCEPT ![sub_at[p]] = TRUE]
    /\ UNCHANGED <<claimed, enqueue_seq, worker_pid, job_id, queueVars, sub_at,
                   sub_job, issued, waiting>>

(* Give the slot up to the workers and unlock the mutex. *)
PublishUnclaimed(p) ==
    /\ sub_pc[p] = "store_unclaimed"
    /\ claimed' = [claimed EXCEPT ![sub_at[p]] = FALSE]
    /\ enqueue_lock' = None
    /\ SubmitReturns(p)
    /\ UNCHANGED <<ready, enqueue_seq, worker_pid, job_id, next_seq, issued,
                   waiting>>

Submitter(p) ==
    /\ \/ BeginSubmit(p)
       \/ SubmitLoadReady(p)
       \/ SubmitCas(p)
       \/ Populate(p)
       \/ TakeTicket(p)
       \/ PublishReady(p)
       \/ PublishUnclaimed(p)
    /\ UNCHANGED <<wk_pc, scanVars, life, monVars, started>>

-----------------------------------------------------------------------------
(* A worker: claim_ready_job_slot, the job, reset_job_slot. *)

WkGoto(w, from, to) ==
    /\ wk_pc[w] = from
    /\ wk_pc' = [wk_pc EXCEPT ![w] = to]

(* The worker's cursor, best slot and best ticket. *)
SetScan(w, at, b, t) ==
    /\ wk_at' = [wk_at EXCEPT ![w] = at]
    /\ best_slot' = [best_slot EXCEPT ![w] = b]
    /\ best_seq' = [best_seq EXCEPT ![w] = t]

Dispatchable(s) == ready[s] /\ ~claimed[s] /\ enqueue_seq[s] # 0

(* The top of the retry loop: nothing selected, and every dispatchable     *)
(* ticket is one that this scan must not overlook.                         *)
ScanFromTop(w) ==
    /\ wk_pc' = [wk_pc EXCEPT ![w] = "load_ready"]
    /\ SetScan(w, 1, 0, 0)
    /\ waiting' = [waiting EXCEPT
                     ![w] = {enqueue_seq[s] : s \in {x \in Slots : Dispatchable(x)}}]

BeginClaim(w) ==
    /\ wk_pc[w] = "idle"
    /\ ScanFromTop(w)
    /\ UNCHANGED <<slotVars, started>>

(* Go on to the next slot with best slot b and ticket t; after the last    *)
(* slot go for the best one, or return -1.                                 *)
NextCandidate(w, b, t) ==
    \/ /\ wk_at[w] < MAX_JOBS
       /\ wk_pc' = [wk_pc EXCEPT ![w] = "load_ready"]
       /\ SetScan(w, wk_at[w] + 1, b, t)
       /\ UNCHANGED waiting
    \/ /\ wk_at[w] = MAX_JOBS
       /\ b # 0
       /\ wk_pc' = [wk_pc EXCEPT ![w] = "cas"]
       /\ SetScan(w, 1, b, t)
       /\ UNCHANGED waiting
    \/ /\ wk_at[w] = MAX_JOBS
       /\ b = 0
       /\ wk_pc' = [wk_pc EXCEPT ![w] = "idle"]
       /\ SetScan(w, 1, 0, 0)
       /\ waiting' = [waiting EXCEPT ![w] = {}]

ClaimLoadReady(w) ==
    /\ wk_pc[w] = "load_ready"
    /\ \/ /\ ready[wk_at[w]]
          /\ WkGoto(w, "load_ready", "load_claimed")
          /\ UNCHANGED <<scanVars, waiting>>
       \/ ~ready[wk_at[w]] /\ NextCandidate(w, best_slot[w], best_seq[w])
    /\ UNCHANGED <<slotVars, started>>

ClaimLoadClaimed(w) ==
    /\ wk_pc[w] = "load_claimed"
    /\ \/ /\ ~claimed[wk_at[w]]
          /\ WkGoto(w, "load_claimed", "load_seq")
          /\ UNCHANGED <<scanVars, waiting>>
       \/ claimed[wk_at[w]] /\ NextCandidate(w, best_slot[w], best_seq[w])
    /\ UNCHANGED <<slotVars, started>>

(* A selection that keeps the first dispatchable slot. *)
BetterFirst(w) == enqueue_seq[wk_at[w]] # 0 /\ best_slot[w] = 0

(* Is the slot under the cursor the first, or of a lower ticket? *)
Better(w) ==
    /\ enqueue_seq[wk_at[w]] # 0
    /\ best_slot[w] = 0 \/ enqueue_seq[wk_at[w]] < best_seq[w]

ClaimLoadSeq(w) ==
    /\ wk_pc[w] = "load_seq"
    /\ \/ Better(w) /\ NextCandidate(w, wk_at[w], enqueue_seq[wk_at[w]])
       \/ ~Better(w) /\ NextCandidate(w, best_slot[w], best_seq[w])
    /\ UNCHANGED <<slotVars, started>>

ClaimCas(w) ==
    /\ wk_pc[w] = "cas"
    /\ \/ /\ ~claimed[best_slot[w]]
          /\ WkGoto(w, "cas", "recheck")
          /\ claimed' = [claimed EXCEPT ![best_slot[w]] = TRUE]
          /\ NoLongerWaiting(enqueue_seq[best_slot[w]])
          /\ UNCHANGED scanVars
       \/ /\ claimed[best_slot[w]]
          /\ ScanFromTop(w)
          /\ UNCHANGED claimed
    /\ UNCHANGED <<ready, enqueue_seq, worker_pid, job_id, started>>

(* A re-check that looks at `ready' only. *)
StillSelectedReadyOnly(w) == ready[best_slot[w]]

(* Is it still the job selected?  The two loads are one step: the slot is  *)
(* reserved, so no other thread writes them in between.                    *)
StillSelected(w) ==
    ready[best_slot[w]] /\ enqueue_seq[best_slot[w]] = best_seq[w]

(* If it is, the job is this worker's; if not, undo the claim and retry. *)
ClaimRecheck(w) ==
    /\ wk_pc[w] = "recheck"
    /\ \/ /\ StillSelected(w)
          /\ WkGoto(w, "recheck", "store_pid")
          /\ started' = started \cup {job_id[best_slot[w]]}
       \/ /\ ~StillSelected(w)
          /\ WkGoto(w, "recheck", "unclaim")
          /\ UNCHANGED started
    /\ UNCHANGED <<slotVars, scanVars, waiting>>

ClaimUndo(w) ==
    /\ wk_pc[w] = "unclaim"
    /\ claimed' = [claimed EXCEPT ![best_slot[w]] = FALSE]
    /\ ScanFromTop(w)
    /\ UNCHANGED <<ready, enqueue_seq, worker_pid, job_id, started>>

ClaimStorePid(w) ==
    /\ WkGoto(w, "store_pid", "work")
    /\ worker_pid' = [worker_pid EXCEPT ![best_slot[w]] = w]
    /\ waiting' = [waiting EXCEPT ![w] = {}]
    /\ UNCHANGED <<ready, claimed, enqueue_seq, job_id, scanVars, started>>

(* reset_job_slot that releases `claimed' before it clears `ready'. *)
ResetReadyUnclaims(s) ==
    /\ claimed' = [claimed EXCEPT ![s] = FALSE]
    /\ UNCHANGED <<ready, enqueue_seq, worker_pid, job_id>>

(* The stores of reset_job_slot on slot s, which the worker and the        *)
(* monitor share.  The pid goes with the ticket: it is looked at only in   *)
(* slots with `ready' set.                                                 *)
ResetReady(s) ==
    /\ ready' = [ready EXCEPT ![s] = FALSE]
    /\ UNCHANGED <<claimed, enqueue_seq, worker_pid, job_id>>
ResetSeqPid(s) ==
    /\ enqueue_seq' = [enqueue_seq EXCEPT ![s] = 0]
    /\ worker_pid' = [worker_pid EXCEPT ![s] = None]
    /\ UNCHANGED <<ready, claimed, job_id>>
ResetClaimed(s) ==
    /\ claimed' = [claimed EXCEPT ![s] = FALSE]
    /\ UNCHANGED <<ready, enqueue_seq, worker_pid, job_id>>

(* The job is done, failed or found cancelled: reset_job_slot. *)
WorkerResetReady(w) ==
    /\ WkGoto(w, "work", "reset_seq")
    /\ ResetReady(best_slot[w])
    /\ UNCHANGED <<scanVars, started, waiting>>
WorkerResetSeqPid(w) ==
    /\ WkGoto(w, "reset_seq", "reset_claimed")
    /\ ResetSeqPid(best_slot[w])
    /\ UNCHANGED <<scanVars, started, waiting>>
WorkerResetClaimed(w) ==
    /\ WkGoto(w, "reset_claimed", "idle")
    /\ ResetClaimed(best_slot[w])
    /\ SetScan(w, 1, 0, 0)
    /\ UNCHANGED <<started, waiting>>

Worker(w) ==
    /\ life[w] = "alive"
    /\ \/ BeginClaim(w)
       \/ ClaimLoadReady(w)
       \/ ClaimLoadClaimed(w)
       \/ ClaimLoadSeq(w)
       \/ ClaimCas(w)
       \/ ClaimRecheck(w)
       \/ ClaimUndo(w)
       \/ ClaimStorePid(w)
       \/ WorkerResetReady(w)
       \/ WorkerResetSeqPid(w)
       \/ WorkerResetClaimed(w)
    /\ UNCHANGED <<queueVars, subVars, issued, life, monVars>>

-----------------------------------------------------------------------------
(* Death of a worker and the monitor thread. *)

(* A cancel's SIGKILL, the out-of-memory killer or a fault in the solver   *)
(* ends the process wherever it is.                                        *)
Die(w) ==
    /\ life[w] = "alive"
    /\ life' = [life EXCEPT ![w] = "dead"]
    /\ UNCHANGED <<slotVars, queueVars, subVars, issued, wk_pc, scanVars,
                   monVars, started, waiting>>

(* waitpid reports w: mark_worker_jobs_failed(w) starts its scan. *)
Reap(w) ==
    /\ mon_pc = "idle"
    /\ life[w] = "dead"
    /\ mon_pc' = "check"
    /\ mon_pid' = w
    /\ UNCHANGED <<slotVars, wk_pc, life, mon_at>>

(* The next slot of the scan; after the last, the dead worker is replaced  *)
(* by a process with a new pid while the model has one.                    *)
NextReaped ==
    \/ /\ mon_at < MAX_JOBS
       /\ mon_pc' = "check"
       /\ mon_at' = mon_at + 1
       /\ UNCHANGED <<mon_pid, life>>
    \/ /\ mon_at = MAX_JOBS
       /\ mon_pc' = "idle"
       /\ mon_at' = 1
       /\ mon_pid' = None
       /\ LET reaped == [life EXCEPT ![mon_pid] = "reaped"]
              unborn == {x \in Workers : life[x] = "unborn"}
          IN  \/ unborn = {} /\ life' = reaped
              \/ \E x \in unborn : life' = [reaped EXCEPT ![x] = "alive"]

(* Is the slot under the cursor one of the dead worker's?  The three loads *)
(* are one step: such a slot no longer changes.                            *)
OfDeadWorker ==
    ready[mon_at] /\ claimed[mon_at] /\ worker_pid[mon_at] = mon_pid

ReapCheck ==
    /\ mon_pc = "check"
    /\ \/ /\ OfDeadWorker
          /\ mon_pc' = "reset_ready"
          /\ wk_pc' = [wk_pc EXCEPT ![mon_pid] = "gone"]
          /\ UNCHANGED <<mon_pid, mon_at, life>>
       \/ ~OfDeadWorker /\ NextReaped /\ UNCHANGED wk_pc
    /\ UNCHANGED slotVars

ReapResetReady ==
    /\ mon_pc = "reset_ready"
    /\ ResetReady(mon_at)
    /\ mon_pc' = "reset_seq"
    /\ UNCHANGED <<wk_pc, life, mon_pid, mon_at>>

ReapResetSeqPid ==
    /\ mon_pc = "reset_seq"
    /\ ResetSeqPid(mon_at)
    /\ mon_pc' = "reset_claimed"
    /\ UNCHANGED <<wk_pc, life, mon_pid, mon_at>>

ReapResetClaimed ==
    /\ mon_pc = "reset_claimed"
    /\ ResetClaimed(mon_at)
    /\ NextReaped
    /\ UNCHANGED wk_pc

Monitor ==
    /\ \/ \E w \in Workers : Reap(w)
       \/ ReapCheck
       \/ ReapResetReady
       \/ ReapResetSeqPid
       \/ ReapResetClaimed
    /\ UNCHANGED <<queueVars, subVars, issued, scanVars, started, waiting>>

Next ==
    \/ \E p \in Submitters : Submitter(p)
    \/ \E w \in Workers : Worker(w) \/ Die(w)
    \/ Monitor

Spec == Init /\ [][Next]_vars

-----------------------------------------------------------------------------
(* Properties. *)

SubmitterOwns(p, s) ==
    /\ sub_at[p] = s
    /\ sub_pc[p] \in {"populate", "ticket", "store_ready", "store_unclaimed"}
WorkerOwns(w, s) ==
    best_slot[w] = s /\ wk_pc[w] \in Selected \ {"cas"}
MonitorOwns(s) ==
    /\ mon_at = s
    /\ mon_pc \in {"reset_ready", "reset_seq", "reset_claimed"}

(* No two parties ever write a job slot at the same time: between the      *)
(* exchange that sets `claimed' and the store that clears it a slot has    *)
(* one owner, a handler thread, a worker (even a dead one) or the monitor. *)
SlotOwnership ==
    \A s \in Slots :
      /\ \A p, q \in Submitters : SubmitterOwns(p, s) /\ SubmitterOwns(q, s) => p = q
      /\ \A v, w \in Workers : WorkerOwns(v, s) /\ WorkerOwns(w, s) => v = w
      /\ \A p \in Submitters, w \in Workers : ~(SubmitterOwns(p, s) /\ WorkerOwns(w, s))
      /\ MonitorOwns(s) => /\ \A p \in Submitters : ~SubmitterOwns(p, s)
                           /\ \A w \in Workers : ~WorkerOwns(w, s)

(* A worker that has recorded its pid works on the very job it selected:   *)
(* the slot is still published, under the ticket of the scan, until its    *)
(* own reset.                                                              *)
WorksOnSelectedJob ==
    \A w \in Workers : wk_pc[w] \in {"store_pid", "work"} =>
      /\ ready[best_slot[w]]
      /\ enqueue_seq[best_slot[w]] = best_seq[w]

(* A later ticket is never visible before an earlier one: whoever still    *)
(* holds an unpublished ticket holds a higher one than every published     *)
(* slot (the comment on next_job_enqueue_seq).                             *)
TicketsPublishedInOrder ==
    \A p \in Submitters, s \in Slots :
      /\ sub_pc[p] = "store_ready"
      /\ ready[s]
      /\ s # sub_at[p]
      => enqueue_seq[s] < enqueue_seq[sub_at[p]]

(* A claim never overtakes a job that has been dispatchable ever since     *)
(* the claiming worker began its scan (claim_ready_job_slot).              *)
NoOvertaking ==
    \A w \in Workers : wk_pc[w] = "store_pid" =>
      \A t \in waiting[w] : best_seq[w] < t

(* "Atomically reserve a free slot": the slot a handler thread has         *)
(* reserved and not yet filled holds no published job.                     *)
ReservedSlotIsFree ==
    \A p \in Submitters : sub_pc[p] = "populate" => ~ready[sub_at[p]]

(* A claimed slot has an owner that will still release it: once the        *)
(* monitor is done with a dead worker, no slot is left claimed by it.      *)
NoOrphanedSlot ==
    \A w \in Workers, s \in Slots : life[w] = "reaped" => ~WorkerOwns(w, s)

-----------------------------------------------------------------------------
(* The pool of jobs the slots implement. *)

Holds(w) == wk_pc[w] \in {"store_pid", "work"}
Adopted(w) == mon_pc = "reset_ready" /\ mon_pid = w
Running == [w \in Workers |->
              IF Holds(w) THEN job_id[best_slot[w]]
              ELSE IF Adopted(w) THEN job_id[mon_at] ELSE None]
Pending == {job_id[s] : s \in {x \in Slots :
              /\ ready[x]
              /\ \A w \in Workers : ~(Holds(w) /\ best_slot[w] = x)
              /\ ~(mon_pc = "reset_ready" /\ mon_at = x)}}

Pool == INSTANCE JobPool WITH pending <- Pending, running <- Running

(* The slots implement the job pool: a published job stays pending until   *)
(* exactly one worker takes it, and no job is taken twice.                 *)
PoolSpec == Pool!Spec
=============================================================================
