----------------------------- MODULE ResultSlots -----------------------------
(***************************************************************************)
(* The lock-free protocol on the result slots in shared memory: worker     *)
(* processes (publish_result, store_simple_result) and the monitor thread  *)
(* (mark_worker_jobs_failed) write them, result_retrieval_thread reads and *)
(* recycles them.                                                          *)
(*                                                                         *)
(* A result is a number; its two halves (job id and outcome) are stored    *)
(* and loaded in separate steps, so that a mixed-up entry can be told.     *)
(***************************************************************************)
EXTENDS Naturals, FiniteSets

CONSTANTS
    MAX_RESULTS,  \* number of slots
    Writers,      \* the threads and processes that write results
    MaxProduced,  \* bound on the number of results produced
    MaxDeaths     \* bound on writers killed

ASSUME ResultSlotsAssumption ==
    MAX_RESULTS \in Nat \ {0} /\ {MaxProduced, MaxDeaths} \subseteq Nat

VARIABLES
    \* shared memory: ResultQueueEntry, by slot
    ready, claimed, retrieved, job_half, status_half,
    \* writers: program point, slot looked at or held, result in hand
    wr_pc, wr_at, wr_res,
    \* reader: program point, slot, halves copied
    rd_pc, rd_at, rd_job, rd_status,
    \* history: results produced so far, made visible, delivered; deaths
    produced, published, delivered, deaths,
    \* history: results into whose entry somebody else wrote meanwhile, and slots
    \* whose writer was killed between claiming them and making its result visible
    disturbed, orphaned

slotVars == <<ready, claimed, retrieved, job_half, status_half>>
wrVars   == <<wr_pc, wr_at, wr_res>>
rdVars   == <<rd_pc, rd_at, rd_job, rd_status>>
histVars == <<produced, published, disturbed>>
resultVars == <<slotVars, wrVars, rdVars, histVars, delivered, deaths, orphaned>>

Slots == 1..MAX_RESULTS
Produced == 0..MaxProduced   \* 0: none

ResultInit ==
    /\ ready = [s \in Slots |-> FALSE]
    /\ claimed = [s \in Slots |-> FALSE]
    /\ retrieved = [s \in Slots |-> FALSE]
    /\ job_half = [s \in Slots |-> 0]
    /\ status_half = [s \in Slots |-> 0]
    /\ wr_pc = [w \in Writers |-> "idle"]
    /\ wr_at = [w \in Writers |-> 1]
    /\ wr_res = [w \in Writers |-> 0]
    /\ rd_pc = "check" /\ rd_at = 1 /\ rd_job = 0 /\ rd_status = 0
    /\ produced = 0 /\ published = {} /\ delivered = {} /\ deaths = 0
    /\ disturbed = {} /\ orphaned = {}

-----------------------------------------------------------------------------
(* A writer: the loop over the slots, and steps 1 to 5 of the comment on   *)
(* store_simple_result.                                                    *)

WrGoto(w, from, to) ==
    /\ wr_pc[w] = from
    /\ wr_pc' = [wr_pc EXCEPT ![w] = to]

Produce(w) ==
    /\ produced < MaxProduced
    /\ produced' = produced + 1
    /\ WrGoto(w, "idle", "load_ready")
    /\ wr_res' = [wr_res EXCEPT ![w] = produced + 1]
    /\ UNCHANGED <<slotVars, wr_at, published, disturbed>>

Done(w) ==
    /\ wr_pc' = [wr_pc EXCEPT ![w] = "idle"]
    /\ wr_at' = [wr_at EXCEPT ![w] = 1]
    /\ wr_res' = [wr_res EXCEPT ![w] = 0]

(* The next slot; after the last one the result is dropped. *)
NextFree(w) ==
    \/ /\ wr_at[w] < MAX_RESULTS
       /\ wr_pc' = [wr_pc EXCEPT ![w] = "load_ready"]
       /\ wr_at' = [wr_at EXCEPT ![w] = wr_at[w] + 1]
       /\ UNCHANGED wr_res
    \/ wr_at[w] = MAX_RESULTS /\ Done(w)

LoadReady(w) ==
    /\ wr_pc[w] = "load_ready"
    /\ \/ ready[wr_at[w]] /\ NextFree(w)
       \/ ~ready[wr_at[w]] /\ WrGoto(w, "load_ready", "cas") /\ UNCHANGED <<wr_at, wr_res>>
    /\ UNCHANGED <<slotVars, histVars>>

Cas(w) ==
    /\ wr_pc[w] = "cas"
    /\ \/ claimed[wr_at[w]] /\ NextFree(w) /\ UNCHANGED claimed
       \/ /\ ~claimed[wr_at[w]]
          /\ claimed' = [claimed EXCEPT ![wr_at[w]] = TRUE]
          /\ WrGoto(w, "cas", "recheck")
          /\ UNCHANGED <<wr_at, wr_res>>
    /\ UNCHANGED <<ready, retrieved, job_half, status_half, histVars>>

(* The writers in the middle of an entry in slot s. *)
Writing(w) == wr_pc[w] \in {"write_job", "write_status", "store_ready"}
WritingAt(s) == {w \in Writers : Writing(w) /\ wr_at[w] = s}

(* `claimed' does not keep a second writer out once it has been cleared by *)
(* a third who was overtaken: the history remembers who met in a slot.     *)
Recheck(w) ==
    /\ WrGoto(w, "recheck", IF ready[wr_at[w]] THEN "unclaim" ELSE "write_job")
    /\ LET others == WritingAt(wr_at[w]) IN
         disturbed' = IF ready[wr_at[w]] \/ others = {} THEN disturbed
                      ELSE disturbed \cup {wr_res[v] : v \in others \cup {w}}
    /\ UNCHANGED <<slotVars, wr_at, wr_res, produced, published>>

Unclaim(w) ==
    /\ wr_pc[w] = "unclaim"
    /\ claimed' = [claimed EXCEPT ![wr_at[w]] = FALSE]
    /\ NextFree(w)
    /\ UNCHANGED <<ready, retrieved, job_half, status_half, histVars>>

(* An entry that is visible before it is complete. *)
WriteJobVisible(w) ==
    /\ WrGoto(w, "write_job", "write_status")
    /\ job_half' = [job_half EXCEPT ![wr_at[w]] = wr_res[w]]
    /\ retrieved' = [retrieved EXCEPT ![wr_at[w]] = FALSE]
    /\ ready' = [ready EXCEPT ![wr_at[w]] = TRUE]
    /\ UNCHANGED <<claimed, status_half, wr_at, wr_res, histVars>>

WriteJob(w) ==
    /\ WrGoto(w, "write_job", "write_status")
    /\ job_half' = [job_half EXCEPT ![wr_at[w]] = wr_res[w]]
    /\ UNCHANGED <<ready, claimed, retrieved, status_half, wr_at, wr_res, histVars>>

(* An entry that keeps the `retrieved' mark of its predecessor. *)
WriteStatusOnly(w) ==
    /\ WrGoto(w, "write_status", "store_ready")
    /\ status_half' = [status_half EXCEPT ![wr_at[w]] = wr_res[w]]
    /\ UNCHANGED <<ready, claimed, retrieved, job_half, wr_at, wr_res, histVars>>

WriteStatus(w) ==
    /\ WrGoto(w, "write_status", "store_ready")
    /\ status_half' = [status_half EXCEPT ![wr_at[w]] = wr_res[w]]
    /\ retrieved' = [retrieved EXCEPT ![wr_at[w]] = FALSE]
    /\ UNCHANGED <<ready, claimed, job_half, wr_at, wr_res, histVars>>

StoreReady(w) ==
    /\ WrGoto(w, "store_ready", "store_unclaimed")
    /\ ready' = [ready EXCEPT ![wr_at[w]] = TRUE]
    /\ published' = published \cup {wr_res[w]}
    /\ UNCHANGED <<claimed, retrieved, job_half, status_half, wr_at, wr_res, produced, disturbed>>

(* The writer is done with its entry, unless it has a payload to send that *)
(* it will fail to send.                                                   *)
StoreUnclaimed(w) ==
    /\ wr_pc[w] = "store_unclaimed"
    /\ claimed' = [claimed EXCEPT ![wr_at[w]] = FALSE]
    /\ Done(w) \/ (WrGoto(w, "store_unclaimed", "stream") /\ UNCHANGED <<wr_at, wr_res>>)
    /\ UNCHANGED <<ready, retrieved, job_half, status_half, histVars>>

(* publish_result notes in the slot that the payload could not be sent;    *)
(* the slot may be somebody else's by now.                                 *)
StreamFails(w) ==
    /\ wr_pc[w] = "stream"
    /\ LET s == wr_at[w] IN
         /\ status_half' = [status_half EXCEPT ![s] = wr_res[w]]
         /\ disturbed' = disturbed \cup {wr_res[v] : v \in WritingAt(s)}
                            \cup (IF ready[s] THEN {job_half[s]} \ {wr_res[w]} ELSE {})
    /\ Done(w)
    /\ UNCHANGED <<ready, claimed, retrieved, job_half, produced, published>>

Writer(w) ==
    /\ \/ Produce(w) \/ LoadReady(w) \/ Cas(w) \/ Recheck(w) \/ Unclaim(w)
       \/ WriteJob(w) \/ WriteStatus(w) \/ StoreReady(w) \/ StoreUnclaimed(w) \/ StreamFails(w)
    /\ UNCHANGED <<rdVars, delivered, deaths, orphaned>>

(* A worker is killed where it is, and a new process takes its index. *)
Die(w) ==
    /\ deaths < MaxDeaths
    /\ wr_pc[w] # "idle"
    /\ deaths' = deaths + 1
    /\ orphaned' = IF Writing(w) \/ wr_pc[w] \in {"recheck", "unclaim"}
                   THEN orphaned \cup {wr_at[w]} ELSE orphaned
    /\ Done(w)
    /\ UNCHANGED <<slotVars, rdVars, histVars, delivered>>

-----------------------------------------------------------------------------
(* The result pass of result_retrieval_thread. *)

RdGoto(from, to) == rd_pc = from /\ rd_pc' = to

NextResult == rd_pc' = "check" /\ rd_at' = IF rd_at < MAX_RESULTS THEN rd_at + 1 ELSE 1

RdCheck ==
    /\ rd_pc = "check"
    /\ \/ ready[rd_at] /\ ~retrieved[rd_at] /\ rd_pc' = "copy_job" /\ UNCHANGED rd_at
       \/ ~(ready[rd_at] /\ ~retrieved[rd_at]) /\ NextResult
    /\ UNCHANGED <<slotVars, rd_job, rd_status, delivered>>

RdCopyJob ==
    /\ RdGoto("copy_job", "copy_status")
    /\ rd_job' = job_half[rd_at]
    /\ UNCHANGED <<slotVars, rd_at, rd_status, delivered>>

(* The outcome is copied; the tracker and the waiters get the result.      *)
(* `retrieved' is set.                                                     *)
RdCopyStatus ==
    /\ RdGoto("copy_status", "clear_claimed")
    /\ rd_status' = status_half[rd_at]
    /\ delivered' = delivered \cup {rd_job}
    /\ retrieved' = [retrieved EXCEPT ![rd_at] = TRUE]
    /\ UNCHANGED <<ready, claimed, job_half, status_half, rd_at, rd_job>>

(* A recycling that clears `ready' and leaves a dead writer's claim. *)
RdClearClaimedSkipped ==
    /\ RdGoto("clear_claimed", "clear_ready")
    /\ UNCHANGED <<slotVars, rd_at, rd_job, rd_status, delivered>>

RdClearClaimed ==
    /\ RdGoto("clear_claimed", "clear_ready")
    /\ claimed' = [claimed EXCEPT ![rd_at] = FALSE]
    /\ UNCHANGED <<ready, retrieved, job_half, status_half, rd_at, rd_job, rd_status, delivered>>

RdClearReady ==
    /\ rd_pc = "clear_ready"
    /\ ready' = [ready EXCEPT ![rd_at] = FALSE]
    /\ rd_job' = 0 /\ rd_status' = 0
    /\ NextResult
    /\ UNCHANGED <<claimed, retrieved, job_half, status_half, delivered>>

Reader ==
    /\ RdCheck \/ RdCopyJob \/ RdCopyStatus \/ RdClearClaimed \/ RdClearReady
    /\ UNCHANGED <<wrVars, histVars, deaths, orphaned>>

ResultNext == (\E w \in Writers : Writer(w) \/ Die(w)) \/ Reader

(* Live writers and the reader keep running. *)
ResultSpec == ResultInit /\ [][ResultNext]_resultVars /\ WF_resultVars(Reader) /\ \A w \in Writers : WF_resultVars(Writer(w))

-----------------------------------------------------------------------------
(* Properties. *)

ResultTypeOK ==
    /\ \A f \in {ready, claimed, retrieved} : f \in [Slots -> BOOLEAN]
    /\ {job_half, status_half} \subseteq [Slots -> Produced]
    /\ wr_pc \in [Writers -> {"idle", "load_ready", "cas", "recheck", "unclaim",
                "write_job", "write_status", "store_ready", "store_unclaimed", "stream"}]
    /\ wr_at \in [Writers -> Slots] /\ wr_res \in [Writers -> Produced]
    /\ rd_pc \in {"check", "copy_job", "copy_status", "clear_claimed", "clear_ready"}
    /\ rd_at \in Slots /\ {rd_job, rd_status} \subseteq Produced
    /\ (delivered \cup published \cup disturbed) \subseteq Produced /\ produced \in Produced
    /\ deaths \in 0..MaxDeaths /\ orphaned \subseteq Slots

(* `claimed' "prevents two workers from writing the same slot              *)
(* simultaneously".                                                        *)
WritersExclude == \A v, w \in Writers : Writing(v) /\ Writing(w) /\ wr_at[v] = wr_at[w] => v = w

(* The reader hands on an entry as one writer wrote it, whenever writers   *)
(* are killed or overtaken: the outcome is that of the job, unless another *)
(* writer was in the slot at the same time.                                *)
ReadsWhatWasWritten == rd_pc = "clear_claimed" => rd_job = rd_status \/ rd_job \in disturbed

(* A result that was made visible is waiting in a slot until it has been   *)
(* delivered: no writer that comes later overwrites it and no recycling    *)
(* discards it.                                                            *)
NothingLost ==
    \A n \in published \ (delivered \cup disturbed) :
      \E s \in Slots : ready[s] /\ ~retrieved[s] /\ job_half[s] = n

(* A slot with a visible result becomes usable again, even when its writer *)
(* was killed before it could clear `claimed'.  Lost for good are only     *)
(* slots whose writer was killed before its result was visible, and those  *)
(* in which two writers met (`retrieved' may then be set for the second    *)
(* result too).                                                            *)
VisibleIsRecycled ==
    \A s \in Slots : ready[s] ~> \/ ~ready[s] /\ ~claimed[s]
                                 \/ s \in orphaned \/ job_half[s] \in disturbed
=============================================================================
