-------------------------- MODULE JobSlots_proofs --------------------------
(* Theorems about the job slot protocol, for any number of slots, handler  *)
(* threads, worker processes and jobs.                                     *)
EXTENDS JobSlots, TLAPS

(* The server starts with well-typed slots and idle threads. *)
LEMMA InitTypeOK == Init => TypeOK
  BY SlotsAssumption, ThreadsAssumption
  DEF Init, TypeOK, Slots, SubPC, WkPC, Selected, MonPC

(* Arithmetic of slot indices: 1 is the first slot, MAX_JOBS the last, and 0,
   which stands for no slot at all, is none. *)
LEMMA SlotFacts ==
  /\ 1 \in Slots
  /\ 0 \notin Slots
  /\ MAX_JOBS \in Slots
  /\ \A s \in Slots : s < MAX_JOBS => s + 1 \in Slots
  BY SlotsAssumption DEF Slots

(* Every step of a submitting handler thread (submit_job_async) keeps the
   types. *)
LEMMA SubmitterTypeOK ==
  ASSUME TypeOK, NEW p \in Submitters, Submitter(p)
  PROVE  TypeOK'
<1> USE SlotFacts DEF TypeOK, SubPC, slotVars, queueVars, SubGoto
<1>0. UNCHANGED <<wk_pc, scanVars, life, monVars, started>>
  BY DEF Submitter
<1> USE <1>0 DEF scanVars, monVars
<1>a. ASSUME SubmitReturns(p)
      PROVE  /\ sub_pc' \in [Submitters -> SubPC]
             /\ sub_at' \in [Submitters -> Slots]
             /\ sub_job' \in [Submitters -> Jobs \cup {None}]
  BY <1>a DEF SubmitReturns
<1>b. ASSUME NextFreeCandidate(p)
      PROVE  /\ sub_pc' \in [Submitters -> SubPC]
             /\ sub_at' \in [Submitters -> Slots]
             /\ sub_job' \in [Submitters -> Jobs \cup {None}]
  BY <1>a, <1>b DEF NextFreeCandidate
<1>c. ASSUME NEW t, NoLongerWaiting(t) PROVE waiting' \in [Workers -> SUBSET Nat]
  BY <1>c DEF NoLongerWaiting
<1>1. ASSUME BeginSubmit(p) PROVE TypeOK'
  BY <1>1 DEF BeginSubmit
<1>2. ASSUME SubmitLoadReady(p) PROVE TypeOK'
  BY <1>b, <1>2 DEF SubmitLoadReady
<1>3. ASSUME SubmitCas(p) PROVE TypeOK'
  <2>1. /\ sub_pc' \in [Submitters -> SubPC]
        /\ sub_at' \in [Submitters -> Slots]
        /\ sub_job' \in [Submitters -> Jobs \cup {None}]
    BY <1>b, <1>3 DEF SubmitCas
  <2>2. claimed' \in [Slots -> BOOLEAN] /\ waiting' \in [Workers -> SUBSET Nat]
    BY <1>c, <1>3 DEF SubmitCas
  <2> QED BY <1>3, <2>1, <2>2 DEF SubmitCas
<1>4. ASSUME Populate(p) PROVE TypeOK'
  BY <1>4 DEF Populate
<1>5. ASSUME TakeTicket(p) PROVE TypeOK'
  BY <1>5 DEF TakeTicket
<1>6. ASSUME PublishReady(p) PROVE TypeOK'
  BY <1>6 DEF PublishReady
<1>7. ASSUME PublishUnclaimed(p) PROVE TypeOK'
  BY <1>a, <1>7 DEF PublishUnclaimed
<1> QED BY <1>1, <1>2, <1>3, <1>4, <1>5, <1>6, <1>7 DEF Submitter

(* What a worker keeps private has its type after the step. *)
WorkerTyped ==
    /\ wk_pc \in [Workers -> WkPC]
    /\ wk_at \in [Workers -> Slots]
    /\ best_slot \in [Workers -> Slots \cup {0}]
    /\ best_seq \in [Workers -> Nat]
    /\ \A w \in Workers : wk_pc[w] \in Selected => best_slot[w] # 0
    /\ waiting \in [Workers -> SUBSET Nat]

(* Restarting the scan of claim_ready_job_slot keeps a worker well typed. *)
LEMMA ScanFromTopTyped ==
  ASSUME TypeOK, NEW w \in Workers, ScanFromTop(w)
  PROVE  WorkerTyped'
<1>1. {enqueue_seq[s] : s \in {x \in Slots : Dispatchable(x)}} \in SUBSET Nat
  BY DEF TypeOK
<1> QED BY <1>1, SlotFacts DEF ScanFromTop, SetScan, TypeOK, WorkerTyped, WkPC, Selected

(* Moving the scan of claim_ready_job_slot to its next slot, or to its end,
   keeps a worker well typed. *)
LEMMA NextCandidateTyped ==
  ASSUME TypeOK, NEW w \in Workers, NEW b \in Slots \cup {0}, NEW t \in Nat,
         NextCandidate(w, b, t)
  PROVE  WorkerTyped'
<1>1. WorkerTyped /\ wk_at[w] \in Slots
  BY DEF TypeOK, WorkerTyped
<1> USE <1>1, SlotFacts DEF SetScan, WorkerTyped
<1>2. CASE wk_at[w] < MAX_JOBS
  <2>1. /\ wk_pc' = [wk_pc EXCEPT ![w] = "load_ready"]
        /\ SetScan(w, wk_at[w] + 1, b, t)
        /\ waiting' = waiting
    BY <1>2, SlotsAssumption DEF NextCandidate
  <2>2. wk_at[w] + 1 \in Slots
    BY <1>2
  <2> QED BY <2>1, <2>2 DEF WkPC, Selected
<1>3. CASE wk_at[w] = MAX_JOBS /\ b # 0
  <2>1. /\ wk_pc' = [wk_pc EXCEPT ![w] = "cas"]
        /\ SetScan(w, 1, b, t)
        /\ waiting' = waiting
    BY <1>3, SlotsAssumption DEF NextCandidate
  <2> QED BY <1>3, <2>1 DEF WkPC, Selected
<1>4. CASE wk_at[w] = MAX_JOBS /\ b = 0
  <2>1. /\ wk_pc' = [wk_pc EXCEPT ![w] = "idle"]
        /\ SetScan(w, 1, 0, 0)
        /\ waiting' = [waiting EXCEPT ![w] = {}]
    BY <1>4, SlotsAssumption DEF NextCandidate
  <2> QED BY <2>1 DEF WkPC, Selected
<1> QED BY <1>2, <1>3, <1>4 DEF NextCandidate

(* Every step of a worker process (claim, work, reset) keeps the types. *)
LEMMA WorkerTypeOK ==
  ASSUME TypeOK, NEW w \in Workers, Worker(w)
  PROVE  TypeOK'
<1> USE DEF slotVars, WkGoto, SetScan
<1>0. UNCHANGED <<queueVars, subVars, issued, life, monVars>>
  BY DEF Worker
<1> USE <1>0 DEF queueVars, subVars, monVars, scanVars
<1>a. /\ best_slot[w] \in Slots \cup {0}
      /\ best_seq[w] \in Nat
      /\ wk_at[w] \in Slots
      /\ enqueue_seq[wk_at[w]] \in Nat
  BY DEF TypeOK
<1>1. ASSUME BeginClaim(w) PROVE TypeOK'
  BY <1>1, ScanFromTopTyped DEF BeginClaim, WorkerTyped, TypeOK
<1>2. ASSUME ClaimLoadReady(w) PROVE TypeOK'
  <2>1. WorkerTyped'
    BY <1>2, <1>a, NextCandidateTyped DEF ClaimLoadReady, TypeOK, WorkerTyped, WkPC, Selected
  <2> QED BY <1>2, <2>1 DEF ClaimLoadReady, TypeOK, WorkerTyped
<1>3. ASSUME ClaimLoadClaimed(w) PROVE TypeOK'
  <2>1. WorkerTyped'
    BY <1>3, <1>a, NextCandidateTyped DEF ClaimLoadClaimed, TypeOK, WorkerTyped, WkPC, Selected
  <2> QED BY <1>3, <2>1 DEF ClaimLoadClaimed, TypeOK, WorkerTyped
<1>4. ASSUME ClaimLoadSeq(w) PROVE TypeOK'
  <2>1. WorkerTyped'
    BY <1>4, <1>a, NextCandidateTyped DEF ClaimLoadSeq
  <2> QED BY <1>4, <2>1 DEF ClaimLoadSeq, TypeOK, WorkerTyped
<1>5. ASSUME ClaimCas(w) PROVE TypeOK'
  <2>1. WorkerTyped'
    BY <1>5, ScanFromTopTyped DEF ClaimCas, NoLongerWaiting, TypeOK, WorkerTyped, WkPC, Selected
  <2>2. claimed' \in [Slots -> BOOLEAN]
    BY <1>5 DEF ClaimCas, TypeOK
  <2> QED BY <1>5, <2>1, <2>2 DEF ClaimCas, TypeOK, WorkerTyped
<1>6. ASSUME ClaimRecheck(w) PROVE TypeOK'
  <2>1. /\ wk_pc' \in [Workers -> WkPC]
        /\ \A v \in Workers : wk_pc'[v] \in Selected => best_slot[v] # 0
    BY <1>6 DEF ClaimRecheck, TypeOK, WkPC, Selected
  <2>2. started' \in SUBSET (Jobs \cup {None})
    <3>1. best_slot[w] \in Slots
      BY <1>6 DEF ClaimRecheck, TypeOK, Selected
    <3> QED BY <1>6, <3>1 DEF ClaimRecheck, TypeOK
  <2> QED BY <1>6, <2>1, <2>2 DEF ClaimRecheck, TypeOK
<1>7. ASSUME ClaimUndo(w) PROVE TypeOK'
  <2>1. claimed' \in [Slots -> BOOLEAN]
    BY <1>7 DEF ClaimUndo, TypeOK
  <2> QED BY <1>7, <2>1, ScanFromTopTyped DEF ClaimUndo, TypeOK, WorkerTyped
<1>8. ASSUME ClaimStorePid(w) PROVE TypeOK'
  BY <1>8 DEF ClaimStorePid, TypeOK, WkPC, Selected
<1>9. ASSUME WorkerResetReady(w) PROVE TypeOK'
  BY <1>9 DEF WorkerResetReady, ResetReady, TypeOK, WkPC, Selected
<1>10. ASSUME WorkerResetSeqPid(w) PROVE TypeOK'
  BY <1>10 DEF WorkerResetSeqPid, ResetSeqPid, TypeOK, WkPC, Selected
<1>11. ASSUME WorkerResetClaimed(w) PROVE TypeOK'
  BY <1>11, SlotFacts DEF WorkerResetClaimed, ResetClaimed, TypeOK, WkPC, Selected
<1> QED BY <1>1, <1>2, <1>3, <1>4, <1>5, <1>6, <1>7, <1>8, <1>9, <1>10, <1>11
        DEF Worker

(* Every step of the worker monitor (reap, reset) keeps the types. *)
LEMMA MonitorTypeOK ==
  ASSUME TypeOK, Monitor
  PROVE  TypeOK'
<1> USE DEF slotVars
<1>0. UNCHANGED <<queueVars, subVars, issued, scanVars, started, waiting>>
  BY DEF Monitor
<1> USE <1>0 DEF queueVars, subVars, scanVars
<1>1. ASSUME NEW w \in Workers, Reap(w) PROVE TypeOK'
  BY <1>1, ThreadsAssumption DEF Reap, TypeOK, MonPC
<1>2. ASSUME NextReaped
      PROVE  /\ life' \in [Workers -> {"unborn", "alive", "dead", "reaped"}]
             /\ mon_pc' \in MonPC
             /\ mon_pid' \in Workers \cup {None}
             /\ mon_at' \in Slots
             /\ mon_pc # "idle" /\ mon_pc' # "idle" => mon_pid' # None
  <2>1. life' \in [Workers -> {"unborn", "alive", "dead", "reaped"}]
    BY <1>2 DEF NextReaped, TypeOK
  <2> QED BY <1>2, <2>1, SlotFacts DEF NextReaped, TypeOK, MonPC
<1>3. ASSUME ReapCheck PROVE TypeOK'
  BY <1>2, <1>3 DEF ReapCheck, TypeOK, WkPC, Selected, MonPC
<1>4. ASSUME ReapResetReady PROVE TypeOK'
  BY <1>4 DEF ReapResetReady, ResetReady, TypeOK, MonPC
<1>5. ASSUME ReapResetSeqPid PROVE TypeOK'
  BY <1>5 DEF ReapResetSeqPid, ResetSeqPid, TypeOK, MonPC
<1>6. ASSUME ReapResetClaimed PROVE TypeOK'
  BY <1>2, <1>6 DEF ReapResetClaimed, ResetClaimed, TypeOK
<1> QED BY <1>1, <1>3, <1>4, <1>5, <1>6 DEF Monitor

(* TypeOK is inductive: no step of any thread or process breaks it. *)
LEMMA TypeStep == TypeOK /\ [Next]_vars => TypeOK'
<1> SUFFICES ASSUME TypeOK, [Next]_vars PROVE TypeOK'
  OBVIOUS
<1>1. ASSUME NEW p \in Submitters, Submitter(p) PROVE TypeOK'
  BY <1>1, SubmitterTypeOK
<1>2. ASSUME NEW w \in Workers, Worker(w) PROVE TypeOK'
  BY <1>2, WorkerTypeOK
<1>3. ASSUME NEW w \in Workers, Die(w) PROVE TypeOK'
  BY <1>3 DEF Die, TypeOK, slotVars, queueVars, subVars, scanVars, monVars
<1>4. CASE Monitor
  BY <1>4, MonitorTypeOK
<1>5. CASE UNCHANGED vars
  BY <1>5 DEF vars, TypeOK, slotVars, queueVars, subVars, scanVars, monVars
<1> QED BY <1>1, <1>2, <1>3, <1>4, <1>5 DEF Next

(* Type correctness of job_queue and of the threads that use it. *)
THEOREM TypeCorrect == Spec => []TypeOK
  BY InitTypeOK, TypeStep, PTL DEF Spec

-----------------------------------------------------------------------------
(* Ownership.  SlotOwnership is not inductive: a compare-and-swap excludes *)
(* the other owners only because every owner keeps `claimed' set, and the  *)
(* monitor takes over a slot only because the pid in it names its owner.   *)

OwnersHoldClaim ==
    \A s \in Slots :
      /\ \A p \in Submitters : SubmitterOwns(p, s) => claimed[s]
      /\ \A w \in Workers : WorkerOwns(w, s) => claimed[s]
      /\ MonitorOwns(s) => claimed[s]

PidNamesOwner ==
    \A s \in Slots : worker_pid[s] # None =>
      \/ /\ WorkerOwns(worker_pid[s], s)
         /\ wk_pc[worker_pid[s]] \in {"work", "reset_seq"}
      \/ /\ MonitorOwns(s)
         /\ mon_pid = worker_pid[s]
         /\ mon_pc \in {"reset_ready", "reset_seq"}

OwnershipInv == TypeOK /\ OwnersHoldClaim /\ PidNamesOwner /\ SlotOwnership


(* A step that changes neither the owners nor the fields that name them    *)
(* keeps the invariant.                                                    *)
LEMMA SameOwners ==
  ASSUME OwnershipInv, UNCHANGED <<claimed, worker_pid, mon_pc, mon_pid>>,
         \A w \in Workers : wk_pc[w] \in {"work", "reset_seq"} => wk_pc'[w] = wk_pc[w],
         \A s \in Slots :
           /\ \A p \in Submitters : SubmitterOwns(p, s)' <=> SubmitterOwns(p, s)
           /\ \A w \in Workers : WorkerOwns(w, s)' <=> WorkerOwns(w, s)
           /\ MonitorOwns(s)' <=> MonitorOwns(s)
  PROVE  (OwnersHoldClaim /\ PidNamesOwner /\ SlotOwnership)'
<1>1. OwnersHoldClaim'
  BY DEF OwnershipInv, OwnersHoldClaim
<1>2. PidNamesOwner'
  BY DEF OwnershipInv, PidNamesOwner, TypeOK
<1>3. SlotOwnership'
  BY DEF OwnershipInv, SlotOwnership
<1> QED BY <1>1, <1>2, <1>3

(* A worker that gives its claim up after its pid is gone keeps it, too. *)
LEMMA ReleaseByWorker ==
  ASSUME OwnershipInv, NEW w \in Workers,
         WorkerOwns(w, best_slot[w]), best_slot[w] \in Slots,
         wk_pc[w] \notin {"work", "reset_seq"},
         \A v \in Workers, s \in Slots :
           WorkerOwns(v, s)' <=> (v # w /\ WorkerOwns(v, s)),
         \A v \in Workers \ {w} : wk_pc'[v] = wk_pc[v],
         claimed' = [claimed EXCEPT ![best_slot[w]] = FALSE],
         UNCHANGED <<worker_pid, sub_pc, sub_at, mon_pc, mon_pid, mon_at>>
  PROVE  (OwnersHoldClaim /\ PidNamesOwner /\ SlotOwnership)'
<1> USE DEF OwnershipInv, SubmitterOwns, MonitorOwns, TypeOK
<1>1. OwnersHoldClaim'
  BY DEF OwnersHoldClaim, SlotOwnership
<1>2. PidNamesOwner'
  BY DEF PidNamesOwner
<1>3. SlotOwnership'
  BY DEF SlotOwnership
<1> QED BY <1>1, <1>2, <1>3

(* A worker that sets a claim nobody holds becomes the only owner. *)
LEMMA ClaimByWorker ==
  ASSUME OwnershipInv, NEW w \in Workers, NEW b \in Slots, ~claimed[b],
         \A v \in Workers, s \in Slots :
           WorkerOwns(v, s)' <=> (WorkerOwns(v, s) \/ (v = w /\ s = b)),
         \A v \in Workers \ {w} : wk_pc'[v] = wk_pc[v],
         wk_pc[w] = "cas",
         claimed' = [claimed EXCEPT ![b] = TRUE],
         UNCHANGED <<worker_pid, sub_pc, sub_at, mon_pc, mon_pid, mon_at>>
  PROVE  (OwnersHoldClaim /\ PidNamesOwner /\ SlotOwnership)'
<1> USE DEF OwnershipInv, SubmitterOwns, MonitorOwns, TypeOK
<1>1. OwnersHoldClaim'
  BY DEF OwnersHoldClaim
<1>2. PidNamesOwner'
  BY DEF PidNamesOwner
<1>3. \A s \in Slots, v \in Workers : WorkerOwns(v, s) => v # w
  BY DEF WorkerOwns
<1>4. SlotOwnership'
  BY <1>3 DEF SlotOwnership, OwnersHoldClaim
<1> QED BY <1>1, <1>2, <1>4

(* A submitting thread owns a slot exactly from its exchange on `claimed' to
   the store that gives it up, so its steps keep the invariant. *)
LEMMA SubmitterOwnership ==
  ASSUME OwnershipInv, NEW p \in Submitters, Submitter(p)
  PROVE  (OwnersHoldClaim /\ PidNamesOwner /\ SlotOwnership)'
<1> USE DEF OwnershipInv, TypeOK, slotVars, SubGoto, OwnersHoldClaim, PidNamesOwner,
        SlotOwnership, SubmitterOwns, WorkerOwns, MonitorOwns
<1>0. UNCHANGED <<wk_pc, scanVars, life, monVars, started>>
  BY DEF Submitter
<1> USE <1>0 DEF scanVars, monVars
<1>1. ASSUME BeginSubmit(p) PROVE (OwnersHoldClaim /\ PidNamesOwner /\ SlotOwnership)'
  BY <1>1 DEF BeginSubmit
<1>2. ASSUME SubmitLoadReady(p) PROVE (OwnersHoldClaim /\ PidNamesOwner /\ SlotOwnership)'
  <2>1. sub_pc' = [sub_pc EXCEPT ![p] = sub_pc'[p]] /\ sub_pc'[p] \in {"idle", "load_ready", "cas"}
    BY <1>2 DEF SubmitLoadReady, NextFreeCandidate, SubmitReturns
  <2>2. \A q \in Submitters \ {p} : sub_at'[q] = sub_at[q]
    BY <1>2 DEF SubmitLoadReady, NextFreeCandidate, SubmitReturns
  <2>3. \A q \in Submitters, s \in Slots : SubmitterOwns(q, s)' <=> SubmitterOwns(q, s)
    BY <1>2, <2>1, <2>2 DEF SubmitLoadReady
  <2>4. UNCHANGED <<claimed, worker_pid>>
    BY <1>2 DEF SubmitLoadReady
  <2> QED BY <2>3, <2>4, SameOwners
<1>3. ASSUME SubmitCas(p) PROVE (OwnersHoldClaim /\ PidNamesOwner /\ SlotOwnership)'
  <2>1. CASE ~claimed[sub_at[p]]
    <3>1. \A q \in Submitters, s \in Slots :
            SubmitterOwns(q, s)' <=> (SubmitterOwns(q, s) \/ (q = p /\ s = sub_at[p]))
      BY <1>3, <2>1 DEF SubmitCas
    <3>2. /\ claimed' = [claimed EXCEPT ![sub_at[p]] = TRUE]
          /\ UNCHANGED worker_pid
          /\ sub_pc[p] = "cas"
      BY <1>3, <2>1 DEF SubmitCas
    <3>3. OwnersHoldClaim' /\ PidNamesOwner'
      BY <3>1, <3>2
    <3>4. SlotOwnership'
      BY <2>1, <3>1, <3>2
    <3> QED BY <3>3, <3>4
  <2>2. CASE claimed[sub_at[p]]
    <3>1. /\ sub_pc' = [sub_pc EXCEPT ![p] = sub_pc'[p]]
          /\ sub_pc'[p] \in {"idle", "load_ready"}
          /\ \A q \in Submitters \ {p} : sub_at'[q] = sub_at[q]
      BY <1>3, <2>2 DEF SubmitCas, NextFreeCandidate, SubmitReturns
    <3>2. \A q \in Submitters, s \in Slots : SubmitterOwns(q, s)' <=> SubmitterOwns(q, s)
      BY <1>3, <3>1 DEF SubmitCas
    <3>3. UNCHANGED <<claimed, worker_pid>>
      BY <1>3, <2>2 DEF SubmitCas
    <3> QED BY <3>2, <3>3, SameOwners
  <2> QED BY <2>1, <2>2
<1>4. ASSUME Populate(p) PROVE (OwnersHoldClaim /\ PidNamesOwner /\ SlotOwnership)'
  BY <1>4 DEF Populate
<1>5. ASSUME TakeTicket(p) PROVE (OwnersHoldClaim /\ PidNamesOwner /\ SlotOwnership)'
  BY <1>5 DEF TakeTicket
<1>6. ASSUME PublishReady(p) PROVE (OwnersHoldClaim /\ PidNamesOwner /\ SlotOwnership)'
  BY <1>6 DEF PublishReady
<1>7. ASSUME PublishUnclaimed(p) PROVE (OwnersHoldClaim /\ PidNamesOwner /\ SlotOwnership)'
  BY <1>7 DEF PublishUnclaimed, SubmitReturns
<1> QED BY <1>1, <1>2, <1>3, <1>4, <1>5, <1>6, <1>7 DEF Submitter

(* A scanning worker owns nothing, whatever slot comes next. *)
LEMMA ScanOwnsNothing ==
  ASSUME OwnershipInv, NEW w \in Workers, NEW b \in Slots \cup {0}, NEW t \in Nat,
         NextCandidate(w, b, t), wk_pc[w] \notin Selected \ {"cas"}
  PROVE  \A v \in Workers, s \in Slots : WorkerOwns(v, s)' <=> WorkerOwns(v, s)
<1>1. /\ wk_pc' = [wk_pc EXCEPT ![w] = wk_pc'[w]]
      /\ wk_pc'[w] \in {"idle", "load_ready", "cas"}
  BY DEF NextCandidate, OwnershipInv, TypeOK
<1>2. \A v \in Workers \ {w} : best_slot'[v] = best_slot[v]
  BY DEF NextCandidate, SetScan, OwnershipInv, TypeOK
<1> QED BY <1>1, <1>2 DEF WorkerOwns, Selected, OwnershipInv, TypeOK

(* So none of the three loads of claim_ready_job_slot changes who owns what. *)
LEMMA ScanKeepsOwners ==
  ASSUME OwnershipInv, NEW w \in Workers,
         ClaimLoadReady(w) \/ ClaimLoadClaimed(w) \/ ClaimLoadSeq(w)
  PROVE  \A v \in Workers, s \in Slots : WorkerOwns(v, s)' <=> WorkerOwns(v, s)
<1>1. /\ best_slot[w] \in Slots \cup {0} /\ best_seq[w] \in Nat
      /\ wk_at[w] \in Slots /\ enqueue_seq[wk_at[w]] \in Nat
  BY DEF OwnershipInv, TypeOK
<1>2. wk_pc[w] \notin Selected \ {"cas"}
  BY DEF ClaimLoadReady, ClaimLoadClaimed, ClaimLoadSeq, Selected
<1>3. CASE \E b \in Slots \cup {0}, t \in Nat : NextCandidate(w, b, t)
  BY <1>2, <1>3, ScanOwnsNothing
<1>4. CASE /\ best_slot' = best_slot
           /\ \E to \in {"load_claimed", "load_seq"} : wk_pc' = [wk_pc EXCEPT ![w] = to]
  BY <1>2, <1>4 DEF WorkerOwns, Selected, OwnershipInv, TypeOK
<1> QED BY <1>1, <1>3, <1>4
        DEF ClaimLoadReady, ClaimLoadClaimed, ClaimLoadSeq, WkGoto, scanVars

(* A worker owns a slot exactly from its exchange on `claimed' to the last
   store of its reset, so its steps keep the invariant. *)
LEMMA WorkerOwnership ==
  ASSUME OwnershipInv, NEW w \in Workers, Worker(w)
  PROVE  (OwnersHoldClaim /\ PidNamesOwner /\ SlotOwnership)'
<1>s. ClaimLoadReady(w) \/ ClaimLoadClaimed(w) \/ ClaimLoadSeq(w)
        => \A v \in Workers, s \in Slots : WorkerOwns(v, s)' <=> WorkerOwns(v, s)
  BY ScanKeepsOwners
<1> USE ThreadsAssumption DEF OwnershipInv, TypeOK, slotVars, OwnersHoldClaim, PidNamesOwner, Selected,
        SlotOwnership, SubmitterOwns, WorkerOwns, MonitorOwns
<1>0. UNCHANGED <<queueVars, subVars, issued, life, monVars>>
  BY DEF Worker
<1> USE <1>0 DEF subVars, monVars, scanVars
<1>1. ASSUME BeginClaim(w) PROVE (OwnersHoldClaim /\ PidNamesOwner /\ SlotOwnership)'
  BY <1>1 DEF BeginClaim, ScanFromTop, SetScan
<1>2. ASSUME ClaimLoadReady(w) PROVE (OwnersHoldClaim /\ PidNamesOwner /\ SlotOwnership)'
  <2>1. \A v \in Workers, s \in Slots : WorkerOwns(v, s)' <=> WorkerOwns(v, s)
    BY <1>2, <1>s
  <2>2. UNCHANGED <<claimed, worker_pid>>
    BY <1>2 DEF ClaimLoadReady
  <2>3. \A v \in Workers : wk_pc[v] \in {"work", "reset_seq"} => wk_pc'[v] = wk_pc[v]
    BY <1>2 DEF ClaimLoadReady, NextCandidate, WkGoto
  <2> QED BY <2>1, <2>2, <2>3, SameOwners
<1>3. ASSUME ClaimLoadClaimed(w) PROVE (OwnersHoldClaim /\ PidNamesOwner /\ SlotOwnership)'
  <2>1. \A v \in Workers, s \in Slots : WorkerOwns(v, s)' <=> WorkerOwns(v, s)
    BY <1>3, <1>s
  <2>2. UNCHANGED <<claimed, worker_pid>>
    BY <1>3 DEF ClaimLoadClaimed
  <2>3. \A v \in Workers : wk_pc[v] \in {"work", "reset_seq"} => wk_pc'[v] = wk_pc[v]
    BY <1>3 DEF ClaimLoadClaimed, NextCandidate, WkGoto
  <2> QED BY <2>1, <2>2, <2>3, SameOwners
<1>4. ASSUME ClaimLoadSeq(w) PROVE (OwnersHoldClaim /\ PidNamesOwner /\ SlotOwnership)'
  <2>1. \A v \in Workers, s \in Slots : WorkerOwns(v, s)' <=> WorkerOwns(v, s)
    BY <1>4, <1>s
  <2>2. UNCHANGED <<claimed, worker_pid>>
    BY <1>4 DEF ClaimLoadSeq
  <2>3. \A v \in Workers : wk_pc[v] \in {"work", "reset_seq"} => wk_pc'[v] = wk_pc[v]
    BY <1>4 DEF ClaimLoadSeq, NextCandidate
  <2> QED BY <2>1, <2>2, <2>3, SameOwners
<1>5. ASSUME ClaimCas(w) PROVE (OwnersHoldClaim /\ PidNamesOwner /\ SlotOwnership)'
  <2>1. CASE ~claimed[best_slot[w]]
    <3>1. best_slot[w] \in Slots
      BY <1>5 DEF ClaimCas
    <3>2. \A v \in Workers, s \in Slots :
            WorkerOwns(v, s)' <=> (WorkerOwns(v, s) \/ (v = w /\ s = best_slot[w]))
      BY <1>5, <2>1 DEF ClaimCas, WkGoto
    <3>3. /\ claimed' = [claimed EXCEPT ![best_slot[w]] = TRUE]
          /\ UNCHANGED worker_pid
          /\ \A v \in Workers \ {w} : wk_pc'[v] = wk_pc[v]
          /\ wk_pc[w] = "cas"
      BY <1>5, <2>1 DEF ClaimCas, WkGoto
    <3> QED BY <2>1, <3>1, <3>2, <3>3, ClaimByWorker
  <2>2. CASE claimed[best_slot[w]]
    <3>1. \A v \in Workers, s \in Slots : WorkerOwns(v, s)' <=> WorkerOwns(v, s)
      BY <1>5, <2>2 DEF ClaimCas, ScanFromTop, SetScan
    <3>2. UNCHANGED <<claimed, worker_pid>>
      BY <1>5, <2>2 DEF ClaimCas
    <3>3. \A v \in Workers : wk_pc[v] \in {"work", "reset_seq"} => wk_pc'[v] = wk_pc[v]
      BY <1>5, <2>2 DEF ClaimCas, ScanFromTop
    <3> QED BY <3>1, <3>2, <3>3, SameOwners
  <2> QED BY <2>1, <2>2
<1>6. ASSUME ClaimRecheck(w) PROVE (OwnersHoldClaim /\ PidNamesOwner /\ SlotOwnership)'
  <2>1. \A v \in Workers, s \in Slots : WorkerOwns(v, s)' <=> WorkerOwns(v, s)
    BY <1>6 DEF ClaimRecheck, WkGoto
  <2>2. UNCHANGED <<claimed, worker_pid>>
    BY <1>6 DEF ClaimRecheck
  <2>3. \A v \in Workers : wk_pc[v] \in {"work", "reset_seq"} => wk_pc'[v] = wk_pc[v]
    BY <1>6 DEF ClaimRecheck, WkGoto
  <2> QED BY <2>1, <2>2, <2>3, SameOwners
<1>7. ASSUME ClaimUndo(w) PROVE (OwnersHoldClaim /\ PidNamesOwner /\ SlotOwnership)'
  <2>1. WorkerOwns(w, best_slot[w]) /\ best_slot[w] \in Slots
    BY <1>7 DEF ClaimUndo
  <2>2. \A v \in Workers, s \in Slots :
          WorkerOwns(v, s)' <=> (v # w /\ WorkerOwns(v, s))
    BY <1>7 DEF ClaimUndo, ScanFromTop, SetScan
  <2>3. claimed' = [claimed EXCEPT ![best_slot[w]] = FALSE] /\ UNCHANGED worker_pid
    BY <1>7 DEF ClaimUndo
  <2>4. wk_pc[w] \notin {"work", "reset_seq"} /\ \A v \in Workers \ {w} : wk_pc'[v] = wk_pc[v]
    BY <1>7 DEF ClaimUndo, ScanFromTop
  <2> QED BY <2>1, <2>2, <2>3, <2>4, ReleaseByWorker
<1>8. ASSUME ClaimStorePid(w) PROVE (OwnersHoldClaim /\ PidNamesOwner /\ SlotOwnership)'
  BY <1>8 DEF ClaimStorePid, WkGoto
<1>9. ASSUME WorkerResetReady(w) PROVE (OwnersHoldClaim /\ PidNamesOwner /\ SlotOwnership)'
  BY <1>9 DEF WorkerResetReady, WkGoto, ResetReady
<1>10. ASSUME WorkerResetSeqPid(w) PROVE (OwnersHoldClaim /\ PidNamesOwner /\ SlotOwnership)'
  BY <1>10 DEF WorkerResetSeqPid, WkGoto, ResetSeqPid
<1>11. ASSUME WorkerResetClaimed(w) PROVE (OwnersHoldClaim /\ PidNamesOwner /\ SlotOwnership)'
  <2>1. WorkerOwns(w, best_slot[w]) /\ best_slot[w] \in Slots
    BY <1>11 DEF WorkerResetClaimed, WkGoto
  <2>2. \A v \in Workers, s \in Slots :
          WorkerOwns(v, s)' <=> (v # w /\ WorkerOwns(v, s))
    BY <1>11 DEF WorkerResetClaimed, WkGoto, SetScan
  <2>3. claimed' = [claimed EXCEPT ![best_slot[w]] = FALSE] /\ UNCHANGED worker_pid
    BY <1>11 DEF WorkerResetClaimed, ResetClaimed
  <2>4. wk_pc[w] \notin {"work", "reset_seq"} /\ \A v \in Workers \ {w} : wk_pc'[v] = wk_pc[v]
    BY <1>11 DEF WorkerResetClaimed, WkGoto
  <2> QED BY <2>1, <2>2, <2>3, <2>4, ReleaseByWorker
<1> QED BY <1>1, <1>2, <1>3, <1>4, <1>5, <1>6, <1>7, <1>8, <1>9, <1>10, <1>11
        DEF Worker

(* The monitor resets a slot only for a dead worker that owned it, so its
   steps keep the invariant. *)
LEMMA MonitorOwnership ==
  ASSUME OwnershipInv, Monitor
  PROVE  (OwnersHoldClaim /\ PidNamesOwner /\ SlotOwnership)'
<1> USE ThreadsAssumption DEF OwnershipInv, TypeOK, slotVars, OwnersHoldClaim,
        PidNamesOwner, Selected, SlotOwnership, SubmitterOwns, WorkerOwns, MonitorOwns
<1>0. UNCHANGED <<queueVars, subVars, issued, scanVars, started, waiting>>
  BY DEF Monitor
<1> USE <1>0 DEF subVars, scanVars
<1>1. ASSUME NEW w \in Workers, Reap(w)
      PROVE (OwnersHoldClaim /\ PidNamesOwner /\ SlotOwnership)'
  BY <1>1 DEF Reap
<1>2. ASSUME NextReaped PROVE mon_pc' \in {"idle", "check"}
  BY <1>2 DEF NextReaped
<1>3. ASSUME ReapCheck
      PROVE (OwnersHoldClaim /\ PidNamesOwner /\ SlotOwnership)'
  <2>1. CASE OfDeadWorker
    <3>1. WorkerOwns(mon_pid, mon_at) /\ mon_pid \in Workers
      BY <1>3, <2>1 DEF ReapCheck, OfDeadWorker
    <3>2. \A v \in Workers, s \in Slots :
            WorkerOwns(v, s)' <=> (v # mon_pid /\ WorkerOwns(v, s))
      BY <1>3, <2>1, <3>1 DEF ReapCheck
    <3>3. \A s \in Slots : MonitorOwns(s)' <=> s = mon_at
      BY <1>3, <2>1 DEF ReapCheck
    <3>4. /\ UNCHANGED <<claimed, worker_pid, mon_pid>>
          /\ mon_pc = "check" /\ mon_pc' = "reset_ready"
          /\ \A v \in Workers \ {mon_pid} : wk_pc'[v] = wk_pc[v]
      BY <1>3, <2>1 DEF ReapCheck
    <3>5. SlotOwnership'
      BY <3>1, <3>2, <3>3
    <3>6. OwnersHoldClaim'
      BY <3>1, <3>2, <3>3, <3>4
    <3>7. PidNamesOwner'
      BY <3>1, <3>2, <3>3, <3>4
    <3> QED BY <3>5, <3>6, <3>7
  <2>2. CASE ~OfDeadWorker
    BY <1>2, <1>3, <2>2 DEF ReapCheck
  <2> QED BY <2>1, <2>2
<1>4. ASSUME ReapResetReady
      PROVE (OwnersHoldClaim /\ PidNamesOwner /\ SlotOwnership)'
  BY <1>4 DEF ReapResetReady, ResetReady
<1>5. ASSUME ReapResetSeqPid
      PROVE (OwnersHoldClaim /\ PidNamesOwner /\ SlotOwnership)'
  BY <1>5 DEF ReapResetSeqPid, ResetSeqPid
<1>6. ASSUME ReapResetClaimed
      PROVE (OwnersHoldClaim /\ PidNamesOwner /\ SlotOwnership)'
  BY <1>2, <1>6 DEF ReapResetClaimed, ResetClaimed
<1> QED BY <1>1, <1>3, <1>4, <1>5, <1>6 DEF Monitor

(* OwnershipInv is inductive. *)
LEMMA OwnershipStep == OwnershipInv /\ [Next]_vars => OwnershipInv'
<1> SUFFICES ASSUME OwnershipInv, [Next]_vars PROVE OwnershipInv'
  OBVIOUS
<1>1. TypeOK'
  BY TypeStep DEF OwnershipInv
<1>2. ASSUME NEW p \in Submitters, Submitter(p) PROVE OwnershipInv'
  BY <1>1, <1>2, SubmitterOwnership DEF OwnershipInv
<1>3. ASSUME NEW w \in Workers, Worker(w) PROVE OwnershipInv'
  BY <1>1, <1>3, WorkerOwnership DEF OwnershipInv
<1>4. ASSUME NEW w \in Workers, Die(w) PROVE OwnershipInv'
  BY <1>1, <1>4 DEF Die, slotVars, subVars, scanVars, monVars, OwnershipInv,
     OwnersHoldClaim, PidNamesOwner, SlotOwnership, SubmitterOwns, WorkerOwns, MonitorOwns
<1>5. CASE Monitor
  BY <1>1, <1>5, MonitorOwnership DEF OwnershipInv
<1>6. CASE UNCHANGED vars
  BY <1>1, <1>6 DEF vars, slotVars, subVars, scanVars, monVars, OwnershipInv,
     OwnersHoldClaim, PidNamesOwner, SlotOwnership, SubmitterOwns, WorkerOwns, MonitorOwns
<1> QED BY <1>2, <1>3, <1>4, <1>5, <1>6 DEF Next

(* No slot has an owner when the server starts. *)
LEMMA InitOwnership == Init => OwnershipInv
  BY InitTypeOK DEF Init, OwnershipInv, OwnersHoldClaim, PidNamesOwner, SlotOwnership,
     SubmitterOwns, WorkerOwns, MonitorOwns, Selected

(* At most one party owns a job slot, however many handler threads and     *)
(* workers there are and wherever workers die: the compare-and-swap on     *)
(* `claimed' is a sound lock on the slot's fields.                         *)
THEOREM OwnershipTheorem == Spec => []SlotOwnership
<1>1. OwnershipInv => SlotOwnership
  BY DEF OwnershipInv
<1> QED BY <1>1, InitOwnership, OwnershipStep, PTL DEF Spec

-----------------------------------------------------------------------------
(* The job a worker works on.  Only the owner of a slot writes its `ready' *)
(* and its ticket, so what ClaimRecheck found stays true.                  *)

(* The points between the re-check of a claim and the worker's own reset. *)
Committed(w) == wk_pc[w] \in {"store_pid", "work"}

(* A step that commits no worker, and leaves alone `ready' and the ticket  *)
(* of the slots that committed workers hold, keeps WorksOnSelectedJob.     *)
LEMMA SelectionKept ==
  ASSUME WorksOnSelectedJob,
         \A w \in Workers : Committed(w)' =>
           /\ Committed(w)
           /\ best_slot'[w] = best_slot[w] /\ best_seq'[w] = best_seq[w]
           /\ ready'[best_slot[w]] = ready[best_slot[w]]
           /\ enqueue_seq'[best_slot[w]] = enqueue_seq[best_slot[w]]
  PROVE  WorksOnSelectedJob'
  BY DEF WorksOnSelectedJob, Committed

(* A committed worker owns its slot, and nobody else does. *)
LEMMA CommittedOwnsAlone ==
  ASSUME OwnershipInv, NEW w \in Workers, Committed(w)
  PROVE  /\ best_slot[w] \in Slots
         /\ \A p \in Submitters : ~SubmitterOwns(p, best_slot[w])
         /\ \A v \in Workers : WorkerOwns(v, best_slot[w]) => v = w
         /\ ~MonitorOwns(best_slot[w])
<1>1. best_slot[w] \in Slots /\ WorkerOwns(w, best_slot[w])
  BY DEF OwnershipInv, TypeOK, Committed, WorkerOwns, Selected
<1> QED BY <1>1 DEF OwnershipInv, SlotOwnership

(* A submitting thread writes `ready' and tickets only in the slot it      *)
(* owns, which is no committed worker's.                                   *)
LEMMA SubmitterKeepsSelection ==
  ASSUME OwnershipInv, WorksOnSelectedJob, NEW p \in Submitters, Submitter(p)
  PROVE  WorksOnSelectedJob'
<1>1. UNCHANGED <<wk_pc, best_slot, best_seq>>
  BY DEF Submitter, scanVars
<1>2. SUFFICES ASSUME NEW w \in Workers, Committed(w)
               PROVE  /\ ready'[best_slot[w]] = ready[best_slot[w]]
                      /\ enqueue_seq'[best_slot[w]] = enqueue_seq[best_slot[w]]
  BY <1>1, SelectionKept DEF Committed
<1>3. best_slot[w] \in Slots /\ ~SubmitterOwns(p, best_slot[w])
  BY <1>2, CommittedOwnsAlone
<1>4. CASE TakeTicket(p)
  BY <1>3, <1>4 DEF TakeTicket, SubGoto, SubmitterOwns, OwnershipInv, TypeOK
<1>5. CASE PublishReady(p)
  BY <1>3, <1>5 DEF PublishReady, SubGoto, SubmitterOwns, OwnershipInv, TypeOK
<1>6. CASE UNCHANGED <<ready, enqueue_seq>>
  BY <1>6
<1> QED BY <1>4, <1>5, <1>6 DEF Submitter, BeginSubmit, SubmitLoadReady, SubmitCas, Populate,
           PublishUnclaimed, slotVars

(* A worker writes `ready' and the ticket only when it resets the slot it  *)
(* owns; it commits only after it has found the job it selected.           *)
LEMMA WorkerKeepsSelection ==
  ASSUME OwnershipInv, WorksOnSelectedJob, NEW w \in Workers, Worker(w)
  PROVE  WorksOnSelectedJob'
<1> USE DEF OwnershipInv, TypeOK
<1>1. CASE ClaimRecheck(w)
  <2>1. UNCHANGED <<ready, enqueue_seq, best_slot, best_seq>>
    BY <1>1 DEF ClaimRecheck, slotVars, scanVars
  <2>2. \A v \in Workers \ {w} : wk_pc'[v] = wk_pc[v]
    BY <1>1 DEF ClaimRecheck, WkGoto
  <2>3. wk_pc'[w] \in {"store_pid", "work"} => StillSelected(w)
    BY <1>1 DEF ClaimRecheck, WkGoto
  <2> QED BY <2>1, <2>2, <2>3 DEF WorksOnSelectedJob, StillSelected
<1>2. CASE ClaimStorePid(w)
  BY <1>2 DEF ClaimStorePid, WkGoto, scanVars, WorksOnSelectedJob
<1>3. ASSUME UNCHANGED <<ready, enqueue_seq>>, ~Committed(w)',
             \A v \in Workers \ {w} : /\ wk_pc'[v] = wk_pc[v]
                                      /\ best_slot'[v] = best_slot[v]
                                      /\ best_seq'[v] = best_seq[v]
      PROVE  WorksOnSelectedJob'
  BY <1>3, SelectionKept DEF Committed
<1>4. CASE BeginClaim(w)
  BY <1>3, <1>4 DEF BeginClaim, ScanFromTop, SetScan, slotVars, Committed
<1>5. ASSUME NEW b, NEW t, NextCandidate(w, b, t), UNCHANGED slotVars
      PROVE  WorksOnSelectedJob'
  BY <1>3, <1>5 DEF NextCandidate, SetScan, slotVars, Committed
<1>6. CASE ClaimLoadReady(w)
  <2>1. CASE ready[wk_at[w]]
    BY <1>3, <1>6, <2>1 DEF ClaimLoadReady, WkGoto, scanVars, slotVars, Committed
  <2>2. CASE ~ready[wk_at[w]]
    BY <1>5, <1>6, <2>2 DEF ClaimLoadReady
  <2> QED BY <2>1, <2>2
<1>7. CASE ClaimLoadClaimed(w)
  <2>1. CASE ~claimed[wk_at[w]]
    BY <1>3, <1>7, <2>1 DEF ClaimLoadClaimed, WkGoto, scanVars, slotVars, Committed
  <2>2. CASE claimed[wk_at[w]]
    BY <1>5, <1>7, <2>2 DEF ClaimLoadClaimed
  <2> QED BY <2>1, <2>2
<1>8. CASE ClaimLoadSeq(w)
  BY <1>5, <1>8 DEF ClaimLoadSeq
<1>9. CASE ClaimCas(w)
  <2>1. CASE ~claimed[best_slot[w]]
    BY <1>3, <1>9, <2>1 DEF ClaimCas, WkGoto, scanVars, Committed
  <2>2. CASE claimed[best_slot[w]]
    BY <1>3, <1>9, <2>2 DEF ClaimCas, ScanFromTop, SetScan, Committed
  <2> QED BY <2>1, <2>2
<1>10. CASE ClaimUndo(w)
  BY <1>3, <1>10 DEF ClaimUndo, ScanFromTop, SetScan, Committed
<1>11. CASE WorkerResetClaimed(w)
  BY <1>3, <1>11 DEF WorkerResetClaimed, ResetClaimed, WkGoto, SetScan, Committed
<1>12. CASE WorkerResetReady(w) \/ WorkerResetSeqPid(w)
  <2>1. UNCHANGED <<best_slot, best_seq>> /\ ~Committed(w)'
    BY <1>12 DEF WorkerResetReady, WorkerResetSeqPid, WkGoto, scanVars, Committed
  <2>2. \A v \in Workers \ {w} : wk_pc'[v] = wk_pc[v]
    BY <1>12 DEF WorkerResetReady, WorkerResetSeqPid, WkGoto
  <2>3. WorkerOwns(w, best_slot[w])
    BY <1>12 DEF WorkerResetReady, WorkerResetSeqPid, WkGoto, WorkerOwns, Selected
  <2>4. ASSUME NEW v \in Workers, Committed(v), v # w
        PROVE  /\ ready'[best_slot[v]] = ready[best_slot[v]]
               /\ enqueue_seq'[best_slot[v]] = enqueue_seq[best_slot[v]]
    <3>1. best_slot[v] \in Slots /\ best_slot[v] # best_slot[w]
      BY <2>3, <2>4, CommittedOwnsAlone
    <3> QED BY <1>12, <3>1 DEF WorkerResetReady, WorkerResetSeqPid, ResetReady, ResetSeqPid
  <2> QED BY <2>1, <2>2, <2>4, SelectionKept DEF Committed
<1> QED BY <1>1, <1>2, <1>4, <1>6, <1>7, <1>8, <1>9, <1>10, <1>11, <1>12 DEF Worker

(* The monitor writes `ready' and the ticket only in the slot it owns. *)
LEMMA MonitorKeepsSelection ==
  ASSUME OwnershipInv, WorksOnSelectedJob, Monitor
  PROVE  WorksOnSelectedJob'
<1> USE DEF OwnershipInv, TypeOK
<1>1. UNCHANGED <<best_slot, best_seq>>
  BY DEF Monitor, scanVars
<1>2. \A w \in Workers : Committed(w)' => Committed(w)
  BY DEF Monitor, Reap, ReapCheck, ReapResetReady, ReapResetSeqPid, ReapResetClaimed, Committed
<1>3. CASE UNCHANGED <<ready, enqueue_seq>>
  BY <1>1, <1>2, <1>3, SelectionKept
<1>4. CASE ReapResetReady \/ ReapResetSeqPid
  <2>1. MonitorOwns(mon_at)
    BY <1>4 DEF ReapResetReady, ReapResetSeqPid, MonitorOwns
  <2>2. ASSUME NEW w \in Workers, Committed(w)
        PROVE  /\ ready'[best_slot[w]] = ready[best_slot[w]]
               /\ enqueue_seq'[best_slot[w]] = enqueue_seq[best_slot[w]]
    <3>1. best_slot[w] \in Slots /\ best_slot[w] # mon_at
      BY <2>1, <2>2, CommittedOwnsAlone
    <3> QED BY <1>4, <3>1 DEF ReapResetReady, ReapResetSeqPid, ResetReady, ResetSeqPid
  <2> QED BY <1>1, <1>2, <2>2, SelectionKept
<1> QED BY <1>3, <1>4 DEF Monitor, Reap, ReapCheck, ReapResetClaimed, ResetClaimed, slotVars

(* A worker that has claimed a slot works on the job it selected, under    *)
(* the ticket it compared, until it resets the slot itself: the re-check   *)
(* of claim_ready_job_slot after its exchange is enough.                   *)
THEOREM SelectionTheorem == Spec => []WorksOnSelectedJob
<1>1. Init => WorksOnSelectedJob
  BY DEF Init, WorksOnSelectedJob
<1>2. OwnershipInv /\ WorksOnSelectedJob /\ [Next]_vars => WorksOnSelectedJob'
  <2> SUFFICES ASSUME OwnershipInv, WorksOnSelectedJob, [Next]_vars
               PROVE  WorksOnSelectedJob'
    OBVIOUS
  <2>1. ASSUME NEW w \in Workers, Die(w) PROVE WorksOnSelectedJob'
    BY <2>1 DEF Die, slotVars, scanVars, WorksOnSelectedJob
  <2>2. CASE UNCHANGED vars
    BY <2>2 DEF vars, slotVars, scanVars, WorksOnSelectedJob
  <2> QED BY <2>1, <2>2, SubmitterKeepsSelection, WorkerKeepsSelection,
             MonitorKeepsSelection DEF Next
<1> QED BY <1>1, <1>2, InitOwnership, OwnershipStep, PTL DEF Spec

-----------------------------------------------------------------------------
(* The order of tickets.  TicketsPublishedInOrder rests on the mutex (at   *)
(* most one thread has a ticket that is not published) and on the counter  *)
(* (every ticket given out is lower than the next), and on ownership: no   *)
(* worker and no monitor clears the ticket of a slot a thread has reserved.*)

(* Who has drawn a ticket holds job_enqueue_mutex until it is published. *)
TicketUnderLock ==
    \A p \in Submitters :
      sub_pc[p] \in {"store_ready", "store_unclaimed"} => enqueue_lock = p

(* The ticket of a slot about to be published is above all others. *)
NewestTicket ==
    \A p \in Submitters : sub_pc[p] = "store_ready" =>
      /\ 0 < enqueue_seq[sub_at[p]]
      /\ \A s \in Slots \ {sub_at[p]} : enqueue_seq[s] < enqueue_seq[sub_at[p]]

TicketsGivenOut == \A s \in Slots : enqueue_seq[s] < next_seq

TicketInv == TicketsGivenOut /\ TicketUnderLock /\ NewestTicket

(* A submitting thread draws the next ticket under the mutex. *)
LEMMA SubmitterTickets ==
  ASSUME OwnershipInv, TicketInv, NEW p \in Submitters, Submitter(p)
  PROVE  TicketInv'
<1> USE ThreadsAssumption DEF OwnershipInv, TypeOK
<1>1. CASE TakeTicket(p)
  <2>1. /\ sub_pc' = [sub_pc EXCEPT ![p] = "store_ready"]
        /\ enqueue_lock = None /\ enqueue_lock' = p
        /\ next_seq' = next_seq + 1
        /\ enqueue_seq' = [enqueue_seq EXCEPT ![sub_at[p]] = next_seq]
        /\ UNCHANGED sub_at
    BY <1>1 DEF TakeTicket, SubGoto
  <2>2. \A q \in Submitters : sub_pc[q] \notin {"store_ready", "store_unclaimed"}
    BY <2>1 DEF TicketInv, TicketUnderLock
  <2>3. TicketsGivenOut'
    BY <2>1 DEF TicketInv, TicketsGivenOut
  <2>4. TicketUnderLock'
    BY <2>1, <2>2 DEF TicketUnderLock
  <2>5. NewestTicket'
    BY <2>1, <2>2 DEF TicketInv, TicketsGivenOut, NewestTicket
  <2> QED BY <2>3, <2>4, <2>5 DEF TicketInv
<1>2. ASSUME UNCHANGED <<enqueue_seq, next_seq>>,
             \A q \in Submitters : sub_pc'[q] = "store_ready" =>
               sub_pc[q] = "store_ready" /\ sub_at'[q] = sub_at[q],
             TicketUnderLock'
      PROVE  TicketInv'
  BY <1>2 DEF TicketInv, TicketsGivenOut, NewestTicket
<1>3. CASE PublishUnclaimed(p)
  <2>1. TicketUnderLock'
    BY <1>3 DEF PublishUnclaimed, SubmitReturns, TicketInv, TicketUnderLock
  <2> QED BY <1>2, <1>3, <2>1 DEF PublishUnclaimed, SubmitReturns
<1>4. CASE PublishReady(p)
  <2>1. TicketUnderLock'
    BY <1>4 DEF PublishReady, SubGoto, queueVars, TicketInv, TicketUnderLock
  <2> QED BY <1>2, <1>4, <2>1 DEF PublishReady, SubGoto, queueVars
<1>5. ASSUME UNCHANGED <<enqueue_seq, queueVars>>,
             \A q \in Submitters \ {p} : sub_pc'[q] = sub_pc[q] /\ sub_at'[q] = sub_at[q],
             sub_pc'[p] \notin {"store_ready", "store_unclaimed"}
      PROVE  TicketInv'
  <2>1. TicketUnderLock'
    BY <1>5 DEF queueVars, TicketInv, TicketUnderLock
  <2> QED BY <1>2, <1>5, <2>1 DEF queueVars
<1>6. CASE BeginSubmit(p)
  BY <1>5, <1>6 DEF BeginSubmit, SubGoto, slotVars
<1>7. CASE SubmitLoadReady(p)
  BY <1>5, <1>7 DEF SubmitLoadReady, SubGoto, NextFreeCandidate, SubmitReturns, slotVars
<1>8. CASE SubmitCas(p)
  BY <1>5, <1>8 DEF SubmitCas, SubGoto, NextFreeCandidate, SubmitReturns
<1>9. CASE Populate(p)
  BY <1>5, <1>9 DEF Populate, SubGoto
<1> QED BY <1>1, <1>3, <1>4, <1>6, <1>7, <1>8, <1>9 DEF Submitter

(* A reset of a slot that no thread has reserved keeps the order. *)
LEMMA ResetTickets ==
  ASSUME OwnershipInv, TicketInv, NEW s \in Slots,
         \A p \in Submitters : ~SubmitterOwns(p, s),
         enqueue_seq' = [enqueue_seq EXCEPT ![s] = 0],
         UNCHANGED <<next_seq, enqueue_lock, sub_pc, sub_at>>
  PROVE  TicketInv'
<1> USE DEF OwnershipInv, TypeOK, TicketInv
<1>1. TicketsGivenOut'
  BY DEF TicketsGivenOut
<1>2. TicketUnderLock'
  BY DEF TicketUnderLock
<1>3. NewestTicket'
  BY DEF NewestTicket, SubmitterOwns
<1> QED BY <1>1, <1>2, <1>3

(* A step that changes none of what TicketInv speaks of keeps it. *)
LEMMA SameTickets ==
  ASSUME TicketInv, UNCHANGED <<enqueue_seq, next_seq, enqueue_lock, sub_pc, sub_at>>
  PROVE  TicketInv'
  BY DEF TicketInv, TicketsGivenOut, TicketUnderLock, NewestTicket

(* A worker clears a ticket only in the slot it owns. *)
LEMMA WorkerTickets ==
  ASSUME OwnershipInv, TicketInv, NEW w \in Workers, Worker(w)
  PROVE  TicketInv'
<1>1. UNCHANGED <<next_seq, enqueue_lock, sub_pc, sub_at>>
  BY DEF Worker, queueVars, subVars
<1>2. CASE WorkerResetSeqPid(w)
  <2>1. best_slot[w] \in Slots /\ WorkerOwns(w, best_slot[w])
    BY <1>2 DEF WorkerResetSeqPid, WkGoto, WorkerOwns, Selected, OwnershipInv, TypeOK
  <2>2. \A p \in Submitters : ~SubmitterOwns(p, best_slot[w])
    BY <2>1 DEF OwnershipInv, SlotOwnership
  <2> QED BY <1>1, <1>2, <2>1, <2>2, ResetTickets DEF WorkerResetSeqPid, ResetSeqPid
<1>3. CASE UNCHANGED enqueue_seq
  BY <1>1, <1>3, SameTickets
<1> QED BY <1>2, <1>3 DEF Worker, BeginClaim, ClaimLoadReady, ClaimLoadClaimed, ClaimLoadSeq,
           ClaimCas, ClaimRecheck, ClaimUndo, ClaimStorePid, WorkerResetReady,
           WorkerResetClaimed, ResetReady, ResetClaimed, slotVars

(* The monitor clears a ticket only in the slot it owns. *)
LEMMA MonitorTickets ==
  ASSUME OwnershipInv, TicketInv, Monitor
  PROVE  TicketInv'
<1>1. UNCHANGED <<next_seq, enqueue_lock, sub_pc, sub_at>>
  BY DEF Monitor, queueVars, subVars
<1>2. CASE ReapResetSeqPid
  <2>1. mon_at \in Slots /\ MonitorOwns(mon_at)
    BY <1>2 DEF ReapResetSeqPid, MonitorOwns, OwnershipInv, TypeOK
  <2>2. \A p \in Submitters : ~SubmitterOwns(p, mon_at)
    BY <2>1 DEF OwnershipInv, SlotOwnership
  <2> QED BY <1>1, <1>2, <2>1, <2>2, ResetTickets DEF ReapResetSeqPid, ResetSeqPid
<1>3. CASE UNCHANGED enqueue_seq
  BY <1>1, <1>3, SameTickets
<1> QED BY <1>2, <1>3 DEF Monitor, Reap, ReapCheck, ReapResetReady, ReapResetClaimed,
           ResetReady, ResetClaimed, slotVars

(* A later ticket never becomes visible before an earlier one, however     *)
(* many handler threads publish: what the comment on next_job_enqueue_seq  *)
(* says of job_enqueue_mutex.                                              *)
THEOREM TicketTheorem == Spec => []TicketsPublishedInOrder
<1>1. Init => TicketInv
  BY DEF Init, TicketInv, TicketsGivenOut, TicketUnderLock, NewestTicket
<1>2. OwnershipInv /\ TicketInv /\ [Next]_vars => TicketInv'
  <2> SUFFICES ASSUME OwnershipInv, TicketInv, [Next]_vars PROVE TicketInv'
    OBVIOUS
  <2>1. ASSUME NEW w \in Workers, Die(w) PROVE TicketInv'
    BY <2>1, SameTickets DEF Die, slotVars, queueVars, subVars
  <2>2. CASE UNCHANGED vars
    BY <2>2, SameTickets DEF vars, slotVars, queueVars, subVars
  <2> QED BY <2>1, <2>2, SubmitterTickets, WorkerTickets, MonitorTickets DEF Next
<1>3. TicketInv => TicketsPublishedInOrder
  BY DEF TicketInv, NewestTicket, TicketsPublishedInOrder
<1> QED BY <1>1, <1>2, <1>3, InitOwnership, OwnershipStep, PTL DEF Spec

-----------------------------------------------------------------------------
(* The order in which workers take jobs. *)

(* NoOvertaking is not inductive: it speaks of a finished scan.  While the *)
(* scan runs, a waiting ticket is either no lower than the best one so far *)
(* or still to come; once a slot is selected the best ticket is a lower    *)
(* bound, and from the exchange on the slot's own ticket no longer waits.  *)

(* A slot at or after the worker's cursor still offers ticket t. *)
Ahead(w, t) ==
    \E s \in Slots : wk_at[w] <= s /\ Dispatchable(s) /\ enqueue_seq[s] = t

ScanPoints == {"load_ready", "load_claimed", "load_seq"}

ScanCovers(w) ==
    wk_pc[w] \in ScanPoints =>
      \A t \in waiting[w] :
        (best_slot[w] # 0 /\ best_seq[w] <= t) \/ Ahead(w, t)

LowestSelected(w) ==
    wk_pc[w] \in {"cas", "recheck", "store_pid"} =>
      \A t \in waiting[w] : best_seq[w] <= t

OwnTicketGone(w) ==
    wk_pc[w] \in {"recheck", "store_pid"} =>
      enqueue_seq[best_slot[w]] \notin waiting[w]

OrderOf(w) == ScanCovers(w) /\ LowestSelected(w) /\ OwnTicketGone(w)

OrderInv == \A w \in Workers : OrderOf(w)

(* What a step of another party must leave alone for worker w: the scan    *)
(* itself, the slots whose ticket still waits, and the ticket of the slot  *)
(* it has claimed.                                                         *)
Undisturbed(w) ==
    /\ wk_pc'[w] \in {wk_pc[w], "gone"}
    /\ wk_at'[w] = wk_at[w]
    /\ best_slot'[w] = best_slot[w]
    /\ best_seq'[w] = best_seq[w]
    /\ waiting'[w] \subseteq waiting[w]
    /\ \A s \in Slots : Dispatchable(s) /\ enqueue_seq[s] \in waiting'[w] =>
         Dispatchable(s)' /\ enqueue_seq'[s] = enqueue_seq[s]
    /\ wk_pc[w] \in {"recheck", "store_pid"} =>
         enqueue_seq'[best_slot[w]] = enqueue_seq[best_slot[w]]

(* A worker that is left undisturbed keeps its part of the invariant. *)
LEMMA UndisturbedOrder ==
  ASSUME NEW w \in Workers, OrderOf(w), Undisturbed(w)
  PROVE  OrderOf(w)'
<1> USE DEF OrderOf, Undisturbed
<1>1. ScanCovers(w)'
  <2> SUFFICES ASSUME wk_pc[w] \in ScanPoints, NEW t \in waiting'[w]
               PROVE  (best_slot[w] # 0 /\ best_seq[w] <= t) \/ Ahead(w, t)'
    BY DEF ScanCovers, ScanPoints
  <2>1. CASE best_slot[w] # 0 /\ best_seq[w] <= t
    BY <2>1
  <2>2. CASE Ahead(w, t)
    <3>1. PICK s \in Slots : wk_at[w] <= s /\ Dispatchable(s) /\ enqueue_seq[s] = t
      BY <2>2 DEF Ahead
    <3>2. Dispatchable(s)' /\ enqueue_seq'[s] = t
      BY <3>1
    <3> QED BY <3>1, <3>2 DEF Ahead
  <2> QED BY <2>1, <2>2 DEF ScanCovers
<1>2. LowestSelected(w)'
  BY DEF LowestSelected
<1>3. OwnTicketGone(w)'
  BY DEF OwnTicketGone
<1> QED BY <1>1, <1>2, <1>3

(* A slot a worker holds from its exchange on is no other party's. *)
LEMMA ClaimantOwnsAlone ==
  ASSUME OwnershipInv, NEW w \in Workers, wk_pc[w] \in {"recheck", "store_pid"}
  PROVE  /\ best_slot[w] \in Slots
         /\ \A p \in Submitters : ~SubmitterOwns(p, best_slot[w])
         /\ \A v \in Workers : WorkerOwns(v, best_slot[w]) => v = w
         /\ ~MonitorOwns(best_slot[w])
<1>1. best_slot[w] \in Slots /\ WorkerOwns(w, best_slot[w])
  BY DEF OwnershipInv, TypeOK, WorkerOwns, Selected
<1> QED BY <1>1 DEF OwnershipInv, SlotOwnership

(* A step that leaves worker w's scan alone and changes `ready', `claimed' *)
(* or the ticket of one slot only, which is claimed and not w's, does not  *)
(* disturb w: dispatchable slots are unclaimed.                            *)
LEMMA WriteToOwnSlot ==
  ASSUME OwnershipInv, NEW w \in Workers, NEW x \in Slots, claimed[x],
         wk_pc[w] \in {"recheck", "store_pid"} => best_slot[w] # x,
         wk_pc'[w] \in {wk_pc[w], "gone"},
         UNCHANGED <<wk_at[w], best_slot[w], best_seq[w], waiting[w]>>,
         \A s \in Slots \ {x} : UNCHANGED <<ready[s], claimed[s], enqueue_seq[s]>>
  PROVE  Undisturbed(w)
<1>1. \A s \in Slots : Dispatchable(s) => Dispatchable(s)' /\ enqueue_seq'[s] = enqueue_seq[s]
  BY DEF Dispatchable
<1>2. wk_pc[w] \in {"recheck", "store_pid"} => enqueue_seq'[best_slot[w]] = enqueue_seq[best_slot[w]]
  BY ClaimantOwnsAlone
<1> QED BY <1>1, <1>2 DEF Undisturbed

(* An exchange that claims slot x disturbs no other worker: the ticket of  *)
(* the slot stops waiting in the same step.                                *)
LEMMA ExchangeUndisturbed ==
  ASSUME OwnershipInv, NEW w \in Workers, NEW x \in Slots,
         claimed' = [claimed EXCEPT ![x] = TRUE], NoLongerWaiting(enqueue_seq[x]),
         UNCHANGED <<ready, enqueue_seq, wk_pc[w], wk_at[w], best_slot[w], best_seq[w]>>
  PROVE  Undisturbed(w)
<1>1. waiting'[w] = waiting[w] \ {enqueue_seq[x]}
  BY DEF NoLongerWaiting
<1>2. \A s \in Slots : Dispatchable(s) /\ enqueue_seq[s] \in waiting'[w] =>
        Dispatchable(s)' /\ enqueue_seq'[s] = enqueue_seq[s]
  BY <1>1 DEF Dispatchable, OwnershipInv, TypeOK
<1> QED BY <1>1, <1>2 DEF Undisturbed

(* A step that writes no slot disturbs nobody whose scan it leaves alone. *)
LEMMA SlotsUnchangedUndisturbed ==
  ASSUME NEW w \in Workers, UNCHANGED <<ready, claimed, enqueue_seq>>,
         wk_pc'[w] \in {wk_pc[w], "gone"},
         UNCHANGED <<wk_at[w], best_slot[w], best_seq[w], waiting[w]>>
  PROVE  Undisturbed(w)
  BY DEF Undisturbed, Dispatchable

(* A submitting thread disturbs no worker: it writes the slot it has       *)
(* reserved, and its reservation ends the waiting of the ticket there.     *)
LEMMA SubmitterOrder ==
  ASSUME OwnershipInv, OrderInv, NEW p \in Submitters, Submitter(p)
  PROVE  OrderInv'
<1> USE DEF OwnershipInv, TypeOK
<1>1. SUFFICES ASSUME NEW w \in Workers PROVE Undisturbed(w)
  BY UndisturbedOrder DEF OrderInv
<1>2. UNCHANGED <<wk_pc[w], wk_at[w], best_slot[w], best_seq[w]>> /\ sub_at[p] \in Slots
  BY DEF Submitter, scanVars
<1>3. CASE /\ UNCHANGED waiting
           /\ sub_pc[p] \in {"ticket", "store_ready", "store_unclaimed"}
           /\ \A s \in Slots \ {sub_at[p]} : UNCHANGED <<ready[s], claimed[s], enqueue_seq[s]>>
  <2>1. SubmitterOwns(p, sub_at[p])
    BY <1>3 DEF SubmitterOwns
  <2>2. claimed[sub_at[p]]
    BY <1>2, <2>1 DEF OwnersHoldClaim
  <2>3. wk_pc[w] \in {"recheck", "store_pid"} => best_slot[w] # sub_at[p]
    BY <2>1, ClaimantOwnsAlone
  <2> QED BY <1>2, <1>3, <2>2, <2>3, WriteToOwnSlot
<1>4. CASE SubmitCas(p) /\ ~claimed[sub_at[p]]
  BY <1>2, <1>4, ExchangeUndisturbed DEF SubmitCas
<1>5. CASE UNCHANGED <<ready, claimed, enqueue_seq, waiting>>
  BY <1>2, <1>5, SlotsUnchangedUndisturbed
<1>6. CASE TakeTicket(p) \/ PublishReady(p) \/ PublishUnclaimed(p)
  BY <1>2, <1>3, <1>6 DEF TakeTicket, PublishReady, PublishUnclaimed, SubGoto
<1> QED BY <1>4, <1>5, <1>6 DEF Submitter, BeginSubmit, SubmitLoadReady, SubmitCas, Populate, slotVars

(* The monitor disturbs no worker: it writes the slot it has taken over. *)
LEMMA MonitorOrder ==
  ASSUME OwnershipInv, OrderInv, Monitor
  PROVE  OrderInv'
<1> USE DEF OwnershipInv, TypeOK
<1>1. SUFFICES ASSUME NEW w \in Workers PROVE Undisturbed(w)
  BY UndisturbedOrder DEF OrderInv
<1>2. UNCHANGED <<wk_at[w], best_slot[w], best_seq[w], waiting[w]>> /\ mon_at \in Slots
  BY DEF Monitor, scanVars
<1>3. wk_pc'[w] \in {wk_pc[w], "gone"}
  BY DEF Monitor, Reap, ReapCheck, ReapResetReady, ReapResetSeqPid, ReapResetClaimed
<1>4. CASE ReapResetReady \/ ReapResetSeqPid \/ ReapResetClaimed
  <2>1. MonitorOwns(mon_at)
    BY <1>4 DEF ReapResetReady, ReapResetSeqPid, ReapResetClaimed, MonitorOwns
  <2>2. claimed[mon_at]
    BY <1>2, <2>1 DEF OwnersHoldClaim
  <2>3. wk_pc[w] \in {"recheck", "store_pid"} => best_slot[w] # mon_at
    BY <2>1, ClaimantOwnsAlone
  <2>4. \A s \in Slots \ {mon_at} : UNCHANGED <<ready[s], claimed[s], enqueue_seq[s]>>
    BY <1>2, <1>4 DEF ReapResetReady, ReapResetSeqPid, ReapResetClaimed, ResetReady,
       ResetSeqPid, ResetClaimed
  <2> QED BY <1>2, <1>3, <2>2, <2>3, <2>4, WriteToOwnSlot
<1>5. CASE UNCHANGED <<ready, claimed, enqueue_seq>>
  BY <1>2, <1>3, <1>5, SlotsUnchangedUndisturbed
<1> QED BY <1>4, <1>5 DEF Monitor, Reap, ReapCheck, slotVars

(* A worker disturbs no other worker. *)
LEMMA WorkerUndisturbedByOthers ==
  ASSUME OwnershipInv, NEW w \in Workers, Worker(w), NEW v \in Workers, v # w
  PROVE  Undisturbed(v)
<1> USE DEF OwnershipInv, TypeOK
<1>1. UNCHANGED <<wk_pc[v], wk_at[v], best_slot[v], best_seq[v]>>
  BY DEF Worker, BeginClaim, ClaimLoadReady, ClaimLoadClaimed, ClaimLoadSeq, ClaimCas,
     ClaimRecheck, ClaimUndo, ClaimStorePid, WorkerResetReady, WorkerResetSeqPid,
     WorkerResetClaimed, NextCandidate, ScanFromTop, SetScan, WkGoto, scanVars
<1>2. CASE /\ UNCHANGED waiting[v]
           /\ wk_pc[w] \in {"unclaim", "work", "reset_seq", "reset_claimed"}
           /\ \A s \in Slots \ {best_slot[w]} :
                UNCHANGED <<ready[s], claimed[s], enqueue_seq[s]>>
  <2>1. best_slot[w] \in Slots /\ WorkerOwns(w, best_slot[w])
    BY <1>2 DEF WorkerOwns, Selected
  <2>2. claimed[best_slot[w]]
    BY <2>1 DEF OwnersHoldClaim
  <2>3. wk_pc[v] \in {"recheck", "store_pid"} => best_slot[v] # best_slot[w]
    BY <2>1, ClaimantOwnsAlone
  <2> QED BY <1>1, <1>2, <2>1, <2>2, <2>3, WriteToOwnSlot
<1>3. CASE ClaimCas(w) /\ ~claimed[best_slot[w]]
  <2>1. best_slot[w] \in Slots
    BY <1>3 DEF ClaimCas, Selected
  <2> QED BY <1>1, <1>3, <2>1, ExchangeUndisturbed DEF ClaimCas
<1>4. CASE UNCHANGED <<ready, claimed, enqueue_seq, waiting[v]>>
  BY <1>1, <1>4, SlotsUnchangedUndisturbed
<1>5. CASE ClaimUndo(w)
  BY <1>2, <1>5 DEF ClaimUndo, ScanFromTop
<1>6. CASE WorkerResetReady(w) \/ WorkerResetSeqPid(w) \/ WorkerResetClaimed(w)
  BY <1>2, <1>6 DEF WorkerResetReady, WorkerResetSeqPid, WorkerResetClaimed, ResetReady,
     ResetSeqPid, ResetClaimed, WkGoto
<1>7. CASE BeginClaim(w)
  BY <1>4, <1>7 DEF BeginClaim, ScanFromTop, slotVars
<1>8. ASSUME NEW b, NEW t, NextCandidate(w, b, t) PROVE UNCHANGED waiting[v]
  BY <1>8 DEF NextCandidate
<1>9. CASE ClaimLoadReady(w) \/ ClaimLoadClaimed(w) \/ ClaimLoadSeq(w)
  BY <1>4, <1>8, <1>9 DEF ClaimLoadReady, ClaimLoadClaimed, ClaimLoadSeq, slotVars
<1>10. CASE ClaimCas(w) /\ claimed[best_slot[w]]
  BY <1>4, <1>10 DEF ClaimCas, ScanFromTop
<1>11. CASE ClaimRecheck(w) \/ ClaimStorePid(w)
  BY <1>4, <1>11 DEF ClaimRecheck, ClaimStorePid, slotVars
<1> QED BY <1>3, <1>5, <1>6, <1>7, <1>9, <1>10, <1>11 DEF Worker

(* A scan that starts at the first slot has every waiting ticket ahead. *)
LEMMA ScanStartOrder ==
  ASSUME OwnershipInv, NEW w \in Workers, ScanFromTop(w),
         \A s \in Slots : Dispatchable(s) => Dispatchable(s)' /\ enqueue_seq'[s] = enqueue_seq[s]
  PROVE  OrderOf(w)'
<1> USE DEF OwnershipInv, TypeOK
<1>1. /\ wk_pc'[w] = "load_ready" /\ wk_at'[w] = 1
      /\ waiting'[w] = {enqueue_seq[s] : s \in {x \in Slots : Dispatchable(x)}}
  BY DEF ScanFromTop, SetScan
<1>2. ASSUME NEW t \in waiting'[w] PROVE Ahead(w, t)'
  <2>1. PICK s \in Slots : Dispatchable(s) /\ enqueue_seq[s] = t
    BY <1>1
  <2>2. 1 <= s
    BY DEF Slots
  <2> QED BY <1>1, <2>1, <2>2 DEF Ahead
<1> QED BY <1>1, <1>2 DEF OrderOf, ScanCovers, LowestSelected, OwnTicketGone

(* The scan goes on from its slot with best slot b and ticket u: the       *)
(* invariant holds when every waiting ticket is no lower than u or offered *)
(* after the cursor.                                                       *)
LEMMA NextCandidateOrder ==
  ASSUME OwnershipInv, NEW w \in Workers, NEW b \in Slots \cup {0}, NEW u \in Nat,
         NextCandidate(w, b, u), UNCHANGED slotVars,
         \A t \in waiting[w] :
           \/ b # 0 /\ u <= t
           \/ \E s \in Slots : wk_at[w] < s /\ Dispatchable(s) /\ enqueue_seq[s] = t
  PROVE  OrderOf(w)'
<1> USE DEF OwnershipInv, TypeOK
<1>1. wk_at[w] \in Slots /\ MAX_JOBS \in Nat
  BY SlotsAssumption
<1>2. \A s \in Slots : Dispatchable(s)' <=> Dispatchable(s)
  BY DEF slotVars, Dispatchable
<1>3. CASE wk_at[w] < MAX_JOBS
  <2>1. /\ wk_pc'[w] = "load_ready" /\ wk_at'[w] = wk_at[w] + 1
        /\ best_slot'[w] = b /\ best_seq'[w] = u /\ waiting'[w] = waiting[w]
    BY <1>1, <1>3 DEF NextCandidate, SetScan
  <2>2. ASSUME NEW t \in waiting'[w] PROVE (b # 0 /\ u <= t) \/ Ahead(w, t)'
    <3>1. ASSUME NEW s \in Slots, wk_at[w] < s, Dispatchable(s), enqueue_seq[s] = t
          PROVE  Ahead(w, t)'
      <4>1. wk_at'[w] <= s
        BY <1>1, <2>1, <3>1 DEF Slots
      <4> QED BY <1>2, <3>1, <4>1 DEF Ahead, slotVars
    <3> QED BY <2>1, <3>1
  <2> QED BY <2>1, <2>2 DEF OrderOf, ScanCovers, LowestSelected, OwnTicketGone
<1>4. CASE wk_at[w] = MAX_JOBS /\ b # 0
  <2>1. wk_pc'[w] = "cas" /\ best_seq'[w] = u /\ waiting'[w] = waiting[w]
    BY <1>1, <1>4 DEF NextCandidate, SetScan
  <2>2. \A s \in Slots : ~(wk_at[w] < s)
    BY <1>1, <1>4 DEF Slots
  <2> QED BY <2>1, <2>2 DEF OrderOf, ScanCovers, LowestSelected, OwnTicketGone, ScanPoints
<1>5. CASE wk_at[w] = MAX_JOBS /\ b = 0
  <2>1. wk_pc'[w] = "idle"
    BY <1>1, <1>5 DEF NextCandidate
  <2> QED BY <2>1 DEF OrderOf, ScanCovers, LowestSelected, OwnTicketGone, ScanPoints
<1> QED BY <1>3, <1>4, <1>5 DEF NextCandidate

(* What the cursor passes over is not dispatchable, or no better than the  *)
(* best ticket, so a worker's own steps keep its part of the invariant.    *)
LEMMA WorkerOrder ==
  ASSUME OwnershipInv, NEW w \in Workers, OrderOf(w), Worker(w)
  PROVE  OrderOf(w)'
<1> USE DEF OwnershipInv, TypeOK
<1>0. /\ wk_at[w] \in Slots /\ enqueue_seq[wk_at[w]] \in Nat
      /\ best_slot[w] \in Slots \cup {0} /\ best_seq[w] \in Nat
      /\ waiting[w] \subseteq Nat
  OBVIOUS
<1>a. ASSUME wk_pc[w] \in ScanPoints, ~Dispatchable(wk_at[w]), UNCHANGED slotVars,
             NextCandidate(w, best_slot[w], best_seq[w])
      PROVE  OrderOf(w)'
  <2>1. ASSUME NEW t \in waiting[w], NEW s \in Slots,
               wk_at[w] <= s, Dispatchable(s)
        PROVE  wk_at[w] < s
    <3>1. s # wk_at[w]
      BY <1>a, <2>1
    <3> QED BY <1>0, <2>1, <3>1, SlotsAssumption DEF Slots
  <2>2. \A t \in waiting[w] :
          \/ best_slot[w] # 0 /\ best_seq[w] <= t
          \/ \E s \in Slots : wk_at[w] < s /\ Dispatchable(s) /\ enqueue_seq[s] = t
    BY <1>a, <2>1 DEF OrderOf, ScanCovers, Ahead
  <2> QED BY <1>0, <1>a, <2>2, NextCandidateOrder
<1>b. ASSUME wk_pc[w] \in ScanPoints, wk_pc'[w] \in ScanPoints,
             UNCHANGED <<slotVars, scanVars, waiting>>
      PROVE  OrderOf(w)'
  BY <1>b DEF OrderOf, ScanCovers, Ahead, Dispatchable, LowestSelected, OwnTicketGone,
     ScanPoints, slotVars, scanVars
<1>c. ASSUME wk_pc'[w] \notin ScanPoints \cup {"cas", "recheck", "store_pid"}
      PROVE  OrderOf(w)'
  BY <1>c DEF OrderOf, ScanCovers, LowestSelected, OwnTicketGone, ScanPoints
<1>1. CASE BeginClaim(w)
  BY <1>1, ScanStartOrder DEF BeginClaim, slotVars, Dispatchable
<1>2. CASE ClaimLoadReady(w)
  <2>1. CASE ready[wk_at[w]]
    BY <1>2, <1>b, <2>1 DEF ClaimLoadReady, WkGoto, ScanPoints
  <2>2. CASE ~ready[wk_at[w]]
    BY <1>2, <1>a, <2>2 DEF ClaimLoadReady, Dispatchable, ScanPoints
  <2> QED BY <2>1, <2>2
<1>3. CASE ClaimLoadClaimed(w)
  <2>1. CASE ~claimed[wk_at[w]]
    BY <1>3, <1>b, <2>1 DEF ClaimLoadClaimed, WkGoto, ScanPoints
  <2>2. CASE claimed[wk_at[w]]
    BY <1>3, <1>a, <2>2 DEF ClaimLoadClaimed, Dispatchable, ScanPoints
  <2> QED BY <2>1, <2>2
<1>4. CASE ClaimLoadSeq(w)
  <2>0. wk_pc[w] \in ScanPoints /\ UNCHANGED slotVars
    BY <1>4 DEF ClaimLoadSeq, ScanPoints
  <2>1. ASSUME NEW t \in waiting[w]
        PROVE  \/ best_slot[w] # 0 /\ best_seq[w] <= t
               \/ \E s \in Slots : wk_at[w] < s /\ Dispatchable(s) /\ enqueue_seq[s] = t
               \/ enqueue_seq[wk_at[w]] = t /\ t # 0
    <3>1. ASSUME NEW s \in Slots, wk_at[w] <= s, Dispatchable(s), enqueue_seq[s] = t
          PROVE  wk_at[w] < s \/ (enqueue_seq[wk_at[w]] = t /\ t # 0)
      <4>1. wk_at[w] < s \/ s = wk_at[w]
        BY <1>0, <3>1 DEF Slots
      <4> QED BY <3>1, <4>1 DEF Dispatchable
    <3> QED BY <2>0, <2>1, <3>1 DEF OrderOf, ScanCovers, Ahead
  <2>2. CASE Better(w)
    <3>1. NextCandidate(w, wk_at[w], enqueue_seq[wk_at[w]]) /\ wk_at[w] # 0
      BY <1>0, <1>4, <2>2, SlotFacts DEF ClaimLoadSeq
    <3>2. \A t \in waiting[w] : best_slot[w] # 0 /\ best_seq[w] <= t =>
            enqueue_seq[wk_at[w]] <= t
      BY <1>0, <2>2 DEF Better
    <3>3. \A t \in waiting[w] :
            \/ wk_at[w] # 0 /\ enqueue_seq[wk_at[w]] <= t
            \/ \E s \in Slots : wk_at[w] < s /\ Dispatchable(s) /\ enqueue_seq[s] = t
      BY <1>0, <2>1, <3>1, <3>2
    <3> QED BY <1>0, <2>0, <3>1, <3>3, NextCandidateOrder
  <2>3. CASE ~Better(w)
    <3>1. NextCandidate(w, best_slot[w], best_seq[w])
      BY <1>4, <2>3 DEF ClaimLoadSeq
    <3>2. \A t \in waiting[w] : enqueue_seq[wk_at[w]] = t /\ t # 0 =>
            best_slot[w] # 0 /\ best_seq[w] <= t
      BY <1>0, <2>3 DEF Better
    <3>3. \A t \in waiting[w] :
            \/ best_slot[w] # 0 /\ best_seq[w] <= t
            \/ \E s \in Slots : wk_at[w] < s /\ Dispatchable(s) /\ enqueue_seq[s] = t
      BY <2>1, <3>2
    <3> QED BY <1>0, <2>0, <3>1, <3>3, NextCandidateOrder
  <2> QED BY <2>2, <2>3
<1>5. CASE ClaimCas(w)
  <2>1. CASE ~claimed[best_slot[w]]
    <3>1. /\ wk_pc[w] = "cas" /\ wk_pc'[w] = "recheck"
          /\ waiting'[w] = waiting[w] \ {enqueue_seq[best_slot[w]]}
          /\ UNCHANGED <<enqueue_seq, best_slot, best_seq>>
      BY <1>5, <2>1 DEF ClaimCas, WkGoto, NoLongerWaiting, scanVars
    <3> QED BY <3>1 DEF OrderOf, ScanCovers, LowestSelected, OwnTicketGone, ScanPoints
  <2>2. CASE claimed[best_slot[w]]
    BY <1>5, <2>2, ScanStartOrder DEF ClaimCas, Dispatchable
  <2> QED BY <2>1, <2>2
<1>6. CASE ClaimRecheck(w)
  <2>1. /\ wk_pc[w] = "recheck" /\ wk_pc'[w] \in {"store_pid", "unclaim"}
        /\ UNCHANGED <<enqueue_seq, best_slot, best_seq, waiting>>
    BY <1>6 DEF ClaimRecheck, WkGoto, slotVars, scanVars
  <2> QED BY <2>1 DEF OrderOf, ScanCovers, LowestSelected, OwnTicketGone, ScanPoints
<1>7. CASE ClaimUndo(w)
  <2>1. \A s \in Slots : Dispatchable(s) => Dispatchable(s)' /\ enqueue_seq'[s] = enqueue_seq[s]
    BY <1>7 DEF ClaimUndo, Dispatchable
  <2> QED BY <1>7, <2>1, ScanStartOrder DEF ClaimUndo
<1>8. CASE ClaimStorePid(w) \/ WorkerResetReady(w) \/ WorkerResetSeqPid(w) \/ WorkerResetClaimed(w)
  BY <1>8, <1>c DEF ClaimStorePid, WorkerResetReady, WorkerResetSeqPid, WorkerResetClaimed,
     WkGoto, ScanPoints
<1> QED BY <1>1, <1>2, <1>3, <1>4, <1>5, <1>6, <1>7, <1>8 DEF Worker

(* OrderInv is inductive relative to the ownership of the slots. *)
LEMMA OrderStep == OwnershipInv /\ OrderInv /\ [Next]_vars => OrderInv'
<1> SUFFICES ASSUME OwnershipInv, OrderInv, [Next]_vars PROVE OrderInv'
  OBVIOUS
<1>1. ASSUME NEW w \in Workers, Worker(w) PROVE OrderInv'
  <2> SUFFICES ASSUME NEW v \in Workers PROVE OrderOf(v)'
    BY DEF OrderInv
  <2>1. CASE v = w
    BY <1>1, <2>1, WorkerOrder DEF OrderInv
  <2>2. CASE v # w
    BY <1>1, <2>2, WorkerUndisturbedByOthers, UndisturbedOrder DEF OrderInv
  <2> QED BY <2>1, <2>2
<1>2. ASSUME UNCHANGED <<slotVars, wk_pc, scanVars, waiting>> PROVE OrderInv'
  BY <1>2, SlotsUnchangedUndisturbed, UndisturbedOrder DEF OrderInv, slotVars, scanVars
<1>3. CASE UNCHANGED vars
  BY <1>2, <1>3 DEF vars
<1>4. ASSUME NEW w \in Workers, Die(w) PROVE OrderInv'
  BY <1>2, <1>4 DEF Die
<1> QED BY <1>1, <1>3, <1>4, SubmitterOrder, MonitorOrder DEF Next

(* claim_ready_job_slot serves tickets in order: a worker never takes a    *)
(* job while a lower ticket has been dispatchable ever since its scan      *)
(* began, however many slots, threads and workers there are and wherever   *)
(* workers die.                                                            *)
THEOREM NoOvertakingTheorem == Spec => []NoOvertaking
<1>1. Init => OrderInv
  BY DEF Init, OrderInv, OrderOf, ScanCovers, LowestSelected, OwnTicketGone, ScanPoints
<1>2. OwnershipInv /\ WorksOnSelectedJob /\ OrderInv => NoOvertaking
  <2> SUFFICES ASSUME OwnershipInv, WorksOnSelectedJob, OrderInv,
                      NEW w \in Workers, wk_pc[w] = "store_pid", NEW t \in waiting[w]
               PROVE  best_seq[w] < t
    BY DEF NoOvertaking
  <2>1. best_seq[w] <= t /\ best_seq[w] # t
    BY DEF OrderInv, OrderOf, LowestSelected, OwnTicketGone, WorksOnSelectedJob
  <2>2. best_seq[w] \in Nat /\ t \in Nat
    BY DEF OwnershipInv, TypeOK
  <2> QED BY <2>1, <2>2
<1> QED BY <1>1, <1>2, OrderStep, InitOwnership, OwnershipStep, SelectionTheorem, PTL DEF Spec

-----------------------------------------------------------------------------
(* The slots implement the job pool, for any number of slots, workers and  *)
(* jobs, as long as no handler thread reserves a slot that is published.   *)
(* With one handler thread none does.                                      *)

(* A slot whose job a worker has taken and not yet released. *)
Taken(s) ==
    \/ \E w \in Workers : Holds(w) /\ best_slot[w] = s
    \/ mon_pc = "reset_ready" /\ mon_at = s
Offered(s) == ready[s] /\ ~Taken(s)

Unpublished == {"load_ready", "cas", "populate", "ticket", "store_ready"}
Reserved == {"populate", "ticket", "store_ready"}

(* Published slots have jobs of their own, and those on offer are new. *)
PublishedJobs ==
    /\ started \subseteq issued
    /\ \A s \in Slots : ready[s] => job_id[s] \in issued
    /\ \A s, t \in Slots : ready[s] /\ ready[t] /\ job_id[s] = job_id[t] => s = t
    /\ \A s \in Slots : Offered(s) => job_id[s] \notin started

(* The job in a handler thread's hands is in no published slot yet, and    *)
(* the slot it is filling is not published.                                *)
SubmittedJobs ==
    \A p \in Submitters :
      /\ sub_pc[p] # "idle" => sub_job[p] \in issued
      /\ \A q \in Submitters : sub_pc[p] # "idle" /\ sub_pc[q] # "idle"
                                 /\ sub_job[p] = sub_job[q] => p = q
      /\ sub_pc[p] \in Unpublished =>
           /\ sub_job[p] \notin started
           /\ \A s \in Slots : ready[s] => job_id[s] # sub_job[p]
      /\ sub_pc[p] \in {"ticket", "store_ready"} => job_id[sub_at[p]] = sub_job[p]
      /\ sub_pc[p] \in Reserved => ~ready[sub_at[p]]

(* The monitor has the slot of a dead worker, and the worker has it no     *)
(* more; a worker that resets its slot has unpublished it.                 *)
ReapedSlots ==
    /\ mon_pc # "idle" => life[mon_pid] = "dead"
    /\ mon_pc \in {"reset_ready", "reset_seq", "reset_claimed"} => wk_pc[mon_pid] = "gone"
    /\ mon_pc = "reset_ready" => ready[mon_at]
    /\ \A w \in Workers : wk_pc[w] = "reset_seq" => ~ready[best_slot[w]]

PoolInv == PublishedJobs /\ SubmittedJobs /\ ReapedSlots

-----------------------------------------------------------------------------
(* The pool is empty at the start. *)
LEMMA InitPool == Init => PoolInv /\ Pool!Init
<1> SUFFICES ASSUME Init PROVE PoolInv /\ Pool!Init
  OBVIOUS
<1>1. PoolInv
  BY DEF Init, PoolInv, PublishedJobs, SubmittedJobs, ReapedSlots, Unpublished, Reserved,
     Offered
<1>2. Pending = {}
  BY DEF Init, Pending
<1>3. Running = [w \in Workers |-> None]
  BY DEF Init, Running, Holds, Adopted
<1> QED BY <1>1, <1>2, <1>3 DEF Pool!Init, Init

(* A worker that holds a job is the only owner of its slot, which is published. *)
LEMMA HolderOwnsAlone ==
  ASSUME OwnershipInv, WorksOnSelectedJob, NEW w \in Workers, Holds(w)
  PROVE  /\ best_slot[w] \in Slots /\ ready[best_slot[w]]
         /\ \A p \in Submitters : ~SubmitterOwns(p, best_slot[w])
         /\ \A v \in Workers : WorkerOwns(v, best_slot[w]) => v = w
         /\ ~MonitorOwns(best_slot[w])
<1>1. Committed(w)
  BY DEF Committed, Holds
<1> QED BY <1>1, CommittedOwnsAlone DEF WorksOnSelectedJob, Committed

(* A slot that a handler thread owns is not taken. *)
LEMMA ReservedNotTaken ==
  ASSUME OwnershipInv, NEW p \in Submitters, NEW s \in Slots, SubmitterOwns(p, s)
  PROVE  ~Taken(s)
<1>1. \A w \in Workers : Holds(w) /\ best_slot[w] = s => WorkerOwns(w, s)
  BY DEF Holds, WorkerOwns, Selected
<1>2. mon_pc = "reset_ready" /\ mon_at = s => MonitorOwns(s)
  BY DEF MonitorOwns
<1> QED BY <1>1, <1>2 DEF Taken, OwnershipInv, SlotOwnership

-----------------------------------------------------------------------------
(* A handler thread keeps the invariant, if it reserves no published slot. *)
LEMMA SubmitterPool ==
  ASSUME OwnershipInv, PoolInv, ReservedSlotIsFree', NEW p \in Submitters, Submitter(p)
  PROVE  PoolInv'
<1>0. UNCHANGED <<wk_pc, best_slot, life, mon_pc, mon_pid, mon_at, started>>
  BY DEF Submitter, scanVars, monVars
<1>1. \A s : Taken(s)' = Taken(s)
  BY <1>0 DEF Taken, Holds
<1>2. sub_at[p] \in Slots
  BY DEF OwnershipInv, TypeOK
<1>3. ASSUME UNCHANGED ready PROVE ReapedSlots'
  BY <1>0, <1>3 DEF PoolInv, ReapedSlots
<1>4. ASSUME UNCHANGED <<ready, job_id, issued, sub_job>>,
             \A q \in Submitters \ {p} : sub_pc'[q] = sub_pc[q] /\ sub_at'[q] = sub_at[q],
             \/ sub_pc[p] \in Unpublished /\ sub_pc'[p] \in {"load_ready", "cas", "populate"}
             \/ sub_pc[p] = "ticket" /\ sub_pc'[p] = "store_ready" /\ sub_at'[p] = sub_at[p]
      PROVE  PoolInv'
  <2>1. PublishedJobs'
    BY <1>0, <1>1, <1>4 DEF PoolInv, PublishedJobs, Offered
  <2>2. SubmittedJobs'
    BY <1>0, <1>4 DEF PoolInv, SubmittedJobs, Unpublished, Reserved, ReservedSlotIsFree
  <2> QED BY <1>3, <1>4, <2>1, <2>2 DEF PoolInv
<1>5. ASSUME UNCHANGED <<ready, job_id, issued>>, SubmitReturns(p) PROVE PoolInv'
  <2>1. PublishedJobs'
    BY <1>0, <1>1, <1>5 DEF PoolInv, PublishedJobs, Offered
  <2>2. /\ \A q \in Submitters \ {p} : /\ sub_pc'[q] = sub_pc[q] /\ sub_at'[q] = sub_at[q]
                                       /\ sub_job'[q] = sub_job[q]
        /\ sub_pc'[p] = "idle"
    BY <1>5 DEF SubmitReturns, OwnershipInv, TypeOK
  <2>3. SubmittedJobs'
    BY <1>0, <1>5, <2>2 DEF PoolInv, SubmittedJobs, Unpublished, Reserved
  <2> QED BY <1>3, <1>5, <2>1, <2>3 DEF PoolInv
<1>6. ASSUME UNCHANGED <<ready, job_id, issued>>, NextFreeCandidate(p),
             sub_pc[p] \in Unpublished
      PROVE  PoolInv'
  <2>1. CASE SubmitReturns(p)
    BY <1>5, <1>6, <2>1
  <2>2. CASE ~SubmitReturns(p)
    <3>1. /\ sub_pc' = [sub_pc EXCEPT ![p] = "load_ready"]
          /\ sub_at' = [sub_at EXCEPT ![p] = sub_at[p] + 1]
          /\ UNCHANGED sub_job
      BY <1>6, <2>2 DEF NextFreeCandidate
    <3>2. /\ sub_pc'[p] = "load_ready"
          /\ \A q \in Submitters \ {p} : sub_pc'[q] = sub_pc[q] /\ sub_at'[q] = sub_at[q]
      BY <3>1 DEF OwnershipInv, TypeOK
    <3> QED BY <1>4, <1>6, <3>1, <3>2
  <2> QED BY <2>1, <2>2
<1>7. CASE BeginSubmit(p)
  <2>1. PICK j \in Jobs \ issued : /\ issued' = issued \cup {j}
                                   /\ sub_job' = [sub_job EXCEPT ![p] = j]
    BY <1>7 DEF BeginSubmit
  <2>2. /\ sub_pc[p] = "idle" /\ sub_pc' = [sub_pc EXCEPT ![p] = "load_ready"]
        /\ UNCHANGED <<ready, job_id, sub_at>>
    BY <1>7 DEF BeginSubmit, SubGoto, slotVars
  <2>3. /\ sub_pc'[p] = "load_ready" /\ sub_job'[p] = j
        /\ \A q \in Submitters \ {p} : sub_pc'[q] = sub_pc[q] /\ sub_job'[q] = sub_job[q]
    BY <2>1, <2>2 DEF OwnershipInv, TypeOK
  <2>4. PublishedJobs'
    BY <1>0, <1>1, <2>1, <2>2 DEF PoolInv, PublishedJobs, Offered
  <2>5. SubmittedJobs'
    BY <1>0, <2>1, <2>2, <2>3 DEF PoolInv, PublishedJobs, SubmittedJobs, Unpublished, Reserved
  <2> QED BY <1>3, <2>2, <2>4, <2>5 DEF PoolInv
<1>8. CASE SubmitLoadReady(p)
  <2>1. UNCHANGED <<ready, job_id, issued>> /\ sub_pc[p] \in Unpublished
    BY <1>8 DEF SubmitLoadReady, slotVars, Unpublished
  <2>2. CASE SubGoto(p, "load_ready", "cas") /\ UNCHANGED <<sub_at, sub_job>>
    BY <1>4, <2>1, <2>2 DEF SubGoto, OwnershipInv, TypeOK
  <2>3. CASE NextFreeCandidate(p)
    BY <1>6, <2>1, <2>3
  <2> QED BY <1>8, <2>2, <2>3 DEF SubmitLoadReady
<1>9. CASE SubmitCas(p)
  <2>1. UNCHANGED <<ready, job_id, issued>> /\ sub_pc[p] \in Unpublished
    BY <1>9 DEF SubmitCas, Unpublished
  <2>2. CASE SubGoto(p, "cas", "populate") /\ UNCHANGED <<sub_at, sub_job>>
    BY <1>4, <2>1, <2>2 DEF SubGoto, OwnershipInv, TypeOK
  <2>3. CASE NextFreeCandidate(p)
    BY <1>6, <2>1, <2>3
  <2> QED BY <1>9, <2>2, <2>3 DEF SubmitCas
<1>10. CASE Populate(p)
  <2>1. /\ sub_pc[p] = "populate" /\ sub_pc' = [sub_pc EXCEPT ![p] = "ticket"]
        /\ job_id' = [job_id EXCEPT ![sub_at[p]] = sub_job[p]]
        /\ UNCHANGED <<ready, issued, sub_at, sub_job>>
    BY <1>10 DEF Populate, SubGoto
  <2>2. ~ready[sub_at[p]] /\ SubmitterOwns(p, sub_at[p])
    BY <2>1 DEF PoolInv, SubmittedJobs, Reserved, SubmitterOwns
  <2>3. \A s \in Slots : s # sub_at[p] => job_id'[s] = job_id[s]
    BY <2>1 DEF OwnershipInv, TypeOK
  <2>4. PublishedJobs'
    BY <1>0, <1>1, <2>1, <2>2, <2>3 DEF PoolInv, PublishedJobs, Offered
  <2>5. \A q \in Submitters : q # p /\ sub_pc[q] \in {"ticket", "store_ready"} =>
          sub_at[q] \in Slots /\ sub_at[q] # sub_at[p]
    BY <1>2, <2>2 DEF OwnershipInv, SlotOwnership, SubmitterOwns, TypeOK
  <2>6. /\ sub_pc'[p] = "ticket" /\ job_id'[sub_at[p]] = sub_job[p]
        /\ \A q \in Submitters \ {p} : sub_pc'[q] = sub_pc[q]
    BY <1>2, <2>1 DEF OwnershipInv, TypeOK
  <2>7. SubmittedJobs'
    BY <1>0, <2>1, <2>2, <2>3, <2>5, <2>6 DEF PoolInv, SubmittedJobs, Unpublished, Reserved
  <2> QED BY <1>3, <2>1, <2>4, <2>7 DEF PoolInv
<1>11. CASE TakeTicket(p)
  BY <1>4, <1>11 DEF TakeTicket, SubGoto, OwnershipInv, TypeOK
<1>12. CASE PublishReady(p)
  <2> DEFINE s == sub_at[p]
  <2>1. /\ sub_pc[p] = "store_ready" /\ sub_pc' = [sub_pc EXCEPT ![p] = "store_unclaimed"]
        /\ ready' = [ready EXCEPT ![s] = TRUE]
        /\ UNCHANGED <<job_id, issued, sub_at, sub_job>>
    BY <1>12 DEF PublishReady, SubGoto
  <2>2. /\ SubmitterOwns(p, s) /\ s \in Slots /\ job_id[s] = sub_job[p]
        /\ sub_job[p] \in issued \ started
        /\ \A t \in Slots : ready[t] => job_id[t] # sub_job[p]
    BY <1>2, <2>1 DEF PoolInv, SubmittedJobs, Unpublished, SubmitterOwns
  <2>3. /\ ready'[s] /\ \A t \in Slots \ {s} : ready'[t] = ready[t]
        /\ sub_pc'[p] = "store_unclaimed"
        /\ \A q \in Submitters \ {p} : sub_pc'[q] = sub_pc[q]
    BY <1>2, <2>1 DEF OwnershipInv, TypeOK
  <2>4. PublishedJobs'
    BY <1>0, <1>1, <2>1, <2>2, <2>3 DEF PoolInv, PublishedJobs, Offered
  <2>5. \A q \in Submitters : q # p /\ sub_pc[q] \in Reserved =>
          sub_at[q] \in Slots /\ sub_at[q] # s
    BY <2>2 DEF OwnershipInv, SlotOwnership, SubmitterOwns, TypeOK, Reserved
  <2>6. SubmittedJobs'
    <3> SUFFICES ASSUME NEW q \in Submitters
                 PROVE  /\ sub_pc'[q] # "idle" => sub_job[q] \in issued
                        /\ \A r \in Submitters : sub_pc'[q] # "idle" /\ sub_pc'[r] # "idle"
                             /\ sub_job[q] = sub_job[r] => q = r
                        /\ sub_pc'[q] \in Unpublished =>
                             /\ sub_job[q] \notin started
                             /\ \A t \in Slots : ready'[t] => job_id[t] # sub_job[q]
                        /\ sub_pc'[q] \in {"ticket", "store_ready"} =>
                             job_id[sub_at[q]] = sub_job[q]
                        /\ sub_pc'[q] \in Reserved => ~ready'[sub_at[q]]
      BY <1>0, <2>1 DEF SubmittedJobs
    <3>1. CASE q = p
      BY <2>1, <2>3, <3>1 DEF PoolInv, SubmittedJobs, Unpublished, Reserved
    <3>2. CASE q # p
      <4>1. sub_pc[q] \in Unpublished => sub_job[q] # sub_job[p]
        BY <2>1, <3>2 DEF PoolInv, SubmittedJobs, Unpublished
      <4> HIDE DEF s
      <4> QED BY <2>1, <2>2, <2>3, <2>5, <3>2, <4>1 DEF PoolInv, SubmittedJobs
    <3> QED BY <3>1, <3>2
  <2>7. ReapedSlots'
    <3>1. \A w \in Workers : wk_pc[w] = "reset_seq" => best_slot[w] \in Slots /\ best_slot[w] # s
      BY <2>2 DEF OwnershipInv, TypeOK, SlotOwnership, WorkerOwns, Selected
    <3>2. mon_pc = "reset_ready" => mon_at \in Slots /\ mon_at # s
      BY <2>2 DEF OwnershipInv, TypeOK, SlotOwnership, MonitorOwns
    <3> QED BY <1>0, <2>3, <3>1, <3>2 DEF PoolInv, ReapedSlots
  <2> QED BY <2>4, <2>6, <2>7 DEF PoolInv
<1>13. CASE PublishUnclaimed(p)
  BY <1>5, <1>13 DEF PublishUnclaimed
<1> QED BY <1>7, <1>8, <1>9, <1>10, <1>11, <1>12, <1>13 DEF Submitter

(* Steps of a worker that neither take nor release a job. *)
LEMMA NothingTaken ==
  ASSUME OwnershipInv, PoolInv,
         UNCHANGED <<ready, job_id, issued, started, sub_pc, sub_at, sub_job, life,
                     mon_pc, mon_pid, mon_at>>,
         \A w \in Workers : Holds(w)' = Holds(w) /\ (Holds(w) => best_slot'[w] = best_slot[w]),
         \A w \in Workers : wk_pc'[w] = "reset_seq" => UNCHANGED <<wk_pc[w], best_slot[w]>>,
         \A w \in Workers : wk_pc[w] = "gone" => wk_pc'[w] = "gone"
  PROVE  PoolInv' /\ UNCHANGED <<Pending, Running>>
<1>1. \A s : Taken(s)' = Taken(s)
  BY DEF Taken
<1>2. PublishedJobs'
  BY <1>1 DEF PoolInv, PublishedJobs, Offered
<1>3. SubmittedJobs'
  BY DEF PoolInv, SubmittedJobs
<1>4. ReapedSlots'
  <2>1. mon_pc # "idle" => mon_pid \in Workers
    BY DEF OwnershipInv, TypeOK
  <2> QED BY <2>1 DEF PoolInv, ReapedSlots
<1>5. Pending' = Pending
  BY DEF Pending
<1>6. Running' = Running
  BY DEF Running, Adopted
<1> QED BY <1>2, <1>3, <1>4, <1>5, <1>6 DEF PoolInv

(* Pending, said with Offered. *)
LEMMA PendingIsOffered == Pending = {job_id[s] : s \in {x \in Slots : Offered(x)}}
  BY DEF Pending, Offered, Taken

(* A worker that finds the job it selected takes it, and a worker that     *)
(* resets its slot releases it.                                            *)
LEMMA WorkerPool ==
  ASSUME OwnershipInv, WorksOnSelectedJob, PoolInv, NEW w \in Workers, Worker(w)
  PROVE  PoolInv' /\ [Pool!Next]_(Pool!vars)
<1>0. UNCHANGED <<issued, sub_pc, sub_at, sub_job, life, mon_pc, mon_pid, mon_at>> /\ life[w] = "alive"
  BY DEF Worker, subVars, monVars
<1>1. ~Adopted(w) /\ wk_pc[w] \in WkPC
  BY <1>0 DEF Adopted, PoolInv, ReapedSlots, OwnershipInv, TypeOK
<1>2. ASSUME UNCHANGED <<ready, job_id, started>>,
             Holds(w)' = Holds(w), Holds(w) => best_slot'[w] = best_slot[w],
             wk_pc'[w] # "reset_seq", wk_pc[w] # "gone",
             \A v \in Workers \ {w} : wk_pc'[v] = wk_pc[v] /\ best_slot'[v] = best_slot[v]
      PROVE  PoolInv' /\ [Pool!Next]_(Pool!vars)
  <2>1. PoolInv' /\ UNCHANGED <<Pending, Running>>
    BY <1>0, <1>2, NothingTaken DEF Holds
  <2> QED BY <1>2, <2>1 DEF Pool!vars
<1>3. ASSUME NEW b, NEW t, NextCandidate(w, b, t), UNCHANGED slotVars, UNCHANGED started,
             wk_pc[w] \in {"load_ready", "load_claimed", "load_seq"}
      PROVE  PoolInv' /\ [Pool!Next]_(Pool!vars)
  BY <1>2, <1>3 DEF NextCandidate, SetScan, slotVars, Holds, OwnershipInv, TypeOK
<1>4. CASE BeginClaim(w)
  BY <1>2, <1>4 DEF BeginClaim, ScanFromTop, SetScan, slotVars, Holds, OwnershipInv, TypeOK
<1>5. CASE ClaimLoadReady(w)
  <2>1. CASE WkGoto(w, "load_ready", "load_claimed") /\ UNCHANGED scanVars
    BY <1>2, <1>5, <2>1 DEF ClaimLoadReady, WkGoto, scanVars, slotVars, Holds, OwnershipInv, TypeOK
  <2>2. CASE NextCandidate(w, best_slot[w], best_seq[w])
    BY <1>3, <1>5, <2>2 DEF ClaimLoadReady
  <2> QED BY <1>5, <2>1, <2>2 DEF ClaimLoadReady
<1>6. CASE ClaimLoadClaimed(w)
  <2>1. CASE WkGoto(w, "load_claimed", "load_seq") /\ UNCHANGED scanVars
    BY <1>2, <1>6, <2>1 DEF ClaimLoadClaimed, WkGoto, scanVars, slotVars, Holds, OwnershipInv, TypeOK
  <2>2. CASE NextCandidate(w, best_slot[w], best_seq[w])
    BY <1>3, <1>6, <2>2 DEF ClaimLoadClaimed
  <2> QED BY <1>6, <2>1, <2>2 DEF ClaimLoadClaimed
<1>7. CASE ClaimLoadSeq(w)
  BY <1>3, <1>7 DEF ClaimLoadSeq
<1>8. CASE ClaimCas(w)
  <2>1. CASE WkGoto(w, "cas", "recheck") /\ UNCHANGED scanVars
    BY <1>2, <1>8, <2>1 DEF ClaimCas, WkGoto, scanVars, Holds, OwnershipInv, TypeOK
  <2>2. CASE ScanFromTop(w)
    BY <1>2, <1>8, <2>2 DEF ClaimCas, ScanFromTop, SetScan, Holds, OwnershipInv, TypeOK
  <2> QED BY <1>8, <2>1, <2>2 DEF ClaimCas
<1>9. CASE ClaimRecheck(w) /\ ~StillSelected(w)
  BY <1>2, <1>9 DEF ClaimRecheck, WkGoto, scanVars, slotVars, Holds, OwnershipInv, TypeOK
<1>10. CASE ClaimUndo(w)
  BY <1>2, <1>10 DEF ClaimUndo, ScanFromTop, SetScan, Holds, OwnershipInv, TypeOK
<1>11. CASE ClaimStorePid(w)
  BY <1>2, <1>11 DEF ClaimStorePid, WkGoto, scanVars, Holds, OwnershipInv, TypeOK
<1>12. CASE WorkerResetSeqPid(w)
  BY <1>2, <1>12 DEF WorkerResetSeqPid, ResetSeqPid, WkGoto, scanVars, Holds, OwnershipInv, TypeOK
<1>13. CASE WorkerResetClaimed(w)
  BY <1>2, <1>13 DEF WorkerResetClaimed, ResetClaimed, WkGoto, SetScan, Holds, OwnershipInv, TypeOK
<1>14. CASE ClaimRecheck(w) /\ StillSelected(w)
  <2> DEFINE b == best_slot[w]
             j == job_id[b]
  <2>1. /\ wk_pc[w] = "recheck" /\ wk_pc' = [wk_pc EXCEPT ![w] = "store_pid"]
        /\ started' = started \cup {j} /\ ready[b]
        /\ UNCHANGED <<ready, job_id, best_slot>>
    BY <1>14 DEF ClaimRecheck, StillSelected, WkGoto, slotVars, scanVars
  <2>2. b \in Slots /\ WorkerOwns(w, b)
    BY <2>1 DEF OwnershipInv, TypeOK, Selected, WorkerOwns
  <2>3. ~Taken(b)
    <3>1. \A v \in Workers : Holds(v) /\ best_slot[v] = b => WorkerOwns(v, b) /\ v # w
      BY <2>1 DEF Holds, WorkerOwns, Selected
    <3>2. mon_pc = "reset_ready" /\ mon_at = b => MonitorOwns(b)
      BY DEF MonitorOwns
    <3> QED BY <2>2, <3>1, <3>2 DEF Taken, OwnershipInv, SlotOwnership
  <2>4. /\ Holds(w)' /\ ~Holds(w)
        /\ \A v \in Workers \ {w} : wk_pc'[v] = wk_pc[v] /\ Holds(v)' = Holds(v)
    BY <2>1 DEF Holds, OwnershipInv, TypeOK
  <2>5. \A s \in Slots : Taken(s)' <=> (Taken(s) \/ s = b)
    BY <1>0, <2>1, <2>4 DEF Taken
  <2>6. Offered(b) /\ \A s \in Slots : Offered(s)' <=> (Offered(s) /\ s # b)
    BY <2>1, <2>2, <2>3, <2>5 DEF Offered
  <2>7. j \in issued /\ j \notin started /\ j \in Jobs
    BY <2>2, <2>6 DEF PoolInv, PublishedJobs, Offered, OwnershipInv, TypeOK
  <2>8. \A s \in Slots : ready[s] /\ s # b => job_id[s] # j
    BY <2>1, <2>2 DEF PoolInv, PublishedJobs
  <2> HIDE DEF b, j
  <2>9. PublishedJobs'
    BY <1>0, <2>1, <2>6, <2>7, <2>8 DEF PoolInv, PublishedJobs, Offered
  <2>10. SubmittedJobs'
    <3>1. \A p \in Submitters : sub_pc[p] \in Unpublished => sub_job[p] # j
      BY <2>1, <2>2 DEF PoolInv, SubmittedJobs, b, j
    <3> QED BY <1>0, <2>1, <3>1 DEF PoolInv, SubmittedJobs
  <2>11. ReapedSlots'
    <3>1. mon_pc # "idle" => mon_pid \in Workers /\ mon_pid # w
      BY <1>0 DEF PoolInv, ReapedSlots, OwnershipInv, TypeOK
    <3>2. wk_pc'[w] = "store_pid"
      BY <2>1 DEF OwnershipInv, TypeOK
    <3> QED BY <1>0, <2>1, <2>4, <3>1, <3>2 DEF PoolInv, ReapedSlots
  <2>12. Pool!Take(w, j)
    <3>1. j \in Pending
      BY <2>2, <2>6, PendingIsOffered DEF j
    <3>2. Pending' = Pending \ {j}
      <4>1. Pending' = {job_id'[s] : s \in {x \in Slots : Offered(x)'}}
        BY DEF Pending, Offered, Taken
      <4>2. ASSUME NEW i, i \in Pending' PROVE i \in Pending \ {j}
        BY <2>1, <2>6, <2>8, <4>1, <4>2, PendingIsOffered DEF Offered
      <4>3. ASSUME NEW i, i \in Pending \ {j} PROVE i \in Pending'
        BY <2>1, <2>6, <4>1, <4>3, PendingIsOffered DEF j
      <4> QED BY <4>2, <4>3
    <3>3. Running[w] = None
      BY <1>1, <2>4 DEF Running
    <3>4. Running' = [Running EXCEPT ![w] = j]
      BY <1>0, <2>1, <2>4 DEF Running, Adopted, b, j
    <3> QED BY <2>1, <2>7, <3>1, <3>2, <3>3, <3>4 DEF Pool!Take
  <2> QED BY <2>7, <2>9, <2>10, <2>11, <2>12 DEF PoolInv, Pool!Next
<1>15. CASE WorkerResetReady(w)
  <2> DEFINE b == best_slot[w]
  <2>1. /\ wk_pc[w] = "work" /\ wk_pc' = [wk_pc EXCEPT ![w] = "reset_seq"]
        /\ ready' = [ready EXCEPT ![b] = FALSE]
        /\ UNCHANGED <<job_id, best_slot, started>>
    BY <1>15 DEF WorkerResetReady, ResetReady, WkGoto, scanVars
  <2>2. Holds(w)
    BY <2>1 DEF Holds
  <2>3. b \in Slots /\ ready[b]
    BY <2>2, HolderOwnsAlone
  <2>4. /\ ~Holds(w)'
        /\ \A v \in Workers \ {w} : wk_pc'[v] = wk_pc[v] /\ Holds(v)' = Holds(v)
    BY <2>1 DEF Holds, OwnershipInv, TypeOK
  <2>5. ~ready'[b] /\ \A s \in Slots \ {b} : ready'[s] = ready[s] /\ Taken(s)' = Taken(s)
    <3>1. ~ready'[b] /\ \A s \in Slots \ {b} : ready'[s] = ready[s]
      BY <2>1, <2>3 DEF OwnershipInv, TypeOK
    <3>2. \A s \in Slots \ {b} : Taken(s)' = Taken(s)
      BY <1>0, <2>1, <2>4 DEF Taken
    <3> QED BY <3>1, <3>2
  <2>6. Taken(b)
    BY <2>2 DEF Taken
  <2>7. \A s \in Slots : (ready'[s] => ready[s]) /\ (Offered(s)' <=> Offered(s))
    BY <2>3, <2>5, <2>6 DEF Offered
  <2>8. job_id[b] \in issued /\ job_id[b] # None
    BY <2>3, ThreadsAssumption DEF PoolInv, PublishedJobs, OwnershipInv, TypeOK
  <2>9. /\ mon_pc # "idle" => mon_pid \in Workers /\ mon_pid # w
        /\ mon_pc = "reset_ready" => mon_at \in Slots /\ mon_at # b
    BY <1>0, <2>2, HolderOwnsAlone DEF PoolInv, ReapedSlots, OwnershipInv, TypeOK, MonitorOwns
  <2>10. \A v \in Workers : wk_pc[v] = "reset_seq" => best_slot[v] \in Slots
    BY DEF OwnershipInv, TypeOK, Selected
  <2> HIDE DEF b
  <2>11. PublishedJobs'
    BY <1>0, <2>1, <2>7 DEF PoolInv, PublishedJobs
  <2>12. SubmittedJobs'
    <3>1. \A p \in Submitters : sub_at[p] \in Slots
      BY DEF OwnershipInv, TypeOK
    <3> QED BY <1>0, <2>1, <2>7, <3>1 DEF PoolInv, SubmittedJobs
  <2>13. ReapedSlots'
    <3>1. mon_pc = "reset_ready" => ready'[mon_at]
      BY <2>5, <2>9 DEF PoolInv, ReapedSlots
    <3>2. \A v \in Workers : wk_pc'[v] = "reset_seq" => ~ready'[best_slot[v]]
      BY <2>4, <2>5, <2>7, <2>10 DEF PoolInv, ReapedSlots, b
    <3> QED BY <1>0, <2>1, <2>4, <2>9, <3>1, <3>2 DEF PoolInv, ReapedSlots
  <2>14. Pool!Release(w)
    <3>1. Pending' = Pending
      <4>1. Pending' = {job_id'[s] : s \in {x \in Slots : Offered(x)'}}
        BY DEF Pending, Offered, Taken
      <4> QED BY <2>1, <2>7, <4>1, PendingIsOffered
    <3>2. Running[w] # None
      BY <2>2, <2>8 DEF Running, b
    <3>3. Running' = [Running EXCEPT ![w] = None]
      BY <1>0, <1>1, <2>1, <2>4 DEF Running, Adopted
    <3> QED BY <2>1, <3>1, <3>2, <3>3 DEF Pool!Release
  <2> QED BY <2>11, <2>12, <2>13, <2>14 DEF PoolInv, Pool!Next
<1> QED BY <1>4, <1>5, <1>6, <1>7, <1>8, <1>9, <1>10, <1>11, <1>12, <1>13, <1>14, <1>15
        DEF Worker

(* A handler thread puts a job in the pool when it publishes the slot; its *)
(* other steps leave the pool alone.                                       *)
LEMMA SubmitterStep ==
  ASSUME OwnershipInv, PoolInv, NEW p \in Submitters, Submitter(p)
  PROVE  [Pool!Next]_(Pool!vars)
<1>0. UNCHANGED <<wk_pc, best_slot, mon_pc, mon_pid, mon_at, started>>
  BY DEF Submitter, scanVars, monVars
<1>1. \A s : Taken(s)' = Taken(s)
  BY <1>0 DEF Taken, Holds
<1>2. sub_at[p] \in Slots
  BY DEF OwnershipInv, TypeOK
<1>3. ASSUME sub_pc[p] \in {"populate", "store_ready"}
      PROVE  /\ ~Taken(sub_at[p]) /\ ~ready[sub_at[p]]
             /\ \A w \in Workers : Holds(w) => best_slot[w] \in Slots /\ best_slot[w] # sub_at[p]
             /\ mon_pc = "reset_ready" => mon_at \in Slots /\ mon_at # sub_at[p]
  <2>1. SubmitterOwns(p, sub_at[p]) /\ ~ready[sub_at[p]]
    BY <1>3 DEF SubmitterOwns, PoolInv, SubmittedJobs, Reserved
  <2>2. ~Taken(sub_at[p])
    BY <1>2, <2>1, ReservedNotTaken
  <2>3. \A w \in Workers : Holds(w) => best_slot[w] \in Slots
    BY DEF Holds, OwnershipInv, TypeOK, Selected
  <2>4. mon_at \in Slots
    BY DEF OwnershipInv, TypeOK
  <2> QED BY <2>1, <2>2, <2>3, <2>4 DEF Taken
<1>4. ASSUME \A w \in Workers : Holds(w) => job_id'[best_slot[w]] = job_id[best_slot[w]],
             mon_pc = "reset_ready" => job_id'[mon_at] = job_id[mon_at]
      PROVE  Running' = Running
  BY <1>0, <1>4 DEF Running, Holds, Adopted
<1>5. Pending' = {job_id'[s] : s \in {x \in Slots : Offered(x)'}}
  BY DEF Pending, Offered, Taken
<1>6. CASE PublishReady(p)
  <2> DEFINE s == sub_at[p]
             j == sub_job[p]
  <2>1. /\ sub_pc[p] = "store_ready" /\ ready' = [ready EXCEPT ![s] = TRUE]
        /\ UNCHANGED job_id
    BY <1>6 DEF PublishReady, SubGoto
  <2>2. /\ j \in Jobs /\ j \notin started /\ job_id[s] = j
        /\ \A t \in Slots : ready[t] => job_id[t] # j
    BY <2>1 DEF PoolInv, SubmittedJobs, Unpublished, OwnershipInv, TypeOK
  <2>3. \A t \in Slots : Offered(t)' <=> (Offered(t) \/ t = s)
    BY <1>1, <1>2, <1>3, <2>1 DEF Offered, OwnershipInv, TypeOK
  <2>4. Running' = Running
    BY <1>4, <2>1
  <2> HIDE DEF s, j
  <2>5. j \notin Pending
    BY <2>2, PendingIsOffered DEF Offered
  <2>6. Pending' = Pending \cup {j}
    <3>1. ASSUME NEW i, i \in Pending' PROVE i \in Pending \cup {j}
      BY <1>5, <2>1, <2>2, <2>3, <3>1, PendingIsOffered
    <3>2. ASSUME NEW i, i \in Pending \cup {j} PROVE i \in Pending'
      BY <1>2, <1>5, <2>1, <2>2, <2>3, <3>2, PendingIsOffered DEF s
    <3> QED BY <3>1, <3>2
  <2>7. Pool!Enqueue(j)
    BY <1>0, <2>2, <2>4, <2>5, <2>6 DEF Pool!Enqueue
  <2> QED BY <2>2, <2>7 DEF Pool!Next
<1>7. CASE Populate(p)
  <2>1. /\ sub_pc[p] = "populate" /\ UNCHANGED ready
        /\ job_id' = [job_id EXCEPT ![sub_at[p]] = sub_job[p]]
    BY <1>7 DEF Populate, SubGoto
  <2>2. \A s \in Slots : s # sub_at[p] => job_id'[s] = job_id[s]
    BY <2>1 DEF OwnershipInv, TypeOK
  <2>3. Running' = Running
    BY <1>3, <1>4, <2>1, <2>2
  <2>4. \A s \in Slots : Offered(s)' = Offered(s) /\ (Offered(s) => s # sub_at[p])
    BY <1>1, <1>3, <2>1 DEF Offered
  <2>5. Pending' = Pending
    <3>1. ASSUME NEW i, i \in Pending' PROVE i \in Pending
      BY <1>5, <2>2, <2>4, <3>1, PendingIsOffered
    <3>2. ASSUME NEW i, i \in Pending PROVE i \in Pending'
      BY <1>5, <2>2, <2>4, <3>2, PendingIsOffered
    <3> QED BY <3>1, <3>2
  <2> QED BY <1>0, <2>3, <2>5 DEF Pool!vars
<1>8. CASE UNCHANGED <<ready, job_id>>
  <2>1. Running' = Running
    BY <1>4, <1>8
  <2>2. Pending' = Pending
    BY <1>1, <1>5, <1>8, PendingIsOffered DEF Offered
  <2> QED BY <1>0, <2>1, <2>2 DEF Pool!vars
<1> QED BY <1>6, <1>7, <1>8 DEF Submitter, BeginSubmit, SubmitLoadReady, SubmitCas, TakeTicket,
           PublishUnclaimed, slotVars

(* The monitor adopts the job of a dead worker, which leaves the pool      *)
(* alone, and releases it when it unpublishes the slot.                    *)
LEMMA MonitorPool ==
  ASSUME OwnershipInv, WorksOnSelectedJob, PoolInv, Monitor
  PROVE  PoolInv' /\ [Pool!Next]_(Pool!vars)
<1>0. UNCHANGED <<issued, sub_pc, sub_at, sub_job, best_slot, started>>
  BY DEF Monitor, subVars, scanVars
<1>1. /\ mon_at \in Slots /\ mon_pid \in Workers \cup {None}
      /\ mon_pc # "idle" => mon_pid \in Workers
      /\ \A p \in Submitters : sub_at[p] \in Slots
      /\ \A w \in Workers : wk_pc[w] = "reset_seq" => best_slot[w] \in Slots
  BY DEF OwnershipInv, TypeOK, Selected
<1>2. ASSUME UNCHANGED <<ready, job_id>>,
             \A w \in Workers : Holds(w)' = Holds(w),
             mon_pc # "reset_ready", mon_pc' # "reset_ready", ReapedSlots'
      PROVE  PoolInv' /\ [Pool!Next]_(Pool!vars)
  <2>1. \A s : Taken(s)' = Taken(s)
    BY <1>0, <1>2 DEF Taken
  <2>2. PublishedJobs'
    BY <1>0, <1>2, <2>1 DEF PoolInv, PublishedJobs, Offered
  <2>3. SubmittedJobs'
    BY <1>0, <1>2 DEF PoolInv, SubmittedJobs
  <2>4. Pending' = Pending
    BY <1>0, <1>2 DEF Pending
  <2>5. Running' = Running
    BY <1>0, <1>2 DEF Running, Adopted
  <2> QED BY <1>0, <1>2, <2>2, <2>3, <2>4, <2>5 DEF PoolInv, Pool!vars
<1>3. ASSUME NextReaped, UNCHANGED <<ready, wk_pc, best_slot>>, mon_pc # "idle"
      PROVE  ReapedSlots' /\ mon_pc' # "reset_ready"
  <2>1. mon_pc' = "idle" \/ (mon_pc' = "check" /\ UNCHANGED <<mon_pid, life>>)
    BY <1>3 DEF NextReaped
  <2> QED BY <1>3, <2>1 DEF PoolInv, ReapedSlots
<1>4. CASE \E w \in Workers : Reap(w)
  <2>1. PICK w \in Workers : Reap(w)
    BY <1>4
  <2>2. ReapedSlots'
    BY <1>0, <2>1 DEF Reap, slotVars, PoolInv, ReapedSlots
  <2> QED BY <1>2, <2>1, <2>2 DEF Reap, slotVars, Holds
<1>5. CASE ReapCheck /\ ~OfDeadWorker
  <2>1. /\ NextReaped /\ UNCHANGED <<ready, job_id, wk_pc>> /\ mon_pc = "check"
    BY <1>5 DEF ReapCheck, slotVars
  <2> QED BY <1>0, <1>2, <1>3, <2>1 DEF Holds
<1>6. CASE ReapCheck /\ OfDeadWorker
  <2> DEFINE d == mon_pid
  <2>1. /\ mon_pc = "check" /\ mon_pc' = "reset_ready"
        /\ wk_pc' = [wk_pc EXCEPT ![d] = "gone"]
        /\ UNCHANGED <<ready, job_id, mon_pid, mon_at, life>>
        /\ ready[mon_at] /\ worker_pid[mon_at] = d
    BY <1>6 DEF ReapCheck, OfDeadWorker, slotVars
  <2>2. d \in Workers /\ d # None
    BY <1>1, <2>1, ThreadsAssumption
  <2>3. best_slot[d] = mon_at /\ wk_pc[d] \in {"work", "reset_seq"}
    BY <1>1, <2>1, <2>2 DEF OwnershipInv, PidNamesOwner, WorkerOwns
  <2>4. wk_pc[d] = "work"
    BY <2>1, <2>2, <2>3 DEF PoolInv, ReapedSlots
  <2>5. /\ Holds(d) /\ ~Holds(d)' /\ wk_pc'[d] = "gone"
        /\ \A w \in Workers \ {d} : wk_pc'[w] = wk_pc[w] /\ Holds(w)' = Holds(w)
    BY <2>1, <2>2, <2>4 DEF Holds, OwnershipInv, TypeOK
  <2> HIDE DEF d
  <2>6. \A s : Taken(s)' = Taken(s)
    BY <1>0, <2>1, <2>2, <2>3, <2>5 DEF Taken
  <2>7. PublishedJobs'
    BY <1>0, <2>1, <2>6 DEF PoolInv, PublishedJobs, Offered
  <2>8. SubmittedJobs'
    BY <1>0, <2>1 DEF PoolInv, SubmittedJobs
  <2>9. ReapedSlots'
    BY <1>0, <2>1, <2>2, <2>5 DEF PoolInv, ReapedSlots, d
  <2>10. Pending' = Pending
    <3>1. Pending' = {job_id'[s] : s \in {x \in Slots : Offered(x)'}}
      BY DEF Pending, Offered, Taken
    <3> QED BY <2>1, <2>6, <3>1, PendingIsOffered DEF Offered
  <2>11. Running' = Running
    <3> SUFFICES ASSUME NEW w \in Workers PROVE Running'[w] = Running[w]
      BY DEF Running
    <3>1. CASE w = d
      BY <2>1, <2>3, <2>5, <3>1 DEF Running, Adopted, d
    <3>2. CASE w # d
      BY <1>0, <2>1, <2>5, <3>2 DEF Running, Adopted, d
    <3> QED BY <3>1, <3>2
  <2> QED BY <1>0, <2>7, <2>8, <2>9, <2>10, <2>11 DEF PoolInv, Pool!vars
<1>7. CASE ReapResetReady
  <2>1. /\ mon_pc = "reset_ready" /\ mon_pc' = "reset_seq"
        /\ ready' = [ready EXCEPT ![mon_at] = FALSE]
        /\ UNCHANGED <<job_id, wk_pc, life, mon_pid, mon_at>>
    BY <1>7 DEF ReapResetReady, ResetReady
  <2>2. /\ ready[mon_at] /\ wk_pc[mon_pid] = "gone" /\ Taken(mon_at)
        /\ ~Holds(mon_pid) /\ Adopted(mon_pid) /\ mon_pid \in Workers
    BY <1>1, <2>1 DEF PoolInv, ReapedSlots, Taken, Holds, Adopted
  <2>3. ~ready'[mon_at] /\ \A s \in Slots \ {mon_at} : ready'[s] = ready[s]
    BY <1>1, <2>1 DEF OwnershipInv, TypeOK
  <2>4. \A s \in Slots \ {mon_at} : Taken(s)' = Taken(s)
    BY <1>0, <2>1 DEF Taken, Holds
  <2>5. \A s \in Slots : (ready'[s] => ready[s]) /\ (Offered(s)' <=> Offered(s))
    BY <2>2, <2>3, <2>4 DEF Offered
  <2>6. job_id[mon_at] # None
    BY <1>1, <2>2, ThreadsAssumption DEF PoolInv, PublishedJobs, OwnershipInv, TypeOK
  <2>7. PublishedJobs'
    BY <1>0, <2>1, <2>5 DEF PoolInv, PublishedJobs
  <2>8. SubmittedJobs'
    BY <1>0, <1>1, <2>1, <2>5 DEF PoolInv, SubmittedJobs
  <2>9. ReapedSlots'
    BY <1>0, <1>1, <2>1, <2>5 DEF PoolInv, ReapedSlots
  <2>10. Pool!Release(mon_pid)
    <3>1. Pending' = Pending
      <4>1. Pending' = {job_id'[s] : s \in {x \in Slots : Offered(x)'}}
        BY DEF Pending, Offered, Taken
      <4> QED BY <2>1, <2>5, <4>1, PendingIsOffered
    <3>2. Running[mon_pid] # None
      BY <2>2, <2>6 DEF Running
    <3>3. Running' = [Running EXCEPT ![mon_pid] = None]
      <4> SUFFICES ASSUME NEW w \in Workers
                   PROVE  Running'[w] = IF w = mon_pid THEN None ELSE Running[w]
        BY <2>2 DEF Running
      <4> QED BY <1>0, <2>1, <2>2 DEF Running, Holds, Adopted
    <3> QED BY <1>0, <3>1, <3>2, <3>3 DEF Pool!Release
  <2> QED BY <2>2, <2>7, <2>8, <2>9, <2>10 DEF PoolInv, Pool!Next
<1>8. CASE ReapResetSeqPid
  <2>1. ReapedSlots'
    BY <1>0, <1>8 DEF ReapResetSeqPid, ResetSeqPid, PoolInv, ReapedSlots
  <2> QED BY <1>2, <1>8, <2>1 DEF ReapResetSeqPid, ResetSeqPid, Holds
<1>9. CASE ReapResetClaimed
  <2>1. /\ NextReaped /\ UNCHANGED <<ready, job_id, wk_pc>> /\ mon_pc = "reset_claimed"
    BY <1>9 DEF ReapResetClaimed, ResetClaimed
  <2> QED BY <1>0, <1>2, <1>3, <2>1 DEF Holds
<1> QED BY <1>4, <1>5, <1>6, <1>7, <1>8, <1>9 DEF Monitor

-----------------------------------------------------------------------------
(* Every step keeps the invariant and is a step of the pool, or leaves the *)
(* pool as it is.                                                          *)
LEMMA PoolStep ==
  ASSUME OwnershipInv, WorksOnSelectedJob, PoolInv, ReservedSlotIsFree', [Next]_vars
  PROVE  PoolInv' /\ [Pool!Next]_(Pool!vars)
<1>1. ASSUME NEW p \in Submitters, Submitter(p) PROVE PoolInv' /\ [Pool!Next]_(Pool!vars)
  BY <1>1, SubmitterPool, SubmitterStep
<1>2. ASSUME NEW w \in Workers, Die(w) PROVE PoolInv' /\ [Pool!Next]_(Pool!vars)
  <2>1. /\ UNCHANGED <<ready, job_id, issued, started, sub_pc, sub_at, sub_job, wk_pc,
                       best_slot, mon_pc, mon_pid, mon_at>>
        /\ life[w] = "alive" /\ life' = [life EXCEPT ![w] = "dead"]
    BY <1>2 DEF Die, slotVars, subVars, scanVars, monVars
  <2>2. PublishedJobs' /\ SubmittedJobs'
    BY <2>1 DEF PoolInv, PublishedJobs, SubmittedJobs, Offered, Taken, Holds
  <2>3. ReapedSlots'
    BY <2>1 DEF PoolInv, ReapedSlots, OwnershipInv, TypeOK
  <2>4. UNCHANGED <<Pending, Running>>
    BY <2>1 DEF Pending, Running, Holds, Adopted
  <2> QED BY <2>1, <2>2, <2>3, <2>4 DEF PoolInv, Pool!vars
<1>3. CASE UNCHANGED vars
  <2>1. UNCHANGED <<ready, job_id, issued, started, sub_pc, sub_at, sub_job, wk_pc,
                    best_slot, life, mon_pc, mon_pid, mon_at>>
    BY <1>3 DEF vars, slotVars, subVars, scanVars, monVars
  <2>2. PoolInv'
    BY <2>1 DEF PoolInv, PublishedJobs, SubmittedJobs, ReapedSlots, Offered, Taken, Holds
  <2>3. UNCHANGED <<Pending, Running>>
    BY <2>1 DEF Pending, Running, Holds, Adopted
  <2> QED BY <2>1, <2>2, <2>3 DEF Pool!vars
<1> QED BY <1>1, <1>2, <1>3, WorkerPool, MonitorPool DEF Next

(* The slots implement the job pool as long as no handler thread reserves  *)
(* a slot that is published: that race, between the load of `ready' and    *)
(* the exchange on `claimed' in submit_job_async, is the only way in which *)
(* a job can be lost, taken twice or brought back by a death.              *)
THEOREM PoolUnlessReservedTwice == Spec /\ []ReservedSlotIsFree => PoolSpec
<1>1. Init => OwnershipInv /\ PoolInv /\ Pool!Init
  BY InitOwnership, InitPool
<1>2. OwnershipInv /\ WorksOnSelectedJob /\ PoolInv /\ ReservedSlotIsFree' /\ [Next]_vars
        => PoolInv' /\ [Pool!Next]_(Pool!vars)
  BY PoolStep
<1> QED BY <1>1, <1>2, OwnershipStep, SelectionTheorem, PTL DEF Spec, PoolSpec, Pool!Spec

(* A thread that has seen a free slot finds it free, when no other thread  *)
(* publishes.                                                              *)
SeenFree ==
    \A p \in Submitters : sub_pc[p] \in {"cas", "populate"} => ~ready[sub_at[p]]

(* With one handler thread at a time the slots implement the job pool: a   *)
(* published job stays pending until exactly one worker takes it, and no   *)
(* job is taken twice, wherever workers die.                               *)
THEOREM OneThreadPool ==
  ASSUME NEW CONSTANT p, Submitters = {p}
  PROVE  Spec => []ReservedSlotIsFree /\ PoolSpec
<1>1. Init => SeenFree
  BY DEF Init, SeenFree
<1>2. TypeOK /\ SeenFree /\ [Next]_vars => SeenFree'
  <2> SUFFICES ASSUME TypeOK, SeenFree, [Next]_vars PROVE SeenFree'
    OBVIOUS
  <2>0. sub_at[p] \in Slots /\ \A w \in Workers : best_slot[w] \in Slots \cup {0}
    BY DEF TypeOK
  <2>1. CASE Submitter(p)
    BY <2>0, <2>1 DEF Submitter, BeginSubmit, SubmitLoadReady, SubmitCas, Populate, TakeTicket,
       PublishReady, PublishUnclaimed, NextFreeCandidate, SubmitReturns, SubGoto, slotVars,
       SeenFree, TypeOK
  <2>2. ASSUME UNCHANGED <<sub_pc, sub_at>>, \A s \in Slots : ready'[s] => ready[s]
        PROVE  SeenFree'
    BY <2>0, <2>2 DEF SeenFree
  <2>3. ASSUME NEW w \in Workers, Worker(w) \/ Die(w) PROVE SeenFree'
    <3>1. UNCHANGED <<sub_pc, sub_at>>
      BY <2>3 DEF Worker, Die, subVars
    <3>2. UNCHANGED ready \/ ready' = [ready EXCEPT ![best_slot[w]] = FALSE]
      BY <2>3 DEF Worker, Die, BeginClaim, ClaimLoadReady, ClaimLoadClaimed, ClaimLoadSeq,
         ClaimCas, ClaimRecheck, ClaimUndo, ClaimStorePid, WorkerResetReady, WorkerResetSeqPid,
         WorkerResetClaimed, ResetReady, ResetSeqPid, ResetClaimed, slotVars
    <3> QED BY <2>2, <3>1, <3>2 DEF TypeOK
  <2>4. CASE Monitor
    <3>1. UNCHANGED <<sub_pc, sub_at>>
      BY <2>4 DEF Monitor, subVars
    <3>2. UNCHANGED ready \/ ready' = [ready EXCEPT ![mon_at] = FALSE]
      BY <2>4 DEF Monitor, Reap, ReapCheck, ReapResetReady, ReapResetSeqPid, ReapResetClaimed,
         ResetReady, ResetSeqPid, ResetClaimed, slotVars
    <3> QED BY <2>2, <3>1, <3>2 DEF TypeOK
  <2>5. CASE UNCHANGED vars
    BY <2>2, <2>5 DEF vars, slotVars, subVars
  <2> QED BY <2>1, <2>3, <2>4, <2>5 DEF Next
<1>3. SeenFree => ReservedSlotIsFree
  BY DEF SeenFree, ReservedSlotIsFree
<1> QED BY <1>1, <1>2, <1>3, TypeCorrect, PoolUnlessReservedTwice, PTL DEF Spec
=============================================================================
