--------------------------- MODULE JobWait_proofs ---------------------------
(* Theorems about WaitForCompletion, for any finite number of calls and    *)
(* any number of crashes.                                                  *)
EXTENDS JobWait, FiniteSetTheorems, TLAPS

(* The invariant. *)

InLoop == {"loop", "poll", "answer", "recheck"}

(* A handler holds a JobWaiter from its registration to its answer. *)
HoldsWaiter == \A h \in Handlers : pc[h] \in InLoop <=> waiter[h] # 0

(* No more JobWaiters are made than handlers have registered. *)
MadeByHandlers == made <= Cardinality({h \in Handlers : pc[h] \notin {"idle", "register"}})

(* A JobWaiter that is new, or can still be found, has not been signalled. *)
Unsignalled ==
    \A g \in JobWaiters : g > made \/ g = waiting => ~w_ready[g] /\ ~w_success[g]

(* Whoever signals, or was signalled, comes after the end of the job. *)
SignalledAfterEnd ==
    \/ \E g \in JobWaiters : w_ready[g]
    \/ \E h \in Handlers : pc[h] \in {"answer", "recheck"}
    \/ "signal" \in {io_pc, can_pc, stop_pc}
    => tracker # "ACTIVE"

(* A call under way has seen the success it is, or will be, told of; or it *)
(* has seen the job deleted.                                               *)
SawSuccess(h) == "COMPLETED" \in seen[h] \/ "NOT_FOUND" \in seen[h]

SuccessWasSeen ==
    \A h \in Handlers : InCall(h) =>
      /\ io_pc = "signal" /\ io_out = "SUCCESS" => SawSuccess(h)
      /\ waiter[h] # 0 /\ w_success[waiter[h]] => SawSuccess(h)

NoEarlyReply == \A h \in Handlers : pc[h] # "done" => reply[h] = "none"

WaitInv ==
    /\ TypeOK /\ HoldsWaiter /\ MadeByHandlers /\ Unsignalled /\ SignalledAfterEnd
    /\ SuccessWasSeen /\ NoEarlyReply /\ AnswerWasTrue

-----------------------------------------------------------------------------
(* Lemmas. *)

(* What the history records, by case. *)
LEMMA Observed ==
  ASSUME Observe, NEW h \in Handlers
  PROVE  /\ pc'[h] = pc[h] /\ ~InCall(h) => seen'[h] = seen[h]
         /\ pc'[h] # pc[h] /\ pc'[h] = "done" =>
              seen'[h] = (seen[h] \cup {tracker'}) \cap {reply'[h], "NOT_FOUND"}
         /\ ~(pc'[h] = pc[h] /\ ~InCall(h)) /\ ~(pc'[h] # pc[h] /\ pc'[h] = "done") =>
              seen'[h] = (seen[h] \cup {tracker'}) \ {"ACTIVE"}
  BY DEF Observe

(* The number of handlers is a bound on the number of JobWaiters. *)
LEMMA HandlerCount ==
  ASSUME NEW S \in SUBSET Handlers
  PROVE  /\ IsFiniteSet(S) /\ Cardinality(S) \in Nat /\ Cardinality(Handlers) \in Nat
         /\ Cardinality(S) <= Cardinality(Handlers)
<1>1. IsFiniteSet(S) /\ Cardinality(S) <= Cardinality(Handlers)
  BY HandlersAssumption, FS_Subset
<1> QED BY <1>1, HandlersAssumption, FS_CardinalityType

(* A handler that has yet to register finds a number for its JobWaiter. *)
LEMMA RoomForWaiter ==
  ASSUME TypeOK, MadeByHandlers, NEW h \in Handlers, pc[h] = "register"
  PROVE  /\ made + 1 \in JobWaiters
         /\ made + 1 <= Cardinality({g \in Handlers : pc[g] \notin {"idle", "register"}} \cup {h})
<1> DEFINE S == {g \in Handlers : pc[g] \notin {"idle", "register"}}
<1>1. S \subseteq Handlers /\ S \cup {h} \subseteq Handlers /\ h \notin S
  OBVIOUS
<1>2. made <= Cardinality(S)
  BY DEF MadeByHandlers
<1> HIDE DEF S
<1>3. /\ IsFiniteSet(S) /\ Cardinality(S) \in Nat /\ Cardinality(Handlers) \in Nat
      /\ Cardinality(S \cup {h}) <= Cardinality(Handlers) /\ Cardinality(S \cup {h}) \in Nat
  BY <1>1, HandlerCount
<1>4. Cardinality(S \cup {h}) = Cardinality(S) + 1
  BY <1>1, <1>3, FS_AddElement
<1>5. made \in Nat
  BY <1>3 DEF TypeOK
<1>6. made + 1 \in JobWaiters /\ made + 1 <= Cardinality(S \cup {h})
  BY <1>2, <1>3, <1>4, <1>5 DEF JobWaiters
<1> QED BY <1>6 DEF S

(* The status of the outcome of a result. *)
LEMMA StatusOfOutcome ==
  ASSUME NEW out \in Outcome
  PROVE  StatusOf(out) \in Terminal /\ (out = "SUCCESS" => StatusOf(out) = "COMPLETED")
  BY DEF Outcome, Terminal, StatusOf

(* A signal keeps the types. *)
LEMMA SignalTypes ==
  ASSUME TypeOK, NEW success \in BOOLEAN, Signal(success)
  PROVE  /\ made' = made /\ waiting' \in 0..made
         /\ {w_ready', w_success'} \subseteq [JobWaiters -> BOOLEAN]
<1>1. made \in Nat /\ waiting' = 0 /\ made' = made
  BY HandlerCount DEF TypeOK, Signal
<1>2. w_ready' \in [JobWaiters -> BOOLEAN] /\ w_success' \in [JobWaiters -> BOOLEAN]
  BY DEF TypeOK, Signal
<1> QED BY <1>1, <1>2

(* No call has been made yet. *)
LEMMA InitWait == Init => WaitInv
<1> SUFFICES ASSUME Init PROVE WaitInv
  OBVIOUS
<1> USE DEF Init
<1>1. /\ 0 \in 0..Cardinality(Handlers) /\ 0 \in 0..MaxFaults /\ 0 \in 0..0
      /\ 0 <= Cardinality({h \in Handlers : pc[h] \notin {"idle", "register"}})
  <2>1. {h \in Handlers : pc[h] \notin {"idle", "register"}} \in SUBSET Handlers
    OBVIOUS
  <2> QED BY <2>1, HandlerCount, FlagsAssumption
<1>2. TypeOK
  <2>1. <<>> \in Seq(Outcome) /\ "ERROR" \in Outcome
    BY DEF Outcome
  <2>2. waiter \in [Handlers -> 0..made] /\ waiting \in 0..made
    BY <1>1
  <2>3. {w_ready, w_success} \subseteq [JobWaiters -> BOOLEAN]
    OBVIOUS
  <2> QED BY <1>1, <2>1, <2>2, <2>3 DEF TypeOK
<1>3. HoldsWaiter /\ MadeByHandlers
  BY <1>1 DEF HoldsWaiter, MadeByHandlers, InLoop
<1>4. Unsignalled /\ SignalledAfterEnd /\ SuccessWasSeen /\ NoEarlyReply /\ AnswerWasTrue
  BY DEF Unsignalled, SignalledAfterEnd, SuccessWasSeen, InCall, NoEarlyReply, AnswerWasTrue
<1> QED BY <1>2, <1>3, <1>4 DEF WaitInv

-----------------------------------------------------------------------------
(* Steps of the others.  A step that does not move a handler may end the   *)
(* job, but not bring it back; it may signal, once the job has ended, and  *)
(* with success only what result_retrieval_thread stored.                  *)
LEMMA OthersStep ==
  ASSUME WaitInv, TypeOK', Observe, UNCHANGED handVars,
         tracker # "ACTIVE" => tracker' # "ACTIVE",
         "signal" \in {io_pc', can_pc', stop_pc'} => tracker' # "ACTIVE",
         io_pc' = "signal" /\ io_out' = "SUCCESS" =>
           (io_pc = "signal" /\ io_out = "SUCCESS") \/ tracker' \in {"COMPLETED", "NOT_FOUND"},
         \/ UNCHANGED waitVars
         \/ \E success \in BOOLEAN :
              /\ Signal(success) /\ tracker # "ACTIVE"
              /\ success => io_pc = "signal" /\ io_out = "SUCCESS"
  PROVE  WaitInv'
<1> USE DEF WaitInv, handVars
<1>1. made' = made /\ (waiting' = waiting \/ waiting' = 0)
  BY DEF waitVars, Signal
<1>2. HoldsWaiter' /\ MadeByHandlers' /\ NoEarlyReply'
  BY <1>1 DEF HoldsWaiter, MadeByHandlers, NoEarlyReply
<1>3. Unsignalled'
  <2>1. CASE UNCHANGED waitVars
    BY <2>1 DEF Unsignalled, waitVars
  <2>2. ASSUME NEW success \in BOOLEAN, Signal(success) PROVE Unsignalled'
    <3> SUFFICES ASSUME NEW g \in JobWaiters, g > made \/ g = 0
                 PROVE  ~w_ready'[g] /\ ~w_success'[g]
      BY <2>2 DEF Unsignalled, Signal
    <3>1. /\ made \in Nat /\ waiting \in Nat /\ waiting <= made
          /\ g \in Nat /\ g # 0
      BY HandlerCount DEF TypeOK, JobWaiters
    <3>2. g # waiting
      BY <3>1
    <3> QED BY <2>2, <3>1, <3>2 DEF Signal, Unsignalled
  <2> QED BY <2>1, <2>2
<1>4. SignalledAfterEnd'
  <2>1. (\E g \in JobWaiters : w_ready'[g]) => tracker # "ACTIVE"
    BY DEF waitVars, Signal, SignalledAfterEnd
  <2> QED BY <2>1 DEF SignalledAfterEnd
<1>5. ASSUME NEW h \in Handlers, InCall(h)
      PROVE  /\ SawSuccess(h) => SawSuccess(h)'
             /\ tracker' \in {"COMPLETED", "NOT_FOUND"} => SawSuccess(h)'
  <2>1. seen'[h] = (seen[h] \cup {tracker'}) \ {"ACTIVE"}
    BY <1>5, Observed
  <2> QED BY <2>1 DEF SawSuccess
<1>6. SuccessWasSeen'
  <2> SUFFICES ASSUME NEW h \in Handlers, InCall(h)
               PROVE  /\ io_pc' = "signal" /\ io_out' = "SUCCESS" => SawSuccess(h)'
                      /\ waiter[h] # 0 /\ w_success'[waiter[h]] => SawSuccess(h)'
    BY DEF SuccessWasSeen, InCall
  <2>1. io_pc' = "signal" /\ io_out' = "SUCCESS" => SawSuccess(h)'
    BY <1>5 DEF SuccessWasSeen
  <2>2. ASSUME waiter[h] # 0, w_success'[waiter[h]] PROVE SawSuccess(h)'
    <3>0. waiter[h] \in JobWaiters
      BY <2>2, HandlerCount DEF TypeOK, JobWaiters
    <3>1. w_success[waiter[h]] \/ (io_pc = "signal" /\ io_out = "SUCCESS")
      BY <2>2, <3>0 DEF waitVars, Signal
    <3> QED BY <1>5, <2>2, <3>1 DEF SuccessWasSeen
  <2> QED BY <2>1, <2>2
<1>7. AnswerWasTrue'
  <2> SUFFICES ASSUME NEW h \in Handlers
               PROVE  \/ reply[h] \in {"none", "client_cancelled"} \cup seen'[h]
                      \/ reply[h] = "COMPLETED" /\ "NOT_FOUND" \in seen'[h]
    BY DEF AnswerWasTrue
  <2>1. CASE InCall(h)
    BY <2>1 DEF InCall, NoEarlyReply
  <2>2. CASE ~InCall(h)
    BY <2>2, Observed DEF AnswerWasTrue
  <2> QED BY <2>1, <2>2
<1> QED BY <1>2, <1>3, <1>4, <1>6, <1>7

(* The worker, and the monitor when it has died. *)
LEMMA WorkerStep ==
  ASSUME WaitInv, Worker, Observe
  PROVE  WaitInv'
<1>0. UNCHANGED <<waitVars, handVars, ioVars, canVars, stop_pc>>
  BY DEF Worker
<1> USE <1>0 DEF WaitInv, ioVars, canVars, handVars, waitVars
<1>1. /\ work' \in {"run", "published", "dead", "marked", "gone"} /\ flag' = flag
      /\ tracker' \in {tracker, "CANCELLED", "FAILED"}
      /\ faults' = faults \/ (faults < MaxFaults /\ faults' = faults + 1)
  BY DEF Worker, WorkerPublish, WorkerReset, WorkerDie, MonitorResult, MonitorStatus
<1>2. faults' \in 0..MaxFaults
  BY <1>1, FlagsAssumption DEF TypeOK
<1>3. results' \in Seq(Outcome)
  <2>1. results' = results \/ \E out \in Outcome : results' = Append(results, out)
    BY DEF Worker, WorkerPublish, WorkerReset, WorkerDie, MonitorResult, MonitorStatus, Outcome
  <2>2. results \in Seq(Outcome)
    BY DEF TypeOK
  <2> QED BY <2>1, <2>2
<1>4. TypeOK'
  BY <1>1, <1>2, <1>3 DEF TypeOK, Terminal
<1>5. /\ tracker # "ACTIVE" => tracker' # "ACTIVE"
      /\ "signal" \in {io_pc, can_pc, stop_pc} => tracker # "ACTIVE"
  BY <1>1 DEF SignalledAfterEnd
<1> QED BY <1>4, <1>5, OthersStep

(* result_retrieval_thread *)
LEMMA CollectorStep ==
  ASSUME WaitInv, Collector, Observe
  PROVE  WaitInv'
<1>0. UNCHANGED <<handVars, canVars, stop_pc>>
  BY DEF Collector
<1> USE <1>0 DEF WaitInv, canVars, handVars
<1>1. CASE CollectStore
  <2>1. /\ results # <<>> /\ results \in Seq(Outcome) /\ io_out' = Head(results)
        /\ results' = Tail(results) /\ io_pc' = "signal"
        /\ tracker' = IF tracker = "NOT_FOUND" THEN tracker ELSE StatusOf(Head(results))
        /\ UNCHANGED <<work, flag, faults, waitVars>>
    BY <1>1 DEF CollectStore, TypeOK
  <2>2. Head(results) \in Outcome /\ Tail(results) \in Seq(Outcome)
    BY <2>1
  <2>3. /\ tracker' \in {"NOT_FOUND"} \cup Terminal
        /\ io_out' = "SUCCESS" => tracker' \in {"COMPLETED", "NOT_FOUND"}
    BY <2>1, <2>2, StatusOfOutcome
  <2>4. TypeOK'
    BY <2>1, <2>2, <2>3 DEF TypeOK, waitVars
  <2>5. tracker' # "ACTIVE"
    BY <2>3 DEF Terminal
  <2> QED BY <2>1, <2>3, <2>4, <2>5, OthersStep
<1>2. CASE CollectSignal
  <2>1. /\ io_pc = "signal" /\ io_pc' = "idle" /\ io_out' = "ERROR" /\ Signal(io_out = "SUCCESS")
        /\ UNCHANGED <<tracker, work, flag, results, faults>>
    BY <1>2 DEF CollectSignal, envVars
  <2>2. tracker # "ACTIVE"
    BY <2>1 DEF SignalledAfterEnd
  <2>3. TypeOK'
    BY <2>1, SignalTypes DEF TypeOK, Outcome
  <2> QED BY <2>1, <2>2, <2>3, OthersStep
<1> QED BY <1>1, <1>2 DEF Collector

(* cancel_job and delete_job *)
LEMMA CancellerStep ==
  ASSUME WaitInv, Canceller, Observe
  PROVE  WaitInv'
<1>0. UNCHANGED <<handVars, ioVars, stop_pc>>
  BY DEF Canceller, CancelContinues
<1> USE <1>0 DEF WaitInv, ioVars, handVars
<1>1. ASSUME NEW del \in BOOLEAN, CancelStatus(del) PROVE WaitInv'
  <2>1. /\ can_delete' \in BOOLEAN /\ UNCHANGED <<work, results, faults, waitVars>>
        /\ tracker' \in {tracker, "CANCELLED"} /\ tracker' # "ACTIVE"
        /\ can_pc' \in {"signal", "erase"}
    BY <1>1 DEF CancelStatus
  <2>2. flag' \in BOOLEAN
    BY <1>1 DEF CancelStatus, TypeOK
  <2>3. TypeOK'
    BY <2>1, <2>2 DEF TypeOK, waitVars, Terminal
  <2> QED BY <2>1, <2>3, OthersStep
<1>2. CASE CancelSignal
  <2>1. /\ can_pc = "signal" /\ can_pc' \in {"erase", "idle"} /\ Signal(FALSE)
        /\ UNCHANGED <<tracker, work, flag, results, faults, can_delete>>
    BY <1>2 DEF CancelSignal, envVars
  <2>2. tracker # "ACTIVE"
    BY <2>1 DEF SignalledAfterEnd
  <2>3. TypeOK'
    BY <2>1, SignalTypes DEF TypeOK
  <2> QED BY <2>1, <2>2, <2>3, OthersStep
<1>3. CASE DeleteErase
  <2>1. /\ can_pc' = "idle" /\ can_delete' = FALSE /\ tracker' = "NOT_FOUND"
        /\ UNCHANGED <<work, flag, results, faults, waitVars>>
    BY <1>3 DEF DeleteErase, envVars
  <2>2. TypeOK'
    BY <2>1 DEF TypeOK, waitVars
  <2> QED BY <2>1, <2>2, OthersStep
<1> QED BY <1>1, <1>2, <1>3 DEF Canceller, CancelContinues

(* cancel_all_active_jobs_for_shutdown *)
LEMMA ShutdownStep ==
  ASSUME WaitInv, Shutdown, Observe
  PROVE  WaitInv'
<1>0. UNCHANGED <<handVars, ioVars, canVars>>
  BY DEF Shutdown
<1> USE <1>0 DEF WaitInv, ioVars, canVars, handVars
<1>1. CASE ShutdownStatus
  <2>1. /\ faults < MaxFaults /\ faults' = faults + 1 /\ stop_pc' = "signal"
        /\ tracker' = (IF tracker = "ACTIVE" THEN "CANCELLED" ELSE tracker)
        /\ UNCHANGED <<work, results, waitVars>>
    BY <1>1 DEF ShutdownStatus
  <2>2. flag' \in BOOLEAN
    BY <1>1 DEF ShutdownStatus, TypeOK
  <2>3. faults' \in 0..MaxFaults
    BY <2>1, FlagsAssumption DEF TypeOK
  <2>4. TypeOK' /\ tracker' # "ACTIVE"
    BY <2>1, <2>2, <2>3 DEF TypeOK, waitVars, Terminal
  <2> QED BY <2>1, <2>4, OthersStep
<1>2. CASE ShutdownSignal
  <2>1. /\ stop_pc = "signal" /\ stop_pc' = "done" /\ Signal(FALSE)
        /\ UNCHANGED <<tracker, work, flag, results, faults>>
    BY <1>2 DEF ShutdownSignal, envVars
  <2>2. tracker # "ACTIVE"
    BY <2>1 DEF SignalledAfterEnd
  <2>3. TypeOK'
    BY <2>1, SignalTypes DEF TypeOK
  <2> QED BY <2>1, <2>2, <2>3, OthersStep
<1> QED BY <1>1, <1>2 DEF Shutdown

-----------------------------------------------------------------------------
(* Steps of a handler.  One handler moves: it does not touch the job, and  *)
(* its own part of the invariant is shown for each of its steps.           *)
LEMMA HandlerFrame ==
  ASSUME WaitInv, TypeOK', Observe, NEW h \in Handlers,
         UNCHANGED <<tracker, envVars, ioVars, canVars, stop_pc, w_ready, w_success>>,
         \A g \in Handlers \ {h} : pc'[g] = pc[g] /\ waiter'[g] = waiter[g] /\ reply'[g] = reply[g],
         pc'[h] \in InLoop <=> waiter'[h] # 0,
         pc'[h] # pc[h],
         pc'[h] \in {"answer", "recheck"} => tracker # "ACTIVE",
         pc'[h] # "done" => reply'[h] = "none",
         MadeByHandlers', Unsignalled',
         InCall(h)' => /\ io_pc = "signal" /\ io_out = "SUCCESS" => SawSuccess(h)
                       /\ waiter'[h] # 0 /\ w_success[waiter'[h]] => SawSuccess(h),
         pc'[h] = "done" => \/ reply'[h] \in {"client_cancelled", tracker}
                            \/ reply'[h] = "COMPLETED" /\ SawSuccess(h)
  PROVE  WaitInv'
<1> USE DEF WaitInv, ioVars, canVars
<1>1. HoldsWaiter' /\ NoEarlyReply'
  BY DEF HoldsWaiter, NoEarlyReply
<1>2. SignalledAfterEnd'
  BY DEF SignalledAfterEnd
<1>3. \A g \in Handlers : InCall(g)' /\ SawSuccess(g) => SawSuccess(g)'
  BY Observed DEF InCall, SawSuccess
<1>4. SuccessWasSeen'
  <2> SUFFICES ASSUME NEW g \in Handlers, InCall(g)'
               PROVE  /\ io_pc = "signal" /\ io_out = "SUCCESS" => SawSuccess(g)'
                      /\ waiter'[g] # 0 /\ w_success[waiter'[g]] => SawSuccess(g)'
    BY DEF SuccessWasSeen
  <2>1. CASE g = h
    BY <1>3, <2>1
  <2>2. CASE g # h
    BY <1>3, <2>2 DEF SuccessWasSeen, InCall
  <2> QED BY <2>1, <2>2
<1>5. AnswerWasTrue'
  <2> SUFFICES ASSUME NEW g \in Handlers
               PROVE  \/ reply'[g] \in {"none", "client_cancelled"} \cup seen'[g]
                      \/ reply'[g] = "COMPLETED" /\ "NOT_FOUND" \in seen'[g]
    BY DEF AnswerWasTrue
  <2>1. CASE g = h /\ pc'[h] = "done"
    <3>1. seen'[h] = (seen[h] \cup {tracker}) \cap {reply'[h], "NOT_FOUND"}
      BY <2>1, Observed
    <3> QED BY <2>1, <3>1 DEF SawSuccess
  <2>2. CASE pc'[g] # "done"
    BY <2>2 DEF NoEarlyReply
  <2>3. CASE g # h /\ pc'[g] = "done"
    BY <2>3, Observed DEF AnswerWasTrue, InCall
  <2> QED BY <2>1, <2>2, <2>3
<1> QED BY <1>1, <1>2, <1>4, <1>5

(* A handler that moves on or answers keeps the types, and the number of   *)
(* handlers that have registered does not fall.                            *)
LEMMA HandlerMoves ==
  ASSUME WaitInv, NEW h \in Handlers, pc[h] # "done",
         NEW to \in {"register", "loop", "poll", "answer", "recheck", "done"},
         to = "register" => pc[h] = "idle",
         pc' = [pc EXCEPT ![h] = to],
         NEW r \in {"none", "client_cancelled", "NOT_FOUND"} \cup Terminal,
         reply' = [reply EXCEPT ![h] = r],
         NEW w \in 0..made, waiter' = [waiter EXCEPT ![h] = w],
         UNCHANGED <<waitVars, tracker, envVars, ioVars, canVars, stop_pc>>
  PROVE  TypeOK' /\ MadeByHandlers' /\ Unsignalled'
<1> USE DEF WaitInv, waitVars, envVars, ioVars, canVars
<1>1. TypeOK'
  BY DEF TypeOK
<1>2. Unsignalled'
  BY DEF Unsignalled
<1>3. MadeByHandlers'
  <2> DEFINE S == {g \in Handlers : pc[g] \notin {"idle", "register"}}
             T == {g \in Handlers : pc'[g] \notin {"idle", "register"}}
  <2>1. S \subseteq T /\ S \subseteq Handlers /\ T \subseteq Handlers
    BY DEF TypeOK
  <2>2. made <= Cardinality(S) /\ made \in Nat
    BY HandlerCount DEF MadeByHandlers, TypeOK
  <2> HIDE DEF S, T
  <2>3. IsFiniteSet(T) /\ Cardinality(S) \in Nat /\ Cardinality(T) \in Nat
    BY <2>1, HandlerCount
  <2>4. Cardinality(S) <= Cardinality(T)
    BY <2>1, <2>3, FS_Subset
  <2>5. made <= Cardinality(T)
    BY <2>2, <2>3, <2>4
  <2> QED BY <2>5 DEF MadeByHandlers, T
<1> QED BY <1>1, <1>2, <1>3

(* The steps that leave waiting_threads alone. *)
LEMMA HandlerStep ==
  ASSUME WaitInv, Observe, NEW h \in Handlers,
         FastPath(h) \/ Loop(h) \/ Poll(h) \/ Answer(h) \/ Recheck(h),
         UNCHANGED <<tracker, envVars, ioVars, canVars, stop_pc>>
  PROVE  WaitInv'
<1> USE DEF WaitInv
<1>0. UNCHANGED waitVars
  BY DEF FastPath, Loop, Poll, Answer, Recheck
<1>1. /\ pc \in [Handlers -> {"idle", "register", "loop", "poll", "answer", "recheck", "done"}]
      /\ waiter \in [Handlers -> 0..made]
      /\ reply \in [Handlers -> {"none", "client_cancelled", "NOT_FOUND"} \cup Terminal]
      /\ tracker \in {"ACTIVE", "NOT_FOUND"} \cup Terminal
      /\ 0 \in 0..made
  <2>1. made \in Nat
    BY HandlerCount DEF TypeOK
  <2> QED BY <2>1 DEF TypeOK
<1>2. pc[h] \in {"idle", "loop", "poll", "answer", "recheck"} /\ reply[h] = "none"
  BY DEF FastPath, Loop, Poll, Answer, Recheck, Goto, NoEarlyReply
<1>3. CASE \E to \in {"register", "loop", "poll", "answer", "recheck"} :
             /\ pc' = [pc EXCEPT ![h] = to] /\ UNCHANGED <<reply, waiter>>
             /\ to = "register" <=> pc[h] = "idle"
             /\ to = "register" => tracker = "ACTIVE"
             /\ to \in {"answer", "recheck"} => tracker # "ACTIVE"
             /\ to # pc[h]
  <2>1. PICK to \in {"register", "loop", "poll", "answer", "recheck"} :
             /\ pc' = [pc EXCEPT ![h] = to] /\ UNCHANGED <<reply, waiter>>
             /\ to = "register" <=> pc[h] = "idle"
             /\ to = "register" => tracker = "ACTIVE"
             /\ to \in {"answer", "recheck"} => tracker # "ACTIVE"
             /\ to # pc[h]
    BY <1>3
  <2>2. reply' = [reply EXCEPT ![h] = "none"] /\ waiter' = [waiter EXCEPT ![h] = waiter[h]]
    BY <1>1, <1>2, <2>1
  <2>3. TypeOK' /\ MadeByHandlers' /\ Unsignalled'
    BY <1>0, <1>1, <1>2, <2>1, <2>2, HandlerMoves
  <2>4. /\ pc'[h] = to /\ waiter'[h] = waiter[h] /\ reply'[h] = "none"
        /\ \A g \in Handlers \ {h} : pc'[g] = pc[g] /\ waiter'[g] = waiter[g] /\ reply'[g] = reply[g]
    BY <1>1, <1>2, <2>1
  <2>5. to \in InLoop <=> waiter[h] # 0
    BY <1>2, <2>1 DEF HoldsWaiter, InLoop
  <2>6. /\ io_pc = "signal" /\ io_out = "SUCCESS" => SawSuccess(h)
        /\ waiter[h] # 0 /\ w_success[waiter[h]] => SawSuccess(h)
    <3>1. CASE pc[h] = "idle"
      BY <2>1, <2>5, <3>1 DEF SignalledAfterEnd, InLoop
    <3>2. CASE pc[h] # "idle"
      BY <1>2, <3>2 DEF SuccessWasSeen, InCall
    <3> QED BY <3>1, <3>2
  <2> QED BY <1>0, <2>1, <2>3, <2>4, <2>5, <2>6, HandlerFrame DEF waitVars
<1>4. CASE \E r \in {"client_cancelled", tracker, "COMPLETED"} :
             /\ Return(h, r) /\ r # "ACTIVE"
             /\ r = "COMPLETED" => r = tracker \/ SawSuccess(h)
  <2>1. PICK r \in {"client_cancelled", tracker, "COMPLETED"} :
             /\ Return(h, r) /\ r # "ACTIVE"
             /\ r = "COMPLETED" => r = tracker \/ SawSuccess(h)
    BY <1>4
  <2>2. r \in {"none", "client_cancelled", "NOT_FOUND"} \cup Terminal
    BY <1>1, <2>1 DEF Terminal
  <2>3. TypeOK' /\ MadeByHandlers' /\ Unsignalled'
    BY <1>0, <1>1, <1>2, <2>1, <2>2, HandlerMoves DEF Return
  <2>4. /\ pc'[h] = "done" /\ waiter'[h] = 0 /\ reply'[h] = r
        /\ \A g \in Handlers \ {h} : pc'[g] = pc[g] /\ waiter'[g] = waiter[g] /\ reply'[g] = reply[g]
    BY <1>1, <2>1 DEF Return
  <2> QED BY <1>0, <1>2, <2>1, <2>3, <2>4, HandlerFrame DEF waitVars, InLoop, InCall
<1>5. CASE FastPath(h)
  BY <1>3, <1>4, <1>5 DEF FastPath, Goto
<1>6. CASE Loop(h)
  <2>1. waiter[h] \in JobWaiters
    BY <1>1, <1>6, HandlerCount DEF Loop, HoldsWaiter, InLoop, TypeOK, JobWaiters
  <2>2. w_ready[waiter[h]] => tracker # "ACTIVE"
    BY <2>1 DEF SignalledAfterEnd
  <2> QED BY <1>3, <1>4, <1>6, <2>2 DEF Loop, Goto
<1>7. CASE Poll(h)
  <2>1. tracker \in Terminal => tracker # "ACTIVE"
    BY DEF Terminal
  <2> QED BY <1>3, <1>7, <2>1 DEF Poll, Goto
<1>8. CASE Answer(h)
  <2>1. tracker # "ACTIVE" /\ InCall(h) /\ waiter[h] # 0
    BY <1>8 DEF Answer, SignalledAfterEnd, InCall, HoldsWaiter, InLoop
  <2>2. w_success[waiter[h]] => SawSuccess(h)
    BY <2>1 DEF SuccessWasSeen
  <2> QED BY <1>3, <1>4, <1>8, <2>1, <2>2 DEF Answer, Goto
<1>9. CASE Recheck(h)
  <2>1. tracker # "ACTIVE"
    BY <1>9 DEF Recheck, SignalledAfterEnd
  <2> QED BY <1>4, <1>9, <2>1 DEF Recheck
<1> QED BY <1>5, <1>6, <1>7, <1>8, <1>9

(* The registration finds a JobWaiter that nobody has signalled, or makes  *)
(* one.                                                                    *)
LEMMA RegisterStep ==
  ASSUME WaitInv, Observe, NEW h \in Handlers, Register(h),
         UNCHANGED <<tracker, envVars, ioVars, canVars, stop_pc>>
  PROVE  WaitInv'
<1> USE DEF WaitInv
<1>1. /\ pc \in [Handlers -> {"idle", "register", "loop", "poll", "answer", "recheck", "done"}]
      /\ waiter \in [Handlers -> 0..made] /\ reply' = reply /\ reply[h] = "none"
      /\ made \in Nat /\ waiting \in 0..made
      /\ pc[h] = "register" /\ pc' = [pc EXCEPT ![h] = "loop"]
  BY HandlerCount DEF TypeOK, Register, Goto, NoEarlyReply
<1>2. io_pc = "signal" /\ io_out = "SUCCESS" => SawSuccess(h)
  BY <1>1 DEF SuccessWasSeen, InCall
<1>3. CASE waiting # 0 /\ waiter' = [waiter EXCEPT ![h] = waiting] /\ UNCHANGED waitVars
  <2>1. TypeOK' /\ MadeByHandlers' /\ Unsignalled'
    <3>1. reply' = [reply EXCEPT ![h] = "none"]
      BY <1>1 DEF TypeOK
    <3> QED BY <1>1, <1>3, <3>1, HandlerMoves
  <2>2. ~w_success[waiting]
    <3>1. waiting \in JobWaiters
      <4>1. Cardinality(Handlers) \in Nat
        BY HandlerCount
      <4>2. made \in 0..Cardinality(Handlers)
        BY DEF TypeOK
      <4> QED BY <1>1, <1>3, <4>1, <4>2 DEF JobWaiters
    <3> QED BY <3>1 DEF Unsignalled
  <2>3. /\ pc'[h] = "loop" /\ waiter'[h] = waiting /\ reply'[h] = "none"
        /\ \A g \in Handlers \ {h} : pc'[g] = pc[g] /\ waiter'[g] = waiter[g] /\ reply'[g] = reply[g]
    BY <1>1, <1>3
  <2> QED BY <1>1, <1>2, <1>3, <2>1, <2>2, <2>3, HandlerFrame DEF waitVars, InLoop
<1>4. CASE /\ waiting = 0 /\ made' = made + 1 /\ waiting' = made + 1
           /\ waiter' = [waiter EXCEPT ![h] = made + 1] /\ UNCHANGED <<w_ready, w_success>>
  <2>1. /\ made + 1 \in JobWaiters
        /\ made + 1 <= Cardinality({g \in Handlers : pc[g] \notin {"idle", "register"}} \cup {h})
    BY <1>1, RoomForWaiter
  <2>2. /\ pc'[h] = "loop" /\ waiter'[h] = made + 1 /\ reply'[h] = "none" /\ made + 1 # 0
        /\ \A g \in Handlers \ {h} : pc'[g] = pc[g] /\ waiter'[g] = waiter[g] /\ reply'[g] = reply[g]
    BY <1>1, <1>4
  <2>3. {g \in Handlers : pc'[g] \notin {"idle", "register"}}
          = {g \in Handlers : pc[g] \notin {"idle", "register"}} \cup {h}
    BY <1>1, <2>2
  <2>4. MadeByHandlers'
    BY <1>4, <2>1, <2>3 DEF MadeByHandlers
  <2>5. TypeOK'
    <3>1. made' \in 0..Cardinality(Handlers) /\ waiting' \in 0..made'
      BY <1>1, <1>4, <2>1, HandlerCount DEF JobWaiters
    <3>2. waiter' \in [Handlers -> 0..made']
      <4>1. \A g \in Handlers : waiter[g] \in 0..(made + 1)
        BY <1>1
      <4>2. made + 1 \in 0..(made + 1)
        BY <1>1
      <4> QED BY <1>1, <1>4, <4>1, <4>2
    <3>3. pc' \in [Handlers -> {"idle", "register", "loop", "poll", "answer", "recheck", "done"}]
      BY <1>1
    <3> QED BY <1>1, <1>4, <3>1, <3>2, <3>3 DEF TypeOK, envVars, ioVars, canVars
  <2>6. ~w_success[made + 1]
    BY <1>1, <2>1 DEF Unsignalled
  <2>7. Unsignalled'
    <3> SUFFICES ASSUME NEW g \in JobWaiters, g > made + 1 \/ g = made + 1
                 PROVE  ~w_ready[g] /\ ~w_success[g]
      BY <1>4 DEF Unsignalled
    <3>1. g > made
      BY <1>1, HandlerCount DEF JobWaiters
    <3> QED BY <3>1 DEF Unsignalled
  <2> QED BY <1>1, <1>2, <1>4, <2>2, <2>4, <2>5, <2>6, <2>7, HandlerFrame DEF InLoop
<1> QED BY <1>3, <1>4 DEF Register

-----------------------------------------------------------------------------

(* Every step keeps the invariant. *)
LEMMA WaitStep == WaitInv /\ [Next]_vars => WaitInv'
<1> SUFFICES ASSUME WaitInv, [Next]_vars PROVE WaitInv'
  OBVIOUS
<1>1. CASE UNCHANGED vars
  BY <1>1 DEF vars, waitVars, handVars, envVars, ioVars, canVars, WaitInv, TypeOK, HoldsWaiter,
     MadeByHandlers, Unsignalled, SignalledAfterEnd, SuccessWasSeen, SawSuccess, InCall,
     NoEarlyReply, AnswerWasTrue
<1>2. CASE Observe /\ \E h \in Handlers : Calls(h) \/ Waits(h)
  BY <1>2, HandlerStep, RegisterStep DEF Calls, Waits
<1>3. CASE Observe /\ (Worker \/ Collector \/ Canceller \/ Shutdown)
  BY <1>3, WorkerStep, CollectorStep, CancellerStep, ShutdownStep
<1> QED BY <1>1, <1>2, <1>3 DEF Next

(* WaitForCompletion answers with a status that the job had during the     *)
(* call, for any number of concurrent calls and whoever ends the job; or   *)
(* COMPLETED, when the job was deleted and its result came in later.       *)
THEOREM AnswersAreTrue == Spec => []AnswerWasTrue
<1>1. WaitInv => AnswerWasTrue
  BY DEF WaitInv
<1> QED BY <1>1, InitWait, WaitStep, PTL DEF Spec
=============================================================================
