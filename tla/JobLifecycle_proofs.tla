------------------------ MODULE JobLifecycle_proofs ------------------------
(* Theorems about the life of jobs, for any number of jobs, workers, slots *)
(* and deaths: a payload is in one place, and what is deleted stays so.    *)
EXTENDS JobLifecycle, FiniteSetTheorems, TLAPS

WkPoints == {"idle", "pid", "check", "read", "solve", "publish", "stream",
             "streaming", "reset", "reset_cancelled"}
Dispatching == {"dispatch", "take", "send", "write", "flush", "sent"}
Collecting == {"collect", "read", "receive", "store"}

(* The types the two theorems need. *)
Types ==
    /\ tracker \in [Jobs -> Status]
    /\ issued \subseteq Jobs /\ pending \subseteq issued
    /\ wk_pc \in [Workers -> WkPoints]
    /\ wk_data \in [Workers -> Jobs \cup {None}]
    /\ wk_out \in [Workers -> Outcome]
    /\ to_worker \in [Workers -> Seq(Jobs)]
    /\ pid \in [Workers -> Nat] /\ next_pid \in Nat
    /\ r_status \in [Results -> Outcome]
    /\ io_out \in Outcome
    /\ io_pc \in Dispatching \cup Collecting
    /\ io_pc \in Dispatching => io_at \in Slots
    /\ io_pc \in Collecting => io_at \in Results

(* Does worker w hold the payload it is about to solve? *)
Holds(w) == wk_pc[w] = "solve"
Places(w) == 1..Len(to_worker[w])

(* A payload on its way is that of a job whose id was handed out, and it   *)
(* has left the pending maps.                                              *)
OnItsWay(j) == j \in issued /\ j \notin pending
MovedAreTaken ==
    /\ io_pc \in {"send", "write", "flush"} => OnItsWay(io_job)
    /\ \A w \in Workers : Holds(w) => OnItsWay(wk_data[w])
    /\ \A w \in Workers : \A k \in Places(w) : OnItsWay(to_worker[w][k])

(* What the dispatcher is about to send is in no pipe and with no worker. *)
SentOnce ==
    io_pc \in {"send", "write"} =>
      /\ \A w \in Workers : Holds(w) => wk_data[w] # io_job
      /\ \A w \in Workers : \A k \in Places(w) : to_worker[w][k] # io_job

(* What it is writing is in the pipe of its descriptor or with the worker  *)
(* behind it, and nowhere once that worker has been replaced.              *)
WrittenThere ==
    io_pc = "flush" =>
      /\ \A w \in Workers : Holds(w) /\ wk_data[w] = io_job => pid[w] = io_fd
      /\ \A w \in Workers : \A k \in Places(w) : to_worker[w][k] = io_job => pid[w] = io_fd

(* The payloads in the pipes differ from each other and from those held. *)
PipedOnce ==
    \A v, w \in Workers : \A k \in Places(v) :
      /\ \A l \in Places(w) : to_worker[v][k] = to_worker[w][l] => v = w /\ k = l
      /\ Holds(w) => wk_data[w] # to_worker[v][k]

HeldOnce ==
    \A v, w \in Workers : Holds(v) /\ Holds(w) /\ wk_data[v] = wk_data[w] => v = w

PlacesInv == MovedAreTaken /\ SentOnce /\ WrittenThere /\ PipedOnce /\ HeldOnce

(* The job being submitted is not deleted, nor in the hands of a canceller. *)
SubmittedIsNew ==
    sub_pc # "idle" => /\ sub_job \in issued \ deleted
                       /\ can_pc # "idle" => can_job # sub_job

(* cancel_job and delete_job work on a job that has its tracker entry. *)
CancelledIsTracked ==
    can_pc # "idle" => can_job \in issued /\ tracker[can_job] # "none"

DeletionInv ==
    /\ deleted \subseteq issued
    /\ SubmittedIsNew /\ CancelledIsTracked /\ DeletedStaysDeleted

JobsInv == Types /\ PlacesInv /\ DeletionInv

-----------------------------------------------------------------------------
(* At the start there is no job. *)
LEMMA InitJobs == Init => JobsInv
<1> SUFFICES ASSUME Init PROVE JobsInv
  OBVIOUS
<1>1. 1 \in Slots /\ 1 \in Results
  BY BoundsAssumption DEF Slots, Results
<1>2. Types
  <2>1. tracker \in [Jobs -> Status] /\ wk_pc \in [Workers -> WkPoints]
    BY DEF Init, Status, WkPoints
  <2>2. /\ wk_data \in [Workers -> Jobs \cup {None}] /\ wk_out \in [Workers -> Outcome]
        /\ r_status \in [Results -> Outcome] /\ io_out \in Outcome
    BY DEF Init, Outcome
  <2>3. to_worker \in [Workers -> Seq(Jobs)]
    BY DEF Init
  <2>4. issued \subseteq Jobs /\ pending \subseteq issued
    BY DEF Init
  <2>5. io_pc = "dispatch" /\ io_at = 1
    BY DEF Init
  <2>6. pid \in [Workers -> Nat] /\ next_pid \in Nat
    <3>1. Cardinality(Workers) \in Nat
      BY JobsAssumption, FS_CardinalityType
    <3> QED BY <3>1 DEF Init
  <2> QED BY <1>1, <2>1, <2>2, <2>3, <2>4, <2>5, <2>6 DEF Types, Dispatching, Collecting
<1>3. \A w \in Workers : ~Holds(w) /\ Places(w) = {}
  BY DEF Init, Holds, Places
<1>4. PlacesInv
  BY <1>3 DEF Init, PlacesInv, MovedAreTaken, SentOnce, WrittenThere, PipedOnce, HeldOnce
<1>5. DeletionInv
  BY DEF Init, DeletionInv, SubmittedIsNew, CancelledIsTracked, DeletedStaysDeleted
<1> QED BY <1>2, <1>4, <1>5 DEF JobsInv

(* The retrieval thread's position after a pass moves on. *)
LEMMA PassMovesOn ==
  ASSUME Types, \/ io_pc \in Dispatching /\ IoNextSlot
                \/ io_pc \in Collecting /\ IoNextResult
  PROVE  /\ io_pc' \in {"dispatch", "collect"} /\ io_out' \in Outcome
         /\ io_pc' = "dispatch" => io_at' \in Slots
         /\ io_pc' = "collect" => io_at' \in Results
<1>1. 1 \in Slots /\ 1 \in Results
  BY BoundsAssumption DEF Slots, Results
<1>2. NumSlots \in Nat /\ NumResults \in Nat
  BY BoundsAssumption
<1>3. CASE io_pc \in Dispatching /\ IoNextSlot
  <2>1. io_at \in Slots
    BY <1>3 DEF Types
  <2>2. io_at < NumSlots => io_at + 1 \in Slots
    BY <1>2, <2>1 DEF Slots
  <2> QED BY <1>1, <1>3, <2>2 DEF IoNextSlot, IoNext, IoClear, Outcome
<1>4. CASE io_pc \in Collecting /\ IoNextResult
  <2>1. io_at \in Results
    BY <1>4 DEF Types
  <2>2. io_at < NumResults => io_at + 1 \in Results
    BY <1>2, <2>1 DEF Results
  <2> QED BY <1>1, <1>4, <2>2 DEF IoNextResult, IoNext, IoClear, Outcome
<1> QED BY <1>3, <1>4

(* A step of the handlers keeps the types. *)
LEMMA HandlersTypes ==
  ASSUME Types, CancelledIsTracked, Submit \/ Client PROVE Types'
<1>1. /\ UNCHANGED <<wk_pc, wk_data, wk_out, to_worker, r_status, io_pc, io_out, io_at>>
      /\ UNCHANGED <<pid, next_pid>>
  BY DEF Submit, Client, wkVars, resVars, ioVars, procVars
<1>2. /\ tracker' \in [Jobs -> Status]
      /\ issued' \subseteq Jobs /\ pending' \subseteq issued'
  <2>1. CASE Submit
    <3>1. CASE \E j \in Jobs : SubmitReserve(j)
      BY <3>1 DEF SubmitReserve, Types, trackVars
    <3>2. CASE SubmitTrack
      BY <3>2 DEF SubmitTrack, Types, Status
    <3>3. CASE SubmitPublish
      BY <3>3 DEF SubmitPublish, Types, trackVars
    <3> QED BY <2>1, <3>1, <3>2, <3>3 DEF Submit
  <2>2. CASE Client
    <3>0. UNCHANGED issued
      BY <2>2 DEF Client, subVars
    <3>1. ASSUME NEW j \in Jobs, CheckStatus(j) PROVE tracker' \in [Jobs -> Status] /\ pending' = pending
      BY <3>1 DEF CheckStatus, Types, Status
    <3>2. ASSUME NEW j \in Jobs, NEW del \in BOOLEAN, CancelBegin(j, del)
          PROVE  tracker' \in [Jobs -> Status] /\ pending' = pending
      BY <3>2 DEF CancelBegin, Types, Status, Terminal
    <3>3. CASE CancelFlag \/ CancelKill
      BY <3>0, <3>3 DEF CancelFlag, CancelKill, Types, trackVars
    <3>4. CASE CancelStatus
      BY <3>0, <3>4 DEF CancelStatus, Types, Status, Terminal
    <3>5. CASE DeleteErase
      BY <3>0, <3>5 DEF DeleteErase, Types, Status
    <3> QED BY <2>2, <3>0, <3>1, <3>2, <3>3, <3>4, <3>5 DEF Client, Types
  <2> QED BY <2>1, <2>2
<1> QED BY <1>1, <1>2 DEF Types

(* A step of a worker keeps the types. *)
LEMMA WorkerTypes ==
  ASSUME Types, NEW w \in Workers, Worker(w) \/ Die(w) PROVE Types'
<1>1. UNCHANGED <<tracker, issued, pending, io_pc, io_out, io_at, pid, next_pid>>
  BY DEF Worker, Die, trackVars, subVars, ioVars, procVars
<1>2. CASE Die(w)
  BY <1>1, <1>2 DEF Die, wkVars, resVars, Types
<1>3. CASE WkClaim(w) \/ WkRecordPid(w) \/ WkResetCancelled(w)
  BY <1>1, <1>3 DEF WkClaim, WkRecordPid, WkResetCancelled, WkGoto, resVars, Types, WkPoints
<1>4. CASE WkCheck(w) \/ WkReadTimeout(w) \/ WkSolve(w)
  BY <1>1, <1>4 DEF WkCheck, WkReadTimeout, WkSolve, PublishFrom, WkGoto, resVars, Types,
     WkPoints, Outcome
<1>5. CASE WkRead(w)
  <2>1. to_worker[w] \in Seq(Jobs) /\ to_worker[w] # <<>>
    BY <1>5 DEF WkRead, Types
  <2>2. Head(to_worker[w]) \in Jobs /\ Tail(to_worker[w]) \in Seq(Jobs)
    BY <2>1
  <2> QED BY <1>1, <1>5, <2>2 DEF WkRead, WkGoto, resVars, Types, WkPoints
<1>6. CASE WkPublish(w)
  <2>1. wk_pc' \in [Workers -> WkPoints]
    BY <1>6 DEF WkPublish, WkGoto, Types, WkPoints
  <2>2. r_status' \in [Results -> Outcome]
    BY <1>6 DEF WkPublish, Types, resVars
  <2> QED BY <1>1, <1>6, <2>1, <2>2 DEF WkPublish, Types
<1>7. CASE WkStream(w) \/ WkStreamed(w) \/ WkReset(w)
  BY <1>1, <1>7 DEF WkStream, WkStreamed, WkReset, WkGoto, resVars, Types, WkPoints, Outcome
<1>8. CASE WkStreamFails(w)
  BY <1>1, <1>8 DEF WkStreamFails, WkGoto, Types, WkPoints, Outcome
<1> QED BY <1>2, <1>3, <1>4, <1>5, <1>6, <1>7, <1>8 DEF Worker

(* A step of result_retrieval_thread keeps the types. *)
LEMMA IoTypes == ASSUME Types, MovedAreTaken, Io PROVE Types'
<1>1. UNCHANGED <<issued, wk_pc, wk_data, wk_out, r_status, pid, next_pid>>
  BY DEF Io, subVars, wkVars
<1>2. CASE DispatchCheck
  <2>0. UNCHANGED <<tracker, pending, to_worker>>
    BY <1>2 DEF DispatchCheck, trackVars
  <2>1. CASE io_pc' = "take" /\ UNCHANGED <<io_at, io_out>>
    BY <1>1, <1>2, <2>0, <2>1 DEF DispatchCheck, Types, Dispatching, Collecting
  <2>2. CASE IoNextSlot
    BY <1>1, <1>2, <2>0, <2>2, PassMovesOn DEF DispatchCheck, Types, Dispatching, Collecting
  <2> QED BY <1>2, <2>1, <2>2 DEF DispatchCheck
<1>3. CASE DispatchTake
  <2>0. UNCHANGED <<tracker, to_worker>> /\ pending' \subseteq pending
    BY <1>3 DEF DispatchTake, trackVars
  <2>1. CASE io_pc' = "send" /\ UNCHANGED <<io_at, io_out>>
    BY <1>1, <1>3, <2>0, <2>1 DEF DispatchTake, Types, Dispatching, Collecting
  <2>2. CASE IoNextSlot
    BY <1>1, <1>3, <2>0, <2>2, PassMovesOn DEF DispatchTake, Types, Dispatching, Collecting
  <2> QED BY <1>3, <2>1, <2>2 DEF DispatchTake
<1>4. CASE DispatchWrite \/ DispatchFlush
  <2>1. /\ UNCHANGED <<tracker, pending, io_at>> /\ io_pc \in {"write", "flush"}
        /\ io_pc' \in {"flush", "sent"}
    BY <1>4 DEF DispatchWrite, DispatchFlush, WriteTo, WriteBreaks, WriteGoesElsewhere, trackVars
  <2>2. io_out' \in Outcome
    BY <1>4 DEF DispatchWrite, DispatchFlush, WriteTo, WriteBreaks, WriteGoesElsewhere, Outcome,
       Types
  <2>3. to_worker' \in [Workers -> Seq(Jobs)]
    <3>1. CASE UNCHANGED to_worker
      BY <3>1 DEF Types
    <3>2. ASSUME NEW w \in Workers, WriteTo(w) PROVE to_worker' \in [Workers -> Seq(Jobs)]
      <4>1. io_job \in Jobs
        BY <2>1 DEF MovedAreTaken, OnItsWay, Types
      <4>2. Append(to_worker[w], io_job) \in Seq(Jobs)
        BY <4>1 DEF Types
      <4> QED BY <3>2, <4>2 DEF WriteTo, Types
    <3> QED BY <1>4, <3>1, <3>2 DEF DispatchWrite, DispatchFlush, WriteBreaks, WriteGoesElsewhere
  <2> QED BY <1>1, <2>1, <2>2, <2>3 DEF Types, Dispatching, Collecting
<1>5. CASE DispatchNote
  BY <1>1, <1>5, PassMovesOn DEF DispatchNote, trackVars, Types, Dispatching, Collecting
<1>6. CASE CollectCheck
  <2>0. UNCHANGED <<tracker, pending, to_worker>>
    BY <1>6 DEF CollectCheck, trackVars
  <2>1. CASE UNCHANGED io_at /\ io_out' = r_status[io_at] /\ io_pc' \in {"read", "store"}
    BY <1>1, <1>6, <2>0, <2>1 DEF CollectCheck, Types, Dispatching, Collecting
  <2>2. CASE IoNextResult
    BY <1>1, <1>6, <2>0, <2>2, PassMovesOn DEF CollectCheck, Types, Dispatching, Collecting
  <2> QED BY <1>6, <2>1, <2>2 DEF CollectCheck
<1>7. CASE CollectRead
  <2>1. UNCHANGED <<tracker, pending, to_worker, io_at>> /\ io_pc = "receive" /\ io_pc' = "store"
    BY <1>7 DEF CollectRead, trackVars
  <2>2. io_out' \in Outcome
    BY <1>7 DEF CollectRead, Outcome, Types
  <2> QED BY <1>1, <2>1, <2>2 DEF Types, Dispatching, Collecting
<1>8. CASE CollectStore
  <2>1. tracker' \in [Jobs -> Status]
    <3>1. StatusOf(io_out) \in Status
      BY DEF Types, Outcome, StatusOf, Status, Terminal
    <3> QED BY <1>8, <3>1 DEF CollectStore, Types, trackVars
  <2> QED BY <1>1, <1>8, <2>1, PassMovesOn DEF CollectStore, Types, Dispatching, Collecting
<1>9. CASE DispatchLookup \/ CollectLookup
  BY <1>1, <1>9 DEF DispatchLookup, CollectLookup, Lookup, trackVars, Types, Dispatching, Collecting
<1> QED BY <1>2, <1>3, <1>4, <1>5, <1>6, <1>7, <1>8, <1>9 DEF Io

(* A step of worker_monitor_thread keeps the types. *)
LEMMA MonitorTypes == ASSUME Types, Monitor PROVE Types'
<1>1. UNCHANGED <<issued, io_pc, io_out, io_at>>
  BY DEF Monitor, subVars, ioVars
<1>2. CASE (\E w \in Workers : MonitorReap(w)) \/ MonitorReset \/ MonitorResetCancelled
  BY <1>1, <1>2 DEF MonitorReap, MonitorReset, MonitorResetCancelled, trackVars, wkVars, resVars,
     Types
<1>3. CASE MonitorMark
  <2>1. /\ UNCHANGED <<tracker, wk_pc, wk_data, wk_out, to_worker, pid, next_pid>>
        /\ pending' \subseteq pending
    BY <1>3 DEF MonitorMark, trackVars, wkVars
  <2>2. r_status' \in [Results -> Outcome]
    BY <1>3 DEF MonitorMark, resVars, Types, Outcome
  <2> QED BY <1>1, <2>1, <2>2 DEF Types
<1>4. CASE MonitorStatus
  <2>1. tracker' \in [Jobs -> Status]
    BY <1>4 DEF MonitorStatus, Types, Status, Terminal
  <2> QED BY <1>1, <1>4, <2>1 DEF MonitorStatus, wkVars, resVars, Types
<1>5. CASE MonitorRespawn
  <2>1. wk_pc' \in [Workers -> WkPoints] /\ wk_out' \in [Workers -> Outcome]
    BY <1>5 DEF MonitorRespawn, Types, WkPoints, Outcome
  <2>2. /\ wk_data' \in [Workers -> Jobs \cup {None}]
        /\ to_worker' \in [Workers -> Seq(Jobs)]
    <3>1. << >> \in Seq(Jobs)
      OBVIOUS
    <3> QED BY <1>5, <3>1 DEF MonitorRespawn, Types
  <2>3. pid' \in [Workers -> Nat] /\ next_pid' \in Nat
    <3>1. /\ pid' = [pid EXCEPT ![mon_w] = next_pid] /\ next_pid' = next_pid + 1
          /\ pid \in [Workers -> Nat] /\ next_pid \in Nat
      BY <1>5 DEF MonitorRespawn, Types
    <3>2. next_pid' \in Nat
      BY <3>1
    <3>3. pid' \in [Workers -> Nat]
      BY <3>1
    <3> QED BY <3>2, <3>3
  <2> QED BY <1>1, <1>5, <2>1, <2>2, <2>3 DEF MonitorRespawn, trackVars, resVars, Types
<1> QED BY <1>2, <1>3, <1>4, <1>5 DEF Monitor

-----------------------------------------------------------------------------
(* Steps that move no payload: they may drop one, empty a pipe, or let a   *)
(* worker go on without the payload it held.                               *)
LEMMA NothingMoves ==
  ASSUME Types, PlacesInv, issued \subseteq issued',
         \A j \in issued : j \in pending' => j \in pending,
         io_pc' \in {"send", "write"} => io_pc \in {"send", "write"} /\ io_job' = io_job,
         io_pc' = "flush" => io_pc = "flush" /\ io_job' = io_job /\ io_fd' = io_fd,
         \A w \in Workers : pid'[w] = pid[w] \/ (~Holds(w)' /\ to_worker'[w] = << >>),
         \A w \in Workers : Holds(w)' => Holds(w) /\ wk_data'[w] = wk_data[w],
         \A w \in Workers : to_worker'[w] = to_worker[w] \/ to_worker'[w] = << >>
  PROVE  PlacesInv'
<1>1. \A w \in Workers : \A k \in Places(w)' : k \in Places(w) /\ to_worker'[w][k] = to_worker[w][k]
  BY DEF Places
<1>2. \A j : OnItsWay(j) => OnItsWay(j)'
  BY DEF OnItsWay
<1>3. MovedAreTaken'
  BY <1>1, <1>2 DEF PlacesInv, MovedAreTaken
<1>4. SentOnce'
  BY <1>1 DEF PlacesInv, SentOnce
<1>5. PipedOnce'
  BY <1>1 DEF PlacesInv, PipedOnce
<1>6. HeldOnce'
  BY DEF PlacesInv, HeldOnce
<1>7. \A w \in Workers : to_worker'[w] = << >> => Places(w)' = {}
  BY DEF Places
<1>8. WrittenThere'
  BY <1>1, <1>7 DEF PlacesInv, WrittenThere
<1> QED BY <1>3, <1>4, <1>5, <1>6, <1>8 DEF PlacesInv

(* Submissions, status checks, cancellations and deletions move no payload. *)
LEMMA HandlersPlaces ==
  ASSUME Types, PlacesInv, Submit \/ Client PROVE PlacesInv'
<1>1. UNCHANGED <<wk_pc, wk_data, to_worker, io_pc, io_job, io_fd, pid>>
  BY DEF Submit, Client, wkVars, ioVars, procVars
<1>2. issued \subseteq issued' /\ \A j \in issued : j \in pending' => j \in pending
  <2>1. CASE Submit
    BY <2>1 DEF Submit, SubmitReserve, SubmitTrack, SubmitPublish
  <2>2. CASE Client
    BY <2>2 DEF Client, CheckStatus, CancelBegin, CancelFlag, CancelKill, CancelStatus,
       DeleteErase, subVars
  <2> QED BY <2>1, <2>2
<1> QED BY <1>1, <1>2, NothingMoves DEF Holds

(* A worker that reads takes the first payload of its pipe; its other      *)
(* steps move none.                                                        *)
LEMMA WorkerPlaces ==
  ASSUME Types, PlacesInv, NEW w \in Workers, Worker(w) \/ Die(w) PROVE PlacesInv'
<1>1. UNCHANGED <<issued, pending, io_pc, io_job, io_fd, pid>>
  BY DEF Worker, Die, subVars, ioVars, procVars
<1>2. CASE WkRead(w)
  <2> DEFINE p == to_worker[w]
  <2>1. p \in Seq(Jobs) /\ p # << >> /\ p = to_worker[w]
    BY <1>2 DEF WkRead, Types
  <2>2. /\ to_worker' = [to_worker EXCEPT ![w] = Tail(p)]
        /\ wk_data' = [wk_data EXCEPT ![w] = Head(p)]
        /\ wk_pc' = [wk_pc EXCEPT ![w] = "solve"]
    BY <1>2 DEF WkRead, WkGoto
  <2>3. /\ to_worker'[w] = Tail(p) /\ wk_data'[w] = Head(p) /\ Holds(w)'
        /\ \A v \in Workers \ {w} : /\ to_worker'[v] = to_worker[v]
                                    /\ wk_data'[v] = wk_data[v]
                                    /\ Holds(v)' = Holds(v)
    BY <2>2 DEF Types, Holds
  <2>4. Head(p) = p[1] /\ 1 \in 1..Len(p) /\ Len(p) \in Nat
    BY <2>1
  <2>5. \A k \in 1..Len(Tail(p)) : k + 1 \in 1..Len(p) /\ k + 1 # 1 /\ Tail(p)[k] = p[k + 1]
    BY <2>1
  <2> HIDE DEF p
  <2>6. /\ OnItsWay(p[1])
        /\ \A k \in 1..Len(p) : OnItsWay(p[k])
    BY <2>1, <2>4 DEF PlacesInv, MovedAreTaken, Places
  <2>7. \A j : OnItsWay(j)' = OnItsWay(j)
    BY <1>1 DEF OnItsWay
  <2>8. MovedAreTaken'
    <3>1. \A v \in Workers : Holds(v)' => OnItsWay(wk_data[v])'
      BY <2>3, <2>4, <2>6, <2>7 DEF PlacesInv, MovedAreTaken
    <3>2. \A v \in Workers : \A k \in Places(v)' : OnItsWay(to_worker[v][k])'
      <4>1. \A k \in Places(w)' : OnItsWay(to_worker'[w][k])
        BY <2>3, <2>5, <2>6 DEF Places
      <4>2. \A v \in Workers \ {w} : \A k \in Places(v)' : OnItsWay(to_worker'[v][k])
        BY <2>3 DEF PlacesInv, MovedAreTaken, Places
      <4> QED BY <2>7, <4>1, <4>2
    <3> QED BY <1>1, <2>7, <3>1, <3>2 DEF PlacesInv, MovedAreTaken
  <2>9. SentOnce'
    <3> SUFFICES ASSUME io_pc \in {"send", "write"}
                 PROVE  /\ \A v \in Workers : Holds(v)' => wk_data'[v] # io_job
                        /\ \A v \in Workers : \A k \in Places(v)' : to_worker'[v][k] # io_job
      BY <1>1 DEF SentOnce
    <3>1. \A k \in 1..Len(p) : p[k] # io_job
      BY <2>1 DEF PlacesInv, SentOnce, Places
    <3> QED BY <2>3, <2>4, <2>5, <3>1 DEF PlacesInv, SentOnce, Places
  <2>10. PipedOnce'
    <3> SUFFICES ASSUME NEW u \in Workers, NEW v \in Workers, NEW k \in Places(u)'
                 PROVE  /\ \A l \in Places(v)' :
                             to_worker'[u][k] = to_worker'[v][l] => u = v /\ k = l
                        /\ Holds(v)' => wk_data'[v] # to_worker'[u][k]
      BY DEF PipedOnce
    <3> DEFINE at(x, i) == IF x = w THEN i + 1 ELSE i
    <3>1. ASSUME NEW x \in Workers, NEW i \in Places(x)'
          PROVE  /\ at(x, i) \in Places(x) /\ to_worker'[x][i] = to_worker[x][at(x, i)]
                 /\ x = w => at(x, i) # 1
      BY <2>1, <2>3, <2>5 DEF Places
    <3>2. ASSUME NEW x \in Workers, NEW i \in Places(x)' PROVE i \in Int
      BY DEF Places
    <3>3. ASSUME NEW l \in Places(v)', to_worker'[u][k] = to_worker'[v][l]
          PROVE  u = v /\ k = l
      <4>1. u = v /\ at(u, k) = at(v, l)
        <5> HIDE DEF at
        <5> QED BY <3>1, <3>3 DEF PlacesInv, PipedOnce
      <4> QED BY <3>2, <4>1
    <3>4. ASSUME Holds(v)' PROVE wk_data'[v] # to_worker'[u][k]
      <4>1. CASE v = w
        <5>1. 1 \in Places(w) /\ wk_data'[v] = to_worker[w][1]
          BY <2>1, <2>3, <2>4, <4>1 DEF Places
        <5> HIDE DEF at
        <5> QED BY <3>1, <5>1 DEF PlacesInv, PipedOnce
      <4>2. CASE v # w
        <5> HIDE DEF at
        <5> QED BY <2>3, <3>1, <3>4, <4>2 DEF PlacesInv, PipedOnce
      <4> QED BY <4>1, <4>2
    <3> QED BY <3>3, <3>4
  <2>11. HeldOnce'
    <3>1. \A v \in Workers : Holds(v) => wk_data[v] # p[1]
      BY <2>1, <2>4 DEF PlacesInv, PipedOnce, Places
    <3> QED BY <2>3, <2>4, <3>1 DEF PlacesInv, HeldOnce
  <2>12. WrittenThere'
    <3> SUFFICES ASSUME io_pc = "flush"
                 PROVE  /\ \A v \in Workers : Holds(v)' /\ wk_data'[v] = io_job => pid[v] = io_fd
                        /\ \A v \in Workers : \A k \in Places(v)' :
                             to_worker'[v][k] = io_job => pid[v] = io_fd
      BY <1>1 DEF WrittenThere
    <3>1. \A k \in 1..Len(p) : p[k] = io_job => pid[w] = io_fd
      BY <2>1 DEF PlacesInv, WrittenThere, Places
    <3> QED BY <2>3, <2>4, <2>5, <3>1 DEF PlacesInv, WrittenThere, Places
  <2> QED BY <2>8, <2>9, <2>10, <2>11, <2>12 DEF PlacesInv
<1>3. CASE ~WkRead(w)
  <2>1. UNCHANGED to_worker
    BY <1>3 DEF Worker, Die, WkClaim, WkRecordPid, WkCheck, WkReadTimeout, WkSolve, WkPublish,
       WkStream, WkStreamed, WkStreamFails, WkReset, WkResetCancelled
  <2>2. \A v \in Workers : Holds(v)' => Holds(v) /\ wk_data'[v] = wk_data[v]
    <3>1. CASE Die(w)
      BY <3>1 DEF Die, wkVars, Holds
    <3>2. CASE WkReset(w)
      BY <3>2 DEF WkReset, WkGoto, Holds, Types
    <3>3. CASE WkClaim(w) \/ WkRecordPid(w) \/ WkResetCancelled(w)
      BY <3>3 DEF WkClaim, WkRecordPid, WkResetCancelled, WkGoto, Holds, Types
    <3>6. CASE WkStream(w) \/ WkStreamed(w) \/ WkStreamFails(w)
      BY <3>6 DEF WkStream, WkStreamed, WkStreamFails, WkGoto, Holds, Types
    <3>4. CASE WkCheck(w) \/ WkReadTimeout(w) \/ WkSolve(w)
      BY <3>4 DEF WkCheck, WkReadTimeout, WkSolve, PublishFrom, WkGoto, Holds, Types
    <3>5. CASE WkPublish(w)
      BY <3>5 DEF WkPublish, WkGoto, Holds, Types
    <3> QED BY <1>3, <3>1, <3>2, <3>3, <3>4, <3>5, <3>6 DEF Worker
  <2> QED BY <1>1, <2>1, <2>2, NothingMoves
<1> QED BY <1>2, <1>3

(* The dispatcher takes a payload out of the pending map and appends it to *)
(* a pipe; the other steps of result_retrieval_thread move none.           *)
LEMMA IoPlaces == ASSUME Types, PlacesInv, Io PROVE PlacesInv'
<1>1. UNCHANGED <<issued, wk_pc, wk_data, pid>> /\ \A w \in Workers : Holds(w)' = Holds(w)
  BY DEF Io, subVars, wkVars, Holds
<1>2. CASE DispatchTake /\ io_pc' = "send"
  <2>1. /\ UNCHANGED <<to_worker, io_job>>
        /\ io_job \in pending /\ pending' = pending \ {io_job}
    BY <1>2 DEF DispatchTake, IoNextSlot, IoNext
  <2>2. OnItsWay(io_job)' /\ \A j : OnItsWay(j) => OnItsWay(j)' /\ j # io_job
    BY <1>1, <2>1 DEF OnItsWay, Types
  <2>3. MovedAreTaken'
    BY <1>1, <2>1, <2>2 DEF PlacesInv, MovedAreTaken, Places
  <2>4. SentOnce'
    BY <1>1, <2>1, <2>2 DEF PlacesInv, MovedAreTaken, SentOnce, Places
  <2>5. PipedOnce' /\ HeldOnce' /\ WrittenThere'
    BY <1>1, <1>2, <2>1 DEF PlacesInv, PipedOnce, HeldOnce, WrittenThere, Places
  <2> QED BY <2>3, <2>4, <2>5 DEF PlacesInv
<1>3. ASSUME NEW w \in Workers, DispatchWrite \/ DispatchFlush, WriteTo(w),
             pid[w] = io_fd => io_pc = "write",
             pid[w] # io_fd => Stale
      PROVE  PlacesInv'
  <2> DEFINE p == to_worker[w]
  <2>1. /\ io_pc \in {"write", "flush"} /\ io_pc' = "flush" /\ io_fd' = pid[w]
        /\ UNCHANGED <<pending, io_job>>
        /\ to_worker' = [to_worker EXCEPT ![w] = Append(p, io_job)]
    BY <1>3 DEF DispatchWrite, DispatchFlush, WriteTo
  <2>2. w \in Workers
    BY <1>3
  <2>3. p \in Seq(Jobs) /\ io_job \in Jobs
    BY <2>1, <2>2 DEF Types, PlacesInv, MovedAreTaken, OnItsWay
  <2>4. /\ Len(p) \in Nat /\ Len(Append(p, io_job)) = Len(p) + 1
        /\ Append(p, io_job)[Len(p) + 1] = io_job
        /\ \A k \in 1..Len(p) : Append(p, io_job)[k] = p[k]
    BY <2>3
  <2>5. /\ \A v \in Workers \ {w} : to_worker'[v] = to_worker[v]
        /\ to_worker'[w] = Append(p, io_job)
    BY <2>1, <2>2 DEF Types
  <2>6. ASSUME NEW v \in Workers, NEW k \in Places(v)'
        PROVE  \/ k \in Places(v) /\ to_worker'[v][k] = to_worker[v][k]
               \/ v = w /\ k = Len(to_worker[w]) + 1 /\ to_worker'[v][k] = io_job
    <3>1. CASE v = w
      BY <2>4, <2>5, <3>1 DEF Places
    <3>2. CASE v # w
      BY <2>5, <3>2 DEF Places
    <3> QED BY <3>1, <3>2
  <2> HIDE DEF p
  <2>7. /\ \A v \in Workers : Holds(v) => wk_data[v] # io_job
        /\ \A v \in Workers : \A k \in Places(v) : to_worker[v][k] # io_job
    BY <1>3, <2>1 DEF PlacesInv, SentOnce, WrittenThere, Stale
  <2>8. OnItsWay(io_job) /\ \A j : OnItsWay(j)' = OnItsWay(j)
    BY <1>1, <2>1 DEF PlacesInv, MovedAreTaken, OnItsWay
  <2>9. MovedAreTaken'
    <3>1. \A v \in Workers : Holds(v)' => OnItsWay(wk_data[v])'
      BY <1>1, <2>8 DEF PlacesInv, MovedAreTaken
    <3>2. \A v \in Workers : \A k \in Places(v)' : OnItsWay(to_worker'[v][k])
      BY <2>6, <2>8 DEF PlacesInv, MovedAreTaken
    <3> QED BY <2>1, <2>8, <3>1, <3>2 DEF MovedAreTaken
  <2>10. SentOnce'
    BY <2>1 DEF SentOnce
  <2>11. PipedOnce'
    <3> SUFFICES ASSUME NEW u \in Workers, NEW v \in Workers, NEW k \in Places(u)'
                 PROVE  /\ \A l \in Places(v)' :
                             to_worker'[u][k] = to_worker'[v][l] => u = v /\ k = l
                        /\ Holds(v)' => wk_data'[v] # to_worker'[u][k]
      BY DEF PipedOnce
    <3>1. \A l \in Places(v)' : to_worker'[u][k] = to_worker'[v][l] => u = v /\ k = l
      BY <2>6, <2>7 DEF PlacesInv, PipedOnce
    <3>2. Holds(v)' => wk_data'[v] # to_worker'[u][k]
      BY <1>1, <2>6, <2>7 DEF PlacesInv, PipedOnce
    <3> QED BY <3>1, <3>2
  <2>12. HeldOnce'
    BY <1>1 DEF PlacesInv, HeldOnce
  <2>13. WrittenThere'
    BY <1>1, <2>1, <2>6, <2>7 DEF WrittenThere
  <2> QED BY <2>9, <2>10, <2>11, <2>12, <2>13 DEF PlacesInv
<1>4. CASE (DispatchWrite \/ DispatchFlush) /\ io_pc' # "sent"
  BY <1>3, <1>4 DEF DispatchWrite, DispatchFlush, WriteBreaks, WriteGoesElsewhere, MadeLater, Stale
<1>5. CASE (DispatchWrite \/ DispatchFlush) /\ io_pc' = "sent"
  BY <1>1, <1>5, NothingMoves DEF DispatchWrite, DispatchFlush, WriteTo, WriteBreaks,
     WriteGoesElsewhere
<1>6. CASE DispatchLookup \/ CollectLookup
  BY <1>1, <1>6, NothingMoves DEF DispatchLookup, CollectLookup, Lookup
<1>7. CASE \/ DispatchCheck \/ DispatchNote \/ CollectCheck \/ CollectRead \/ CollectStore
           \/ DispatchTake /\ io_pc' # "send"
  <2>1. UNCHANGED to_worker /\ pending' \subseteq pending
    BY <1>7 DEF DispatchCheck, DispatchTake, DispatchNote, CollectCheck, CollectRead, CollectStore
  <2>2. io_pc' \notin {"send", "write", "flush"}
    BY <1>7 DEF DispatchCheck, DispatchTake, DispatchNote, CollectCheck, CollectRead,
       CollectStore, IoNextSlot, IoNextResult, IoNext
  <2> QED BY <1>1, <2>1, <2>2, NothingMoves
<1> QED BY <1>2, <1>4, <1>5, <1>6, <1>7 DEF Io

(* The monitor drops payloads and starts workers that have none. *)
LEMMA MonitorPlaces == ASSUME Types, PlacesInv, Monitor PROVE PlacesInv'
<1>1. UNCHANGED <<issued, io_pc, io_job, io_fd>>
  BY DEF Monitor, subVars, ioVars
<1>2. pending' \subseteq pending
  BY DEF Monitor, MonitorReap, MonitorMark, MonitorReset, MonitorResetCancelled, MonitorStatus,
     MonitorRespawn
<1>3. /\ \A w \in Workers : Holds(w)' => Holds(w) /\ wk_data'[w] = wk_data[w]
      /\ \A w \in Workers : to_worker'[w] = to_worker[w] \/ to_worker'[w] = << >>
      /\ \A w \in Workers : pid'[w] = pid[w] \/ (~Holds(w)' /\ to_worker'[w] = << >>)
  <2>1. CASE MonitorRespawn
    BY <2>1 DEF MonitorRespawn, Holds, Types
  <2>2. CASE ~MonitorRespawn
    BY <2>2 DEF Monitor, MonitorReap, MonitorMark, MonitorReset, MonitorResetCancelled,
       MonitorStatus, wkVars, Holds
  <2> QED BY <2>1, <2>2
<1> QED BY <1>1, <1>2, <1>3, NothingMoves

-----------------------------------------------------------------------------
(* A submission is of a job nobody knows. *)
LEMMA SubmitDeletion == ASSUME Types, DeletionInv, Submit PROVE DeletionInv'
<1>1. UNCHANGED <<can_pc, can_job, deleted>>
  BY DEF Submit, canVars
<1>2. CASE \E j \in Jobs : SubmitReserve(j)
  BY <1>1, <1>2 DEF SubmitReserve, trackVars, DeletionInv, SubmittedIsNew, CancelledIsTracked,
     DeletedStaysDeleted
<1>3. CASE SubmitTrack
  <2>1. /\ UNCHANGED <<issued, pending, sub_job>> /\ sub_pc = "track"
        /\ tracker' = [tracker EXCEPT ![sub_job] = "QUEUED"]
    BY <1>3 DEF SubmitTrack
  <2>2. sub_job \in issued \ deleted /\ (can_pc # "idle" => can_job # sub_job)
    BY <2>1 DEF DeletionInv, SubmittedIsNew
  <2>3. \A j \in issued : j # sub_job => tracker'[j] = tracker[j]
    BY <2>1 DEF Types
  <2> QED BY <1>1, <2>1, <2>2, <2>3 DEF DeletionInv, SubmittedIsNew, CancelledIsTracked,
          DeletedStaysDeleted
<1>4. CASE SubmitPublish
  BY <1>1, <1>4 DEF SubmitPublish, trackVars, DeletionInv, SubmittedIsNew, CancelledIsTracked,
     DeletedStaysDeleted
<1> QED BY <1>2, <1>3, <1>4 DEF Submit

(* Steps that write the status of a job only while it is tracked. *)
LEMMA NothingDeleted ==
  ASSUME Types, DeletionInv, UNCHANGED <<sub_pc, sub_job, issued, deleted>>,
         pending' \subseteq pending,
         \A j \in issued : tracker'[j] = "none" <=> tracker[j] = "none",
         \/ UNCHANGED <<can_pc, can_job>>
         \/ can_pc # "idle" /\ can_job' = can_job
         \/ can_pc' = "idle"
  PROVE  DeletionInv'
<1>1. deleted' \subseteq issued' /\ SubmittedIsNew'
  BY DEF DeletionInv, SubmittedIsNew
<1>2. CancelledIsTracked'
  BY DEF DeletionInv, CancelledIsTracked
<1>3. DeletedStaysDeleted'
  BY DEF DeletionInv, DeletedStaysDeleted
<1> QED BY <1>1, <1>2, <1>3 DEF DeletionInv

(* Clients cancel and delete jobs they know, and that are tracked. *)
LEMMA ClientDeletion == ASSUME Types, DeletionInv, Client PROVE DeletionInv'
<1>1. UNCHANGED <<sub_pc, sub_job, issued>>
  BY DEF Client, subVars
<1>2. CASE \E j \in Jobs : CheckStatus(j)
  <2>1. \A j \in issued : tracker'[j] = "none" <=> tracker[j] = "none"
    BY <1>2 DEF CheckStatus, Types
  <2> QED BY <1>1, <1>2, <2>1, NothingDeleted DEF CheckStatus, canVars
<1>3. ASSUME NEW j \in Jobs, NEW del \in BOOLEAN, CancelBegin(j, del) PROVE DeletionInv'
  <2>1. /\ Known(j) /\ tracker[j] # "none" /\ can_pc = "idle"
        /\ UNCHANGED <<pending, deleted>>
    BY <1>3 DEF CancelBegin
  <2>2. \A i \in issued : tracker'[i] = "none" <=> tracker[i] = "none"
    BY <1>3, <2>1 DEF CancelBegin, Types
  <2>3. can_pc' # "idle" => can_job' = j
    BY <1>3, <2>1 DEF CancelBegin
  <2>4. j \in issued /\ (sub_pc # "idle" => sub_job # j)
    BY <2>1 DEF Known
  <2>5. SubmittedIsNew' /\ CancelledIsTracked'
    BY <1>1, <2>1, <2>2, <2>3, <2>4 DEF DeletionInv, SubmittedIsNew, CancelledIsTracked
  <2>6. deleted' \subseteq issued' /\ DeletedStaysDeleted'
    BY <1>1, <2>1, <2>2 DEF DeletionInv, DeletedStaysDeleted
  <2> QED BY <2>5, <2>6 DEF DeletionInv
<1>4. CASE CancelFlag \/ CancelKill
  BY <1>1, <1>4, NothingDeleted DEF CancelFlag, CancelKill, CancelGoto, trackVars
<1>5. CASE CancelStatus
  <2>1. \A j \in issued : tracker'[j] = "none" <=> tracker[j] = "none"
    BY <1>5 DEF CancelStatus, CancelGoto, Types, DeletionInv, CancelledIsTracked
  <2>2. can_pc # "idle" /\ (can_pc' = "idle" \/ can_job' = can_job)
    BY <1>5 DEF CancelStatus, CancelGoto
  <2> QED BY <1>1, <1>5, <2>1, <2>2, NothingDeleted DEF CancelStatus
<1>6. CASE DeleteErase
  <2>1. /\ can_pc = "erase" /\ can_pc' = "idle"
        /\ tracker' = [tracker EXCEPT ![can_job] = "none"]
        /\ pending' = pending \ {can_job} /\ deleted' = deleted \cup {can_job}
    BY <1>6 DEF DeleteErase, CancelGoto
  <2>2. /\ can_job \in issued
        /\ sub_pc # "idle" => can_job # sub_job
    BY <2>1 DEF DeletionInv, SubmittedIsNew, CancelledIsTracked
  <2>3. \A j \in issued : tracker'[j] = IF j = can_job THEN "none" ELSE tracker[j]
    BY <2>1 DEF Types
  <2> QED BY <1>1, <2>1, <2>2, <2>3 DEF DeletionInv, SubmittedIsNew, CancelledIsTracked,
          DeletedStaysDeleted
<1> QED BY <1>2, <1>3, <1>4, <1>5, <1>6 DEF Client

(* Late results and reaped workers find no entry, and make none. *)
LEMMA ServerDeletion == ASSUME Types, DeletionInv, Io \/ Monitor PROVE DeletionInv'
<1>1. UNCHANGED <<sub_pc, sub_job, issued, deleted, can_pc, can_job>>
  BY DEF Io, Monitor, subVars, canVars
<1>2. pending' \subseteq pending
  BY DEF Io, DispatchCheck, DispatchTake, DispatchLookup, CollectLookup, Lookup, DispatchWrite,
     DispatchFlush, DispatchNote, CollectCheck, CollectRead, CollectStore, Monitor, MonitorReap, MonitorMark, MonitorReset, MonitorResetCancelled,
     MonitorStatus, MonitorRespawn
<1>3. \A j \in issued : tracker'[j] = "none" <=> tracker[j] = "none"
  <2>1. CASE Io /\ CollectStore
    <3>1. StatusOf(io_out) # "none"
      BY DEF Types, Outcome, StatusOf
    <3> QED BY <2>1, <3>1 DEF CollectStore, trackVars, Types
  <2>2. CASE Io /\ ~CollectStore
    BY <2>2 DEF Io, DispatchCheck, DispatchTake, DispatchLookup, CollectLookup, Lookup,
       DispatchWrite, DispatchFlush, DispatchNote, CollectCheck, CollectRead, trackVars
  <2>3. CASE Monitor /\ MonitorStatus
    BY <2>3 DEF MonitorStatus, Types
  <2>4. CASE Monitor /\ ~MonitorStatus
    BY <2>4 DEF Monitor, MonitorReap, MonitorMark, MonitorReset, MonitorResetCancelled,
       MonitorRespawn, trackVars
  <2> QED BY <2>1, <2>2, <2>3, <2>4
<1> QED BY <1>1, <1>2, <1>3, NothingDeleted

-----------------------------------------------------------------------------
(* Every step keeps the invariant. *)
LEMMA NextJobs == ASSUME JobsInv, [Next]_vars PROVE JobsInv'
<1>0. Types /\ PlacesInv /\ DeletionInv /\ MovedAreTaken /\ CancelledIsTracked
  BY DEF JobsInv, PlacesInv, DeletionInv
<1>1. CASE Submit
  BY <1>0, <1>1, HandlersTypes, HandlersPlaces, SubmitDeletion DEF JobsInv
<1>2. CASE Client
  BY <1>0, <1>2, HandlersTypes, HandlersPlaces, ClientDeletion DEF JobsInv
<1>3. ASSUME NEW w \in Workers, Worker(w) \/ Die(w) PROVE JobsInv'
  <2>1. DeletionInv'
    BY <1>0, <1>3, NothingDeleted DEF Worker, Die, trackVars, subVars, canVars
  <2> QED BY <1>0, <1>3, <2>1, WorkerTypes, WorkerPlaces DEF JobsInv
<1>4. CASE Io
  BY <1>0, <1>4, IoTypes, IoPlaces, ServerDeletion DEF JobsInv
<1>5. CASE Monitor
  BY <1>0, <1>5, MonitorTypes, MonitorPlaces, ServerDeletion DEF JobsInv
<1>6. CASE UNCHANGED vars
  <2>1. UNCHANGED <<tracker, pending, issued, deleted, sub_pc, sub_job, can_pc, can_job,
                    wk_pc, wk_data, wk_out, to_worker, r_status, io_pc, io_job, io_out, io_at,
                    io_fd, pid, next_pid>>
    BY <1>6 DEF vars, trackVars, subVars, canVars, wkVars, resVars, ioVars, procVars
  <2>2. Types'
    BY <1>0, <2>1 DEF Types
  <2>3. PlacesInv'
    BY <1>0, <2>1, NothingMoves DEF Holds
  <2>4. DeletionInv'
    BY <1>0, <2>1, NothingDeleted
  <2> QED BY <2>2, <2>3, <2>4 DEF JobsInv
<1> QED BY <1>1, <1>2, <1>3, <1>4, <1>5, <1>6 DEF Next

(* A set without two elements has cardinality 0 or 1. *)
LEMMA AtMostOne ==
  ASSUME NEW S, \A x, y \in S : x = y
  PROVE  Cardinality(S) \in {0, 1} /\ (Cardinality(S) = 1 => S # {})
<1>1. CASE S = {}
  BY <1>1, FS_EmptySet
<1>2. CASE S # {}
  <2>1. PICK x \in S : TRUE
    BY <1>2
  <2>2. S = {x}
    BY <2>1
  <2> QED BY <1>2, <2>2, FS_Singleton
<1> QED BY <1>1, <1>2

(* The invariant counts the places of a payload: one at most. *)
LEMMA OnePlace == JobsInv => PayloadInOnePlace
<1> SUFFICES ASSUME JobsInv, NEW j \in Jobs
             PROVE
      LET inPipe == {x \in Workers \X (1..Cardinality(Jobs)) :
                       x[2] <= Len(to_worker[x[1]]) /\ to_worker[x[1]][x[2]] = j}
          held == {w \in Workers : wk_pc[w] = "solve" /\ wk_data[w] = j}
          one(b) == IF b THEN 1 ELSE 0
      IN  one(j \in pending) + one(io_pc \in {"send", "write"} /\ io_job = j)
            + Cardinality(inPipe) + Cardinality(held) <= 1
  BY DEF PayloadInOnePlace
<1> DEFINE
      inPipe == {x \in Workers \X (1..Cardinality(Jobs)) :
                   x[2] <= Len(to_worker[x[1]]) /\ to_worker[x[1]][x[2]] = j}
      held == {w \in Workers : wk_pc[w] = "solve" /\ wk_data[w] = j}
      sent == io_pc \in {"send", "write"} /\ io_job = j
<1>0. MovedAreTaken /\ SentOnce /\ PipedOnce /\ HeldOnce
  BY DEF JobsInv, PlacesInv
<1>1. ASSUME NEW x \in inPipe
      PROVE  /\ x[1] \in Workers /\ x[2] \in Places(x[1]) /\ to_worker[x[1]][x[2]] = j
             /\ x = <<x[1], x[2]>>
  <2>1. x[1] \in Workers /\ x[2] \in 1..Cardinality(Jobs) /\ x = <<x[1], x[2]>>
    OBVIOUS
  <2>2. Cardinality(Jobs) \in Nat /\ Len(to_worker[x[1]]) \in Nat
    BY <2>1, JobsAssumption, FS_CardinalityType DEF JobsInv, Types
  <2> QED BY <2>1, <2>2 DEF Places
<1>2. ASSUME NEW w \in held PROVE w \in Workers /\ Holds(w) /\ wk_data[w] = j
  BY DEF Holds
<1>3. \A x, y \in inPipe : x = y
  <2> SUFFICES ASSUME NEW x \in inPipe, NEW y \in inPipe PROVE x = y
    OBVIOUS
  <2> HIDE DEF inPipe
  <2>1. x[1] = y[1] /\ x[2] = y[2]
    BY <1>0, <1>1 DEF PipedOnce
  <2> QED BY <1>1, <2>1
<1> HIDE DEF inPipe, held
<1>4. \A v, w \in held : v = w
  BY <1>0, <1>2 DEF HeldOnce
<1>5. inPipe # {} => held = {} /\ ~sent /\ j \notin pending
  BY <1>0, <1>1, <1>2 DEF PipedOnce, SentOnce, MovedAreTaken, OnItsWay
<1>6. held # {} => ~sent /\ j \notin pending
  BY <1>0, <1>2 DEF SentOnce, MovedAreTaken, OnItsWay
<1>7. sent => j \notin pending
  BY <1>0 DEF MovedAreTaken, OnItsWay
<1> DEFINE a == Cardinality(inPipe)
           b == Cardinality(held)
<1>8. /\ a \in {0, 1} /\ b \in {0, 1}
      /\ a = 1 => inPipe # {}
      /\ b = 1 => held # {}
  BY <1>3, <1>4, AtMostOne
<1>9. b = 1 => held # {}
  BY <1>8
<1>10. held = {} => b = 0
  BY <1>8
<1> HIDE DEF a, b, sent
<1>11. (IF j \in pending THEN 1 ELSE 0) + (IF sent THEN 1 ELSE 0) + a + b <= 1
  BY <1>5, <1>6, <1>7, <1>8, <1>10
<1> QED BY <1>11 DEF a, b, sent, inPipe, held

(* The invariant holds in every reachable state. *)
THEOREM JobsInvariant == Spec => []JobsInv
<1>1. Init => JobsInv
  BY InitJobs
<1>2. JobsInv /\ [Next]_vars => JobsInv'
  BY NextJobs
<1> QED BY <1>1, <1>2, PTL DEF Spec

(* A payload is in one place at a time (a pending map, the dispatcher, one *)
(* pipe or one worker), wherever workers die and jobs are cancelled: the   *)
(* server never lets two workers solve one job.                            *)
THEOREM PayloadsStaySingle == Spec => []PayloadInOnePlace
BY JobsInvariant, OnePlace, PTL

(* No late result, reaped worker, status check or cancellation brings back *)
(* the entry or the payload of a job that DeleteResult removed.            *)
THEOREM DeletionIsFinal == Spec => []DeletedStaysDeleted
<1>1. JobsInv => DeletedStaysDeleted
  BY DEF JobsInv, DeletionInv
<1> QED BY <1>1, JobsInvariant, PTL
=============================================================================
