# TLA+ verification of cuOpt's concurrent core

This directory holds TLA+ modules, TLC configurations and TLAPS proofs for the
parts of cuOpt in which threads and processes share state:

- the remote-solve server under `src/cpp/src/grpc/server/`, with its processes,
  threads, shared memory, pipes, crashes, time-outs and retries;
- the parallel branch and bound under `src/cpp/src/branch_and_bound/`, in its
  default (opportunistic) and in its deterministic mode, with the work-unit
  scheduler and the producer synchronisation under `src/cpp/src/utilities/`.

The numerical code around them (LP solvers, presolve, cuts, GPU heuristics,
routing) is out of a model checker's reach.

Abbreviations for files used below, in `src/cpp/src/branch_and_bound/`:
`bnb` = `branch_and_bound.cpp`, `node` = `mip_node.hpp`,
`nodeq` = `node_queue.hpp`, `pool` = `worker_pool.hpp`,
`detw` = `deterministic_workers.hpp`; in `src/cpp/src/utilities/`:
`sched` = `work_unit_scheduler.cpp`, `prod` = `producer_sync.hpp`;
in `src/cpp/src/grpc/server/`:
`queue` = `grpc_job_queue.hpp`, `mgmt` = `grpc_job_management.cpp`,
`threads` = `grpc_server_threads.cpp`, `worker` = `grpc_worker.cpp`,
`infra` = `grpc_worker_infra.cpp`, `service` = `grpc_service_impl.cpp`,
`types` = `grpc_server_types.hpp`, `pipe` = `grpc_pipe_serialization.hpp`, `pipe_io` = `grpc_pipe_io.cpp`,
`main` = `grpc_server_main.cpp`.

## 1. Inventory

The server is one main process and `num_workers` worker processes.

| Component | State it keeps | Operations | Correct when |
|---|---|---|---|
| Job slot queue (`queue`, `mgmt`) | `job_queue[MAX_JOBS]` in shared memory: `ready`, `claimed`, `enqueue_seq`, `worker_pid`, `job_id`, `cancelled`, `data_sent`; `next_job_enqueue_seq` | reserve, fill, publish (handler threads); `claim_ready_job_slot`, `reset_job_slot` (workers, monitor) | a slot has one owner; a worker works on the job it selected; jobs start in ticket order; a reserved slot was free |
| Job lifecycle (`mgmt`, `threads`, `worker`, `infra`) | `job_tracker`, `pending_job_data`, `pending_chunked_data`, pipes, `result_queue` | `submit_job_async`, `submit_chunked_job_async`, `check_job_status`, `cancel_job`, `delete_job`, dispatch, solve, collect, `mark_worker_jobs_failed` | every job ends; a solution belongs to its job; a payload is sent once; a deleted job stays deleted |
| Result slots (`worker`, `infra`, `threads`) | `result_queue[MAX_RESULTS]`: `ready`, `claimed`, `retrieved`, job id, status | `store_simple_result`, `publish_result`, the monitor's failure entry; read and recycle by `result_retrieval_thread` | no mixed entry is read, nothing visible is lost, slots are recycled |
| Wait for completion (`service`) | `waiting_threads`, `JobWaiter` | `WaitForCompletion`; signals of the collector, `cancel_job`, shutdown | an answer was true during the call; the call returns |
| Chunked sessions (`service`, `threads`) | `chunked_uploads`, `chunked_downloads`, their time stamps | `StartChunkedUpload`, `SendArrayChunk`, `FinishChunkedUpload`, `StartChunkedDownload`, `GetResultChunk`, `FinishChunkedDownload`, `session_reaper_thread` | limits hold, one job per upload, sessions in use survive, stale ones go |
| Chunk assembly (`service`, `pipe`) | `FieldMeta`, the chunks of a field | bounds checks, `validate_field_chunks`, `assemble_and_write_field` | the worker gets exactly the array, or nothing at all |
| Worker monitor and shutdown (`threads`, `infra`, `main`) | `worker_pids`, `worker_ready_flags`, deadlines, `keep_running`, `shutdown_requested`, `fatal_worker_failure` | spawn, readiness, reap, respawn with retries, fatal shutdown, signal thread, watchdog, joins | dead workers are replaced, hung ones stop the server, shutdown ends and leaves nobody behind |
| Pipe I/O (`pipe_io`) | file descriptors | timed read and write loops | partly modelled, as queues of payloads of bounded capacity behind descriptors that can be closed and reused |
| Incumbents, log streaming | incumbent pipe, log files | `GetIncumbents`, `StreamLogs` | not modelled yet |
| gRPC client, Python proxy | sessions on the client side | chunking, polling, retries | not modelled yet |
| Branch and bound, opportunistic mode (`bnb`, `node`, `nodeq`, `pool`) | `search_tree_`, a `node_queue` and a `lower_bound` per worker, `idle_workers_`, `upper_bound_`, `solver_status_`, `is_running_`, `node_concurrent_halt_` | `best_first_search_with`, `plunge_with`, `launch_bfs_worker`, `work_stealing`, `get_lower_bound`, `add_feasible_solution`, `set_solution_from_heuristics`, `set_final_solution` | no node is lost, solved twice or used after it was freed; the optimum is not discarded; bound and status returned are true; the search ends |
| Branch and bound, deterministic mode (`bnb`, `detw`) | stacks, backlogs and snapshots of the workers, `deterministic_current_horizon_`, `heuristic_solution_queue_` | the two worker loops, `deterministic_sync_callback` and what it calls | as above, and two runs agree |
| Work-unit scheduler, producer sync (`sched`, `prod`) | `barrier_generation_`, work units, `producers_`, a condition variable | `record_work_sync_on_horizon`, `wait_for_next_sync`, `wait_for_producers`, `notify_progress`, (de)registration | nobody outruns a barrier, no wake-up is lost for good, no producer is behind a merged horizon |
| LP, MIP and routing solvers, readers, bindings | - | numerical and sequential code | not modelled |

How they meet. A handler thread puts a job's payload in the pending maps and a
slot in shared memory. A worker claims the slot and waits on its pipe.
`result_retrieval_thread` finds the claimed slot, moves the payload from the
pending maps to that worker's pipe, and, in the second half of the same loop,
scans the result slots, reads the worker's result pipe and updates
`job_tracker`; it signals the waiters. `worker_monitor_thread` reaps dead
workers, writes a failure entry for their jobs, resets their slots and
respawns them. `cancel_job` flags a slot and kills the worker. The locks are
`tracker_mutex`, `waiters_mutex`, `pending_data_mutex`, `job_enqueue_mutex`,
`worker_pids_mutex`, `worker_pipes_mutex` and one per session table;
shared memory is lock-free.

Branch and bound runs inside a worker process, or in a local solve. A
best-first worker is an OpenMP task with a queue of open nodes of its own. It
takes the best, plunges from it, hands nodes to idle workers and steals from
busy ones; the tree, its counters and `upper_bound_` are shared, and the lower
bound is gathered from all workers without a lock whenever somebody wants to
know the gap. In deterministic mode the workers share nothing between two
barriers but the tree's counters; a barrier's callback waits for the CPU
feasibility-jump producer, then merges, balances and decides.

What is hard here: slots recycled between a look and a use; a process killed
between two stores of shared memory; results and payloads that travel on
different roads (slots and pipes) and must be matched; time-outs that race late
data; signals missed between a check and a registration; a shutdown that races
a respawn. In branch and bound: a lower bound read while nodes move, nodes freed
by whichever worker closes the second sibling, the test that everyone is idle
while someone is being launched, limits that strike between two counters,
results that must not depend on who was faster. `PROJECT.json` lists these hazards at their lines.

## 2. Modules

| Module | Models | Grain |
|---|---|---|
| `JobSlots` | the job slots | single loads, stores and exchanges of shared fields; a worker may be killed between any two |
| `JobPool` | what the job slots promise: a set of pending jobs and at most one job per worker | abstract specification |
| `JobSlots_proofs` | ownership, selection and order of the job slots, and that they implement `JobPool` | theorems |
| `JobLifecycle` | the life of a job from submission to deletion | critical sections and lone stores; claiming a slot and writing a result slot are one step (taken apart in `JobSlots`, `ResultSlots`) |
| `ResultSlots` | the result slots | single loads and stores |
| `JobWait` | `WaitForCompletion` and everyone who signals it | critical sections |
| `ChunkedSessions` | session tables and reaper, with ageing time stamps | critical sections |
| `ChunkAssembly` | the arithmetic of chunks of one array | one RPC, one dispatch |
| `WorkerMonitor` | processes, pids, readiness, respawn, shutdown | critical sections and lone stores |
| `SearchTree` | the tree of nodes: branching, closing, freeing | one call |
| `TreeClimb` | `set_status` of several workers at once, compared with `SearchTree` | single stores and the `fetch_sub` |
| `TreeSearch` | the opportunistic search | critical sections and single accesses of shared atomics |
| `HorizonSearch` | the deterministic search, scheduler and producer sync | from one recording of work to the next; the wait for the producer statement by statement |
| `HorizonTwin` | two runs of `HorizonSearch` on one problem | |
| `JobLifecycle_proofs`, `JobWait_proofs`, `TreeSearch_proofs`, `HorizonSearch_proofs` | theorems about the module each is named after | theorems |
| `WorkerMonitor_proofs` | theorems about `WorkerMonitor`, and about `ResultSlots`, what its workers leave behind | theorems |
| `SearchTree_proofs` | what closing a node and branching on one do to the tree, for both modes of the search | lemmas |
| `ChunkedSessions_proofs` | theorems about `ChunkedSessions`, and about `ChunkAssembly`, the arrays of a session | theorems |
| `MC_*` | constants and symmetry for TLC; `ResultSlots`, `JobWait` and `WorkerMonitor` need none and are checked directly | |

Variables keep the names of the code's fields. A thread's program point is a
`..._pc` variable whose value is named after the statement it is about to
execute; a scan's cursor is `..._at`. `PROJECT.json` maps every definition to
the lines it stands for. A definition whose comment describes a slip (for
instance `StillSelectedReadyOnly`, or `PoolFullButOne`) is a mutated form of the definition below
it; no specification uses it, it shows that a property would notice that slip.

### JobSlots

`Submitter(p)` is the reservation loop of `submit_job_async` and
`submit_chunked_job_async` (look at `ready`, exchange `claimed`, fill) and
`publish_ready_job_slot` (ticket, `ready`, `claimed` under
`job_enqueue_mutex`). `Worker(w)` is `claim_ready_job_slot` (the scan for the
lowest ticket, the exchange, the re-check, the undo and retry, the store of
`worker_pid`) and `reset_job_slot` with its three visible stores. `Die`, `Reap`
and `Monitor` are the kill of a worker at any point and
`mark_worker_jobs_failed`, which finds the slots by pid. History variables
record which jobs have been started and, for `NoOvertaking`, which tickets have
been dispatchable ever since a worker's scan began.

### JobLifecycle

One submitting thread, one thread in `cancel_job`/`delete_job`, the two loops
of `result_retrieval_thread` as one sequential process `Io`, the workers, and
`worker_monitor_thread`. Pipes are sequences of job ids (the data in them is
"the payload of job j" or "the solution of problem j"), so that a solution that
lands at another job can be seen. `SlowDispatch` allows the worker's pipe read to time
out while its data is on its way; without data on its way it always may, as
after a rejected chunk set. Payloads have equal sizes, so that the size check
of `recv_job_data_pipe` does not tell two payloads apart.

A descriptor is looked up under `worker_pipes_mutex` in one step
(`DispatchLookup`, `CollectLookup`) and used in a later one. In between the
worker may have died and been replaced, so that the descriptor is closed
(`Stale`) and its number perhaps in use again: by a pipe made later
(`MadeLater`; the bytes go to another worker, or another worker's result is
read), or by a connection or file that takes the bytes (`WriteGoesElsewhere`).
A write starts (`DispatchWrite`, `WkStream`) and is over when the pipe holds no
more than `PipeHolds` payloads (`DispatchFlush`, `WkStreamed`): `write_to_pipe`
(`pipe_io`:37) polls as long as that takes. With `PipeHolds = 0` a payload is
larger than the pipe. A worker whose header is too large for the protocol fails
before the first byte, after its result was made visible, and stores the error
in the public slot (`WkStreamFails`, `worker`:853).

### ResultSlots, JobWait, ChunkedSessions, ChunkAssembly, WorkerMonitor

`ResultSlots` splits an entry in two halves stored in separate steps, so that a
mixture can be told from an entry. A writer may fail to stream its payload and
then stores the error in the slot it has already given up (`StreamFails`).
`disturbed` remembers the results that had a second writer in their slot, or
another writer's error stored over them, and `orphaned` the slots whose writer
was killed inside. `JobWait` has one job and several calls;
shared waiters are numbered because a signalled waiter leaves
`waiting_threads`, and a later call makes a new one. `ChunkedSessions` keeps
ages instead of clock readings, and a second set of ages as the reaper's `now`
sees them, because that `now` is taken before the lock. `ChunkAssembly` fills
the array on the pipe with the numbers of the chunks, so that a hole (0) or a
wrong order shows. `WorkerMonitor` keeps processes by pid, which of them have
been sent SIGKILL, and the program points of the monitor, the signal thread and
`main`.

### SearchTree and TreeSearch

A node is its number in the binary heap, so parents and children need no
pointers. What the LP solver will find at a node (fractional, integer,
infeasible, or a numerical failure, and an objective) is a constant of the
behaviour, chosen from `Trees`; objectives are small integers and gap
tolerances are 0. `Closed` is `set_status` with its climb and the release of
the children; the atomic counters give each ancestor to one climber, so the
climb is one step. `TreeClimb` shows that this loses nothing (`tree_climb.cfg`,
section 3). A worker reads `upper_bound_` before it takes a node (`Take`,
`bnb`:1816) and again for the cut-off of the node's LP (`SolveNodeLp`, `bnb`:1643).
The search may start with an upper bound the early heuristics found and no
incumbent (`InitialUpper`, `solver.cu`:462, `bnb`:340); a first incumbent may
then be worse than that bound. `get_lower_bound` is a loop of single reads (`ReadWorkerBound`,
`ReadQueueBound`) that every gap test goes through. A worker's program points
follow `best_first_search_with` and `plunge_with`; `leaving` counts tasks that
have given their worker back and have yet to look whether all are idle,
because the worker can be launched again in between. The simplex may answer
CUTOFF whenever the objective is above the cut-off it was given, an interrupted
LP puts its node back. Thread 0 stands for everything else that finds solutions
(GPU heuristics, dives, sub-MIPs): it calls `set_solution_from_heuristics`.
Diving workers only read copies of nodes, and take no node from the queues.

### HorizonSearch and HorizonTwin

Each node also carries the work its bounds strengthening and its LP take, the
direction of its first child and what a dive from it finds. A worker's step
goes from one `record_work_sync_on_horizon` to the next, since in between it
touches nothing of the others; an LP that records its work in several pieces
is one whose last piece brings it to the barrier (`Recorded`, and `Released`
for an LP that spans several horizons). The callback is one step (everyone else
is at the barrier) but for its wait: testing the condition, falling asleep and
being woken are separate, because `notify_progress` does not take the mutex.
The producer stamps a solution with its work units when it reports it. `addr`
is the address of a node, because `last_solved_node` is compared with it after
the node may have been freed; `Reuse` says whether the allocator may give
addresses out again, which it may in the runs. `strayed` remembers whether the
comparison has ever taken a node for a child of the node solved last when it was
none. `HorizonTwin` runs two copies, each with its own
interleaving, and compares them after every barrier.

## 3. Runs

Bounds name their constants; each is the smallest in which the case the
property is about happens, and the mutants in `PROJECT.json` show that it does:
each is a plausible slip in the mapped code that the same run then reports.

| Run | Instance | What holds |
|---|---|---|
| `slots_safety` | 2 handler threads, 2 workers that may die, 2 slots, 3 jobs | `SlotOwnership`: no two of the handler threads, the workers (dead ones included) and the monitor own a slot. `WorksOnSelectedJob`: a worker past its re-check holds the slot with the ticket its scan chose. `TicketsPublishedInOrder`: no visible job has a ticket above one that is taken but not yet visible. `NoOvertaking`: a claim never passes over a job that was dispatchable all through its scan. |
| `slots_pool` | 1 handler thread, 2 workers and a respawn, 2 slots, 2 jobs | `PoolSpec`: the slots implement `JobPool`; a job is taken by one worker, once, and a death never brings it back. |
| `lifecycle_full` | 1 worker (respawned), 1 slot, 2 chunked jobs, a cancel or delete, a death, slow dispatch | `PayloadInOnePlace`: a payload is never in two of pending map, dispatcher, pipe and worker. `DeletedStaysDeleted`. |
| `lifecycle_ends` | 1 worker, 2 slots, 1 result slot, 2 chunked jobs larger than the pipe, one malformed, a cancel, slow dispatch | `EveryJobEnds`: under fair threads every accepted job reaches a terminal status or is deleted, with three exceptions, each of which happens in this instance: the retrieval thread is held up in one pipe for good, the job's result found the result table full, or its slot was orphaned by a kill (`slots_orphan`). (About 400 000 states, 90 s.) |
| `results` | 2 writers, one of which may be killed and succeeded, 2 slots, 3 results, streams that fail | `ReadsWhatWasWritten`, `NothingLost`, `VisibleIsRecycled`. Three results and two slots bring the second writer into a slot before the first has cleared `claimed`, and an error stored late into a slot that is another's. |
| `wait_returns` | 2 calls; cancel, delete, a crash or a shutdown | `AnswerWasTrue`: a terminal answer was the job's status at some moment of the call. `WaitReturnsUnlessDeleted`. |
| `sessions` | 1 upload, 2 downloads, 2 handler threads, limit 1, time-out 1 tick | `SessionLimits`, `OneJobPerUpload`, `ActiveUploadSurvives`; the type invariant holds that no read leaves the array. |
| `assembly` | arrays up to 6 bytes, elements of 1 or 2 bytes or unknown, up to 3 chunks | `WorkerUndisturbed`, `WrittenExactly`, `GoodUploadWritten`. Three chunks give every overlap, gap and order. |
| `workers` | 2 workers, 2 spawn retries, 1 spontaneous failure, hangs, failed spawns, a wedged thread | `PidsAreOwn`, `NoWorkerLeftBehind`, `HungWorkerStopsServer`, `ShutdownCompletes`, `DeadIsReplaced`. |
| `bnb_search` | 2 best-first workers, 6 trees of 3 to 9 nodes, limits, one heuristic solution, two trees with an initial upper bound | `EveryNodeHeldOnce`, `NoUseAfterFree`, `OptimumNotDiscarded`, `StoppedWhenExplored`, `FinalBoundIsValid`, `VerdictIsSound`, `SearchEnds`. The trees have a short and a long queue (with and without something to steal), a node cut off by the other worker's solution, no solution, and an LP failure. (About 400 000 states, 2 minutes.) |
| `horizon` | 2 best-first workers, 1 diver, a producer, 7 trees, horizons of 2 work units, addresses that are reused, an initial upper bound | `NobodyOutrunsTheBarrier`, `EveryNodeHeldOnce`, `OptimumNotDiscarded`, `NothingFromThePast`, `StatusIsSound`, `SearchEnds`. The trees have loads to balance, an LP over several horizons, late solutions of the producer, dives that are not worth it any more, a work limit inside a node, a time limit. `OptimumNotDiscarded` and `StatusIsSound` hold until a worker has strayed (section 5). |
| `horizon_twin` | twice the same, 2 trees | `RunsAgree`: after every horizon both runs have the same queues, incumbent, bounds and status, unless a worker has strayed in one of them; the two runs reuse addresses independently of each other. |

`sessions_reaped.cfg` (MC_ChunkedSessions; one upload, one download, one
handler) is kept beside the runs: it checks `StaleSessionsReaped`, that a
session nobody uses is removed in the end, and passes. So is `tree_climb.cfg`
(TreeClimb; three workers, two trees, 16 609 states): with every climb of
`set_status` in its own steps, the tree is the one of `SearchTree` whenever no
climb is under way (`ClimbsAddUp`); the open nodes and their ancestors, all that
other workers read, agree at any time (`OpenPartAgrees`); and no climb touches a
freed node or a node of another climb (`ClimbsAreApart`). The type invariants of
`JobSlots` and `ChunkedSessions` are checked by the runs; those of the other
modules hold on the same instances (add `INVARIANT TypeOK`, in
`ChunkAssembly` `ArrayTypeOK`, to the configuration). So do `ReservedSlotIsFree` with the instance of `slots_pool`
and `ChunksWithinArray` with that of `assembly`.

Symmetry is used for job ids, handler threads, session ids and pids in safety
runs only; those sets are never compared by order. In `slots_pool` first
workers and respawns are permuted separately. `CHECK_DEADLOCK FALSE` stands
where the clients may simply have no more requests, the jobs or failures of the
instance are used up, or the server has exited.

### Bounds beside the constants

`MaxDeaths`, `MaxCancels`, `MaxFaults`, `MaxFailures` bound what the
environment does, `MaxProduced`, `MaxChunks`, `MaxReads` how often. Job ids are
never reused, as `generate_job_id` draws UUIDs. In `TreeSearch` two workers
leave two branches untaken that need a third: `launch_bfs_worker` finding that
another worker took the last idle one, and a handover finding the queue emptied
by another thief; `LastWork` bounds the work units of the producer that are told
apart. Tickets are unbounded in
`JobSlots` (a 64-bit counter in the code, which does not wrap in practice); the
number of jobs bounds them.

### Fairness

Only threads that the server keeps running are fair, and only weakly: a step
they can take and go on being able to take is taken.

- `JobLifecycle`: the handler thread once it is inside a call
  (`SubmitContinues`, `CancelContinues`), the retrieval thread, `Monitor`, every
  worker. The code's loops poll with bounded sleeps; pipe reads time out, and a
  pipe whose worker died breaks. A write has no limit: it is not enabled while
  the pipe is full, and nothing is assumed of a thread on a descriptor that has
  become something else (`IoRuns`). `EveryJobEnds` therefore supposes that the
  retrieval thread is not held up for good (`IoHeldUp`). `WkSolve` is part of a
  worker's steps: a solve is assumed to end.
- `JobWait`: handlers inside a call (the loop wakes every poll interval), the
  worker, the collector, a begun cancel or shutdown.
- `ChunkedSessions`: the reaper's loop, time itself, a handler inside a call.
- `ResultSlots`: reader and writers.
- `WorkerMonitor`: monitor, signal thread, main, and the expiry of a readiness
  deadline. Worker processes owe nothing: they may hang or stop.
- `TreeSearch`: every task of the OpenMP task group is run by some thread of
  the team, and its steps do not block; the end of `solve()` follows the
  group's implicit barrier. Thread 0 owes nothing, and no limit need be
  reached. `ChooseVictim` gives up after `max_attempts`, so stealing ends.
- `HorizonSearch`: every thread of the team, the callback and the producer
  (a busy loop that is told to halt only after it was deregistered). The
  manager's steps are strongly fair: they need the mutex of `producer_sync_t`,
  which the callback holds between its test and its sleep, again and again.
  Time need never run out.

Clients owe nothing anywhere.

## 4. Two races in detail

The configurations `slots_reserve` and `lifecycle_swap` end in a violation;
each trace has been followed through the source.

**`slots_reserve`, `mgmt`:92.** The comment at line 89 says "Atomically reserve
a free slot." A handler thread loads `ready` (false) and then exchanges
`claimed`. Another handler thread that had reserved the slot may publish in
between: it stores `ready = true`, then `claimed = false`. The exchange then
succeeds on a slot that holds a published job, which the first thread
overwrites. The re-check that `claim_ready_job_slot` makes after its own
exchange is missing on this side. With one handler thread the property holds
(the instance of `slots_pool`), and with it the refinement of `JobPool`; section
6 has both for any number of slots and workers, and that this race is the only
way out of `JobPool`.

**`lifecycle_swap`, `threads`:371.** The collector scans the result slots in
index order and reads the payload of each from the pipe of the worker it
names. A worker that has two results pending wrote the payloads in the order
of its solves, but the later result may have got the lower slot: each job then
completes with the solution of the other. The scenario needs the worker to
finish a second job while the collector's scan is beyond the freed lower slot.

## 5. What the code does not guarantee

These properties are stated in the modules because a comment or document
suggests them; TLC refutes each with the configuration named. They show where
the guarantees of section 3 end, and the first step of a repair would be to
make the configuration pass. Where a configuration names two properties, `tlc
-continue` shows both refuted.

| Configuration | Property | What happens |
|---|---|---|
| `slots_reserve` (MC_JobSlots) | `ReservedSlotIsFree` | Section 4. |
| `lifecycle_swap` (MC_JobLifecycle) | `CompletedWithOwnSolution` | Section 4. |
| `slots_orphan` (MC_JobSlots) | `NoOrphanedSlot` | `mark_worker_jobs_failed` (`infra`:644) recognises a dead worker's slot by `worker_pid`. A worker killed between its exchange on `claimed` and its store of the pid leaves the slot claimed for ever. The server's document says of a queue slot "Reused after completion". |
| `lifecycle_recycled` (MC_JobLifecycle) | `CompletedWithOwnSolution` | A worker gives up a job it finds cancelled while the dispatcher is about to write that job's payload (`threads`:306). Nothing drains the pipe; the worker reads the payload for its next job. |
| `lifecycle_crash` | `CancelledOnlyOnRequest` | A pipe write that fails because the worker crashed sets `cancelled` (`threads`:332), and the job is reported CANCELLED. The document says such jobs "are marked as FAILED". |
| `lifecycle_recycled` | `CancelledOnlyOnRequest` | `cancel_job` re-validates the slot (`mgmt`:289) and then stores the flag (301, 305); the slot may have been recycled in between, so the next job in it is cancelled. |
| `lifecycle_terminal` | `TerminalIsFinal` | The collector overwrites whatever status the job has (`threads`:405): CANCELLED becomes COMPLETED when the worker had already published. |
| `lifecycle_data_sent` | `DataSentMeansSent` | `data_sent` is stored after the write without looking whether the slot still holds the job (`threads`:329). |
| `lifecycle_crash` | `PayloadDroppedAtEnd` | `mark_worker_jobs_failed` clears `pending_job_data` only (`infra`:659); the chunks of a dead worker's job stay until the client deletes it. |
| `lifecycle_held_up` | `EveryJobAlwaysEnds` | A worker's read timed out and it went back to waiting for a job. The dispatcher's late write is larger than the pipe; the worker lives and does not read, so `write_to_pipe` (`pipe_io`:37) polls for ever and nothing is dispatched or collected any more. |
| `results_two_writers` (ResultSlots) | `WritersExclude` | A writer clears `claimed` after `ready` (`worker`:393). The reader may have freed the slot and another writer claimed it; the late store unlocks that writer's slot and a third one enters. `types`:98 calls the flag a "CAS guard". |
| `wait_delete` (JobWait) | `EveryWaitReturns` | A call that registers its waiter after the signal of a deletion polls NOT_FOUND, which does not end the loop (`service`:818). |
| `sessions_download` (MC_ChunkedSessions) | `ActiveDownloadSurvives` | The reaper judges a download by `created` (`threads`:586), which reads do not renew; `types`:191 speaks of "no activity". |
| `sessions_download` | `SessionsTogetherLimited` | Uploads and downloads are counted separately (`service`:95, 509); `types`:188 speaks of "upload + download sessions". |
| `bnb_optimal` (MC_TreeSearch) | `OptimalIsProved` | `get_lower_bound` (`bnb`:316) reads a worker's own bound and then its queue's. A worker publishes the bound of its queue and then pops (`bnb`:2104); between the two reads of another thread the node with the best bound leaves the queue, and the scan has neither. If the rest of the bounds is no better than the incumbent, the gap seems closed: OPTIMAL is stored and every worker stops. The final bound, computed after all tasks have ended, is sound (`FinalBoundIsValid`; no LP has failed here), so the answer carries a gap that contradicts its status. `docs/cuopt/source/mip-settings.rst`:25 says "cuOpt will run until it finds an optimal solution" and the gap that ends a solve is to be "Best Objective - Dual Bound  <= absolute tolerance". |
| `bnb_numerical` (MC_TreeSearch) | `InfeasibleIsProved` | A node the LP solver fails on is closed and counted as explored; only `lower_bound_numerical_` remembers it. When no solution was found, `set_final_solution` (`bnb`:962) does not look at that bound and answers INFEASIBLE. |
| `horizon_limit` (MC_HorizonSearch) | `OptimalIsProved` | The work limit is noticed in the callback (`bnb`:5259). A worker that came to that barrier inside a node goes on with the node's LP; an integer solution it finds is in its own list, which no callback merges any more, and the node is closed. With the tree now empty the final lower bound is the upper bound (`bnb`:5779), and `set_final_solution` turns WORK_LIMIT into OPTIMAL for the older, worse incumbent. The document says the solver "will stop and return the current solution". |
| `horizon_reuse` (MC_HorizonSearch), `horizon_twin_reuse` (MC_HorizonTwin) | `OptimumNeverDiscarded`, `RunsAlwaysAgree` | `last_solved_node` (`bnb`:5136, 5146) may point to a node that `set_status` has freed. If a later node gets the same address and one of its children comes to this worker by balancing, the child is taken for a child of the node solved last: only its own branching bound is applied, to the box of another part of the tree. The properties of section 3 hold until that has happened (`strayed`), so this comparison is the only thing that can lose the optimum or, in the instance of `horizon_twin`, tell two runs apart. The document calls the mode experimental and not yet fully deterministic. |

One more came out of a proof: `final <= Opt` does not hold of the opportunistic
search. The final lower bound starts from `lower_bound_numerical_` (`bnb`:4787), the
bound of a node the LP solver failed on, and nothing caps it by `upper_bound_`.
Take a root whose children have objectives 3 (fractional) and 2 (integer), and let
the solver fail on a child of the first, solved before the second: the incumbent 2
is optimal and everything is closed, yet the bound that `set_final_solution`
(`bnb`:880) returns is 3. `FinalBoundIsValid` states what does hold: the bound is a
lower bound, or it is that of a failed node and the incumbent is optimal.

## 6. Proofs

Every theorem holds for all values of the constants that satisfy the named
assumptions of the component's module; TLC evaluates those assumptions on every
run. Each proof goes through an inductive invariant, which is needed because the
property alone does not say enough about the other parties' positions; there is
one lemma per kind of process, with one step per action.

### The job slots

For any number of slots, handler threads, workers, respawns and jobs, from
`SlotsAssumption` (at least one slot) and `ThreadsAssumption` (`None` is no
thread, pid or job, and the first workers are workers):

- `TypeCorrect`: `Spec => []TypeOK`. One lemma per kind of thread. The scan is
  the delicate part: `best_slot` is a slot, never the "no slot" value, wherever
  a worker uses it (`WorkerTyped`, `NextCandidateTyped`).
- `OwnershipTheorem`: `Spec => []SlotOwnership`. The property is not inductive:
  an exchange on `claimed` excludes the other owners only because every owner
  keeps `claimed` set (`OwnersHoldClaim`), and the monitor may take over a
  dead worker's slot only because the pid in a slot names its owner at a point
  where that owner still holds it (`PidNamesOwner`). `OwnershipInv` is the
  conjunction with `TypeOK`. A step either changes no owner (`SameOwners`, `ScanKeepsOwners`),
  makes a worker owner (`ClaimByWorker`), releases (`ReleaseByWorker`), or is
  the monitor's takeover. The theorem covers the race of `slots_reserve`: even
  there the two threads never own the slot together.
- `SelectionTheorem`: `Spec => []WorksOnSelectedJob`. Between the re-check and
  the worker's own reset nobody writes `ready` or the ticket of its slot,
  because by `OwnershipInv` the worker owns it alone (`CommittedOwnsAlone`).
  This is why the re-check after the exchange is enough.
- `TicketTheorem`: `Spec => []TicketsPublishedInOrder`, through `TicketInv`:
  every ticket given out is below the counter, whoever has drawn one holds
  `job_enqueue_mutex` until it is published, and it is above all others.
  Ownership is needed again: no reset clears the ticket of a reserved slot.
- `NoOvertakingTheorem`: `Spec => []NoOvertaking`. The
  property speaks of a finished scan, so the invariant `OrderInv` follows the
  scan: a waiting ticket is no lower than the best so far, or a slot at or after
  the cursor still offers it (`ScanCovers`); once a slot is selected the best
  ticket is a lower bound (`LowestSelected`), and from the exchange on the
  slot's own ticket no longer waits (`OwnTicketGone`), so the bound is strict
  when the re-check has found the selected ticket (`SelectionTheorem`). Other
  parties do not disturb a scan (`Undisturbed`): whoever writes a slot owns it,
  so it is claimed and was not dispatchable, and an exchange that claims a
  dispatchable slot ends the waiting of its ticket. Uniqueness of tickets is not
  needed.

- `PoolUnlessReservedTwice`:
  `Spec /\ []ReservedSlotIsFree => PoolSpec`, the refinement of `JobPool`, for any
  number of handler threads: a behaviour that is none of the pool has the race of
  `slots_reserve` in it. The mapping gives a job to a worker when the re-check after
  its exchange succeeds, so `PoolInv` has to say that published slots have jobs of their own
  and that those on offer were never started (`PublishedJobs`), that a job in a
  handler thread's hands is not yet published (`SubmittedJobs`), and that the
  monitor works on the slot of a worker that is gone (`ReapedSlots`). Ownership
  and `SelectionTheorem` are used in every step.
- `OneThreadPool`: with one handler thread, `Spec` implies `[]ReservedSlotIsFree`
  and so `PoolSpec`: a slot that the thread has seen free stays unpublished,
  since nobody else publishes (`SeenFree`).

### The other parts of the server

- `PayloadsStaySingle` (`JobLifecycle`): `Spec => []PayloadInOnePlace`, for any
  number of jobs, slots, workers and deaths. The property counts; the invariant
  `PlacesInv` says instead that a payload on its way has left the pending maps
  (`MovedAreTaken`) and that the dispatcher, each position of each pipe and each
  worker have it to themselves (`SentOnce`, `PipedOnce`, `HeldOnce`); `OnePlace`
  derives the count from it.
- `DeletionIsFinal`: `Spec => []DeletedStaysDeleted`, with what a submission and
  a cancellation under way may still write (`SubmittedIsNew`,
  `CancelledIsTracked`).
- `ResultsAreWhole`, `ResultsAreKept` (`ResultSlots`):
  `ResultSpec => []ReadsWhatWasWritten` and `ResultSpec => []NothingLost`, for any
  number of writers: for every result that shared its slot with no other writer,
  because two writers that meet in a slot are both noted (`MeetingIsNoted`), an
  undisturbed one is alone in a slot that is not visible yet and holds what it
  wrote (`WriteIsHidden`, `SlotIsOurs`), nobody writes into a visible entry that
  is not disturbed (`VisibleIsWhole`), and the reader reads visible ones only
  (`ReadIsVisible`). `claimed` does not keep writers apart
  (`results_two_writers`); the theorems say that nothing else can go wrong.
  `OneWriterIsUndisturbed`: with one writer at a time there is no such meeting, and
  both hold of every result. This is a server with one worker process, the default
  (`types`:152), whose jobs the monitor fails after its death and before it is
  replaced.
- `AnswersAreTrue` (`JobWait`): `Spec => []AnswerWasTrue`. `WaitInv` follows the
  numbered waiters: one that is new or can still be found has not been signalled
  (`Unsignalled`), whoever signals comes after the end of the job
  (`SignalledAfterEnd`), and a call that will report success has seen it
  (`SuccessWasSeen`).
- `SessionTypes`, `SessionsAreLimited`, `UploadsBecomeOneJob`,
  `ReaperSparesTheActive` (`ChunkedSessions`): `TypeOK`, `SessionLimits`,
  `OneJobPerUpload` and the action property `ActiveUploadSurvives`.
  `SessionsInv` knows where a session is: in the table with exactly the
  acknowledged chunks and, to the reaper's early `now`, no older than it is
  (`OpenUploads`), in one handler's hands (`HeldOnce`), or gone.
- `KillsOnlyItsOwn`, `NobodyLeftBehind`, `FatalFailureIsReported`
  (`WorkerMonitor`): `PidsAreOwn`, `NoWorkerLeftBehind`, and the safety part of
  `ShutdownCompletes`. `WorkersInv` says who remembers each live process: the
  table `worker_pids`, the monitor that has spawned it and not yet stored it, or
  nobody because it has been killed (`LiveAreKnown`, `ReplacementIsTrue`); that a
  dead one has left the table before its pid is free (`DeadAreOut`); that a spawn
  answers a failure, so that pids do not run out (`SpawnsMatchFailures`); and where
  `main` and the monitor are in relation to each other (`Phases`).

### Arrays put together from chunks

`WorkerIsUndisturbed`, `ArraysAreExact` and `GoodUploadsAreWritten` prove the three
invariants of `ChunkAssembly`, for any element sizes, limits, number and order of
chunks, from what `AssemblyAssumption` says of the constants. `ArrayInv` says that
the size of the array is fixed once, within the limit and for a known array
(`SizeIsFixed`), and that every accepted chunk lies within that size, whatever
total it claims itself (`AcceptedChunks`). The rest is arithmetic on bytes and
elements: a byte is within the bytes of a chunk exactly when its element is among
those the chunk covers (`ByteInElement`), so that chunks which fit and leave no gap
supply each byte once (`OneSupplier`), and chunks which cut the array pass both
checks (`PiecesPass`). The last one needs `AcceptedChunks`: a refused chunk may have
fixed a total other than that of all chunks accepted, and it is because one of
these reaches the end of the array that theirs is within the limit as well.

### The opportunistic search

For any trees that satisfy `SearchTreeAssumption` (each node's children have no better
bound, only fractional nodes have anything below them) and `TreeAssumption`, any
number of workers, queue lengths, limits and solutions of thread 0. Three invariants, one on top of
the other; the way up to the root is a recursive function, about which induction
is done on the least counter-example (`LeastNatural`, `AncestorInduction`).

- `HoldInv`, for `TypeCorrect`, `NodesHeldOnce` (`EveryNodeHeldOnce`) and
  `NothingFreedTooEarly` (`NoUseAfterFree`). A node that is not freed hangs on a
  branched node, which counts its open children and has one (`TreeShape`): this is
  what the climb of `set_status` preserves, and why the node it ends at is neither
  freed nor left without a child. Open nodes are those the workers hold, no two
  hold one, and none holds one twice (`HeldInv`). A worker has a node in hand, or
  nodes on its stack, at certain program points only (`WorkerInv`), and a worker
  of the pool, or one that is being launched and has not got its node yet, has
  nothing (`PoolInv`); without it a handover could overwrite a queue.
- `BoundInv`, for `OptimumIsKept` (`OptimumNotDiscarded`). The upper bound is
  that of a point of the tree or of what the early heuristics found, no better
  than one. Above each integer point
  there is an open or a closed node, not freed, whose bound admits the point
  (`Settled`), and a closed node is no better than the incumbent or than a node
  the LP solver failed on (`ClosedInv`). The climb keeps this because a fathomed
  ancestor gets the bound of its best child. A cut-off read before an LP is one
  step above the incumbent at worst when the LP ends (`SolveInv`).
- `EndInv`, for `StopsWhenExplored` (`StoppedWhenExplored`), `FinalBoundValid`
  (`FinalBoundIsValid`) and `VerdictSound` (`VerdictIsSound`). A worker that leaves
  while no status is set has nothing in its queue that is better than the
  incumbent (`GapInv`), although the bound it goes by was gathered without a lock:
  whatever the scan misses, it has read the worker's own queue. Until a status is
  set, `nodes_unexplored` is the number of open nodes less those whose solution is
  being stored (`StopInv`); it drifts only when a limit puts nodes back, and then
  the status says so.

### The deterministic search

For any trees that satisfy `SearchTreeAssumption`, any horizon step, limits,
heuristic solutions and number of best-first and diving threads, from
`HorizonAssumption`: work is counted in natural numbers, the producer reports its
solutions in the order of their stamps, and what a dive or a heuristic takes for a
solution is no better than the best point of the tree (`Attained`): a dive reports
an integral LP solution, and `check_guess` (`bnb`:648) refuses an infeasible
heuristic one. Four inductive invariants, each given those before:

- `ProducerInv`, for `NoSolutionFromThePast`: `Spec => []NothingFromThePast`. A
  producer that lags behind could still stamp a solution with a time already
  merged; it does not lag, because no horizon is merged before registration is
  complete (`NoMergeBeforeRegistration`) nor before the registered producer has
  done the horizon's work units (`NotBehind`). The wait is proved as it is
  written, with the gap between its test and its sleep.
- `BarrierInv`, for `BarrierHolds`: `Spec => []NobodyOutrunsTheBarrier`. A thread
  released from a barrier with the work of several horizons on its account stops
  at the next one (`Released`). That what it recorded is a number is part of
  `HoldInv`, so the theorem has no hypothesis.
- `HoldInv`, for `HorizonTypeCorrect` and `HorizonHeldOnce`
  (`Spec => []EveryNodeHeldOnce`). The shape of the tree is that of the
  opportunistic search, and so are the lemmas about it (`SearchTree_proofs`). New is
  what happens at a barrier: the nodes of all backlogs are sorted by origin and
  creation number and dealt out in turn. `IdInv` says that open nodes differ in
  these (a worker numbers the nodes it makes, and all it has made so far are below
  its counter), so that the comparison is a strict total order (`Ordered`), ranks number the
  nodes from 0 without a gap (`RanksNumber`), and the nodes dealt to two workers
  differ in rank (`DealtFacts`, `BalancedFacts`). Without `IdInv` two nodes could
  have one rank, and one of them would be lost. `BfsInv` says that a worker which
  waits with a node in hand is in the middle of it, or about to be told to stop.
  The lists are sequences without repetition (`NoRepeats`), whose length is the
  number of nodes in them: `QueueSize`, which decides on balancing, counts each
  node once. `CallbackInv` has everybody at the barrier while the callback runs,
  and nobody there once the search has ended.
- `BoundInv`, which holds until a worker has strayed, for `HorizonOptimumKept`
  (`OptimumNotDiscarded`) and `HorizonStatusSound` (`StatusIsSound`). Between two barriers every worker cuts
  off with an upper bound of its own. It is the common one, or that of a solution
  in the worker's list (`UpperInv`), and the cut-off its LP got is no lower
  (`CutoffInv`), so that every closed node is covered by the incumbent, by a
  solution still in some list, by the bound of a node the LP solver failed on, or
  by the ceiling a worker keeps for such a node until the next merge (`Covered`,
  `ClosedInv`). The merge takes the best solution of all lists before it clears
  them (`MergedFacts`), and the lowest ceiling. As before, above each integer point
  there is an open or a closed node that admits it (`Settled`); when no worker has
  work left, or the lower bound has met the incumbent, all of them are closed or
  no better, and the status is right (`StatusSound`).

None of these theorems assumes anything of the allocator. The code compares
addresses to tell whether the box of the node solved last can be kept (`BoxInv`);
where a reused address has misled it, the optimum can be lost (`horizon_reuse` in
section 5), and the last two theorems say that nothing else in the search can lose
it. `HorizonNoReuseNoStraying` closes the gap for one kind of allocator: if no
address is given out twice (`Reuse = FALSE`), no worker ever strays (`AddressInv`),
and both hold without exception.
`StatusIsSound` is about the status the callback stores; that `set_final_solution`
may turn WORK_LIMIT into OPTIMAL later is `horizon_limit`.

Before it was proved, `BoundInv` was checked with TLC on the instance of `horizon`.

### Only model-checked

- The liveness properties (`EveryJobEnds`, `WaitReturnsUnlessDeleted`,
  `VisibleIsRecycled`, `HungWorkerStopsServer`, `ShutdownCompletes`,
  `DeadIsReplaced`, both `SearchEnds`): fairness and `ENABLED` are out of the
  prover's reach.
- `HorizonTwin.RunsAgree` compares two runs with interleavings of their own. Its
  invariant would have to name the state a run is in at a barrier whatever came
  before, as a function of the tree: what a worker does in a horizon is a sequence
  of steps of no fixed length, and that it is determined is an induction over data.

## 7. Assumptions and what is left out

- Memory is sequentially consistent. The code orders its atomics explicitly:
  the stores of `ready` and `claimed` are releases and their loads acquires,
  `enqueue_seq` and the claim's `worker_pid` are relaxed. Reorderings that those orders
  allow and sequential consistency does not are outside the models.
- A read of a pid names one process: pids are not reused within a run.
- The solver call is one step with any outcome; a solve ends.
- `JobLifecycle` has equal payload sizes, one submitting and one cancelling
  thread (several handler threads are in `JobSlots`, `JobWait`,
  `ChunkedSessions`), and publishes a slot in one step.
- `WorkerMonitor` lets any of the first spawns fail but one; an index whose
  first spawn failed stays empty, as in the code.
- Branch and bound: objectives are exact and tolerances 0. If the objective moves
  in steps (`objective_step`, with a bias, or 1 for an integral one), objectives are
  counted in those steps, an LP's after `snap_to_lattice` (`bnb`:478): the cut-off
  (`bnb`:498) is a lattice point, so an LP objective is within it exactly when the
  next lattice point is. One step is then 1 whatever its size (`Integral`). Cuts, node presolve and symmetry reductions are left out (they close
  nodes, as an infeasible LP does), as are pseudo-costs, the scores of nodes
  (a diving candidate is ranked by its bound) and repair of infeasible heuristic
  solutions. `ITERATION_LIMIT`, which behaves as `NODE_LIMIT` does, is not
  modelled. Diving workers and sub-MIPs of the opportunistic mode are a source
  of solutions; their launching and halting is not modelled. A dive of the
  deterministic mode is one LP. A worker whose LP stopped at a limit waits at
  the barrier with the node in hand; the status set there ends the search, so
  the node is never solved again, as in the code.
- `prod`:62 warns that `wait_for_producers` must not be used "within OpenMP".
  The callback calls it inside `omp single`; `SearchEnds` holds because the
  model gives the producer a thread of its own. A runtime that has no thread
  left for the producer's task is outside the model.
- The producer of the deterministic mode is the loop of `loop.cpp`:485. The binary
  engine's own loop (`fj_cpu_binary.cu`:1578) raises its work units and then
  notifies, as that one does, so for the deterministic climber it is the same
  process.
- A pipe carries whole payloads, of which the last may still be on its way in. A
  result cut off by the death of its writer fails to be read, and a payload
  whose pipe is replaced in the middle of the write is taken to go on as a whole
  to wherever the descriptor leads then. Framing and the size limits of messages
  are not modelled otherwise. Neither are options, TLS,
  logging, protobuf mapping and file readers (sequential, no shared state), the
  bindings, and the numerical solvers.

## 8. Plan

Order of work, most important first:

1. Incumbents and log streaming: the incumbent pipe with its reader thread,
   `GetIncumbents`, `StreamLogs` polling a status that may vanish, and
   `GetResult` against deletion.
2. Pipe framing: partial transfers, and an aborted write followed by another
   payload.
3. The gRPC client: chunking (that it produces what `GoodUploadWritten`
   accepts), polling and time-outs; then client and server sessions composed.
4. The Python proxy's request handling and result pick-up.
5. Diving workers and sub-MIPs of the opportunistic mode: their launch, their
   limits and the halting of nested solvers (`halt_solver`).

Every safety invariant the runs check on one run of a system is a theorem now; a
module added to this list should come with its own.
