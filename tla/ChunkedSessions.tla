-------------------------- MODULE ChunkedSessions --------------------------
(***************************************************************************)
(* The tables of chunked upload and download sessions in the main process: *)
(* the RPC handlers that open, use and finish a session, and               *)
(* session_reaper_thread, which drops the stale ones.                      *)
(*                                                                         *)
(* Time is counted in ticks.  A session carries the age of the time stamp  *)
(* the code keeps for it, up to Timeout + 1; the reaper compares with a    *)
(* `now' it took before it locked the table, so it judges by the ages that *)
(* its snapshot gives.  The contents of chunks are module ChunkAssembly.   *)
(***************************************************************************)
EXTENDS Integers, FiniteSets, Sequences

CONSTANTS
    Uploads,     \* upload ids generate_job_id may return
    Downloads,   \* download ids generate_job_id may return
    Handlers,    \* threads that serve RPCs with more than one step
    MaxSessions, \* kMaxChunkedSessions
    Timeout,     \* kSessionTimeoutSeconds, in ticks
    MaxChunks,   \* bound on the chunks a client sends in a session
    MaxReads,    \* bound on the chunks a client fetches in a session
    ArraySize,   \* elements of the one result array
    NoId         \* no session

ASSUME SessionsAssumption ==
    /\ {MaxSessions, Timeout, ArraySize} \subseteq Nat \ {0}
    /\ {MaxChunks, MaxReads} \subseteq Nat
    /\ NoId \notin Uploads \cup Downloads

VARIABLES
    \* chunked_uploads: ids, age of last_activity, chunks received
    uploads, up_age, up_chunks,
    \* chunked_downloads: ids, age of created
    downloads, dn_age,
    \* is the job whose result is fetched still in job_tracker?
    tracked,
    \* handlers: program point, session, session state taken along
    h_pc, h_id, h_chunks, h_age,
    \* session_reaper_thread: program point, ages by its `now'
    rp_pc, rp_up, rp_dn,
    \* history: ids used, time since a session was last used, reads made,
    \* elements delivered, chunks sent and acknowledged, jobs of an upload
    opened, up_idle, dn_idle, dn_reads, dn_got, sends, acked, jobs

upVars   == <<uploads, up_age, up_chunks>>
dnVars   == <<downloads, dn_age>>
hVars    == <<h_pc, h_id, h_chunks, h_age>>
rpVars   == <<rp_pc, rp_up, rp_dn>>
histVars == <<up_idle, dn_idle, dn_reads, dn_got, sends, acked, jobs>>
vars == <<upVars, dnVars, tracked, hVars, rpVars, opened, histVars>>

Ids == Uploads \cup Downloads
Ages == 0..(Timeout + 1)
Older(a) == IF a > Timeout THEN a ELSE a + 1
Elements == 0..(ArraySize - 1)

Init ==
    /\ uploads = {} /\ up_age = [u \in Uploads |-> 0] /\ up_chunks = [u \in Uploads |-> 0]
    /\ downloads = {} /\ dn_age = [d \in Downloads |-> 0]
    /\ tracked = TRUE
    /\ h_pc = [h \in Handlers |-> "idle"] /\ h_id = [h \in Handlers |-> NoId]
    /\ h_chunks = [h \in Handlers |-> 0] /\ h_age = [h \in Handlers |-> 0]
    /\ rp_pc = "sleep"
    /\ rp_up = [u \in Uploads |-> 0] /\ rp_dn = [d \in Downloads |-> 0]
    /\ opened = {}
    /\ up_idle = [u \in Uploads |-> 0] /\ dn_idle = [d \in Downloads |-> 0]
    /\ dn_reads = [d \in Downloads |-> 0]
    /\ dn_got = [d \in Downloads |-> {}]
    /\ sends = [u \in Uploads |-> 0] /\ acked = [u \in Uploads |-> 0]
    /\ jobs = [u \in Uploads |-> <<>>]

-----------------------------------------------------------------------------
(* Upload RPCs; each holds chunked_uploads_mutex. *)

(* A time stamp set after the reaper took its `now' is not old to it. *)
TouchUpload(u) ==
    /\ up_age' = [up_age EXCEPT ![u] = 0]
    /\ rp_up' = [rp_up EXCEPT ![u] = 0]

(* StartChunkedUpload and StartChunkedUploadV2, for a well-formed header;  *)
(* with too many sessions the answer is RESOURCE_EXHAUSTED.                *)
StartChunkedUpload(u) ==
    /\ u \notin opened
    /\ Cardinality(uploads) < MaxSessions
    /\ opened' = opened \cup {u}
    /\ uploads' = uploads \cup {u}
    /\ TouchUpload(u)
    /\ UNCHANGED <<up_chunks, dnVars, tracked, hVars, rp_pc, rp_dn, histVars>>

(* A chunk that does not count as activity. *)
SendArrayChunkUntouched(u, valid) ==
    /\ u \in uploads
    /\ sends[u] < MaxChunks
    /\ sends' = [sends EXCEPT ![u] = sends[u] + 1]
    /\ up_idle' = [up_idle EXCEPT ![u] = 0]
    /\ IF valid THEN /\ up_chunks' = [up_chunks EXCEPT ![u] = up_chunks[u] + 1]
                     /\ acked' = [acked EXCEPT ![u] = acked[u] + 1]
                ELSE UNCHANGED <<up_chunks, acked>>
    /\ UNCHANGED <<uploads, up_age, dnVars, tracked, hVars, rpVars, opened, dn_idle,
                   dn_reads, dn_got, jobs>>

(* A chunk is activity even when it is then rejected as invalid. *)
SendArrayChunk(u, valid) ==
    /\ u \in uploads
    /\ sends[u] < MaxChunks
    /\ sends' = [sends EXCEPT ![u] = sends[u] + 1]
    /\ up_idle' = [up_idle EXCEPT ![u] = 0]
    /\ TouchUpload(u)
    /\ IF valid THEN /\ up_chunks' = [up_chunks EXCEPT ![u] = up_chunks[u] + 1]
                     /\ acked' = [acked EXCEPT ![u] = acked[u] + 1]
                ELSE UNCHANGED <<up_chunks, acked>>
    /\ UNCHANGED <<uploads, dnVars, tracked, hVars, rp_pc, rp_dn, opened, dn_idle,
                   dn_reads, dn_got, jobs>>

HandlerTakes(h, to, id, chunks, age) ==
    /\ h_pc[h] = "idle"
    /\ h_pc' = [h_pc EXCEPT ![h] = to]
    /\ h_id' = [h_id EXCEPT ![h] = id]
    /\ h_chunks' = [h_chunks EXCEPT ![h] = chunks]
    /\ h_age' = [h_age EXCEPT ![h] = age]

HandlerReturns(h, from) ==
    /\ h_pc[h] = from
    /\ h_pc' = [h_pc EXCEPT ![h] = "idle"]
    /\ h_id' = [h_id EXCEPT ![h] = NoId]
    /\ h_chunks' = [h_chunks EXCEPT ![h] = 0]
    /\ h_age' = [h_age EXCEPT ![h] = 0]

(* A finish that copies the session and leaves it in the table. *)
FinishTakeCopies(h, u) ==
    /\ u \in uploads
    /\ HandlerTakes(h, "submit", u, up_chunks[u], 0)
    /\ UNCHANGED <<upVars, dnVars, tracked, rpVars, opened, histVars>>

(* FinishChunkedUpload takes the session out of the table, under the lock; *)
FinishTake(h, u) ==
    /\ u \in uploads
    /\ HandlerTakes(h, "submit", u, up_chunks[u], 0)
    /\ uploads' = uploads \ {u}
    /\ up_age' = [up_age EXCEPT ![u] = 0] /\ up_chunks' = [up_chunks EXCEPT ![u] = 0]
    /\ UNCHANGED <<dnVars, tracked, rpVars, opened, histVars>>

(* then submits a job with its chunks.  When the job queue is full the     *)
(* session is gone all the same.                                           *)
FinishSubmit(h, full) ==
    /\ HandlerReturns(h, "submit")
    /\ jobs' = IF full THEN jobs
               ELSE [jobs EXCEPT ![h_id[h]] = Append(jobs[h_id[h]], h_chunks[h])]
    /\ UNCHANGED <<upVars, dnVars, tracked, rpVars, opened, up_idle, dn_idle, dn_reads,
                   dn_got, sends, acked>>

-----------------------------------------------------------------------------
(* Download RPCs. *)

(* StartChunkedDownload and StartChunkedDownloadV2: copy the result under  *)
(* tracker_mutex and stamp it, ...                                         *)
DownloadSnapshot(h, d) ==
    /\ tracked
    /\ d \notin opened
    /\ opened' = opened \cup {d}
    /\ HandlerTakes(h, "insert", d, 0, 0)
    /\ rp_dn' = [rp_dn EXCEPT ![d] = 0]
    /\ UNCHANGED <<upVars, dnVars, tracked, rp_pc, rp_up, histVars>>

(* An insertion that does not count the sessions again. *)
DownloadInsertUnlimited(h) ==
    /\ HandlerReturns(h, "insert")
    /\ downloads' = downloads \cup {h_id[h]}
    /\ dn_age' = [dn_age EXCEPT ![h_id[h]] = h_age[h]]
    /\ UNCHANGED <<upVars, tracked, rpVars, opened, histVars>>

(* ... then insert the session under chunked_downloads_mutex, or answer    *)
(* RESOURCE_EXHAUSTED.                                                     *)
DownloadInsert(h) ==
    /\ HandlerReturns(h, "insert")
    /\ \/ /\ Cardinality(downloads) < MaxSessions
          /\ downloads' = downloads \cup {h_id[h]}
          /\ dn_age' = [dn_age EXCEPT ![h_id[h]] = h_age[h]]
       \/ Cardinality(downloads) >= MaxSessions /\ UNCHANGED dnVars
    /\ UNCHANGED <<upVars, tracked, rpVars, opened, histVars>>

(* An answer that may run past the array. *)
ElemsToSendUnclamped(elem_offset, max_elements) ==
    IF max_elements > 0 THEN max_elements ELSE ArraySize - elem_offset

ElemsToSend(elem_offset, max_elements) ==
    LET elems_available == ArraySize - elem_offset IN
    IF max_elements > 0 /\ max_elements < elems_available
    THEN max_elements ELSE elems_available

(* An offset outside the array is answered OUT_OF_RANGE.  The session's    *)
(* time stamp is not touched.                                              *)
GetResultChunk(d, elem_offset, max_elements) ==
    /\ d \in downloads
    /\ elem_offset \in Elements
    /\ dn_reads[d] < MaxReads
    /\ dn_reads' = [dn_reads EXCEPT ![d] = dn_reads[d] + 1]
    /\ dn_idle' = [dn_idle EXCEPT ![d] = 0]
    /\ dn_got' = [dn_got EXCEPT ![d] = dn_got[d] \cup
                    elem_offset..(elem_offset + ElemsToSend(elem_offset, max_elements) - 1)]
    /\ UNCHANGED <<upVars, dnVars, tracked, hVars, rpVars, opened, up_idle, sends, acked, jobs>>

FinishChunkedDownload(d) ==
    /\ d \in downloads
    /\ downloads' = downloads \ {d}
    /\ dn_age' = [dn_age EXCEPT ![d] = 0]
    /\ UNCHANGED <<upVars, tracked, hVars, rpVars, opened, histVars>>

(* delete_job takes the result away; the snapshots stay. *)
DeleteJob ==
    /\ tracked
    /\ tracked' = FALSE
    /\ UNCHANGED <<upVars, dnVars, hVars, rpVars, opened, histVars>>

-----------------------------------------------------------------------------
(* session_reaper_thread *)

RpGoto(from, to) == rp_pc = from /\ rp_pc' = to

ReaperNow ==
    /\ RpGoto("sleep", "uploads")
    /\ rp_up' = up_age
    /\ rp_dn' = [d \in Downloads |->
                  LET H == {h \in Handlers : h_id[h] = d} IN
                  IF H = {} THEN dn_age[d] ELSE h_age[CHOOSE h \in H : TRUE]]
    /\ UNCHANGED <<upVars, dnVars, tracked, hVars, opened, histVars>>

(* A reaper whose comparison is the wrong way round at the boundary. *)
ReapUploadsNever ==
    /\ RpGoto("uploads", "downloads")
    /\ uploads' = {u \in uploads : rp_up[u] <= Timeout + 1}
    /\ UNCHANGED <<up_age, up_chunks, dnVars, tracked, hVars, rp_up, rp_dn, opened,
                   histVars>>

ReapUploads ==
    /\ RpGoto("uploads", "downloads")
    /\ uploads' = {u \in uploads : rp_up[u] <= Timeout}
    /\ up_age' = [u \in Uploads |-> IF u \in uploads' THEN up_age[u] ELSE 0]
    /\ up_chunks' = [u \in Uploads |-> IF u \in uploads' THEN up_chunks[u] ELSE 0]
    /\ UNCHANGED <<dnVars, tracked, hVars, rp_up, rp_dn, opened, histVars>>

(* The time since the session was created counts, not since its last use. *)
ReapDownloads ==
    /\ RpGoto("downloads", "sleep")
    /\ downloads' = {d \in downloads : rp_dn[d] <= Timeout}
    /\ dn_age' = [d \in Downloads |-> IF d \in downloads' THEN dn_age[d] ELSE 0]
    /\ rp_up' = [u \in Uploads |-> 0] /\ rp_dn' = [d \in Downloads |-> 0]
    /\ UNCHANGED <<upVars, tracked, hVars, opened, histVars>>

Reaper == ReaperNow \/ ReapUploads \/ ReapDownloads

Tick ==
    /\ up_age' = [u \in Uploads |-> IF u \in uploads THEN Older(up_age[u]) ELSE up_age[u]]
    /\ dn_age' = [d \in Downloads |-> IF d \in downloads THEN Older(dn_age[d]) ELSE dn_age[d]]
    /\ h_age' = [h \in Handlers |-> IF h_pc[h] = "insert" THEN Older(h_age[h]) ELSE h_age[h]]
    /\ up_idle' = [u \in Uploads |-> IF u \in uploads THEN Older(up_idle[u]) ELSE up_idle[u]]
    /\ dn_idle' = [d \in Downloads |-> IF d \in downloads THEN Older(dn_idle[d]) ELSE dn_idle[d]]
    /\ UNCHANGED <<uploads, up_chunks, downloads, tracked, h_pc, h_id, h_chunks, rpVars,
                   opened, dn_reads, dn_got, sends, acked, jobs>>

HandlerContinues == \E h \in Handlers : DownloadInsert(h) \/ \E full \in BOOLEAN : FinishSubmit(h, full)

Next ==
    \/ \E u \in Uploads : \/ StartChunkedUpload(u)
                          \/ \E valid \in BOOLEAN : SendArrayChunk(u, valid)
                          \/ \E h \in Handlers : FinishTake(h, u)
    \/ \E d \in Downloads : \/ \E h \in Handlers : DownloadSnapshot(h, d)
                            \/ \E off \in Elements, max \in 0..ArraySize : GetResultChunk(d, off, max)
                            \/ FinishChunkedDownload(d)
    \/ HandlerContinues \/ DeleteJob \/ Reaper \/ Tick

(* The reaper and the threads that serve a call keep running, and so does  *)
(* the clock.  Clients owe nothing.                                        *)
Spec ==
    /\ Init /\ [][Next]_vars
    /\ WF_vars(Reaper) /\ WF_vars(Tick) /\ WF_vars(HandlerContinues)

-----------------------------------------------------------------------------
(* Properties. *)

TypeOK ==
    /\ uploads \subseteq Uploads /\ downloads \subseteq Downloads /\ opened \subseteq Ids
    /\ {up_age, up_idle, rp_up} \subseteq [Uploads -> Ages]
    /\ {dn_age, rp_dn, dn_idle} \subseteq [Downloads -> Ages]
    /\ {up_chunks, acked, sends} \subseteq [Uploads -> 0..MaxChunks]
    /\ tracked \in BOOLEAN
    /\ h_pc \in [Handlers -> {"idle", "submit", "insert"}]
    /\ h_id \in [Handlers -> Ids \cup {NoId}]
    /\ h_chunks \in [Handlers -> 0..MaxChunks] /\ h_age \in [Handlers -> Ages]
    /\ rp_pc \in {"sleep", "uploads", "downloads"}
    /\ dn_reads \in [Downloads -> 0..MaxReads]
    /\ dn_got \in [Downloads -> SUBSET Elements]
    /\ jobs \in [Uploads -> Seq(0..MaxChunks)]

(* Each table holds at most kMaxChunkedSessions sessions, however the      *)
(* handlers interleave between the snapshot of a result and its insertion. *)
SessionLimits ==
    Cardinality(uploads) <= MaxSessions /\ Cardinality(downloads) <= MaxSessions

(* An upload becomes at most one job, and that job has exactly the chunks  *)
(* that SendArrayChunk acknowledged: none comes in between the moment      *)
(* FinishChunkedUpload takes the session and the submission, and two       *)
(* calls of FinishChunkedUpload do not both get it.                        *)
OneJobPerUpload ==
    \A u \in Uploads : jobs[u] \in {<<>>, <<acked[u]>>}

(* An upload leaves the table when FinishChunkedUpload takes it, or after  *)
(* more than kSessionTimeoutSeconds without activity, although the reaper  *)
(* took its `now' before it locked the table.                              *)
ActiveUploadSurvives ==
    [][\A u \in uploads \ uploads' :
         up_idle[u] > Timeout \/ \E h \in Handlers : h_id'[h] = u]_vars

(* Sessions that clients abandon leave the tables. *)
StaleSessionsReaped ==
    /\ \A u \in Uploads : u \in uploads ~> u \notin uploads
    /\ \A d \in Downloads : d \in downloads ~> d \notin downloads

(* "sessions with no activity for this long are reaped": a download that   *)
(* is being read is not.                                                   *)
ActiveDownloadSurvives ==
    [][\A d \in downloads \ downloads' :
         dn_idle[d] > Timeout \/ FinishChunkedDownload(d)]_vars

(* "Maximum concurrent chunked upload + download sessions" *)
SessionsTogetherLimited ==
    Cardinality(uploads) + Cardinality(downloads) <= MaxSessions
=============================================================================
