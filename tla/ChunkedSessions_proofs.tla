----------------------- MODULE ChunkedSessions_proofs -----------------------
(* Theorems about the tables of chunked sessions, for any sets of ids and  *)
(* handler threads and any limits, and about the arrays that are put       *)
(* together from their chunks.                                             *)
EXTENDS ChunkedSessions, ChunkAssembly, FiniteSetTheorems, TLAPS

(* The invariant.  That an upload becomes one job with what was            *)
(* acknowledged needs to know where the session is: in the table, in the   *)
(* hands of one handler, or gone.                                          *)

(* An id that was not handed out has no history. *)
FreshIds ==
    \A u \in Uploads \ opened :
      acked[u] = 0 /\ up_chunks[u] = 0 /\ up_idle[u] = 0 /\ jobs[u] = <<>>

(* A session in the table has what was acknowledged, and is to the reaper  *)
(* no older than it is.                                                    *)
OpenUploads ==
    \A u \in uploads :
      /\ u \in opened /\ jobs[u] = <<>>
      /\ up_chunks[u] = acked[u]
      /\ up_age[u] = up_idle[u] /\ rp_up[u] <= up_age[u]

(* A session in the hands of a handler is in nobody else's. *)
HeldOnce ==
    /\ \A h \in Handlers :
         /\ h_pc[h] = "idle" => h_id[h] = NoId
         /\ h_pc[h] = "insert" => h_id[h] \in Downloads
         /\ h_id[h] # NoId => h_id[h] \in opened \ uploads
         /\ h_pc[h] = "submit" => /\ h_id[h] \in Uploads
                                  /\ jobs[h_id[h]] = <<>>
                                  /\ h_chunks[h] = acked[h_id[h]]
    /\ \A g, h \in Handlers : h_id[g] = h_id[h] /\ h_id[g] # NoId => g = h

AckedWereSent == \A u \in Uploads : acked[u] <= sends[u]

TablesFinite == IsFiniteSet(uploads) /\ IsFiniteSet(downloads)

SessionsInv ==
    /\ TypeOK /\ FreshIds /\ OpenUploads /\ HeldOnce /\ AckedWereSent
    /\ TablesFinite /\ SessionLimits /\ OneJobPerUpload

-----------------------------------------------------------------------------
(* Lemmas about the operators. *)

(* Ages are naturals and stay in their range as time passes. *)
LEMMA OlderAge ==
  ASSUME NEW a \in Ages
  PROVE  Older(a) \in Ages /\ a <= Older(a) /\ 0 \in Ages
  BY SessionsAssumption DEF Ages, Older

(* Time does not change which of two ages is the greater one. *)
LEMMA OlderMonotone ==
  ASSUME NEW a \in Ages, NEW b \in Ages, a <= b
  PROVE  a <= Older(b)
  BY SessionsAssumption DEF Ages, Older

(* An answer to GetResultChunk stays within the array. *)
LEMMA AnswerWithinArray ==
  ASSUME NEW elem_offset \in Elements, NEW max_elements \in 0..ArraySize
  PROVE  elem_offset..(elem_offset + ElemsToSend(elem_offset, max_elements) - 1)
           \subseteq Elements
<1>1. ArraySize \in Nat /\ elem_offset \in Nat /\ max_elements \in Nat /\ elem_offset < ArraySize
  BY SessionsAssumption DEF Elements
<1>2. /\ ElemsToSend(elem_offset, max_elements) \in Nat
      /\ elem_offset + ElemsToSend(elem_offset, max_elements) <= ArraySize
  BY <1>1 DEF ElemsToSend
<1> QED BY <1>1, <1>2 DEF Elements

(* A session is added to a table only below the limit. *)
LEMMA AddSession ==
  ASSUME NEW S, IsFiniteSet(S), NEW e, Cardinality(S) < MaxSessions
  PROVE  IsFiniteSet(S \cup {e}) /\ Cardinality(S \cup {e}) <= MaxSessions
<1>1. IsFiniteSet(S \cup {e}) /\ Cardinality(S) \in Nat /\ Cardinality(S \cup {e}) \in Nat
  BY FS_AddElement, FS_CardinalityType
<1>2. Cardinality(S \cup {e}) = Cardinality(S) \/ Cardinality(S \cup {e}) = Cardinality(S) + 1
  BY FS_AddElement
<1>3. MaxSessions \in Nat
  BY SessionsAssumption
<1> QED BY <1>1, <1>2, <1>3

(* Sessions that leave a table do not break the limit. *)
LEMMA DropSessions ==
  ASSUME NEW S, IsFiniteSet(S), Cardinality(S) <= MaxSessions, NEW T \in SUBSET S
  PROVE  IsFiniteSet(T) /\ Cardinality(T) <= MaxSessions
<1>1. IsFiniteSet(T) /\ Cardinality(T) <= Cardinality(S)
  BY FS_Subset
<1>2. Cardinality(T) \in Nat /\ Cardinality(S) \in Nat /\ MaxSessions \in Nat
  BY <1>1, FS_CardinalityType, SessionsAssumption
<1> QED BY <1>1, <1>2

-----------------------------------------------------------------------------

(* No session is open when the server starts. *)
LEMMA InitSessions == Init => SessionsInv
<1> SUFFICES ASSUME Init PROVE SessionsInv
  OBVIOUS
<1> USE DEF Init
<1>1. 0 \in Ages /\ 0 \in 0..MaxChunks /\ 0 \in 0..MaxReads /\ 0 <= MaxSessions
  BY SessionsAssumption DEF Ages
<1>2. TypeOK
  BY <1>1 DEF TypeOK
<1>3. FreshIds /\ OpenUploads /\ HeldOnce /\ OneJobPerUpload
  BY DEF FreshIds, OpenUploads, HeldOnce, OneJobPerUpload
<1>4. AckedWereSent
  BY DEF AckedWereSent
<1>5. TablesFinite /\ SessionLimits
  BY <1>1, FS_EmptySet DEF TablesFinite, SessionLimits
<1> QED BY <1>2, <1>3, <1>4, <1>5 DEF SessionsInv

(* StartChunkedUpload opens a session under a new id. *)
LEMMA StartStep ==
  ASSUME SessionsInv, NEW u \in Uploads, StartChunkedUpload(u)
  PROVE  SessionsInv'
<1> USE DEF SessionsInv, StartChunkedUpload, TouchUpload, dnVars, hVars, histVars
<1>1. 0 \in Ages
  BY SessionsAssumption DEF Ages
<1>2. TypeOK'
  BY <1>1 DEF TypeOK, Ids
<1>3. FreshIds' /\ AckedWereSent' /\ OneJobPerUpload'
  BY DEF FreshIds, AckedWereSent, OneJobPerUpload
<1>4. OpenUploads'
  <2>1. up_age' = [up_age EXCEPT ![u] = 0] /\ rp_up' = [rp_up EXCEPT ![u] = 0]
    OBVIOUS
  <2>2. up_age \in [Uploads -> Ages] /\ rp_up \in [Uploads -> Ages]
    BY DEF TypeOK
  <2> QED BY <2>1, <2>2 DEF OpenUploads, FreshIds, TypeOK
<1>5. HeldOnce'
  BY DEF HeldOnce, TypeOK
<1>6. TablesFinite' /\ SessionLimits'
  BY AddSession DEF TablesFinite, SessionLimits
<1> QED BY <1>2, <1>3, <1>4, <1>5, <1>6

(* SendArrayChunk changes a session that is in the table. *)
LEMMA SendStep ==
  ASSUME SessionsInv, NEW u \in Uploads, NEW valid \in BOOLEAN, SendArrayChunk(u, valid)
  PROVE  SessionsInv'
<1> USE DEF SessionsInv
<1>0. UNCHANGED <<uploads, downloads, dn_age, tracked, h_pc, h_id, h_chunks, h_age, rp_pc, rp_dn,
                  opened, dn_idle, dn_reads, dn_got, jobs>>
  BY DEF SendArrayChunk, dnVars, hVars
<1>1. /\ u \in uploads /\ sends[u] < MaxChunks
      /\ sends' = [sends EXCEPT ![u] = sends[u] + 1]
      /\ up_idle' = [up_idle EXCEPT ![u] = 0]
      /\ up_age' = [up_age EXCEPT ![u] = 0]
      /\ rp_up' = [rp_up EXCEPT ![u] = 0]
  BY DEF SendArrayChunk, TouchUpload
<1>2. \/ UNCHANGED <<up_chunks, acked>>
      \/ /\ up_chunks' = [up_chunks EXCEPT ![u] = up_chunks[u] + 1]
         /\ acked' = [acked EXCEPT ![u] = acked[u] + 1]
  BY DEF SendArrayChunk
<1>3. /\ acked[u] \in Nat /\ sends[u] \in Nat /\ MaxChunks \in Nat /\ acked[u] <= sends[u]
      /\ up_chunks[u] = acked[u]
  BY <1>1, SessionsAssumption DEF TypeOK, AckedWereSent, OpenUploads
<1>4. acked[u] + 1 \in 0..MaxChunks /\ sends[u] + 1 \in 0..MaxChunks /\ 0 \in Ages
  BY <1>1, <1>3, SessionsAssumption DEF Ages
<1>5. TypeOK'
  <2>1. {up_age', up_idle', rp_up'} \subseteq [Uploads -> Ages]
    BY <1>1, <1>4 DEF TypeOK
  <2>2. {up_chunks, acked, sends} \subseteq [Uploads -> 0..MaxChunks]
    BY DEF TypeOK
  <2>3. sends' \in [Uploads -> 0..MaxChunks]
    BY <1>1, <1>4, <2>2
  <2>4. acked' \in [Uploads -> 0..MaxChunks] /\ up_chunks' \in [Uploads -> 0..MaxChunks]
    <3> DEFINE n == acked[u] + 1
    <3>1. \/ UNCHANGED <<up_chunks, acked>>
          \/ up_chunks' = [up_chunks EXCEPT ![u] = n] /\ acked' = [acked EXCEPT ![u] = n]
      BY <1>2, <1>3, Zenon
    <3>2. n \in 0..MaxChunks
      BY <1>4
    <3> HIDE DEF n
    <3> QED BY <2>2, <3>1, <3>2
  <2> QED BY <1>0, <2>1, <2>3, <2>4 DEF TypeOK
<1>6. FreshIds' /\ OneJobPerUpload'
  BY <1>0, <1>1, <1>2 DEF FreshIds, OpenUploads, OneJobPerUpload, TypeOK
<1>7. OpenUploads'
  <2> SUFFICES ASSUME NEW v \in uploads PROVE
         /\ v \in opened /\ jobs[v] = <<>> /\ up_chunks'[v] = acked'[v]
         /\ up_age'[v] = up_idle'[v] /\ rp_up'[v] <= up_age'[v]
    BY <1>0 DEF OpenUploads
  <2>1. v \in Uploads
    BY DEF TypeOK
  <2>2. CASE v = u
    BY <1>1, <1>2, <1>3, <2>1, <2>2 DEF OpenUploads, TypeOK
  <2>3. CASE v # u
    BY <1>1, <1>2, <1>3, <2>1, <2>3 DEF OpenUploads, TypeOK
  <2> QED BY <2>2, <2>3
<1>8. HeldOnce'
  <2>1. \A h \in Handlers : h_id[h] # u \/ h_id[h] = NoId
    BY <1>1 DEF HeldOnce
  <2>2. \A v \in Uploads : v # u => acked'[v] = acked[v]
    BY <1>2 DEF TypeOK
  <2>3. NoId # u
    BY SessionsAssumption
  <2> QED BY <1>0, <2>1, <2>2, <2>3 DEF HeldOnce
<1>9. AckedWereSent'
  <2> SUFFICES ASSUME NEW v \in Uploads PROVE acked'[v] <= sends'[v]
    BY DEF AckedWereSent
  <2>1. CASE v = u
    BY <1>1, <1>2, <1>3, <2>1 DEF TypeOK
  <2>2. CASE v # u
    BY <1>1, <1>2, <2>2 DEF AckedWereSent, TypeOK
  <2> QED BY <2>1, <2>2
<1> QED BY <1>0, <1>5, <1>6, <1>7, <1>8, <1>9 DEF TablesFinite, SessionLimits

(* FinishChunkedUpload moves the session from the table to the handler. *)
LEMMA FinishTakeStep ==
  ASSUME SessionsInv, NEW u \in Uploads, NEW h \in Handlers, FinishTake(h, u)
  PROVE  SessionsInv'
<1> USE DEF SessionsInv
<1>0. UNCHANGED <<downloads, dn_age, tracked, rp_pc, rp_up, rp_dn, opened, up_idle, dn_idle,
                  dn_reads, dn_got, sends, acked, jobs>>
  BY DEF FinishTake, dnVars, rpVars, histVars
<1>1. /\ u \in uploads /\ h_pc[h] = "idle" /\ uploads' = uploads \ {u}
      /\ h_pc' = [h_pc EXCEPT ![h] = "submit"] /\ h_id' = [h_id EXCEPT ![h] = u]
      /\ h_chunks' = [h_chunks EXCEPT ![h] = up_chunks[u]] /\ h_age' = [h_age EXCEPT ![h] = 0]
      /\ up_age' = [up_age EXCEPT ![u] = 0] /\ up_chunks' = [up_chunks EXCEPT ![u] = 0]
  BY DEF FinishTake, HandlerTakes
<1>2. 0 \in Ages /\ 0 \in 0..MaxChunks /\ u # NoId /\ u \in Ids
  BY SessionsAssumption DEF Ages, Ids
<1>3. TypeOK'
  <2>1. /\ h_pc' \in [Handlers -> {"idle", "submit", "insert"}]
        /\ h_id' \in [Handlers -> Ids \cup {NoId}]
        /\ h_chunks' \in [Handlers -> 0..MaxChunks] /\ h_age' \in [Handlers -> Ages]
    BY <1>1, <1>2 DEF TypeOK
  <2>2. up_age' \in [Uploads -> Ages] /\ up_chunks' \in [Uploads -> 0..MaxChunks]
    BY <1>1, <1>2 DEF TypeOK
  <2> QED BY <1>0, <1>1, <2>1, <2>2 DEF TypeOK
<1>4. FreshIds' /\ AckedWereSent' /\ OneJobPerUpload'
  BY <1>0, <1>1 DEF FreshIds, OpenUploads, AckedWereSent, OneJobPerUpload, TypeOK
<1>5. OpenUploads'
  BY <1>0, <1>1 DEF OpenUploads, TypeOK
<1>6. HeldOnce'
  <2>1. \A g \in Handlers : h_id[g] # u
    BY <1>1, <1>2 DEF HeldOnce
  <2>2. u \in opened /\ jobs[u] = <<>> /\ up_chunks[u] = acked[u]
    BY <1>1 DEF OpenUploads
  <2>3. /\ h_id'[h] = u /\ h_pc'[h] = "submit" /\ h_chunks'[h] = acked[u]
        /\ \A g \in Handlers : g # h =>
             h_id'[g] = h_id[g] /\ h_pc'[g] = h_pc[g] /\ h_chunks'[g] = h_chunks[g]
    BY <1>1, <2>2 DEF TypeOK
  <2> QED BY <1>0, <1>1, <2>1, <2>2, <2>3 DEF HeldOnce
<1>7. TablesFinite' /\ SessionLimits'
  BY <1>0, <1>1, DropSessions DEF TablesFinite, SessionLimits
<1> QED BY <1>3, <1>4, <1>5, <1>6, <1>7

(* The job it submits has the chunks it took along. *)
LEMMA FinishSubmitStep ==
  ASSUME SessionsInv, NEW h \in Handlers, NEW full \in BOOLEAN, FinishSubmit(h, full)
  PROVE  SessionsInv'
<1> USE DEF SessionsInv
<1>0. UNCHANGED <<uploads, up_age, up_chunks, downloads, dn_age, tracked, rp_pc, rp_up, rp_dn,
                  opened, up_idle, dn_idle, dn_reads, dn_got, sends, acked>>
  BY DEF FinishSubmit, upVars, dnVars, rpVars
<1> DEFINE u == h_id[h]
<1>1. /\ h_pc[h] = "submit"
      /\ h_pc' = [h_pc EXCEPT ![h] = "idle"] /\ h_id' = [h_id EXCEPT ![h] = NoId]
      /\ h_chunks' = [h_chunks EXCEPT ![h] = 0] /\ h_age' = [h_age EXCEPT ![h] = 0]
  BY DEF FinishSubmit, HandlerReturns
<1>2. /\ u \in Uploads /\ jobs[u] = <<>> /\ h_chunks[h] = acked[u] /\ u # NoId
      /\ u \in opened /\ u \notin uploads
  BY <1>1, SessionsAssumption DEF HeldOnce
<1>3. jobs' = jobs \/ jobs' = [jobs EXCEPT ![u] = <<acked[u]>>]
  BY <1>2 DEF FinishSubmit
<1>4. acked[u] \in 0..MaxChunks /\ 0 \in Ages /\ 0 \in 0..MaxChunks
  BY <1>2, SessionsAssumption DEF TypeOK, Ages
<1>5. TypeOK'
  <2>1. <<acked[u]>> \in Seq(0..MaxChunks)
    BY <1>4
  <2>2. jobs' \in [Uploads -> Seq(0..MaxChunks)]
    BY <1>3, <2>1 DEF TypeOK
  <2>3. /\ h_pc' \in [Handlers -> {"idle", "submit", "insert"}]
        /\ h_id' \in [Handlers -> Ids \cup {NoId}]
        /\ h_chunks' \in [Handlers -> 0..MaxChunks] /\ h_age' \in [Handlers -> Ages]
    BY <1>1, <1>4 DEF TypeOK
  <2> QED BY <1>0, <2>2, <2>3 DEF TypeOK
<1>6. \A v \in Uploads : v # u => jobs'[v] = jobs[v]
  BY <1>3 DEF TypeOK
<1>7. FreshIds' /\ AckedWereSent' /\ OpenUploads'
  BY <1>0, <1>2, <1>6 DEF FreshIds, OpenUploads, AckedWereSent, TypeOK
<1>8. OneJobPerUpload'
  BY <1>0, <1>3, <1>6 DEF OneJobPerUpload, TypeOK
<1>9. HeldOnce'
  <2>1. /\ h_id'[h] = NoId /\ h_pc'[h] = "idle"
        /\ \A g \in Handlers : g # h =>
             /\ h_id'[g] = h_id[g] /\ h_pc'[g] = h_pc[g] /\ h_chunks'[g] = h_chunks[g]
             /\ h_id[g] # u
    BY <1>1, <1>2 DEF TypeOK, HeldOnce
  <2> QED BY <1>0, <1>6, <2>1 DEF HeldOnce
<1> QED BY <1>0, <1>5, <1>7, <1>8, <1>9 DEF TablesFinite, SessionLimits

(* A download in preparation is in the hands of its handler. *)
LEMMA SnapshotStep ==
  ASSUME SessionsInv, NEW d \in Downloads, NEW h \in Handlers, DownloadSnapshot(h, d)
  PROVE  SessionsInv'
<1> USE DEF SessionsInv
<1>0. UNCHANGED <<uploads, up_age, up_chunks, downloads, dn_age, tracked, rp_pc, rp_up,
                  up_idle, dn_idle, dn_reads, dn_got, sends, acked, jobs>>
  BY DEF DownloadSnapshot, upVars, dnVars, histVars
<1>1. /\ d \notin opened /\ opened' = opened \cup {d} /\ h_pc[h] = "idle"
      /\ h_pc' = [h_pc EXCEPT ![h] = "insert"] /\ h_id' = [h_id EXCEPT ![h] = d]
      /\ h_chunks' = [h_chunks EXCEPT ![h] = 0] /\ h_age' = [h_age EXCEPT ![h] = 0]
      /\ rp_dn' = [rp_dn EXCEPT ![d] = 0]
  BY DEF DownloadSnapshot, HandlerTakes
<1>2. 0 \in Ages /\ 0 \in 0..MaxChunks /\ d # NoId /\ d \in Ids
  BY SessionsAssumption DEF Ages, Ids
<1>3. TypeOK'
  <2>1. /\ h_pc' \in [Handlers -> {"idle", "submit", "insert"}]
        /\ h_id' \in [Handlers -> Ids \cup {NoId}]
        /\ h_chunks' \in [Handlers -> 0..MaxChunks] /\ h_age' \in [Handlers -> Ages]
        /\ rp_dn' \in [Downloads -> Ages]
    BY <1>1, <1>2 DEF TypeOK
  <2> QED BY <1>0, <1>1, <1>2, <2>1 DEF TypeOK
<1>4. FreshIds' /\ AckedWereSent' /\ OpenUploads' /\ OneJobPerUpload'
  BY <1>0, <1>1 DEF FreshIds, OpenUploads, AckedWereSent, OneJobPerUpload
<1>5. HeldOnce'
  <2>1. \A g \in Handlers : h_id[g] # d /\ d \notin uploads
    BY <1>1, <1>2 DEF HeldOnce, OpenUploads
  <2>2. /\ h_id'[h] = d /\ h_pc'[h] = "insert"
        /\ \A g \in Handlers : g # h =>
             h_id'[g] = h_id[g] /\ h_pc'[g] = h_pc[g] /\ h_chunks'[g] = h_chunks[g]
    BY <1>1 DEF TypeOK
  <2> QED BY <1>0, <1>1, <2>1, <2>2 DEF HeldOnce
<1> QED BY <1>0, <1>3, <1>4, <1>5 DEF TablesFinite, SessionLimits

(* The insertion counts the sessions again, under the lock. *)
LEMMA InsertStep ==
  ASSUME SessionsInv, NEW h \in Handlers, DownloadInsert(h)
  PROVE  SessionsInv'
<1> USE DEF SessionsInv
<1>0. UNCHANGED <<uploads, up_age, up_chunks, tracked, rp_pc, rp_up, rp_dn, opened,
                  up_idle, dn_idle, dn_reads, dn_got, sends, acked, jobs>>
  BY DEF DownloadInsert, upVars, rpVars, histVars
<1>1. /\ h_pc[h] = "insert" /\ h_id[h] \in Downloads
      /\ h_pc' = [h_pc EXCEPT ![h] = "idle"] /\ h_id' = [h_id EXCEPT ![h] = NoId]
      /\ h_chunks' = [h_chunks EXCEPT ![h] = 0] /\ h_age' = [h_age EXCEPT ![h] = 0]
  BY DEF DownloadInsert, HandlerReturns, HeldOnce
<1>2. \/ UNCHANGED <<downloads, dn_age>>
      \/ /\ Cardinality(downloads) < MaxSessions /\ downloads' = downloads \cup {h_id[h]}
         /\ dn_age' = [dn_age EXCEPT ![h_id[h]] = h_age[h]]
  BY DEF DownloadInsert, dnVars
<1>3. 0 \in Ages /\ 0 \in 0..MaxChunks
  BY SessionsAssumption DEF Ages
<1>4. TypeOK'
  <2>1. /\ h_pc' \in [Handlers -> {"idle", "submit", "insert"}]
        /\ h_id' \in [Handlers -> Ids \cup {NoId}]
        /\ h_chunks' \in [Handlers -> 0..MaxChunks] /\ h_age' \in [Handlers -> Ages]
    BY <1>1, <1>3 DEF TypeOK
  <2>2. downloads' \subseteq Downloads /\ dn_age' \in [Downloads -> Ages]
    BY <1>1, <1>2 DEF TypeOK
  <2> QED BY <1>0, <2>1, <2>2 DEF TypeOK
<1>5. FreshIds' /\ AckedWereSent' /\ OpenUploads' /\ OneJobPerUpload'
  BY <1>0 DEF FreshIds, OpenUploads, AckedWereSent, OneJobPerUpload
<1>6. HeldOnce'
  <2>1. /\ h_id'[h] = NoId /\ h_pc'[h] = "idle"
        /\ \A g \in Handlers : g # h =>
             h_id'[g] = h_id[g] /\ h_pc'[g] = h_pc[g] /\ h_chunks'[g] = h_chunks[g]
    BY <1>1 DEF TypeOK
  <2> QED BY <1>0, <2>1 DEF HeldOnce
<1>7. TablesFinite' /\ SessionLimits'
  BY <1>0, <1>2, AddSession DEF TablesFinite, SessionLimits
<1> QED BY <1>4, <1>5, <1>6, <1>7

(* The other calls on downloads, and delete_job. *)
LEMMA DownloadStep ==
  ASSUME SessionsInv,
         \/ \E d \in Downloads :
              \/ \E off \in Elements, max \in 0..ArraySize : GetResultChunk(d, off, max)
              \/ FinishChunkedDownload(d)
         \/ DeleteJob
         \/ UNCHANGED vars
  PROVE  SessionsInv'
<1> USE DEF SessionsInv
<1>0. UNCHANGED <<uploads, up_age, up_chunks, h_pc, h_id, h_chunks, h_age, rp_pc, rp_up, rp_dn,
                  opened, up_idle, sends, acked, jobs>>
  BY DEF GetResultChunk, FinishChunkedDownload, DeleteJob, vars, upVars, hVars, rpVars, histVars
<1>1. FreshIds' /\ OpenUploads' /\ HeldOnce' /\ AckedWereSent' /\ OneJobPerUpload'
  BY <1>0 DEF FreshIds, OpenUploads, HeldOnce, AckedWereSent, OneJobPerUpload
<1>2. downloads' \subseteq downloads
  BY DEF GetResultChunk, FinishChunkedDownload, DeleteJob, vars, dnVars
<1>3. TablesFinite' /\ SessionLimits'
  BY <1>0, <1>2, DropSessions DEF TablesFinite, SessionLimits
<1>4. /\ dn_age' \in [Downloads -> Ages] /\ dn_idle' \in [Downloads -> Ages]
      /\ tracked' \in BOOLEAN
  <2>1. 0 \in Ages
    BY SessionsAssumption DEF Ages
  <2>2. ASSUME NEW d \in Downloads, NEW off \in Elements, NEW max \in 0..ArraySize,
               GetResultChunk(d, off, max)
        PROVE  UNCHANGED <<dn_age, tracked>> /\ dn_idle' = [dn_idle EXCEPT ![d] = 0]
    BY <2>2 DEF GetResultChunk, dnVars
  <2>3. ASSUME NEW d \in Downloads, FinishChunkedDownload(d)
        PROVE  UNCHANGED <<dn_idle, tracked>> /\ dn_age' = [dn_age EXCEPT ![d] = 0]
    BY <2>3 DEF FinishChunkedDownload, histVars
  <2>4. CASE DeleteJob \/ UNCHANGED vars
    BY <2>4 DEF DeleteJob, vars, dnVars, histVars, TypeOK
  <2> QED BY <2>1, <2>2, <2>3, <2>4 DEF TypeOK
<1>5. dn_reads' \in [Downloads -> 0..MaxReads] /\ dn_got' \in [Downloads -> SUBSET Elements]
  <2>1. ASSUME NEW d \in Downloads, NEW off \in Elements, NEW max \in 0..ArraySize,
               GetResultChunk(d, off, max)
        PROVE  dn_reads' \in [Downloads -> 0..MaxReads] /\ dn_got' \in [Downloads -> SUBSET Elements]
    <3>1. dn_reads[d] + 1 \in 0..MaxReads
      BY <2>1, SessionsAssumption DEF GetResultChunk, TypeOK
    <3>2. dn_reads' \in [Downloads -> 0..MaxReads]
      BY <2>1, <3>1 DEF GetResultChunk, TypeOK
    <3> DEFINE part == off..(off + ElemsToSend(off, max) - 1)
    <3>3. part \subseteq Elements
      BY AnswerWithinArray
    <3>4. dn_got' = [dn_got EXCEPT ![d] = dn_got[d] \cup part]
      BY <2>1 DEF GetResultChunk
    <3>5. dn_got' \in [Downloads -> SUBSET Elements]
      <4> HIDE DEF part
      <4> QED BY <3>3, <3>4 DEF TypeOK
    <3> QED BY <3>2, <3>5
  <2> QED BY <2>1 DEF FinishChunkedDownload, DeleteJob, vars, histVars, TypeOK
<1>6. TypeOK'
  BY <1>0, <1>2, <1>4, <1>5 DEF TypeOK
<1> QED BY <1>1, <1>3, <1>6

(* The reaper forgets whole sessions. *)
LEMMA ReaperStep ==
  ASSUME SessionsInv, Reaper
  PROVE  SessionsInv'
<1> USE DEF SessionsInv
<1>0. UNCHANGED <<tracked, h_pc, h_id, h_chunks, h_age, opened,
                  up_idle, dn_idle, dn_reads, dn_got, sends, acked, jobs>>
  BY DEF Reaper, ReaperNow, ReapUploads, ReapDownloads, hVars, histVars
<1>1. /\ uploads' \subseteq uploads /\ downloads' \subseteq downloads
      /\ rp_pc' \in {"sleep", "uploads", "downloads"}
  BY DEF Reaper, ReaperNow, ReapUploads, ReapDownloads, RpGoto, upVars, dnVars
<1>2. 0 \in Ages /\ 0 \in 0..MaxChunks
  BY SessionsAssumption DEF Ages
<1>3. {up_age', rp_up'} \subseteq [Uploads -> Ages] /\ up_chunks' \in [Uploads -> 0..MaxChunks]
  <2>1. {up_age, rp_up} \subseteq [Uploads -> Ages] /\ up_chunks \in [Uploads -> 0..MaxChunks]
    BY DEF TypeOK
  <2>2. CASE ReaperNow
    BY <2>1, <2>2 DEF ReaperNow, upVars
  <2>3. CASE ReapUploads
    BY <1>2, <2>1, <2>3 DEF ReapUploads
  <2>4. CASE ReapDownloads
    BY <1>2, <2>1, <2>4 DEF ReapDownloads, upVars
  <2> QED BY <2>2, <2>3, <2>4 DEF Reaper
<1>4. dn_age' \in [Downloads -> Ages]
  BY <1>2 DEF Reaper, ReaperNow, ReapUploads, ReapDownloads, dnVars, TypeOK
<1>5. rp_dn' \in [Downloads -> Ages]
  <2>1. CASE ReaperNow
    <3>1. ASSUME NEW d \in Downloads
          PROVE  (LET H == {h \in Handlers : h_id[h] = d} IN
                  IF H = {} THEN dn_age[d] ELSE h_age[CHOOSE h \in H : TRUE]) \in Ages
      <4> DEFINE H == {h \in Handlers : h_id[h] = d}
      <4>1. H # {} => (CHOOSE h \in H : TRUE) \in Handlers
        OBVIOUS
      <4> HIDE DEF H
      <4>2. (IF H = {} THEN dn_age[d] ELSE h_age[CHOOSE h \in H : TRUE]) \in Ages
        BY <4>1 DEF TypeOK
      <4> QED BY <4>2 DEF H
    <3> QED BY <2>1, <3>1 DEF ReaperNow
  <2> QED BY <1>2, <2>1 DEF Reaper, ReapUploads, ReapDownloads, TypeOK
<1>6. TypeOK'
  BY <1>0, <1>1, <1>3, <1>4, <1>5 DEF TypeOK
<1>7. FreshIds' /\ AckedWereSent' /\ OneJobPerUpload'
  BY <1>0 DEF FreshIds, AckedWereSent, OneJobPerUpload, Reaper, ReaperNow, ReapUploads,
     ReapDownloads, upVars
<1>8. HeldOnce'
  BY <1>0, <1>1 DEF HeldOnce
<1>9. OpenUploads'
  <2> SUFFICES ASSUME NEW u \in uploads'
               PROVE  /\ up_chunks'[u] = up_chunks[u] /\ up_age'[u] = up_age[u]
                      /\ rp_up'[u] <= up_age[u]
    BY <1>0, <1>1 DEF OpenUploads
  <2>1. u \in uploads /\ u \in Uploads
    BY <1>1 DEF TypeOK
  <2>2. up_age[u] \in Nat /\ up_age[u] <= up_age[u] /\ 0 <= up_age[u]
    BY <2>1, SessionsAssumption DEF TypeOK, Ages
  <2>3. up_chunks'[u] = up_chunks[u] /\ up_age'[u] = up_age[u]
    BY <2>1 DEF Reaper, ReaperNow, ReapUploads, ReapDownloads, upVars
  <2>4. rp_up'[u] \in {rp_up[u], up_age[u], 0}
    BY <2>1 DEF Reaper, ReaperNow, ReapUploads, ReapDownloads
  <2> QED BY <2>1, <2>2, <2>3, <2>4 DEF OpenUploads
<1>10. TablesFinite' /\ SessionLimits'
  BY <1>1, DropSessions DEF TablesFinite, SessionLimits
<1> QED BY <1>6, <1>7, <1>8, <1>9, <1>10

(* Time passes for every session in a table alike. *)
LEMMA TickStep ==
  ASSUME SessionsInv, Tick
  PROVE  SessionsInv'
<1> USE DEF SessionsInv
<1>0. UNCHANGED <<uploads, up_chunks, downloads, tracked, h_pc, h_id, h_chunks, rp_pc, rp_up, rp_dn,
                  opened, dn_reads, dn_got, sends, acked, jobs>>
  BY DEF Tick, rpVars
<1>1. \A a \in Ages : Older(a) \in Ages
  BY OlderAge
<1>2. /\ {up_age', up_idle'} \subseteq [Uploads -> Ages]
      /\ {dn_age', dn_idle'} \subseteq [Downloads -> Ages] /\ h_age' \in [Handlers -> Ages]
  BY <1>1 DEF Tick, TypeOK
<1>3. TypeOK'
  BY <1>0, <1>2 DEF TypeOK
<1>4. FreshIds' /\ HeldOnce' /\ AckedWereSent' /\ OneJobPerUpload'
  <2>1. \A u \in Uploads \ opened : up_idle'[u] = up_idle[u]
    BY DEF Tick, OpenUploads
  <2> QED BY <1>0, <2>1 DEF FreshIds, HeldOnce, AckedWereSent, OneJobPerUpload
<1>5. OpenUploads'
  <2> SUFFICES ASSUME NEW u \in uploads
               PROVE  up_age'[u] = up_idle'[u] /\ rp_up[u] <= up_age'[u]
    BY <1>0 DEF OpenUploads
  <2>1. u \in Uploads /\ up_age[u] \in Ages /\ rp_up[u] \in Ages
    BY DEF TypeOK
  <2>2. up_age'[u] = Older(up_age[u]) /\ up_idle'[u] = Older(up_idle[u])
    BY <2>1 DEF Tick
  <2>3. up_age[u] = up_idle[u] /\ rp_up[u] <= up_age[u]
    BY DEF OpenUploads
  <2> QED BY <2>1, <2>2, <2>3, OlderMonotone
<1> QED BY <1>0, <1>3, <1>4, <1>5 DEF TablesFinite, SessionLimits

(* Every step of a handler, of the reaper and of the clock keeps the       *)
(* invariant.                                                              *)
LEMMA SessionsStep == SessionsInv /\ [Next]_vars => SessionsInv'
<1> SUFFICES ASSUME SessionsInv, [Next]_vars PROVE SessionsInv'
  OBVIOUS
<1>1. CASE \E u \in Uploads : \/ StartChunkedUpload(u)
                              \/ \E valid \in BOOLEAN : SendArrayChunk(u, valid)
                              \/ \E h \in Handlers : FinishTake(h, u)
  BY <1>1, StartStep, SendStep, FinishTakeStep
<1>2. CASE \E d \in Downloads : \E h \in Handlers : DownloadSnapshot(h, d)
  BY <1>2, SnapshotStep
<1>3. CASE HandlerContinues
  BY <1>3, InsertStep, FinishSubmitStep DEF HandlerContinues
<1>4. CASE Reaper \/ Tick
  BY <1>4, ReaperStep, TickStep
<1> QED BY <1>1, <1>2, <1>3, <1>4, DownloadStep DEF Next

(* The invariant holds in every behaviour. *)
LEMMA SessionsInvariant == Spec => []SessionsInv
  BY InitSessions, SessionsStep, PTL DEF Spec

(* Every variable of the session tables keeps its type; in particular no   *)
(* answer of GetResultChunk leaves the array, and no more chunks are       *)
(* acknowledged than were sent.                                            *)
THEOREM SessionTypes == Spec => []TypeOK
<1>1. SessionsInv => TypeOK
  BY DEF SessionsInv
<1> QED BY <1>1, SessionsInvariant, PTL

(* Neither table ever holds more than kMaxChunkedSessions sessions. *)
THEOREM SessionsAreLimited == Spec => []SessionLimits
<1>1. SessionsInv => SessionLimits
  BY DEF SessionsInv
<1> QED BY <1>1, SessionsInvariant, PTL

(* An upload becomes at most one job, with exactly the chunks that were    *)
(* acknowledged, however FinishChunkedUpload calls interleave with chunks, *)
(* with each other and with the reaper.                                    *)
THEOREM UploadsBecomeOneJob == Spec => []OneJobPerUpload
<1>1. SessionsInv => OneJobPerUpload
  BY DEF SessionsInv
<1> QED BY <1>1, SessionsInvariant, PTL

(* The reaper takes no upload that had activity within the timeout, though *)
(* it took its `now' before it locked the table.                           *)
THEOREM ReaperSparesTheActive == Spec => ActiveUploadSurvives
<1>1. SessionsInv /\ [Next]_vars =>
        [\A u \in uploads \ uploads' :
           up_idle[u] > Timeout \/ \E h \in Handlers : h_id'[h] = u]_vars
  <2> SUFFICES ASSUME SessionsInv, Next, NEW u \in uploads \ uploads'
               PROVE  up_idle[u] > Timeout \/ \E h \in Handlers : h_id'[h] = u
    OBVIOUS
  <2>0. u \in Uploads
    BY DEF SessionsInv, TypeOK
  <2>1. CASE \E v \in Uploads, h \in Handlers : FinishTake(h, v)
    <3>1. PICK v \in Uploads, h \in Handlers : FinishTake(h, v)
      BY <2>1
    <3>2. u = v /\ h_id' = [h_id EXCEPT ![h] = v]
      BY <3>1 DEF FinishTake, HandlerTakes
    <3> QED BY <3>2 DEF SessionsInv, TypeOK
  <2>2. CASE ReapUploads
    <3>1. ~(rp_up[u] <= Timeout)
      BY <2>2 DEF ReapUploads
    <3>2. rp_up[u] <= up_idle[u]
      BY DEF SessionsInv, OpenUploads
    <3>3. rp_up[u] \in Nat /\ up_idle[u] \in Nat /\ Timeout \in Nat
      BY <2>0, SessionsAssumption DEF SessionsInv, TypeOK, Ages
    <3> QED BY <3>1, <3>2, <3>3
  <2> QED BY <2>1, <2>2 DEF Next, StartChunkedUpload, SendArrayChunk, DownloadSnapshot,
             GetResultChunk, FinishChunkedDownload, HandlerContinues, DownloadInsert, FinishSubmit,
             DeleteJob, Reaper, ReaperNow, ReapDownloads, Tick, upVars
<1> QED BY <1>1, SessionsInvariant, PTL DEF Spec, ActiveUploadSurvives

-----------------------------------------------------------------------------
(* The array that the chunks of a session add up to: the theorems about    *)
(* ChunkAssembly, for any element sizes, limits, chunks and order of them. *)

(* Products grow with their factors. *)
LEMMA ProductGrows ==
  ASSUME NEW s \in Nat, NEW a \in Int, NEW b \in Int, a <= b
  PROVE  a * s \in Int /\ b * s \in Int /\ a * s <= b * s
<1>1. b * s = a * s + (b - a) * s /\ (b - a) * s >= 0
  OBVIOUS
<1> QED BY <1>1

(* A position of an array of elements of size s is in one element. *)
LEMMA ElementAt ==
  ASSUME NEW s \in Nat \ {0}, NEW x \in Nat
  PROVE  /\ x \div s \in Nat
         /\ (x \div s) * s <= x /\ x < (x \div s + 1) * s
<1>1. x \div s \in Nat /\ x % s \in 0..(s - 1)
  OBVIOUS
<1>0. x = s * (x \div s) + (x % s)
  OBVIOUS
<1>2. (x \div s + 1) * s = (x \div s) * s + s
  BY <1>1
<1> QED BY <1>0, <1>1, <1>2

(* A byte is within the bytes of a chunk when its element is within the    *)
(* elements that the chunk covers.                                         *)
LEMMA ByteInElement ==
  ASSUME NEW s \in Nat \ {0}, NEW off \in Nat, NEW bytes \in Nat, bytes % s = 0, NEW x \in Nat
  PROVE  /\ bytes \div s \in Nat /\ bytes = (bytes \div s) * s
         /\ x \in (off * s)..(off * s + bytes - 1)
              <=> x \div s \in off..(off + bytes \div s - 1)
<1> DEFINE q == bytes \div s
           e == x \div s
<1>1. q \in Nat /\ bytes = q * s
  OBVIOUS
<1>2. e \in Nat /\ e * s <= x /\ x < (e + 1) * s
  BY ElementAt
<1> HIDE DEF q, e
<1>3. off * s + bytes = (off + q) * s
  BY <1>1
<1>4. /\ off * s \in Int /\ (off + q) * s \in Int /\ e * s \in Int /\ (e + 1) * s \in Int
  BY <1>1, <1>2
<1>5. ASSUME off * s <= x, x < (off + q) * s PROVE off <= e /\ e <= off + q - 1
  <2>1. e + 1 <= off => (e + 1) * s <= off * s
    BY <1>2, ProductGrows
  <2>2. off + q <= e => (off + q) * s <= e * s
    BY <1>1, <1>2, ProductGrows
  <2> QED BY <2>1, <2>2, <1>1, <1>2, <1>4, <1>5
<1>6. ASSUME off <= e, e <= off + q - 1 PROVE off * s <= x /\ x < (off + q) * s
  <2>1. off * s <= e * s
    BY <1>2, <1>6, ProductGrows
  <2>2. (e + 1) * s <= (off + q) * s
    <3>1. e + 1 <= off + q /\ e + 1 \in Int /\ off + q \in Int
      BY <1>1, <1>2, <1>6
    <3> QED BY <3>1, ProductGrows
  <2> QED BY <2>1, <2>2, <1>2, <1>4
<1>7. x \in (off * s)..(off * s + bytes - 1) <=> (off * s <= x /\ x < (off + q) * s)
  BY <1>3, <1>4
<1>8. e \in off..(off + q - 1) <=> (off <= e /\ e <= off + q - 1)
  BY <1>1, <1>2
<1>9. x \in (off * s)..(off * s + bytes - 1) <=> e \in off..(off + q - 1)
  BY <1>5, <1>6, <1>7, <1>8
<1> QED BY <1>1, <1>9 DEF q, e
-----------------------------------------------------------------------------
(* The bytes of an array that is assembled from pieces.                    *)

(* What SendArrayChunk lets in. *)
Piece == [element_offset : Nat, total_elements : Nat, bytes : Nat]

(* The chunks that supply byte x of an array with elements of size s. *)
Suppliers(cs, s, x) ==
    {i \in DOMAIN cs : x \in (cs[i].element_offset * s)..
                             (cs[i].element_offset * s + cs[i].bytes - 1)}

(* Chunks that pass the checks of validate_field_chunks supply each byte   *)
(* of the array once.                                                      *)
LEMMA OneSupplier ==
  ASSUME NEW cs \in Seq(Piece), NEW total \in Nat, NEW s \in Nat \ {0},
         Fits(cs, total, s), NoGaps(cs, total, s),
         NEW x \in 0..(total * s - 1)
  PROVE  \E i \in DOMAIN cs : Suppliers(cs, s, x) = {i}
<1> DEFINE e == x \div s
<1>0. total * s \in Nat /\ x \in Nat /\ x < total * s
  OBVIOUS
<1>1. e \in Nat /\ e * s <= x /\ e * s \in Int
  BY <1>0, ElementAt
<1>2. ASSUME NEW i \in DOMAIN cs
      PROVE  i \in Suppliers(cs, s, x) <=> e \in Covers(cs[i], s)
  <2>1. cs[i] \in Piece
    OBVIOUS
  <2>2. cs[i].element_offset \in Nat /\ cs[i].bytes \in Nat
    BY <2>1 DEF Piece
  <2>3. cs[i].bytes % s = 0
    BY DEF Fits
  <2>4. x \in (cs[i].element_offset * s)..(cs[i].element_offset * s + cs[i].bytes - 1)
          <=> e \in cs[i].element_offset..(cs[i].element_offset + cs[i].bytes \div s - 1)
    BY <1>0, <2>2, <2>3, ByteInElement
  <2> QED BY <2>4 DEF Suppliers, Covers
<1> HIDE DEF e
<1>3. e < total
  <2>1. total <= e => total * s <= e * s
    BY <1>1, ProductGrows
  <2> QED BY <2>1, <1>0, <1>1
<1>4. PICK i \in DOMAIN cs : e \in Covers(cs[i], s)
  <2>1. e \in 0..(total - 1)
    BY <1>1, <1>3
  <2>2. e \in UNION {Covers(cs[i], s) : i \in DOMAIN cs}
    BY <2>1 DEF NoGaps
  <2> QED BY <2>2
<1>5. ASSUME NEW j \in DOMAIN cs, e \in Covers(cs[j], s) PROVE j = i
  BY <1>4, <1>5 DEF Fits
<1>6. Suppliers(cs, s, x) \subseteq DOMAIN cs
  BY DEF Suppliers
<1>7. Suppliers(cs, s, x) = {i}
  BY <1>2, <1>4, <1>5, <1>6
<1> QED BY <1>7

(* The bytes of a chunk that passes them are bytes of the array. *)
LEMMA ChunkInArray ==
  ASSUME NEW cs \in Seq(Piece), NEW total \in Nat, NEW s \in Nat \ {0},
         Fits(cs, total, s)
  PROVE  \A i \in DOMAIN cs : \A k \in 1..cs[i].bytes :
           /\ cs[i].element_offset * s + k \in 1..(total * s)
           /\ i \in Suppliers(cs, s, (cs[i].element_offset * s + k) - 1)
<1> TAKE i \in DOMAIN cs
<1> TAKE k \in 1..cs[i].bytes
<1> DEFINE off == cs[i].element_offset
           q == cs[i].bytes \div s
<1>1. off \in Nat /\ cs[i].bytes \in Nat
  <2>1. cs[i] \in Piece
    OBVIOUS
  <2> QED BY <2>1 DEF Piece
<1>2. cs[i].bytes % s = 0 /\ off <= total - q
  BY DEF Fits
<1>3. q \in Nat /\ cs[i].bytes = q * s
  BY <1>1, <1>2, ByteInElement
<1> HIDE DEF q
<1>4. (off + q) * s <= total * s /\ (off + q) * s = off * s + q * s
  <2>1. off + q <= total /\ off + q \in Int
    BY <1>1, <1>2, <1>3
  <2>2. (off + q) * s <= total * s
    BY <2>1, ProductGrows
  <2> QED BY <2>2, <1>1, <1>3
<1>5. off * s \in Nat /\ q * s \in Nat /\ total * s \in Nat
  BY <1>1, <1>3
<1>6. k \in Nat /\ 1 <= k /\ k <= q * s
  BY <1>1, <1>3
<1> DEFINE p == off * s
<1>7. p \in Nat /\ p + q * s <= total * s
  BY <1>4, <1>5
<1> HIDE DEF p
<1>8. p + k \in 1..(total * s) /\ (p + k) - 1 \in p..(p + q * s - 1)
  BY <1>5, <1>6, <1>7
<1> QED BY <1>3, <1>8 DEF Suppliers, p

(* A total that all chunks agree on gives the size of an element back. *)
LEMMA ElementSize ==
  ASSUME NEW total \in Nat \ {0}, NEW s \in Nat
  PROVE  (total * s) \div total = s /\ (total * s) % total = 0
<1>1. total * s \in Nat
  OBVIOUS
<1> DEFINE x == total * s
           q == x \div total
<1>2. q \in Nat /\ q * total <= x /\ x < (q + 1) * total
  BY <1>1, ElementAt
<1>3. x = s * total
  OBVIOUS
<1>4. x = total * q + (x % total) /\ x % total \in Int
  BY <1>1
<1> HIDE DEF q
<1>5. s + 1 <= q => (s + 1) * total <= q * total
  BY <1>2, ProductGrows
<1>6. q + 1 <= s => (q + 1) * total <= s * total
  BY <1>2, ProductGrows
<1>7. (s + 1) * total = s * total + total
  OBVIOUS
<1>8. q = s
  BY <1>2, <1>3, <1>5, <1>6, <1>7
<1>9. x % total = 0
  BY <1>1, <1>3, <1>4, <1>8
<1> QED BY <1>8, <1>9 DEF q

(* Chunks that are written are sized as the first one says, when that one  *)
(* has a size.                                                             *)
LEMMA SizeOfArray ==
  ASSUME NEW cs \in Seq(Piece), cs # <<>>, elem \in Int, BinsWell(cs)
  PROVE  /\ elem \in Nat \ {0} /\ 1 \in DOMAIN cs
         /\ \A i \in DOMAIN cs : cs[i] \in Piece
         /\ TotalBytes(cs) \in Nat
         /\ \A i \in DOMAIN cs : cs[i].total_elements > 0 =>
              TotalBytes(cs) = cs[i].total_elements * elem
         /\ \A i \in DOMAIN cs : cs[i].total_elements = 0 => cs[i].bytes = 0
         /\ TotalBytes(cs) = 0 => \A i \in DOMAIN cs : cs[i].total_elements = 0
<1>1. 1 \in DOMAIN cs /\ \A i \in DOMAIN cs : cs[i] \in Piece
  OBVIOUS
<1>2. elem \in Nat \ {0}
  BY <1>1 DEF BinsWell
<1>3. \A i \in DOMAIN cs : cs[i].total_elements \in Nat
  BY <1>1 DEF Piece
<1>4. \A i \in DOMAIN cs : cs[i].total_elements > 0 =>
              TotalBytes(cs) = cs[i].total_elements * elem
  BY DEF BinsWell
<1>5. \A i \in DOMAIN cs : cs[i].total_elements > 0 => cs[i].total_elements * elem \in Nat \ {0}
  BY <1>2, <1>3
<1>6. TotalBytes(cs) \in Nat
  <2>1. CASE \E i \in DOMAIN cs : cs[i].total_elements > 0
    BY <2>1, <1>4, <1>5
  <2>2. CASE ~ \E i \in DOMAIN cs : cs[i].total_elements > 0
    BY <2>2 DEF TotalBytes
  <2> QED BY <2>1, <2>2
<1>7. \A i \in DOMAIN cs : cs[i].total_elements = 0 => cs[i].bytes = 0
  BY DEF BinsWell
<1> QED BY <1>1, <1>2, <1>3, <1>4, <1>5, <1>6, <1>7

(* What is assembled from chunks that passed validation. *)
LEMMA AssembledExactly ==
  ASSUME chunks \in Seq(Piece), chunks # <<>>, elem \in Int,
         BinsWell(chunks), AssembleSucceeds(chunks),
         payload = Assembled(chunks)
  PROVE  WrittenExactly
<1> DEFINE T == TotalBytes(chunks)
           total == chunks[1].total_elements
           One == SingleWholeChunk(chunks)
<1>1. /\ elem \in Nat \ {0} /\ 1 \in DOMAIN chunks
      /\ \A i \in DOMAIN chunks : chunks[i] \in Piece
      /\ T \in Nat
      /\ \A i \in DOMAIN chunks : chunks[i].total_elements > 0 =>
           T = chunks[i].total_elements * elem
      /\ \A i \in DOMAIN chunks : chunks[i].total_elements = 0 => chunks[i].bytes = 0
      /\ T = 0 => \A i \in DOMAIN chunks : chunks[i].total_elements = 0
  BY SizeOfArray
<1>2. /\ DOMAIN payload = 1..T
      /\ \A b \in 1..T : One => payload[b] = 1
  BY DEF Assembled
<1>3. Len(payload) = T
  <2>1. payload = [b \in 1..T |-> payload[b]]
    BY DEF Assembled
  <2> QED BY <2>1, <1>1
<1>4. \A i \in DOMAIN chunks : chunks[i].total_elements > 0 =>
         Len(payload) = chunks[i].total_elements * elem
  BY <1>1, <1>3
<1>5. SUFFICES /\ \A b \in 1..T : payload[b] # 0
               /\ \A i \in DOMAIN chunks : \A k \in 1..chunks[i].bytes :
                    payload[chunks[i].element_offset * elem + k] = i
  BY <1>2, <1>4 DEF WrittenExactly
<1>6. CASE T = 0
  BY <1>6, <1>1
<1>7. CASE One
  <2>1. DOMAIN chunks = {1} /\ chunks[1].element_offset = 0 /\ chunks[1].bytes = T
    BY <1>7 DEF SingleWholeChunk
  <2>2. ASSUME NEW k \in 1..T PROVE payload[0 * elem + k] = 1
    BY <1>1, <1>2, <1>7
  <2> QED BY <2>1, <2>2, <1>2, <1>7
<1>8. CASE T # 0 /\ ~One
  <2>1. /\ total > 0 /\ total \in Nat
        /\ Fits(chunks, total, T \div total)
        /\ NoGaps(chunks, total, T \div total)
    BY <1>1, <1>8 DEF AssembleSucceeds, Piece
  <2>2. T = total * elem /\ T \div total = elem
    BY <2>1, <1>1, ElementSize
  <2>3. Fits(chunks, total, elem) /\ NoGaps(chunks, total, elem)
    BY <2>1, <2>2
  <2>4. ASSUME NEW b \in 1..T
        PROVE  payload[b] = LET S == Suppliers(chunks, elem, b - 1)
                            IN  IF S = {} THEN 0 ELSE Max(S)
    BY <1>8, <2>2 DEF Assembled, Suppliers
  <2>5. ASSUME NEW b \in 1..T, NEW i \in DOMAIN chunks, Suppliers(chunks, elem, b - 1) = {i}
        PROVE  payload[b] = i
    <3>1. payload[b] = Max({i})
      BY <2>4, <2>5
    <3>2. i \in Nat
      OBVIOUS
    <3> QED BY <3>1, <3>2 DEF Max
  <2>6. ASSUME NEW b \in 1..T
        PROVE  \E i \in DOMAIN chunks : Suppliers(chunks, elem, b - 1) = {i}
    <3>1. b - 1 \in 0..(total * elem - 1)
      BY <2>2, <1>1
    <3>2. total \in Nat /\ elem \in Nat \ {0}
      BY <2>1, <1>1
    <3> HIDE DEF total, T, One
    <3> QED BY <3>1, <3>2, <2>3, OneSupplier, SMT
  <2>7. ASSUME NEW b \in 1..T PROVE payload[b] # 0
    <3>1. PICK i \in DOMAIN chunks : Suppliers(chunks, elem, b - 1) = {i}
      BY <2>6
    <3> QED BY <3>1, <2>5
  <2>9. \A i \in DOMAIN chunks : \A k \in 1..chunks[i].bytes :
           /\ chunks[i].element_offset * elem + k \in 1..(total * elem)
           /\ i \in Suppliers(chunks, elem, (chunks[i].element_offset * elem + k) - 1)
    <3>1. total \in Nat /\ elem \in Nat \ {0}
      BY <2>1, <1>1
    <3> HIDE DEF total
    <3> QED BY <3>1, <2>3, ChunkInArray
  <2>8. ASSUME NEW i \in DOMAIN chunks, NEW k \in 1..chunks[i].bytes
        PROVE  payload[chunks[i].element_offset * elem + k] = i
    <3> DEFINE b == chunks[i].element_offset * elem + k
    <3>1. b \in 1..(total * elem) /\ i \in Suppliers(chunks, elem, b - 1)
      BY <2>9
    <3>4. b \in 1..T
      BY <3>1, <2>2
    <3> HIDE DEF b
    <3>2. Suppliers(chunks, elem, b - 1) = {i}
      BY <3>1, <3>4, <2>6
    <3>3. payload[b] = i
      BY <3>4, <3>2, <2>5
    <3> QED BY <3>3 DEF b
  <2> QED BY <2>7, <2>8
<1> QED BY <1>6, <1>7, <1>8

(* What is validated can be assembled. *)
LEMMA StatusOfWrite ==
  ASSUME NEW cs
  PROVE  /\ PipeWriteStatus(cs) # "PipeFailed" /\ PipeWriteStatus(cs) # "none"
         /\ PipeWriteStatus(cs) = "Success" <=>
              BinsWell(cs) /\ ValidateFieldChunks(cs)
         /\ PipeWriteStatus(cs) = "Success" => AssembleSucceeds(cs)
<1>1. ValidateFieldChunks(cs) <=> AssembleSucceeds(cs)
  BY DEF ValidateFieldChunks, AssembleSucceeds
<1> QED BY <1>1 DEF PipeWriteStatus

(* Chunks that cut the array into pieces pass both checks, given what      *)
(* SendArrayChunk has ensured of them: the array has a size, and they lie  *)
(* within it.                                                              *)
LEMMA PiecesPass ==
  ASSUME chunks \in Seq(Piece), chunks # <<>>, elem \in Int, MaxArrayBytes \in Nat,
         NEW size \in Nat,
         \A i \in DOMAIN chunks : chunks[i].total_elements > 0 =>
           /\ elem > 0 /\ size * elem <= MaxArrayBytes
           /\ chunks[i].element_offset * elem + chunks[i].bytes <= size * elem,
         CutsArray(chunks), MaxElements \in Nat
  PROVE  BinsWell(chunks) /\ ValidateFieldChunks(chunks)
<1> DEFINE Has(e) == {i \in DOMAIN chunks :
              chunks[i].element_offset <= e /\ (e - chunks[i].element_offset + 1) * elem <= chunks[i].bytes}
<1>1. PICK n \in 1..MaxElements :
        /\ \A i \in DOMAIN chunks : chunks[i].total_elements = n /\ chunks[i].bytes % elem = 0
             /\ chunks[i].element_offset * elem + chunks[i].bytes <= n * elem
        /\ \A e \in 0..(n - 1) : Cardinality(Has(e)) = 1
  BY DEF CutsArray
<1>2. /\ n \in Nat \ {0} /\ 1 \in DOMAIN chunks /\ Len(chunks) \in Nat /\ DOMAIN chunks = 1..Len(chunks)
      /\ \A i \in DOMAIN chunks : chunks[i].element_offset \in Nat /\ chunks[i].bytes \in Nat
  <2>1. \A i \in DOMAIN chunks : chunks[i] \in Piece
    OBVIOUS
  <2> QED BY <2>1 DEF Piece
<1>3. elem \in Nat \ {0} /\ size * elem <= MaxArrayBytes
  BY <1>1, <1>2
<1>4. \A i \in DOMAIN chunks :
        chunks[i].element_offset * elem + chunks[i].bytes <= size * elem
  BY <1>1, <1>2
<1>5. IsFiniteSet(DOMAIN chunks)
  <2>1. IsFiniteSet(1..Len(chunks))
    <3>1. 1 \in Int /\ Len(chunks) \in Int
      BY <1>2
    <3> QED BY <3>1, FS_Interval, Zenon
  <2> QED BY <2>1, <1>2
<1>6. ASSUME NEW e \in 0..(n - 1)
      PROVE  \E i \in DOMAIN chunks : Has(e) = {i}
  <2>1. Has(e) \in SUBSET DOMAIN chunks /\ Cardinality(Has(e)) = 1
    BY <1>1
  <2> HIDE DEF Has
  <2>2. IsFiniteSet(Has(e))
    BY <2>1, <1>5, FS_Subset
  <2>3. PICK x : Has(e) = {x}
    BY <2>1, <2>2, FS_Singleton
  <2> QED BY <2>1, <2>3
<1>7. ASSUME NEW i \in DOMAIN chunks
      PROVE  /\ chunks[i].bytes \div elem \in Nat
             /\ chunks[i].bytes = (chunks[i].bytes \div elem) * elem
             /\ chunks[i].element_offset + chunks[i].bytes \div elem <= n
  <2> DEFINE off == chunks[i].element_offset
             q == chunks[i].bytes \div elem
  <2>1. q \in Nat /\ chunks[i].bytes = q * elem /\ off \in Nat
    BY <1>1, <1>2, <1>3, ByteInElement
  <2>2. off * elem + q * elem <= n * elem
    BY <2>1, <1>1
  <2> HIDE DEF off, q
  <2>3. (off + q) * elem = off * elem + q * elem
    BY <2>1, <1>3
  <2>4. n + 1 <= off + q => (n + 1) * elem <= (off + q) * elem
    <3>1. n + 1 \in Int /\ off + q \in Int
      BY <2>1, <1>2
    <3> QED BY <3>1, <1>3, ProductGrows
  <2>5. (n + 1) * elem = n * elem + elem /\ n * elem \in Int
    BY <1>2, <1>3
  <2>6. off + q <= n
    BY <2>1, <2>2, <2>3, <2>4, <2>5, <1>2, <1>3
  <2> QED BY <2>1, <2>6 DEF off, q
<1>8. ASSUME NEW i \in DOMAIN chunks, NEW e \in 0..(n - 1)
      PROVE  i \in Has(e) <=> e \in Covers(chunks[i], elem)
  <2> DEFINE off == chunks[i].element_offset
             q == chunks[i].bytes \div elem
             d == e - off + 1
  <2>1. q \in Nat /\ chunks[i].bytes = q * elem /\ off \in Nat /\ e \in Nat /\ d \in Int
    BY <1>2, <1>7
  <2>2. i \in Has(e) <=> (off <= e /\ d * elem <= q * elem)
    BY <2>1
  <2>3. e \in Covers(chunks[i], elem) <=> (off <= e /\ d <= q)
    <3>1. e \in Covers(chunks[i], elem) <=> e \in off..(off + q - 1)
      BY DEF Covers
    <3> HIDE DEF q, off
    <3> QED BY <3>1, <2>1
  <2>4. d <= q <=> d * elem <= q * elem
    <3> HIDE DEF d, q
    <3>1. d <= q => d * elem <= q * elem
      BY <2>1, <1>3, ProductGrows
    <3>2. q + 1 <= d => (q + 1) * elem <= d * elem
      <4>1. q + 1 \in Int
        BY <2>1
      <4> QED BY <4>1, <2>1, <1>3, ProductGrows
    <3>3. (q + 1) * elem = q * elem + elem /\ q * elem \in Int /\ d * elem \in Int
      BY <2>1, <1>3
    <3> QED BY <3>1, <3>2, <3>3, <2>1, <1>3
  <2> QED BY <2>2, <2>3, <2>4
<1> HIDE DEF Has
<1>9. n * elem <= MaxArrayBytes
  <2> DEFINE e == n - 1
  <2>1. e \in 0..(n - 1)
    BY <1>2
  <2>2. PICK i \in DOMAIN chunks : Has(e) = {i}
    BY <2>1, <1>6
  <2>3. (n - 1) \in Covers(chunks[i], elem)
    BY <2>1, <2>2, <1>8
  <2> DEFINE off == chunks[i].element_offset
             q == chunks[i].bytes \div elem
  <2>4. q \in Nat /\ chunks[i].bytes = q * elem /\ off \in Nat
    BY <1>2, <1>7
  <2>5. n <= off + q
    <3>1. (n - 1) \in off..(off + q - 1)
      BY <2>3 DEF Covers
    <3> HIDE DEF q, off
    <3> QED BY <3>1, <2>4, <1>2
  <2>6. off * elem + q * elem <= size * elem
    BY <2>4, <1>4
  <2> HIDE DEF q, off
  <2>7. (off + q) * elem = off * elem + q * elem
    BY <2>4, <1>3
  <2>8. n * elem <= (off + q) * elem
    <3>1. off + q \in Int /\ n \in Int /\ elem \in Nat
      BY <2>4, <1>2, <1>3
    <3> QED BY <3>1, <2>5, ProductGrows, Zenon
  <2>9. n * elem \in Int /\ size * elem \in Int /\ (off + q) * elem \in Int
    BY <2>4, <1>2, <1>3
  <2> QED BY <2>6, <2>7, <2>8, <2>9, <1>3
<1>10. TotalBytes(chunks) = n * elem
  <2> DEFINE sized == {i \in DOMAIN chunks : chunks[i].total_elements > 0}
  <2>1. sized = DOMAIN chunks /\ sized # {}
    BY <1>1, <1>2
  <2>2. Min(sized) \in DOMAIN chunks
    <3>1. 1 \in sized /\ \A j \in sized : 1 <= j
      BY <2>1, <1>2
    <3> HIDE DEF sized
    <3>2. Min(sized) \in sized
      BY <3>1 DEF Min
    <3> QED BY <3>2, <2>1
  <2>3. TotalBytes(chunks) = chunks[Min(sized)].total_elements * elem
    BY <2>1 DEF TotalBytes
  <2> HIDE DEF sized
  <2> QED BY <2>2, <2>3, <1>1
<1>11. BinsWell(chunks)
  BY <1>1, <1>2, <1>3, <1>9, <1>10 DEF BinsWell
<1>12. Fits(chunks, n, elem)
  <2>1. ASSUME NEW i \in DOMAIN chunks
        PROVE  chunks[i].bytes % elem = 0 /\ chunks[i].element_offset <= n - chunks[i].bytes \div elem
    BY <1>1, <1>2, <1>7
  <2>2. ASSUME NEW i \in DOMAIN chunks, NEW j \in DOMAIN chunks,
               NEW e \in Covers(chunks[i], elem), e \in Covers(chunks[j], elem)
        PROVE  i = j
    <3>1. e \in 0..(n - 1)
      <4> DEFINE off == chunks[i].element_offset
                 q == chunks[i].bytes \div elem
      <4>1. q \in Nat /\ off \in Nat /\ off + q <= n
        BY <1>2, <1>7
      <4>2. e \in off..(off + q - 1)
        BY DEF Covers
      <4> HIDE DEF off, q
      <4> QED BY <4>1, <4>2, <1>2
    <3>2. i \in Has(e) /\ j \in Has(e)
      BY <3>1, <2>2, <1>8
    <3> QED BY <3>1, <3>2, <1>6
  <2> QED BY <2>1, <2>2 DEF Fits
<1>13. NoGaps(chunks, n, elem)
  <2>1. ASSUME NEW e \in 0..(n - 1)
        PROVE  e \in UNION {Covers(chunks[i], elem) : i \in DOMAIN chunks}
    <3>1. PICK i \in DOMAIN chunks : Has(e) = {i}
      BY <1>6
    <3>2. e \in Covers(chunks[i], elem)
      BY <3>1, <1>8
    <3> QED BY <3>2
  <2> QED BY <2>1 DEF NoGaps
<1>14. ValidateFieldChunks(chunks)
  <2>1. chunks[1].total_elements = n
    BY <1>1, <1>2
  <2>3. n > 0
    BY <1>2
  <2>2. (n * elem) \div n = elem /\ (n * elem) % n = 0
    BY <1>2, <1>3, ElementSize
  <2> QED BY <2>1, <2>2, <2>3, <1>10, <1>12, <1>13 DEF ValidateFieldChunks
<1> QED BY <1>11, <1>14

-----------------------------------------------------------------------------
(* One array of an upload.                                                 *)

(* The size of the array is fixed once, by a known array within the limit, *)
(* and every accepted chunk lies within it; before, only empty chunks are  *)
(* let in.                                                                 *)
SizeIsFixed ==
    /\ meta \in [total_elements : Nat, element_size : Int, received_bytes : Nat]
    /\ IF meta.total_elements = 0 THEN meta.element_size = 0
       ELSE elem > 0 /\ meta.element_size = elem /\ meta.total_elements * elem <= MaxArrayBytes

AcceptedChunks ==
    /\ chunks \in Seq(Piece)
    /\ \A i \in DOMAIN chunks :
         IF meta.total_elements = 0
         THEN chunks[i].total_elements = 0 /\ chunks[i].element_offset = 0 /\ chunks[i].bytes = 0
         ELSE chunks[i].element_offset * elem + chunks[i].bytes <= meta.total_elements * elem

(* A dispatched array has the verdict and the payload of its chunks. *)
Dispatched ==
    verdict # "none" =>
      /\ chunks # <<>> /\ verdict = PipeWriteStatus(chunks)
      /\ verdict = "Success" => payload = Assembled(chunks)

ArrayInv == elem \in Int /\ SizeIsFixed /\ AcceptedChunks /\ Dispatched

(* No chunk has come in yet. *)
LEMMA InitArray == ArrayInit => ArrayInv
<1> SUFFICES ASSUME ArrayInit PROVE ArrayInv
  OBVIOUS
<1>1. elem \in Int /\ chunks = <<>> /\ verdict = "none"
  BY AssemblyAssumption DEF ArrayInit
<1>2. SizeIsFixed
  BY DEF ArrayInit, SizeIsFixed
<1>3. AcceptedChunks
  BY <1>1 DEF AcceptedChunks
<1> QED BY <1>1, <1>2, <1>3 DEF ArrayInv, Dispatched

(* The size that a chunk fixes is within the limit, and the chunks that    *)
(* came before it were empty.                                              *)
LEMMA SizeStep ==
  ASSUME ArrayInv, NEW c \in Piece,
         FixesSize(c) => elem > 0 /\ c.total_elements <= MaxArrayBytes \div elem,
         NEW m, m = MetaFor(c)
  PROVE  /\ m \in [total_elements : Nat, element_size : Int, received_bytes : Nat]
         /\ IF m.total_elements = 0 THEN m.element_size = 0 /\ meta.total_elements = 0
            ELSE elem > 0 /\ m.element_size = elem /\ m.total_elements * elem <= MaxArrayBytes
         /\ c.total_elements > 0 => m.total_elements > 0
         /\ \A i \in DOMAIN chunks :
              IF m.total_elements = 0
              THEN chunks[i].total_elements = 0 /\ chunks[i].element_offset = 0 /\ chunks[i].bytes = 0
              ELSE chunks[i].element_offset * elem + chunks[i].bytes <= m.total_elements * elem
<1>1. /\ c.total_elements \in Nat /\ MaxArrayBytes \in Nat /\ elem \in Int
      /\ meta \in [total_elements : Nat, element_size : Int, received_bytes : Nat]
  BY AssemblyAssumption DEF Piece, ArrayInv, SizeIsFixed
<1>2. CASE FixesSize(c)
  <2>1. /\ meta.total_elements = 0 /\ c.total_elements > 0
        /\ elem \in Nat \ {0} /\ c.total_elements <= MaxArrayBytes \div elem
    BY <1>1, <1>2 DEF FixesSize
  <2>2. m = [meta EXCEPT !.total_elements = c.total_elements, !.element_size = elem]
    BY <1>2 DEF MetaFor
  <2>3. /\ m \in [total_elements : Nat, element_size : Int, received_bytes : Nat]
        /\ m.total_elements = c.total_elements /\ m.element_size = elem
    BY <1>1, <2>2
  <2>4. c.total_elements * elem <= MaxArrayBytes
    <3>1. MaxArrayBytes \div elem \in Nat /\ (MaxArrayBytes \div elem) * elem <= MaxArrayBytes
      BY <1>1, <2>1, ElementAt
    <3>2. c.total_elements * elem <= (MaxArrayBytes \div elem) * elem
      BY <1>1, <2>1, <3>1, ProductGrows
    <3>3. c.total_elements * elem \in Int /\ (MaxArrayBytes \div elem) * elem \in Int
      BY <1>1, <2>1, <3>1
    <3> QED BY <1>1, <3>1, <3>2, <3>3
  <2>5. ASSUME NEW i \in DOMAIN chunks
        PROVE  chunks[i].element_offset * elem + chunks[i].bytes <= c.total_elements * elem
    <3>1. chunks[i].element_offset = 0 /\ chunks[i].bytes = 0
      BY <2>1 DEF ArrayInv, AcceptedChunks
    <3>2. c.total_elements * elem \in Nat
      BY <1>1, <2>1
    <3> QED BY <3>1, <3>2, <2>1
  <2> QED BY <1>1, <2>1, <2>3, <2>4, <2>5
<1>3. CASE ~FixesSize(c)
  <2>1. m = meta
    BY <1>3 DEF MetaFor
  <2>2. c.total_elements > 0 => meta.total_elements > 0
    BY <1>1, <1>3 DEF FixesSize
  <2> QED BY <1>1, <2>1, <2>2 DEF ArrayInv, SizeIsFixed, AcceptedChunks
<1> QED BY <1>2, <1>3

(* SendArrayChunk accepts a chunk within the array, or none. *)
LEMMA SendArrayStep ==
  ASSUME ArrayInv, NEW c \in Chunk, SendChunk(c)
  PROVE  ArrayInv'
<1> DEFINE m == MetaFor(c)
<1>1. c \in Piece
  <2>1. c.element_offset >= 0 /\ c.total_elements >= 0
    BY DEF SendChunk
  <2> QED BY <2>1, AssemblyAssumption DEF Chunk, Piece
<1>2. /\ verdict = "none" /\ UNCHANGED <<elem, verdict, payload>>
      /\ FixesSize(c) => elem > 0 /\ c.total_elements <= MaxArrayBytes \div elem
      /\ \/ /\ InBounds(m, c)
            /\ meta' = [m EXCEPT !.received_bytes = m.received_bytes + c.bytes]
            /\ chunks' = Append(chunks, c)
         \/ meta' = m /\ UNCHANGED chunks
  BY DEF SendChunk
<1>3. /\ m \in [total_elements : Nat, element_size : Int, received_bytes : Nat]
      /\ IF m.total_elements = 0 THEN m.element_size = 0 /\ meta.total_elements = 0
         ELSE elem > 0 /\ m.element_size = elem /\ m.total_elements * elem <= MaxArrayBytes
      /\ c.total_elements > 0 => m.total_elements > 0
      /\ \A i \in DOMAIN chunks :
           IF m.total_elements = 0
           THEN chunks[i].total_elements = 0 /\ chunks[i].element_offset = 0 /\ chunks[i].bytes = 0
           ELSE chunks[i].element_offset * elem + chunks[i].bytes <= m.total_elements * elem
  BY <1>1, <1>2, SizeStep
<1> HIDE DEF m
<1>4. /\ elem \in Int /\ chunks \in Seq(Piece)
      /\ c.element_offset \in Nat /\ c.total_elements \in Nat /\ c.bytes \in Nat
  BY <1>1 DEF ArrayInv, AcceptedChunks, Piece
<1>5. Dispatched' /\ elem' \in Int
  BY <1>2, <1>4 DEF Dispatched
<1>6. CASE meta' = m /\ UNCHANGED chunks
  <2>1. SizeIsFixed'
    BY <1>2, <1>3, <1>6 DEF SizeIsFixed
  <2>2. AcceptedChunks'
    BY <1>2, <1>3, <1>4, <1>6 DEF AcceptedChunks
  <2> QED BY <2>1, <2>2, <1>5 DEF ArrayInv
<1>7. CASE /\ InBounds(m, c)
           /\ meta' = [m EXCEPT !.received_bytes = m.received_bytes + c.bytes]
           /\ chunks' = Append(chunks, c)
  <2>1. /\ meta' \in [total_elements : Nat, element_size : Int, received_bytes : Nat]
        /\ meta'.total_elements = m.total_elements /\ meta'.element_size = m.element_size
    <3>1. m.received_bytes + c.bytes \in Nat
      BY <1>3, <1>4
    <3> QED BY <3>1, <1>3, <1>7
  <2>2. SizeIsFixed'
    BY <1>2, <1>3, <2>1 DEF SizeIsFixed
  <2>3. IF m.total_elements = 0
        THEN c.total_elements = 0 /\ c.element_offset = 0 /\ c.bytes = 0
        ELSE c.element_offset * elem + c.bytes <= m.total_elements * elem
    <3>1. CASE m.total_elements = 0
      <4>1. c.element_offset * 1 + c.bytes <= 0 * 1
        BY <3>1, <1>3, <1>7 DEF InBounds
      <4> QED BY <4>1, <3>1, <1>3, <1>4
    <3>2. CASE m.total_elements # 0
      <4>1. m.element_size = elem /\ elem > 0
        BY <3>2, <1>3
      <4> QED BY <4>1, <3>2, <1>7 DEF InBounds
    <3> QED BY <3>1, <3>2
  <2>4. /\ chunks' \in Seq(Piece) /\ DOMAIN chunks' = 1..(Len(chunks) + 1)
        /\ DOMAIN chunks = 1..Len(chunks) /\ Len(chunks) \in Nat
        /\ \A i \in DOMAIN chunks : chunks'[i] = chunks[i]
        /\ chunks'[Len(chunks) + 1] = c
    BY <1>1, <1>4, <1>7
  <2>5. ASSUME NEW i \in DOMAIN chunks'
        PROVE  IF m.total_elements = 0
               THEN chunks'[i].total_elements = 0 /\ chunks'[i].element_offset = 0 /\ chunks'[i].bytes = 0
               ELSE chunks'[i].element_offset * elem + chunks'[i].bytes <= m.total_elements * elem
    <3>1. CASE i \in DOMAIN chunks
      BY <3>1, <2>4, <1>3
    <3>2. CASE i = Len(chunks) + 1
      BY <3>2, <2>3, <2>4
    <3>3. i \in DOMAIN chunks \/ i = Len(chunks) + 1
      BY <2>4
    <3> QED BY <3>1, <3>2, <3>3
  <2>6. AcceptedChunks'
    BY <1>2, <2>1, <2>4, <2>5 DEF AcceptedChunks
  <2> QED BY <2>2, <2>6, <1>5 DEF ArrayInv
<1> QED BY <1>2, <1>6, <1>7

(* What becomes of the chunks depends on them and on the element size.     *)
LEMMA SameWrite ==
  ASSUME chunks' = chunks, elem' = elem
  PROVE  /\ PipeWriteStatus(chunks)' = PipeWriteStatus(chunks)
         /\ Assembled(chunks)' = Assembled(chunks)
<1>1. TotalBytes(chunks)' = TotalBytes(chunks)
  BY DEF TotalBytes
<1>2. SingleWholeChunk(chunks)' = SingleWholeChunk(chunks)
  BY <1>1 DEF SingleWholeChunk
<1>3. BinsWell(chunks)' = BinsWell(chunks)
  BY <1>1 DEF BinsWell
<1>4. ValidateFieldChunks(chunks)' = ValidateFieldChunks(chunks)
  BY <1>1, <1>2 DEF ValidateFieldChunks
<1>5. AssembleSucceeds(chunks)' = AssembleSucceeds(chunks)
  BY <1>1, <1>2 DEF AssembleSucceeds
<1>6. Assembled(chunks)' = Assembled(chunks)
  BY <1>1, <1>2 DEF Assembled
<1>7. PipeWriteStatus(chunks)' = PipeWriteStatus(chunks)
  BY <1>3, <1>4, <1>5 DEF PipeWriteStatus
<1> QED BY <1>6, <1>7

(* Every step of an upload and its dispatch keeps the invariant. *)
LEMMA ArrayStep == ArrayInv /\ [ArrayNext]_arrayVars => ArrayInv'
<1> SUFFICES ASSUME ArrayInv, [ArrayNext]_arrayVars PROVE ArrayInv'
  OBVIOUS
<1>1. ASSUME NEW c \in Chunk, SendChunk(c) PROVE ArrayInv'
  BY <1>1, SendArrayStep
<1>2. CASE WriteChunkedRequest
  <2>1. /\ UNCHANGED <<elem, meta, chunks>> /\ chunks # <<>>
        /\ verdict' = PipeWriteStatus(chunks)
        /\ verdict' = "Success" => payload' = Assembled(chunks)
    BY <1>2 DEF WriteChunkedRequest
  <2>2. Dispatched'
    BY <2>1, SameWrite DEF Dispatched
  <2> QED BY <2>1, <2>2 DEF ArrayInv, SizeIsFixed, AcceptedChunks
<1>3. CASE UNCHANGED arrayVars
  <2>1. UNCHANGED <<elem, meta, chunks, verdict, payload>>
    BY <1>3 DEF arrayVars
  <2>2. Dispatched'
    BY <2>1, SameWrite DEF ArrayInv, Dispatched
  <2> QED BY <2>1, <2>2 DEF ArrayInv, SizeIsFixed, AcceptedChunks
<1> QED BY <1>1, <1>2, <1>3 DEF ArrayNext

(* The invariant gives what is promised of the dispatch. *)
LEMMA ArrayPromises ==
  ASSUME ArrayInv
  PROVE  WorkerUndisturbed /\ WrittenExactly /\ GoodUploadWritten
<1>1. CASE verdict = "none"
  BY <1>1 DEF WorkerUndisturbed, WrittenExactly, GoodUploadWritten
<1>2. CASE verdict # "none"
  <2>1. /\ chunks # <<>> /\ verdict = PipeWriteStatus(chunks)
        /\ verdict = "Success" => payload = Assembled(chunks)
        /\ chunks \in Seq(Piece) /\ elem \in Int
    BY <1>2 DEF ArrayInv, Dispatched, AcceptedChunks
  <2>2. WorkerUndisturbed
    BY <2>1, StatusOfWrite DEF WorkerUndisturbed
  <2>3. WrittenExactly
    <3>1. CASE verdict = "Success"
      BY <3>1, <2>1, StatusOfWrite, AssembledExactly
    <3>2. CASE verdict # "Success"
      BY <3>2 DEF WrittenExactly
    <3> QED BY <3>1, <3>2
  <2>4. ASSUME CutsArray(chunks) PROVE verdict = "Success"
    <3>1. /\ meta.total_elements \in Nat /\ MaxArrayBytes \in Nat /\ MaxElements \in Nat
      BY AssemblyAssumption DEF ArrayInv, SizeIsFixed
    <3>2. \A i \in DOMAIN chunks : chunks[i].total_elements > 0 =>
            /\ elem > 0 /\ meta.total_elements * elem <= MaxArrayBytes
            /\ chunks[i].element_offset * elem + chunks[i].bytes <= meta.total_elements * elem
      BY <3>1 DEF ArrayInv, SizeIsFixed, AcceptedChunks
    <3>3. BinsWell(chunks) /\ ValidateFieldChunks(chunks)
      BY <2>1, <2>4, <3>1, <3>2, PiecesPass
    <3> QED BY <2>1, <3>3, StatusOfWrite
  <2> QED BY <2>2, <2>3, <2>4 DEF GoodUploadWritten
<1> QED BY <1>1, <1>2

(* The invariant holds of every upload. *)
LEMMA ArrayInvariant == ArraySpec => []ArrayInv
<1>1. ArrayInit => ArrayInv
  BY InitArray
<1>2. ArrayInv /\ [ArrayNext]_arrayVars => ArrayInv'
  BY ArrayStep
<1> QED BY <1>1, <1>2, PTL DEF ArraySpec

(* Chunks that pass validation can be assembled: a malformed upload is     *)
(* refused in phase 1 and never shows as a failure of the worker's pipe.   *)
THEOREM WorkerIsUndisturbed == ArraySpec => []WorkerUndisturbed
<1>1. ArrayInv => WorkerUndisturbed
  BY ArrayPromises
<1> QED BY <1>1, ArrayInvariant, PTL

(* What write_chunked_request_to_pipe writes is the array the chunks       *)
(* describe, byte by byte.                                                 *)
THEOREM ArraysAreExact == ArraySpec => []WrittenExactly
<1>1. ArrayInv => WrittenExactly
  BY ArrayPromises
<1> QED BY <1>1, ArrayInvariant, PTL

(* An upload that cuts the array into pieces is written, in whatever order *)
(* the pieces come in and whatever a refused chunk has left behind.        *)
THEOREM GoodUploadsAreWritten == ArraySpec => []GoodUploadWritten
<1>1. ArrayInv => GoodUploadWritten
  BY ArrayPromises
<1> QED BY <1>1, ArrayInvariant, PTL
=============================================================================
