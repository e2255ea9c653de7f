--------------------------- MODULE ChunkAssembly ---------------------------
(***************************************************************************)
(* One array of a chunked upload: which chunks SendArrayChunk accepts, and *)
(* how write_chunked_request_to_pipe validates them (phase 1) and          *)
(* assembles them on the worker's pipe (phase 2).                          *)
(*                                                                         *)
(* A chunk is its element offset, the total number of elements it claims   *)
(* the array to have, and its length in bytes.  A byte on the pipe is      *)
(* represented by the number of the chunk it was copied from, 0 for a byte *)
(* that no chunk supplied.                                                 *)
(***************************************************************************)
EXTENDS Integers, Sequences, FiniteSets, FiniteSetsExt

CONSTANTS
    ElemSizes,     \* values of array_field_element_size; <= 0: unknown array
    MaxArrayBytes, \* kMaxChunkedArrayBytes and kMaxPipeArrayBytes
    MaxElements,   \* bound on the offsets and totals that clients send
    MaxChunkBytes, \* bound on the length of a chunk
    MaxPieces      \* bound on the number of chunks accepted

ASSUME AssemblyAssumption ==
    /\ ElemSizes \subseteq Int
    /\ {MaxArrayBytes, MaxElements, MaxChunkBytes, MaxPieces} \subseteq Nat

VARIABLES
    elem,      \* element size of the array
    meta,      \* FieldMeta: total_elements, element_size, received_bytes
    chunks,    \* ChunkedUploadState::chunks of this array
    verdict,   \* PipeWriteStatus, "none" before the job is dispatched
    payload    \* the array as written to the pipe

arrayVars == <<elem, meta, chunks, verdict, payload>>

Chunk == [element_offset : -1..MaxElements, total_elements : -1..MaxElements,
          bytes : 0..MaxChunkBytes]

ArrayInit ==
    /\ elem \in ElemSizes
    /\ meta = [total_elements |-> 0, element_size |-> 0, received_bytes |-> 0]
    /\ chunks = <<>>
    /\ verdict = "none"
    /\ payload = <<>>

-----------------------------------------------------------------------------
(* SendArrayChunk *)

(* The first chunk with a total fixes the size of the array; an unknown    *)
(* array or one over the limit is refused then.                            *)
FixesSize(c) == meta.total_elements = 0 /\ c.total_elements > 0

MetaFor(c) ==
    IF FixesSize(c)
    THEN [meta EXCEPT !.total_elements = c.total_elements, !.element_size = elem]
    ELSE meta

InBounds(m, c) ==
    LET elem_size == IF m.element_size > 0 THEN m.element_size ELSE 1 IN
    /\ elem_size > 1 => c.bytes % elem_size = 0
    /\ c.element_offset <= m.total_elements
    /\ c.element_offset * elem_size + c.bytes <= m.total_elements * elem_size

(* Accepted, or INVALID_ARGUMENT / RESOURCE_EXHAUSTED.  A chunk rejected   *)
(* for its bounds may already have fixed the size of the array.            *)
SendChunk(c) ==
    /\ verdict = "none"
    /\ Len(chunks) < MaxPieces
    /\ c.element_offset >= 0 /\ c.total_elements >= 0
    /\ FixesSize(c) => elem > 0 /\ c.total_elements <= MaxArrayBytes \div elem
    /\ LET m == MetaFor(c) IN
       \/ /\ InBounds(m, c)
          /\ meta' = [m EXCEPT !.received_bytes = m.received_bytes + c.bytes]
          /\ chunks' = Append(chunks, c)
       \/ /\ ~InBounds(m, c)
          /\ meta' = m
          /\ UNCHANGED chunks
    /\ UNCHANGED <<elem, verdict, payload>>

-----------------------------------------------------------------------------
(* write_chunked_request_to_pipe, phase 1 *)

(* The bytes of the array: what the chunks with a total agree on. *)
TotalBytes(cs) ==
    LET sized == {i \in DOMAIN cs : cs[i].total_elements > 0} IN
    IF sized = {} THEN 0 ELSE cs[Min(sized)].total_elements * elem

(* A binning that takes the first total and ignores the others. *)
BinsWellFirst(cs) ==
    \A i \in DOMAIN cs :
      /\ elem > 0
      /\ cs[i].total_elements = 0 => cs[i].bytes = 0
      /\ cs[i].total_elements * elem <= MaxArrayBytes

(* Binning: known array, no data without a total, one total for all. *)
BinsWell(cs) ==
    \A i \in DOMAIN cs :
      /\ elem > 0
      /\ cs[i].total_elements = 0 => cs[i].bytes = 0
      /\ cs[i].total_elements * elem <= MaxArrayBytes
      /\ cs[i].total_elements > 0 => cs[i].total_elements * elem = TotalBytes(cs)

SingleWholeChunk(cs) ==
    Len(cs) = 1 /\ cs[1].element_offset = 0 /\ cs[1].bytes = TotalBytes(cs)

(* The elements chunk c covers, with elements of the given size. *)
Covers(c, size) == c.element_offset..(c.element_offset + c.bytes \div size - 1)

(* A range check that refuses a chunk at the very end of the array. *)
FitsStrict(cs, total, size) ==
    /\ \A i \in DOMAIN cs :
         /\ cs[i].bytes % size = 0
         /\ cs[i].element_offset < total - cs[i].bytes \div size
    /\ \A i, j \in DOMAIN cs : i # j => Covers(cs[i], size) \cap Covers(cs[j], size) = {}

(* One chunk after the other: aligned, in range, no element covered twice. *)
Fits(cs, total, size) ==
    /\ \A i \in DOMAIN cs :
         /\ cs[i].bytes % size = 0
         /\ cs[i].element_offset <= total - cs[i].bytes \div size
    /\ \A i, j \in DOMAIN cs : i # j => Covers(cs[i], size) \cap Covers(cs[j], size) = {}

NoGaps(cs, total, size) ==
    0..(total - 1) \subseteq UNION {Covers(cs[i], size) : i \in DOMAIN cs}

(* A validation that forgets the gaps. *)
ValidateFieldChunksGappy(cs) ==
    LET total == cs[1].total_elements
        size == TotalBytes(cs) \div total
    IN \/ TotalBytes(cs) = 0
       \/ SingleWholeChunk(cs)
       \/ total > 0 /\ TotalBytes(cs) % total = 0 /\ Fits(cs, total, size)

(* validate_field_chunks *)
ValidateFieldChunks(cs) ==
    LET total == cs[1].total_elements
        size == TotalBytes(cs) \div total
    IN \/ TotalBytes(cs) = 0
       \/ SingleWholeChunk(cs)
       \/ /\ total > 0 /\ TotalBytes(cs) % total = 0
          /\ Fits(cs, total, size) /\ NoGaps(cs, total, size)

-----------------------------------------------------------------------------
(* Phase 2: assemble_and_write_field_payload repeats the checks as it      *)
(* copies the chunks to their places in a zeroed buffer.                   *)

AssembleSucceeds(cs) ==
    LET total == cs[1].total_elements
        size == TotalBytes(cs) \div total
    IN \/ TotalBytes(cs) = 0
       \/ SingleWholeChunk(cs)
       \/ /\ total > 0 /\ TotalBytes(cs) % total = 0
          /\ Fits(cs, total, size) /\ NoGaps(cs, total, size)

Assembled(cs) ==
    LET total == cs[1].total_elements
        size == TotalBytes(cs) \div total
        At(b) == {i \in DOMAIN cs :
                    b - 1 \in (cs[i].element_offset * size)..
                              (cs[i].element_offset * size + cs[i].bytes - 1)}
    IN [b \in 1..TotalBytes(cs) |->
          IF SingleWholeChunk(cs) THEN 1
          ELSE IF At(b) = {} THEN 0 ELSE Max(At(b))]

PipeWriteStatus(cs) ==
    IF ~(BinsWell(cs) /\ ValidateFieldChunks(cs)) THEN "ValidationFailed"
    ELSE IF AssembleSucceeds(cs) THEN "Success" ELSE "PipeFailed"

(* The dispatch of the job, with a pipe that does not fail by itself. *)
WriteChunkedRequest ==
    /\ verdict = "none"
    /\ chunks # <<>>
    /\ verdict' = PipeWriteStatus(chunks)
    /\ payload' = IF verdict' = "Success" THEN Assembled(chunks) ELSE payload
    /\ UNCHANGED <<elem, meta, chunks>>

ArrayNext == (\E c \in Chunk : SendChunk(c)) \/ WriteChunkedRequest

ArraySpec == ArrayInit /\ [][ArrayNext]_arrayVars

-----------------------------------------------------------------------------
(* Properties. *)

ArrayTypeOK ==
    /\ elem \in ElemSizes
    /\ DOMAIN meta = {"total_elements", "element_size", "received_bytes"}
    /\ meta.total_elements \in 0..MaxElements
    /\ meta.total_elements > 0 => meta.total_elements * meta.element_size \in 1..MaxArrayBytes
    /\ Len(chunks) <= MaxPieces /\ \A i \in DOMAIN chunks : chunks[i] \in Chunk
    /\ verdict \in {"none", "ValidationFailed", "Success", "PipeFailed"}
    /\ \A b \in DOMAIN payload : payload[b] \in 0..MaxPieces

(* Every accepted chunk lies within the array as the session records it,   *)
(* whatever total the chunk itself claims and whichever chunk came first.  *)
ChunksWithinArray ==
    \A i \in DOMAIN chunks :
      LET size == IF meta.element_size > 0 THEN meta.element_size ELSE 1 IN
      chunks[i].element_offset * size + chunks[i].bytes <= meta.total_elements * size

(* "any failure there is unambiguously a pipe failure": chunks that pass   *)
(* validation can be assembled, so that malformed input never costs a      *)
(* worker.                                                                 *)
WorkerUndisturbed == verdict # "PipeFailed"

(* What is written is the array the chunks describe: of the length that    *)
(* every sized chunk claims, every byte supplied by a chunk, and every     *)
(* byte of every chunk at its place, not overwritten by another.           *)
WrittenExactly ==
    verdict = "Success" =>
      /\ \A b \in DOMAIN payload : payload[b] # 0
      /\ \A i \in DOMAIN chunks :
           /\ chunks[i].total_elements > 0 => Len(payload) = chunks[i].total_elements * elem
           /\ \A k \in 1..chunks[i].bytes : payload[chunks[i].element_offset * elem + k] = i

(* Reference: the chunks cut the array into pieces. *)
CutsArray(cs) ==
    \E n \in 1..MaxElements :
      /\ \A i \in DOMAIN cs : cs[i].total_elements = n /\ cs[i].bytes % elem = 0
                                   /\ cs[i].element_offset * elem + cs[i].bytes <= n * elem
      /\ \A e \in 0..(n - 1) :
           Cardinality({i \in DOMAIN cs :
              cs[i].element_offset <= e /\ (e - cs[i].element_offset + 1) * elem <= cs[i].bytes}) = 1

(* An upload whose chunks cut the array into pieces is accepted, in        *)
(* whatever order the pieces come in.                                      *)
GoodUploadWritten ==
    verdict # "none" /\ CutsArray(chunks) => verdict = "Success"
=============================================================================
