------------------------------ MODULE BulkReader ------------------------------
(***************************************************************************)
(* into_dataframe: the whole file at once (e1/reader.rs).                  *)
(*                                                                         *)
(* Compressed files are decoded in chunks of blocks; the bytes of a record *)
(* that a chunk cuts are carried over to the next one.  A file with a      *)
(* spatial index is tried up to three times: its blocks as they are, then  *)
(* without those that do not look like records, then materialised whole.   *)
(* Uncompressed files are walked in place.                                 *)
(*                                                                         *)
(* One step is one turn of the chunk loop: within it, blocks decompress    *)
(* and columns fill in parallel, on disjoint memory.  A chunk is the       *)
(* sequence of its bytes' offsets, because filtering leaves gaps.  At      *)
(* least one column is projected.                                          *)
(***************************************************************************)
EXTENDS BlockFile, FiniteSets, SequencesExt

CONSTANTS
  Files,        (* the files into_dataframe may be called on               *)
  ChunkBudget,  (* CHUNK_BUDGET_BYTES                                      *)
  MaxCarry,     (* MAX_CARRY_BYTES                                         *)
  Estimates     (* what expected_output may come to for a block            *)

ASSUME BulkAssumption ==
  /\ \A f \in Files : WellFormed(f)
  /\ ChunkBudget \in Nat \ {0}
  /\ MaxCarry \in 0 .. ChunkBudget - 1
  /\ Estimates \subseteq Nat \ {0}
  /\ \E most \in Estimates : \A e \in Estimates : e <= most

VARIABLES
  file,        (* what is on disk                                          *)
  compressed,  (* FALSE: version 0, no block framing                       *)
  estimate,    (* expected_output of each block                            *)
  attempts,    (* the reads still to be tried, the current one first       *)
  blockIdx,    (* blocks of the list consumed                              *)
  carry,
  rows,        (* records pushed to the builders in this attempt           *)
  pc,          (* "walk", "check" (the loop is left) or "done"             *)
  result       (* "none", "ok" or "error"                                  *)

vars == <<file, compressed, estimate, attempts, blockIdx, carry, rows, pc,
          result>>
fixed == <<file, compressed, estimate>>

Count == NumRecords(file)

(* parse_block_boundaries: the list ends before a block the file cuts.     *)
NumListed == Cardinality({b \in 1 .. NumBlocks(file) : file.fault[b] # "short"})

(* The reads to try: one, except for spatial files with variable fields.   *)
AttemptsFor(f, c) ==
  IF ~c THEN <<"raw">>
  ELSE IF f.spatial /\ f.hasVar THEN <<"all", "filtered", "whole">>
  ELSE <<"plain">>

Init ==
  /\ file \in Files
  /\ compressed \in BOOLEAN
  /\ ~compressed => ~file.spatial /\ \A b \in 1 .. NumBlocks(file) : file.fault[b] = "none"
  /\ estimate \in [1 .. NumBlocks(file) -> Estimates]
  /\ attempts = AttemptsFor(file, compressed)
  /\ blockIdx = 0 /\ carry = <<>> /\ rows = <<>>
  /\ IF Count = 0 THEN pc = "done" /\ result = "ok"
     ELSE pc = "walk" /\ result = "none"

attempt == Head(attempts)

(* Options: stop_at_record_count and spatial_record_filter.                *)
StopsAtCount == attempt \in {"all", "filtered"}
Chunked      == attempt \in {"plain", "all", "filtered"}

-----------------------------------------------------------------------------
(* Blocks.                                                                 *)

BlockSize(b) == BlockEnd(file, b) - BlockStart(file, b)

(* A block fills a buffer of its estimated size or fails; nothing retries. *)
Decompresses(b) == file.fault[b] = "none" /\ BlockSize(b) <= estimate[b]

Bytes(from, to) == [i \in 1 .. to - from |-> from + i - 1]

(* Mutant: every block is kept.                                            *)
Kept_Always(b) == TRUE

(* spatial_record_filter drops what does not parse as records.             *)
Kept(b) ==
  attempt = "filtered"
    => IsRecordBlock(file, BlockStart(file, b), BlockEnd(file, b))

(* decompress_block_list on blocks from + 1 .. to.                         *)
BlockData(from, to) ==
  FlattenSeq([i \in 1 .. to - from |->
    IF Kept(from + i)
    THEN Bytes(BlockStart(file, from + i), BlockEnd(file, from + i))
    ELSE <<>>])

-----------------------------------------------------------------------------
(* Records.                                                                *)

(* The length word of the record assumed at index i of the data, which a   *)
(* dropped block may have torn apart.                                      *)
VarLenAt(data, i) ==
  IF data[i + HeaderLen] = data[i + 1] + HeaderLen - 1
  THEN VarLen(file, data[i + 1])
  ELSE GarbageLen

RecordEnd(data, i) ==
  i + HeaderLen + (IF file.hasVar THEN VarLenAt(data, i) ELSE 0)

(* At which indices of the data a complete record ends, or the first one   *)
(* begins.                                                                 *)
IsEnd(data) ==
  LET isEnd[i \in 0 .. Len(data)] ==
        \/ i = 0
        \/ \E j \in 0 .. i - HeaderLen : RecordEnd(data, j) = i /\ isEnd[j]
  IN isEnd

EndsUpTo(data) ==
  LET ends[i \in 0 .. Len(data)] ==
        IF i = 0 THEN <<0>>
        ELSE IF IsEnd(data)[i] THEN Append(ends[i - 1], i) ELSE ends[i - 1]
  IN ends

(* scan_variable_record_bounds_partial, or the division by fixed_size.     *)
Bounds(data) == EndsUpTo(data)[Len(data)]

(* The first n records between the bounds.                                 *)
Records(data, ends, n) ==
  [r \in 1 .. n |-> SubSeq(data, ends[r] + 1, ends[r + 1])]

-----------------------------------------------------------------------------
(* One read of the file.                                                   *)

AttemptFails ==
  /\ attempts' = Tail(attempts)
  /\ blockIdx' = 0 /\ carry' = <<>> /\ rows' = <<>>
  /\ IF Len(attempts) = 1 THEN pc' = "done" /\ result' = "error"
     ELSE pc' = "walk" /\ UNCHANGED result
  /\ UNCHANGED fixed

InLoop ==
  /\ pc = "walk" /\ Chunked
  /\ blockIdx < NumListed \/ carry # <<>>
  /\ Len(rows) < Count

(* Mutant: the budget is not looked at.                                    *)
BatchEnd_AllBlocks == NumListed

(* What the chunk is expected to hold when it takes the blocks up to "to". *)
Expected ==
  LET sum[to \in blockIdx .. NumListed] ==
        IF to = blockIdx THEN Len(carry) ELSE sum[to - 1] + estimate[to]
  IN sum

(* The chunk takes blocks while what it is expected to hold is below the   *)
(* budget.                                                                 *)
BatchEnd ==
  CHOOSE to \in blockIdx .. NumListed :
    /\ \A b \in blockIdx .. to - 1 : Expected[b] < ChunkBudget
    /\ to = NumListed \/ Expected[to] >= ChunkBudget

IsLastBatch == BatchEnd = NumListed

(* How many of the complete records of a chunk count.                      *)
NumComplete(ends) ==
  IF StopsAtCount /\ Count - Len(rows) < Len(ends) - 1
  THEN Count - Len(rows) ELSE Len(ends) - 1

(* Mutant: a last chunk without a record is tried again.                   *)
LeavesLoop_AtCountOnly(n) == Len(rows) + n >= Count

(* The records are there, or no further turn can make progress.            *)
LeavesLoop(n) == Len(rows) + n >= Count \/ (IsLastBatch /\ n = 0)

(* Bytes after the last record, or too many before the next: with the      *)
(* second check a read that goes to the count alone replaces the first.    *)
ChunkError(data, ends, n) ==
  \/ ~StopsAtCount /\ IsLastBatch /\ Last(ends) # Len(data)
  \/ StopsAtCount /\ ~LeavesLoop(n) /\ Len(data) - Last(ends) > MaxCarry

(* Mutant: the cut record's bytes are not kept.                            *)
Carried_Nothing(data, ends) == <<>>

Carried(data, ends) == SubSeq(data, Last(ends) + 1, Len(data))

(* A turn of the loop: decompress, push the complete records, carry over.  *)
Chunk ==
  /\ InLoop
  /\ \E to \in {BatchEnd} : \E data \in {carry \o BlockData(blockIdx, to)} :
       \E ends \in {Bounds(data)} : \E n \in {NumComplete(ends)} :
         \/ /\ \/ \E b \in blockIdx + 1 .. to : ~Decompresses(b)
               \/ ChunkError(data, ends, n)
            /\ AttemptFails
         \/ /\ \A b \in blockIdx + 1 .. to : Decompresses(b)
            /\ ~ChunkError(data, ends, n)
            /\ rows' = rows \o Records(data, ends, n)
            /\ blockIdx' = to
            /\ IF LeavesLoop(n)
               THEN pc' = "check" /\ carry' = <<>>
               ELSE carry' = Carried(data, ends) /\ UNCHANGED pc
            /\ UNCHANGED <<fixed, attempts, result>>

(* Mutant: fewer records than announced are accepted.                      *)
CheckCount_Short ==
  /\ \/ pc = "check"
     \/ pc = "walk" /\ Chunked /\ ~InLoop
  /\ IF Len(rows) <= Count
     THEN /\ pc' = "done" /\ result' = "ok"
          /\ UNCHANGED <<fixed, attempts, blockIdx, carry, rows>>
     ELSE AttemptFails

CheckCount ==
  /\ \/ pc = "check"
     \/ pc = "walk" /\ Chunked /\ ~InLoop
  /\ IF Len(rows) = Count
     THEN /\ pc' = "done" /\ result' = "ok"
          /\ UNCHANGED <<fixed, attempts, blockIdx, carry, rows>>
     ELSE AttemptFails

(* The third read of a spatial file, and the only one of an uncompressed   *)
(* one: a record cut after its length word is an error, but nothing        *)
(* compares what was found with the header's count.                        *)
ReadWhole ==
  /\ pc = "walk" /\ ~Chunked
  /\ \E data \in {BlockData(0, NumListed)} : \E ends \in {Bounds(data)} :
       LET found    == Len(ends) - 1
           readable == compressed => \A b \in 1 .. NumListed : Decompresses(b)
           cut      == IF file.hasVar THEN Last(ends) + HeaderLen <= Len(data)
                       ELSE TRUE
       IN IF readable /\ (found < Count => ~cut)
          THEN /\ rows' = Records(data, ends, IF found < Count THEN found ELSE Count)
               /\ pc' = "done" /\ result' = "ok"
               /\ UNCHANGED <<fixed, attempts, blockIdx, carry>>
          ELSE AttemptFails

Next ==
  \/ Chunk
  \/ CheckCount
  \/ ReadWhole

(* One thread, from the call to its return.                                *)
Spec == Init /\ [][Next]_vars /\ WF_vars(Next)

-----------------------------------------------------------------------------
(* Properties.                                                             *)

RecordBytes(r) == Bytes(file.start[r], EndOfRecord(file, r))

(* A frame that is returned consists of the file's records, in order and   *)
(* whole, however chunks, grid blocks and failed reads came in between,    *)
(* and of all of them unless it was read whole.                            *)
RowsAreExact ==
  result = "ok" =>
    /\ Len(rows) <= Count
    /\ \A r \in 1 .. Len(rows) : rows[r] = RecordBytes(r)
    /\ Len(rows) = Count \/ ~Chunked

(* "Three reads are attempted in order, stopping at the first that         *)
(* accounts for every record": whichever is accepted, none is missing.     *)
EveryRecordAccounted == result = "ok" /\ compressed => Len(rows) = Count

(* Chunk borders lose nothing and repeat nothing: the records pushed and   *)
(* the bytes carried are together the data of the blocks consumed.         *)
NothingLost ==
  pc = "walk" /\ Chunked => FlattenSeq(rows) \o carry = BlockData(0, blockIdx)

Max2(S) == CHOOSE x \in S : \A y \in S : y <= x

(* "This bounds peak memory to roughly this size (per chunk)": a chunk is  *)
(* never over its budget by more than one block.                           *)
ChunkFitsBudget ==
  pc = "walk" /\ Chunked /\ InLoop
    => Expected[BatchEnd] < ChunkBudget + Max2(Estimates)

(* A file whose blocks all decompress, that is not cut short and has       *)
(* nothing after its last record but grid blocks.                          *)
Sound ==
  /\ \A b \in 1 .. NumBlocks(file) :
       file.fault[b] = "none" /\ (compressed => BlockSize(b) <= estimate[b])
  /\ Count > 0 =>
       LET end == EndOfRecord(file, Count)
       IN \E b \in 1 .. NumBlocks(file) :
            /\ BlockEnd(file, b) = end
            /\ \A c \in b + 1 .. NumBlocks(file) : c \in file.grid \/ BlockSize(c) = 0
            /\ ~(file.spatial /\ file.hasVar) => BlockEnd(file, NumBlocks(file)) = end

(* Grid blocks between records are told from data blocks.                  *)
GridSeparable ==
  \A b \in 1 .. NumBlocks(file) :
    b \in file.grid \/ BlockSize(b) = 0
      \/ IsRecordBlock(file, BlockStart(file, b), BlockEnd(file, b))

GridAtEndOnly ==
  \A b \in file.grid : Count > 0 => BlockStart(file, b) >= file.start[Count]

(* Where a grid block comes before the last record, the read that          *)
(* succeeds is the one of the record blocks: it may carry over MaxCarry    *)
(* bytes of a record, and the loop refuses more.                           *)
CarryFits(f) ==
  \A b \in f.grid : \A r \in 1 .. NumRecords(f) :
    f.spatial /\ f.hasVar /\ BlockStart(f, b) < f.start[NumRecords(f)]
      => f.len[r] <= MaxCarry + 1

(* A sound file is read, wherever its chunks end, by one of the attempts.  *)
SoundFilesAreRead ==
  result = "error" /\ Sound => file.spatial /\ ~GridAtEndOnly /\ ~GridSeparable

(* The call returns.                                                       *)
BulkReturns == <>(result # "none")
=============================================================================
