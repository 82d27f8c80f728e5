------------------------------ MODULE YxdbWriter ------------------------------
(***************************************************************************)
(* The streaming writer: YxdbWriter::write_batch, finish and Drop          *)
(* (e1/writer.rs), with what can interrupt them - a row that does not      *)
(* serialise, an I/O error, a writer dropped unfinished, a killed process. *)
(*                                                                         *)
(* The writer is single-threaded; its steps are a row of a batch and the   *)
(* four writes of finish, because that is where an error or a kill leaves  *)
(* a state behind.  The caller may go on after an error: Python's          *)
(* YxdbStreamWriter.__exit__ calls finish() even when the with-block is    *)
(* left by the exception a failed write_batch raised.                      *)
(***************************************************************************)
EXTENDS BlockLayout

CONSTANTS
  Batches,   (* the batches a caller may write: sequences of rows          *)
  MaxRows    (* bound: rows offered to one writer                          *)

(* A row: its serialised length, and whether build_record_into refuses it. *)
RowType == [len : Nat \ {0}, bad : BOOLEAN]

ASSUME BatchesAssumption == Batches \subseteq Seq(RowType) /\ MaxRows \in Nat

VARIABLES
  layout,        (* cut: blocks written; end, index: block_buf, block_index *)
  recordCount,
  batch,         (* the batch being written                                 *)
  row,           (* rows of it already appended                             *)
  pc,            (* where the writer is                                     *)
  finished,
  disk,          (* header fields and index as written to the file          *)
  exists,        (* the file is in the directory                            *)
  starts,        (* history: where each row of the stream starts            *)
  offered,       (* history: rows of all batches begun                      *)
  batchFailed,   (* history: some write_batch returned an error             *)
  torn           (* history: a write to the file failed                     *)

vars == <<layout, recordCount, batch, row, pc, finished, disk, exists,
          starts, offered, batchFailed, torn>>

(* with_schema: the header's placeholders, and the index entry of group 0. *)
Init ==
  /\ layout = EmptyLayout
  /\ recordCount = 0
  /\ batch = <<>> /\ row = 0
  /\ pc = "idle" /\ finished = FALSE
  /\ disk = [count |-> 0, indexPos |-> 0, index |-> <<>>]
  /\ exists = TRUE
  /\ starts = <<>> /\ offered = 0
  /\ batchFailed = FALSE /\ torn = FALSE

-----------------------------------------------------------------------------
(* write_batch.                                                            *)

(* An empty batch, or one of another width, returns without an effect.     *)
BeginBatch ==
  /\ pc = "idle"
  /\ \E b \in Batches :
       /\ b # <<>> /\ offered + Len(b) <= MaxRows
       /\ batch' = b
       /\ offered' = offered + Len(b)
  /\ row' = 0
  /\ pc' = "batch"
  /\ UNCHANGED <<layout, recordCount, finished, disk, exists, starts,
                 batchFailed, torn>>

globalRow == recordCount + row

(* Mutant: the batch is over one row too late.                             *)
WriteRow_MissesLast ==
  /\ pc = "batch" /\ ~batch[row + 1].bad
  /\ layout' = PlaceRecord(layout, globalRow, batch[row + 1].len)
  /\ starts' = Append(starts, layout.end)
  /\ row' = row + 1
  /\ IF row' > Len(batch)
     THEN recordCount' = recordCount + Len(batch) /\ pc' = "idle"
     ELSE UNCHANGED <<recordCount, pc>>
  /\ UNCHANGED <<batch, finished, disk, exists, offered, batchFailed, torn>>

(* One turn of the row loop; the record count moves with the last row.     *)
WriteRow ==
  /\ pc = "batch" /\ ~batch[row + 1].bad
  /\ layout' = PlaceRecord(layout, globalRow, batch[row + 1].len)
  /\ starts' = Append(starts, layout.end)
  /\ row' = row + 1
  /\ IF row' = Len(batch)
     THEN recordCount' = recordCount + Len(batch) /\ pc' = "idle"
     ELSE UNCHANGED <<recordCount, pc>>
  /\ UNCHANGED <<batch, finished, disk, exists, offered, batchFailed, torn>>

BatchFails(l) ==
  /\ layout' = l
  /\ batchFailed' = TRUE
  /\ pc' = "idle"
  /\ UNCHANGED <<recordCount, batch, row, finished, disk, exists, starts,
                 offered>>

(* build_record_into fails after the group was opened; the rows of the     *)
(* batch already appended stay appended.                                   *)
RowRejected ==
  /\ pc = "batch" /\ batch[row + 1].bad
  /\ BatchFails(OpenGroup(layout, globalRow))
  /\ UNCHANGED torn

(* flush_block fails while the row is being laid out.                      *)
RowWriteFails ==
  /\ pc = "batch"
  /\ \E l \in FlushPoints(layout, globalRow, batch[row + 1].len) :
       /\ batch[row + 1].bad => IsGroupStart(globalRow) /\ l = layout
       /\ BatchFails(l)
  /\ torn' = TRUE

-----------------------------------------------------------------------------
(* finish consumes the writer: it is marked finished before anything is    *)
(* written, so an error on the way leaves the file to its fate.            *)

FinishStep(from, to) ==
  /\ pc = from /\ pc' = to
  /\ UNCHANGED <<recordCount, batch, row, exists, starts, offered,
                 batchFailed, torn>>

BeginFinish ==
  /\ FinishStep("idle", "flush")
  /\ finished' = TRUE
  /\ UNCHANGED <<layout, disk>>

(* Mutant: the last block stays in the buffer.                             *)
FinishFlush_Nothing ==
  /\ FinishStep("flush", "index")
  /\ UNCHANGED <<layout, finished, disk>>

FinishFlush ==
  /\ FinishStep("flush", "index")
  /\ layout' = Flush(layout)
  /\ UNCHANGED <<finished, disk>>

(* Mutant: the count goes out with the index.                              *)
FinishIndex_CountFirst ==
  /\ FinishStep("index", "indexPos")
  /\ disk' = [disk EXCEPT !.index = layout.index, !.count = recordCount]
  /\ UNCHANGED <<layout, finished>>

FinishIndex ==
  /\ FinishStep("index", "indexPos")
  /\ disk' = [disk EXCEPT !.index = layout.index]
  /\ UNCHANGED <<layout, finished>>

FinishIndexPos ==
  /\ FinishStep("indexPos", "count")
  /\ disk' = [disk EXCEPT !.indexPos = Len(layout.cut)]
  /\ UNCHANGED <<layout, finished>>

FinishCount ==
  /\ FinishStep("count", "done")
  /\ disk' = [disk EXCEPT !.count = recordCount]
  /\ UNCHANGED <<layout, finished>>

FinishFails ==
  /\ pc \in {"flush", "index", "indexPos", "count"}
  /\ pc' = "failed" /\ torn' = TRUE
  /\ \/ UNCHANGED disk
     \/ pc = "count" /\ disk' = [disk EXCEPT !.count = recordCount]
  /\ UNCHANGED <<layout, recordCount, batch, row, finished, exists, starts,
                 offered, batchFailed>>

-----------------------------------------------------------------------------
(* Drop without finish removes the file, as far as the platform lets it:   *)
(* an open file cannot be removed everywhere.                              *)
DropWriter ==
  /\ pc = "idle" /\ ~finished
  /\ pc' = "dropped"
  /\ exists' \in BOOLEAN
  /\ UNCHANGED <<layout, recordCount, batch, row, finished, disk, starts,
                 offered, batchFailed, torn>>

(* The process dies; no destructor runs.                                   *)
Kill ==
  /\ pc \notin {"done", "failed", "dropped", "killed"}
  /\ pc' = "killed"
  /\ UNCHANGED <<layout, recordCount, batch, row, finished, disk, exists,
                 starts, offered, batchFailed, torn>>

Next ==
  \/ BeginBatch
  \/ WriteRow
  \/ RowRejected
  \/ RowWriteFails
  \/ BeginFinish
  \/ FinishFlush
  \/ FinishIndex
  \/ FinishIndexPos
  \/ FinishCount
  \/ FinishFails
  \/ DropWriter
  \/ Kill

Spec == Init /\ [][Next]_vars

-----------------------------------------------------------------------------
(* Properties.                                                             *)

(* Every variable holds a value of its type.                               *)
TypeOK ==
  /\ layout \in LayoutType
  /\ recordCount \in Nat
  /\ batch \in Seq(RowType)
  /\ row \in 0 .. Len(batch) /\ (pc = "batch" => row < Len(batch))
  /\ pc \in {"idle", "batch", "flush", "index", "indexPos", "count", "done",
             "failed", "dropped", "killed"}
  /\ finished \in BOOLEAN
  /\ disk \in [count : Nat, indexPos : Nat, index : Seq(Nat)]
  /\ exists \in BOOLEAN
  /\ starts \in Seq(Nat) /\ offered \in 0 .. MaxRows
  /\ batchFailed \in BOOLEAN /\ torn \in BOOLEAN

RowEnd(r) == IF r = Len(starts) THEN layout.end ELSE starts[r + 1]

(* The offset a block index entry points at.                               *)
EntryOffset(e) == IF e = 0 THEN 0 ELSE layout.cut[e]

(* Every entry of the block index points at the block that starts with the *)
(* first record of its group, and no group lacks one.                      *)
IndexMarksGroups ==
  ~batchFailed =>
    /\ \A g \in 1 .. Len(layout.index) :
         LET first == (g - 1) * GroupSize + 1
         IN first <= Len(starts) => EntryOffset(layout.index[g]) = starts[first]
    /\ Len(starts) <= Len(layout.index) * GroupSize

(* A record that fits a block is never split; a longer one starts a block. *)
(* Failed batches do not change that.                                      *)
RecordsSplitOnlyIfLonger ==
  ~torn =>
    \A r \in 1 .. Len(starts) : \A b \in 1 .. Len(layout.cut) :
      LET c == layout.cut[b]
      IN starts[r] < c /\ c < RowEnd(r)
           => /\ RowEnd(r) - starts[r] > BlockSize
              /\ \E a \in 0 .. b : EntryOffset(a) = starts[r]

(* Blocks never exceed the readers' BLOCK_SIZE buffer and are never empty. *)
BlocksFitBuffers ==
  /\ \A b \in 1 .. Len(layout.cut) :
       layout.cut[b] - EntryOffset(b - 1) \in 1 .. BlockSize
  /\ Buffered(layout) \in 0 .. BlockSize

(* The record count is the last thing written: whatever interrupts the     *)
(* writer, a file whose header announces records holds all of them, their  *)
(* index and its place.  A file left behind otherwise says 0 records.      *)
CountCommitsLast ==
  disk.count > 0 /\ ~batchFailed =>
    /\ disk.count = Len(starts)
    /\ Buffered(layout) = 0
    /\ disk.index = layout.index
    /\ disk.indexPos = Len(layout.cut)

(* "Update the header with the final record count": a finished file        *)
(* announces the records its blocks hold.                                  *)
FinishedCountIsExact == pc = "done" => disk.count = Len(starts)

(* Dropping without finish() will "leave the file with an incorrect record *)
(* count in the header".                                                   *)
DroppedFileRemains == pc = "dropped" => exists

-----------------------------------------------------------------------------
(* The finished file as the readers describe one: a header of one byte and *)
(* no spatial index, which this writer never produces.                     *)
File == INSTANCE BlockFile WITH HeaderLen <- 1, GarbageLen <- 0

WrittenFile ==
  [start |-> starts, len |-> [r \in 1 .. Len(starts) |-> RowEnd(r) - starts[r]],
   cut |-> layout.cut, fault |-> [b \in 1 .. Len(layout.cut) |-> "none"],
   grid |-> {}, spatial |-> FALSE, hasVar |-> TRUE]

(* What the writer finishes is a file the streaming reader is specified    *)
(* for, and its blocks hold every byte of every record - even after a      *)
(* batch was refused, as long as no write failed.                          *)
FinishedFileIsReadable ==
  pc = "done" /\ ~torn =>
    /\ File!WellFormed(WrittenFile)
    /\ layout.end = LastCut(layout)
=============================================================================
