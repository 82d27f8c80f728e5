----------------------------- MODULE FrameWriter -----------------------------
(***************************************************************************)
(* write_yxdb_impl (e1/writer.rs): a whole DataFrame to a file.  The       *)
(* header, which already announces the frame's records, goes first; then   *)
(* write_records runs, which is PipelinedWriter; then the record block     *)
(* index is written, and its position is patched into the header.          *)
(*                                                                         *)
(* The variables say what has been written in program order.  A BufWriter  *)
(* holds some of it back, but lets it reach the disk in that order, so     *)
(* what a killed process leaves is what an earlier state of the model has. *)
(***************************************************************************)
EXTENDS PipelinedWriter

VARIABLES
  stage,       (* "header", "records", "index", "position", "done",        *)
               (* "failed"                                                 *)
  created,     (* the header and the metadata are written                  *)
  count,       (* num_records in the header                                *)
  indexPos,    (* nRecordBlockIndexPos as the number of blocks before the  *)
               (* index: 0 is "none", and also what an empty frame has     *)
  trailer      (* the RecordBlockIndex behind the blocks                   *)

headerVars == <<created, count>>
indexVars  == <<indexPos, trailer>>
frameVars  == <<vars, stage, headerVars, indexVars>>

FrameInit ==
  /\ Init
  /\ stage = "header" /\ created = FALSE /\ count = 0
  /\ indexPos = 0 /\ trailer = <<>>

(* Mutant: the count is left for later, as YxdbWriter does.                *)
WriteHeader_CountZero ==
  /\ stage = "header"
  /\ created' = TRUE /\ UNCHANGED count
  /\ stage' = "records"
  /\ UNCHANGED <<vars, indexVars>>

(* build_header with df.height(), File::create, and the two writes.        *)
WriteHeader ==
  /\ stage = "header"
  /\ created' = TRUE /\ count' = Len(rows)
  /\ stage' = "records"
  /\ UNCHANGED <<vars, indexVars>>

(* The caller's thread in write_records.                                   *)
WriteRecords ==
  /\ stage = "records"
  /\ MainStep \/ Fail
  /\ stage' = CASE pc' = "done"   -> "index"
                [] pc' = "failed" -> "failed"
                [] OTHER          -> "records"
  /\ UNCHANGED <<headerVars, indexVars>>

(* The compress thread lives from the start of write_records on, and may   *)
(* outlive the call when that fails.                                       *)
CompressThread ==
  /\ created
  /\ WorkerStep
  /\ UNCHANGED <<stage, headerVars, indexVars>>

(* The number of entries and the entries, at end_pos.                      *)
WriteIndex ==
  /\ stage = "index"
  /\ trailer' = index
  /\ stage' = "position"
  /\ UNCHANGED <<vars, headerVars, indexPos>>

(* Seek to offset 96, write, flush.                                        *)
WritePosition ==
  /\ stage = "position"
  /\ indexPos' = Len(written)
  /\ stage' = "done"
  /\ UNCHANGED <<vars, headerVars, trailer>>

(* An I/O error outside write_records.  The last may come from the flush,  *)
(* after the position was written.                                         *)
FrameFails ==
  /\ stage \in {"header", "index", "position"}
  /\ stage' = "failed"
  /\ indexPos' \in {indexPos} \cup (IF stage = "position" THEN {Len(written)} ELSE {})
  /\ UNCHANGED <<vars, headerVars, trailer>>

FrameNext ==
  \/ WriteHeader \/ WriteRecords \/ WriteIndex \/ WritePosition \/ FrameFails
  \/ CompressThread

(* Both threads go on while they can.                                      *)
FrameFairness ==
  /\ WF_frameVars(WriteHeader \/ WriteRecords \/ WriteIndex \/ WritePosition \/ FrameFails)
  /\ WF_frameVars(CompressThread)

FrameSpec == FrameInit /\ [][FrameNext]_frameVars /\ FrameFairness

-----------------------------------------------------------------------------
(* Where record n + 1 starts in the record stream.                         *)
Offset ==
  LET sum[n \in 0 .. Len(rows)] == IF n = 0 THEN 0 ELSE sum[n - 1] + Lengths[n]
  IN sum

File == INSTANCE BlockFile WITH HeaderLen <- 1, GarbageLen <- 0

(* The file as the readers describe one.                                   *)
FrameFile ==
  [start |-> [r \in 1..count |-> Offset[r - 1]], len |-> SubSeq(Lengths, 1, count),
   cut |-> written, fault |-> [b \in DOMAIN written |-> "none"],
   grid |-> {}, spatial |-> FALSE, hasVar |-> TRUE]

(* The records that the header announces are in the blocks.                *)
Reads == created /\ Offset[count] <= (IF written = <<>> THEN 0 ELSE Last(written))

(* The header announces the records before there are any: whatever the     *)
(* writer is interrupted by, in either thread, and wherever, the file left *)
(* behind is one the readers are specified for, and if it holds all the    *)
(* records its header announces, then it is the whole frame.  A header     *)
(* that names an index does so only when index and blocks are complete.    *)
WhatReadsIsWhole ==
  /\ created => File!WellFormed(FrameFile)
  /\ Reads => written = LayoutOf(Lengths).cut /\ \A r \in DOMAIN rows : ~rows[r].bad
  /\ indexPos # 0 \/ stage = "done" =>
       /\ Reads
       /\ trailer = LayoutOf(Lengths).index
       /\ indexPos = Len(written)

(* The call returns, whatever fails.                                       *)
CallReturns == <>(stage \in {"done", "failed"})
=============================================================================
