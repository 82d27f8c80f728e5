--------------------------- MODULE PipelinedWriter ---------------------------
(***************************************************************************)
(* write_records (e1/writer.rs): the whole-DataFrame writer, which         *)
(* serialises rows on the caller's thread and compresses blocks on a       *)
(* second one.                                                             *)
(*                                                                         *)
(* The main thread sends full block buffers over raw_tx (capacity 2) and   *)
(* writes what comes back over done_rx (capacity 2).  Both sends block     *)
(* when their channel is full, and each thread is the only one that can    *)
(* unblock the other: what keeps them from waiting for each other is that  *)
(* the main thread empties done_rx before every send but the last.         *)
(* pending_blocks is its count of blocks sent and not written.             *)
(*                                                                         *)
(* A block is named by the offset of the record stream where it ends; a    *)
(* file position by the number of blocks written.                          *)
(***************************************************************************)
EXTENDS BlockLayout

CONSTANTS
  RowSeqs,        (* the DataFrames: sequences of rows                     *)
  ChannelCapacity (* both sync_channel(2)                                  *)

(* A row: its serialised length, and whether build_record_into refuses it. *)
RowType == [len : Nat \ {0}, bad : BOOLEAN]

ASSUME PipelineAssumption ==
  RowSeqs \subseteq Seq(RowType) /\ ChannelCapacity \in Nat \ {0}

VARIABLES
  rows,        (* the DataFrame, fixed                                      *)
  row,         (* rows serialised into the stream so far                    *)
  bufFrom,     (* block_buf holds the stream from bufFrom ...               *)
  bufTo,       (* ... to bufTo                                              *)
  remaining,   (* bytes of the current record not yet in a block buffer     *)
  pending,     (* pending_blocks                                            *)
  written,     (* blocks written to the file, in order                      *)
  index,       (* block_index                                               *)
  pc,          (* where the main thread is                                  *)
  goal,        (* why it is sending: "group", "record", "split" or "last"   *)
  rawQ, doneQ, (* the two channels                                          *)
  rawOpen, doneOpen,   (* raw_tx and done_rx have not been dropped          *)
  worker,      (* the compress thread: "idle", "busy" or "exited"           *)
  job          (* the block a busy one compresses                           *)

mainVars   == <<row, bufFrom, bufTo, remaining, index, goal>>
fileVars   == <<pending, written, doneQ>>
workerVars == <<worker, job>>
ends       == <<rawOpen, doneOpen>>
vars == <<rows, mainVars, fileVars, pc, rawQ, ends, workerVars>>

Init ==
  /\ rows \in RowSeqs
  /\ row = 0 /\ bufFrom = 0 /\ bufTo = 0 /\ remaining = 0
  /\ pending = 0 /\ written = <<>>
  /\ index = <<0>>
  /\ pc = "row" /\ goal = "last"
  /\ rawQ = <<>> /\ doneQ = <<>>
  /\ rawOpen = TRUE /\ doneOpen = TRUE
  /\ worker = "idle" /\ job = 0

BufLen == bufTo - bufFrom

-----------------------------------------------------------------------------
(* The main thread, one row after the other.                               *)

(* Mutant: one row too many.                                               *)
NextRow_OneMore ==
  /\ pc = "row"
  /\ IF row > Len(rows)
     THEN /\ goal' = "last"
          /\ pc' = IF BufLen > 0 THEN "send" ELSE "close"
     ELSE pc' = "build" /\ UNCHANGED goal
  /\ UNCHANGED <<rows, row, bufFrom, bufTo, remaining, index, fileVars, rawQ,
                 ends, workerVars>>

(* Top of the row loop.  At a group boundary the buffer is flushed, which  *)
(* begins with a drain; the end of the loop flushes what is left, without  *)
(* one.                                                                    *)
NextRow ==
  /\ pc = "row"
  /\ IF row = Len(rows)
     THEN /\ goal' = "last"
          /\ pc' = IF BufLen > 0 THEN "send" ELSE "close"
          /\ UNCHANGED index
     ELSE IF IsGroupStart(row)
     THEN /\ goal' = "group"
          /\ IF BufLen > 0 THEN pc' = "drain" /\ UNCHANGED index
             ELSE pc' = "build" /\ index' = Append(index, Len(written))
     ELSE pc' = "build" /\ UNCHANGED <<goal, index>>
  /\ UNCHANGED <<rows, row, bufFrom, bufTo, remaining, fileVars, rawQ, ends,
                 workerVars>>

(* Mutant: the record is appended wherever the buffer stands.              *)
BuildRecord_NoFlush ==
  /\ pc = "build" /\ ~rows[row + 1].bad
  /\ remaining' = rows[row + 1].len
  /\ row' = row + 1
  /\ pc' = "append" /\ UNCHANGED goal
  /\ UNCHANGED <<rows, bufFrom, bufTo, index, fileVars, rawQ, ends,
                 workerVars>>

(* build_record_into, and the flush before a record that does not fit.     *)
BuildRecord ==
  /\ pc = "build" /\ ~rows[row + 1].bad
  /\ remaining' = rows[row + 1].len
  /\ row' = row + 1
  /\ IF BufLen + remaining' > BlockSize /\ BufLen > 0
     THEN goal' = "record" /\ pc' = "drain"
     ELSE pc' = "append" /\ UNCHANGED goal
  /\ UNCHANGED <<rows, bufFrom, bufTo, index, fileVars, rawQ, ends,
                 workerVars>>

(* The append loop: the rest of the record if it fits, else a full block.  *)
AppendRecord ==
  /\ pc = "append"
  /\ LET space == BlockSize - BufLen
     IN IF remaining <= space
        THEN /\ bufTo' = bufTo + remaining
             /\ remaining' = 0
             /\ pc' = "row" /\ UNCHANGED goal
        ELSE /\ bufTo' = bufTo + space
             /\ remaining' = remaining - space
             /\ goal' = "split" /\ pc' = "drain"
  /\ UNCHANGED <<rows, row, bufFrom, index, fileVars, rawQ, ends, workerVars>>

-----------------------------------------------------------------------------
(* Blocks going out and coming back.                                       *)

(* Mutant: the newest block is written first.                              *)
TakeDone_Newest ==
  /\ doneQ # <<>>
  /\ written' = Append(written, Last(doneQ))
  /\ doneQ' = Front(doneQ)
  /\ pending' = pending - 1

(* A received block is written to the file.                                *)
TakeDone ==
  /\ doneQ # <<>>
  /\ written' = Append(written, Head(doneQ))
  /\ doneQ' = Tail(doneQ)
  /\ pending' = pending - 1

(* Mutant: nothing is drained before a send.                               *)
DrainCompleted_Never ==
  /\ pc = "drain"
  /\ pc' = IF goal = "group" THEN "settle" ELSE "send"
  /\ UNCHANGED <<rows, mainVars, fileVars, rawQ, ends, workerVars>>

(* drain_completed: try_recv until the channel is empty or nothing is      *)
(* pending.  A group boundary then waits for all that is on its way.       *)
DrainCompleted ==
  /\ pc = "drain"
  /\ IF pending > 0 /\ doneQ # <<>>
     THEN TakeDone /\ UNCHANGED pc
     ELSE /\ pc' = IF goal = "group" THEN "settle" ELSE "send"
          /\ UNCHANGED fileVars
  /\ UNCHANGED <<rows, mainVars, rawQ, ends, workerVars>>

(* Mutant: the group's last block is not waited for.                       *)
Settle_NotForGroup ==
  /\ pc \in {"settle", "settleGroup", "settleLast"}
  /\ IF pending > 0 /\ pc # "settleGroup"
     THEN TakeDone /\ UNCHANGED <<pc, index>>
     ELSE /\ pc' = CASE pc = "settle"      -> "send"
                     [] pc = "settleGroup" -> "build"
                     [] pc = "settleLast"  -> "join"
          /\ index' = IF pc = "settleGroup" THEN Append(index, Len(written))
                      ELSE index
          /\ UNCHANGED fileVars
  /\ UNCHANGED <<rows, row, bufFrom, bufTo, remaining, goal, rawQ, ends,
                 workerVars>>

(* "Wait for all pending to flush so file_pos is accurate": the blocks     *)
(* sent earlier, then, after its own send, the group's last block.         *)
Settle ==
  /\ pc \in {"settle", "settleGroup", "settleLast"}
  /\ IF pending > 0
     THEN TakeDone /\ UNCHANGED <<pc, index>>
     ELSE /\ pc' = CASE pc = "settle"      -> "send"
                     [] pc = "settleGroup" -> "build"
                     [] pc = "settleLast"  -> "join"
          /\ index' = IF pc = "settleGroup" THEN Append(index, Len(written))
                      ELSE index
          /\ UNCHANGED fileVars
  /\ UNCHANGED <<rows, row, bufFrom, bufTo, remaining, goal, rawQ, ends,
                 workerVars>>

(* send_block: blocks while raw_tx is full.                                *)
SendBlock ==
  /\ pc = "send" /\ Len(rawQ) < ChannelCapacity
  /\ rawQ' = Append(rawQ, bufTo)
  /\ bufFrom' = bufTo
  /\ pending' = pending + 1
  /\ pc' = CASE goal = "group" -> "settleGroup"
             [] goal = "last"  -> "close"
             [] OTHER          -> "append"
  /\ UNCHANGED <<rows, row, bufTo, remaining, index, goal, written, doneQ,
                 ends, workerVars>>

(* Mutant: the worker is joined while raw_tx is still open.                *)
CloseRaw_KeepsOpen ==
  /\ pc = "close"
  /\ pc' = "settleLast"
  /\ UNCHANGED <<rows, mainVars, fileVars, rawQ, ends, workerVars>>

(* drop(raw_tx): no more blocks are coming.                                *)
CloseRaw ==
  /\ pc = "close"
  /\ rawOpen' = FALSE
  /\ pc' = "settleLast"
  /\ UNCHANGED <<rows, mainVars, fileVars, rawQ, doneOpen, workerVars>>

JoinWorker ==
  /\ pc = "join" /\ worker = "exited"
  /\ pc' = "done"
  /\ UNCHANGED <<rows, mainVars, fileVars, rawQ, ends, workerVars>>

(* Mutant: the channel ends outlive the call that failed.                  *)
Fail_KeepsEnds ==
  /\ \/ pc = "build" /\ rows[row + 1].bad
     \/ /\ pc \in {"drain", "settle", "settleGroup", "settleLast"}
        /\ pending > 0 /\ doneQ # <<>>
  /\ pc' = "failed"
  /\ UNCHANGED <<rows, mainVars, fileVars, rawQ, ends, workerVars>>

(* A row that does not serialise, or an error of any write to the file,    *)
(* leaves write_records at once; its ends of both channels are dropped and *)
(* the thread is not joined.                                               *)
Fail ==
  /\ \/ pc = "build" /\ rows[row + 1].bad
     \/ /\ pc \in {"drain", "settle", "settleGroup", "settleLast"}
        /\ pending > 0 /\ doneQ # <<>>
  /\ pc' = "failed"
  /\ rawOpen' = FALSE /\ doneOpen' = FALSE
  /\ UNCHANGED <<rows, mainVars, fileVars, rawQ, workerVars>>

-----------------------------------------------------------------------------
(* The compress thread.                                                    *)

WorkerTakes ==
  /\ worker = "idle" /\ rawQ # <<>>
  /\ job' = Head(rawQ)
  /\ rawQ' = Tail(rawQ)
  /\ worker' = "busy"
  /\ UNCHANGED <<rows, mainVars, fileVars, pc, ends>>

WorkerSends ==
  /\ worker = "busy" /\ doneOpen /\ Len(doneQ) < ChannelCapacity
  /\ doneQ' = Append(doneQ, job)
  /\ worker' = "idle"
  /\ UNCHANGED <<rows, mainVars, pending, written, pc, rawQ, ends, job>>

(* Its loop ends on a closed and empty raw channel, or when nobody is left *)
(* to send to.                                                             *)
WorkerExits ==
  /\ \/ worker = "idle" /\ rawQ = <<>> /\ ~rawOpen
     \/ worker = "busy" /\ ~doneOpen
  /\ worker' = "exited"
  /\ UNCHANGED <<rows, mainVars, fileVars, pc, rawQ, ends, job>>

-----------------------------------------------------------------------------
MainStep ==
  \/ NextRow
  \/ BuildRecord
  \/ AppendRecord
  \/ DrainCompleted
  \/ Settle
  \/ SendBlock
  \/ CloseRaw
  \/ JoinWorker

WorkerStep ==
  \/ WorkerTakes
  \/ WorkerSends
  \/ WorkerExits

Returned == pc \in {"done", "failed"}

Next ==
  \/ MainStep
  \/ Fail
  \/ WorkerStep

(* Neither thread stops on its own; nothing obliges the disk to fail.      *)
Fairness == WF_vars(MainStep \/ Fail) /\ WF_vars(WorkerStep)

Spec == Init /\ [][Next]_vars /\ Fairness

-----------------------------------------------------------------------------
(* Properties.                                                             *)

(* Every variable holds a value of its type.                               *)
TypeOK ==
  /\ rows \in Seq(RowType)
  /\ row \in 0 .. Len(rows) /\ (pc = "build" => row < Len(rows))
  /\ bufFrom \in Nat /\ bufTo \in Nat /\ remaining \in Nat
  /\ pending \in Nat
  /\ written \in Seq(Nat) /\ index \in Seq(Nat)
  /\ pc \in {"row", "build", "append", "drain", "settle", "settleGroup",
             "settleLast", "send", "close", "join", "done", "failed"}
  /\ goal \in {"group", "record", "split", "last"}
  /\ rawQ \in Seq(Nat) /\ doneQ \in Seq(Nat)
  /\ rawOpen \in BOOLEAN /\ doneOpen \in BOOLEAN
  /\ worker \in {"idle", "busy", "exited"}
  /\ job \in Nat

InHand == IF worker = "busy" THEN <<job>> ELSE <<>>

(* The blocks sent, in the order they were sent, as far as they have come. *)
Pipeline == written \o doneQ \o InHand \o rawQ

(* What keeps them apart: pending_blocks counts the blocks on their way,   *)
(* and stays below what the channels and the compress thread can hold.     *)
InFlight == Len(rawQ) + (IF worker = "busy" THEN 1 ELSE 0) + Len(doneQ)

PipelineAccounting ==
  /\ pc # "failed" => pending = InFlight
  /\ Len(rawQ) <= ChannelCapacity /\ Len(doneQ) <= ChannelCapacity
  /\ pc \in {"row", "build", "append", "drain", "send"}
       => pending <= ChannelCapacity + 2
  /\ pc = "send" /\ goal \in {"record", "split"}
       => pending <= ChannelCapacity + 1

(* The two threads never wait for each other: whenever the main thread is  *)
(* held up by a full raw channel, the worker has a block to take or to     *)
(* hand over.                                                              *)
NoMutualWait ==
  pc = "send" /\ Len(rawQ) = ChannelCapacity
    => worker = "idle" \/ Len(doneQ) < ChannelCapacity

(* The file receives the blocks in the order of the records, none twice,   *)
(* none skipped.                                                           *)
BlocksInOrder ==
  \A i \in 1 .. Len(Pipeline) : \A k \in 1 .. Len(Pipeline) :
    i < k => Pipeline[i] < Pipeline[k]

Lengths == [i \in 1 .. Len(rows) |-> rows[i].len]

(* On success the file has the blocks and the index of the sequential      *)
(* layout: pipelining shows in neither.                                    *)
SameAsSequential ==
  pc = "done" =>
    /\ written = LayoutOf(Lengths).cut
    /\ index = LayoutOf(Lengths).index

(* The file position is taken for the index only when it is accurate:      *)
(* every byte before the group is in the file.                             *)
IndexIsAccurate ==
  [][index' # index => pending = 0 /\ written # <<>> /\ Last(written) = bufTo]_vars

(* The thread ends after the call has, also when nobody joins it.          *)
WorkerEnds == Returned ~> (worker = "exited")
=============================================================================
