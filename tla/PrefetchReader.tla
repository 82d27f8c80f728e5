---------------------------- MODULE PrefetchReader ----------------------------
(***************************************************************************)
(* YxdbReader's record-at-a-time path over LZF blocks, and the thread that *)
(* decompresses one block ahead of it (e1/reader.rs).                      *)
(*                                                                         *)
(* Two threads and two channels of capacity one.  The caller's thread      *)
(* takes raw blocks off the file, sends them as jobs and receives the      *)
(* decompressed blocks; request_outstanding is its memory of having sent a *)
(* job whose result it has not taken.  The worker loops: receive a job,    *)
(* decompress, send the result.  A call of next_record runs from           *)
(* BeginRecord to the action that returns; between calls the caller may    *)
(* also drop the reader, which closes the job channel and joins the        *)
(* worker.  The caller may call again after an error: nothing in the type  *)
(* prevents it, and a Python iterator invites it.                          *)
(*                                                                         *)
(* The worker never dies before its job channel is closed (its loop ends   *)
(* only on a closed channel), so the "worker terminated unexpectedly"      *)
(* branches of send and recv have no action here.                          *)
(***************************************************************************)
EXTENDS BlockFile

CONSTANT Files   (* the files the reader may be opened on                   *)

ASSUME FilesAssumption == \A f \in Files : WellFormed(f)

ChannelCapacity == 1   (* both sync_channel(1)                              *)

VARIABLES
  file,               (* what is on disk; fixed once opened                 *)
  readPos,            (* blocks taken off the file: stream, stream_pos      *)
  requestQ,           (* jobs sent, not taken by the worker (block numbers) *)
  resultQ,            (* results sent, not taken by the reader              *)
  worker,             (* "none" (not spawned), "idle", "busy" or "exited"   *)
  job,                (* the block a busy worker decompresses               *)
  senderOpen,         (* request_tx has not been dropped                    *)
  reader,             (* where the caller's thread is                       *)
  requestOutstanding,
  lzfOut,             (* the block lzf_out holds; 0 when the buffer is away *)
  lzfOutIdx,          (* offset of the next byte to copy out of the block   *)
  lzfOutSize,         (* offset of the end of that block                    *)
  currentRecord,
  recordBytesRead,
  bufFrom,            (* offset of the first byte in the caller's buffer    *)
  need,               (* bytes the current read_bytes still has to copy     *)
  phase,              (* which read_bytes of next_record: "fixed" or "var"  *)
  result,             (* how the last call ended                            *)
  hasCurrent,         (* YxdbRowReader::has_current                         *)
  delivered,          (* history: records returned before the first error   *)
  errors              (* history: calls that returned an error              *)

callVars   == <<currentRecord, recordBytesRead, bufFrom, need, phase>>
blockVars  == <<lzfOut, lzfOutIdx, lzfOutSize>>
streamVars == <<readPos, requestQ, worker>>   (* what submit_next changes   *)
retVars    == <<result, hasCurrent, delivered, errors>>
vars == <<file, streamVars, resultQ, job, senderOpen, reader,
          requestOutstanding, blockVars, callVars, retVars>>

Init ==
  /\ file \in Files
  /\ readPos = 0
  /\ requestQ = <<>> /\ resultQ = <<>>
  /\ worker = "none" /\ job = 0 /\ senderOpen = TRUE
  /\ reader = "idle" /\ requestOutstanding = FALSE
  /\ lzfOut = 0 /\ lzfOutIdx = 0 /\ lzfOutSize = 0
  /\ currentRecord = 0 /\ recordBytesRead = 0
  /\ bufFrom = 0 /\ need = 0 /\ phase = "fixed"
  /\ result = "none" /\ hasCurrent = FALSE
  /\ delivered = 0 /\ errors = 0

-----------------------------------------------------------------------------
(* Returning to the caller.                                                *)

(* YxdbRowReader::next stores has_current only when next_record returned   *)
(* Ok: the "?" leaves with an error before the assignment.                 *)
Return(outcome) ==
  /\ reader' = "idle"
  /\ result' = outcome
  /\ hasCurrent' = IF outcome = "error" THEN hasCurrent ELSE outcome = "row"
  /\ delivered' = IF outcome = "row" /\ errors = 0 THEN delivered + 1
                  ELSE delivered
  /\ errors' = IF outcome = "error" THEN errors + 1 ELSE errors

Continue(place) == reader' = place /\ UNCHANGED retVars

-----------------------------------------------------------------------------
(* submit_next: end of the block region, a short read, or a job sent.      *)

AtEndOfBlocks  == readPos = NumBlocks(file)
NextBlockShort == ~AtEndOfBlocks /\ file.fault[readPos + 1] = "short"

SubmitNothing == AtEndOfBlocks /\ UNCHANGED streamVars

SubmitFails ==
  /\ NextBlockShort
  /\ readPos' = readPos + 1
  /\ UNCHANGED <<requestQ, worker>>

(* SyncSender::send blocks while the channel is full; the worker is        *)
(* spawned on first use.                                                   *)
SubmitJob ==
  /\ ~AtEndOfBlocks /\ ~NextBlockShort
  /\ Len(requestQ) < ChannelCapacity
  /\ readPos' = readPos + 1
  /\ requestQ' = Append(requestQ, readPos + 1)
  /\ worker' = IF worker = "none" THEN "idle" ELSE worker

-----------------------------------------------------------------------------
(* The caller's thread.                                                    *)

CallsPastEnd == 1   (* bound: calls after the last record                   *)

(* Mutant: the last record is taken for the end of the file.               *)
BeginRecord_EndsEarly ==
  /\ reader = "idle"
  /\ currentRecord < NumRecords(file) + CallsPastEnd
  /\ currentRecord' = currentRecord + 1
  /\ IF currentRecord' >= NumRecords(file)
     THEN /\ Return("end")
          /\ UNCHANGED <<recordBytesRead, bufFrom, need, phase>>
     ELSE /\ recordBytesRead' = 0
          /\ need' = HeaderLen
          /\ phase' = "fixed"
          /\ UNCHANGED bufFrom
          /\ Continue("read")
  /\ UNCHANGED <<file, streamVars, resultQ, job, senderOpen,
                 requestOutstanding, blockVars>>

(* next_record: count the record, then read its fixed part.                *)
BeginRecord ==
  /\ reader = "idle"
  /\ currentRecord < NumRecords(file) + CallsPastEnd
  /\ currentRecord' = currentRecord + 1
  /\ IF currentRecord' > NumRecords(file)
     THEN /\ Return("end")
          /\ UNCHANGED <<recordBytesRead, bufFrom, need, phase>>
     ELSE /\ recordBytesRead' = 0
          /\ need' = HeaderLen
          /\ phase' = "fixed"
          /\ UNCHANGED bufFrom
          /\ Continue("read")
  /\ UNCHANGED <<file, streamVars, resultQ, job, senderOpen,
                 requestOutstanding, blockVars>>

(* Mutant: the whole block is copied, however little is asked for.         *)
CopyBytes_WholeBlock ==
  /\ reader = "read" /\ need > 0
  /\ lzfOutIdx < lzfOutSize /\ lzfOut # 0
  /\ lzfOutIdx' = lzfOutSize
  /\ recordBytesRead' = recordBytesRead + (lzfOutSize - lzfOutIdx)
  /\ need' = need - (lzfOutSize - lzfOutIdx)
  /\ bufFrom' = IF recordBytesRead = 0 THEN lzfOutIdx ELSE bufFrom
  /\ UNCHANGED <<file, streamVars, resultQ, job, senderOpen, reader,
                 requestOutstanding, lzfOut, lzfOutSize, currentRecord, phase,
                 retVars>>

(* One turn of read_bytes' loop with bytes left in the block.              *)
CopyBytes ==
  /\ reader = "read" /\ need > 0
  /\ lzfOutIdx < lzfOutSize /\ lzfOut # 0
  /\ LET available == lzfOutSize - lzfOutIdx
         toCopy    == IF need < available THEN need ELSE available
     IN /\ lzfOutIdx' = lzfOutIdx + toCopy
        /\ recordBytesRead' = recordBytesRead + toCopy
        /\ need' = need - toCopy
  /\ bufFrom' = IF recordBytesRead = 0 THEN lzfOutIdx ELSE bufFrom
  /\ UNCHANGED <<file, streamVars, resultQ, job, senderOpen, reader,
                 requestOutstanding, lzfOut, lzfOutSize, currentRecord, phase,
                 retVars>>

(* The indices survive an error that kept lzf_out's buffer: slicing the    *)
(* empty vector that replaced it panics.                                   *)
CopyPanics ==
  /\ reader = "read" /\ need > 0
  /\ lzfOutIdx < lzfOutSize /\ lzfOut = 0
  /\ Continue("panicked")
  /\ UNCHANGED <<file, streamVars, resultQ, job, senderOpen,
                 requestOutstanding, blockVars, callVars>>

(* The fixed part is complete: its last bytes say how long the rest is.    *)
EndFixedPart ==
  /\ reader = "read" /\ need = 0 /\ phase = "fixed" /\ file.hasVar
  /\ phase' = "var"
  /\ need' = VarLen(file, bufFrom)
  /\ UNCHANGED <<file, streamVars, resultQ, job, senderOpen, reader,
                 requestOutstanding, blockVars, currentRecord,
                 recordBytesRead, bufFrom, retVars>>

EndRecord ==
  /\ reader = "read" /\ need = 0 /\ (phase = "var" \/ ~file.hasVar)
  /\ Return("row")
  /\ UNCHANGED <<file, streamVars, resultQ, job, senderOpen,
                 requestOutstanding, blockVars, callVars>>

(* read_next_lzf_block up to its loop: a request must be in flight before  *)
(* a result is waited for.  Entering the loop recycles lzf_out.            *)
FetchBlock ==
  /\ reader = "read" /\ need > 0 /\ lzfOutIdx >= lzfOutSize
  /\ \/ /\ requestOutstanding
        /\ Continue("recv")
        /\ lzfOut' = 0
        /\ UNCHANGED <<streamVars, requestOutstanding>>
     \/ /\ ~requestOutstanding
        /\ SubmitJob
        /\ requestOutstanding' = TRUE
        /\ Continue("recv")
        /\ lzfOut' = 0
     \/ /\ ~requestOutstanding
        /\ SubmitNothing \/ SubmitFails
        /\ Return("error")
        /\ UNCHANGED <<requestOutstanding, lzfOut>>
  /\ UNCHANGED <<file, resultQ, job, senderOpen, lzfOutIdx, lzfOutSize,
                 callVars>>

(* recv() returned: an error leaves through "??", before                   *)
(* request_outstanding is cleared; a block is installed.                   *)
ReceiveBlock ==
  /\ reader = "recv" /\ resultQ # <<>>
  /\ resultQ' = Tail(resultQ)
  /\ LET b == Head(resultQ)
     IN IF file.fault[b] = "corrupt"
        THEN /\ Return("error")
             /\ UNCHANGED <<requestOutstanding, blockVars>>
        ELSE /\ requestOutstanding' = FALSE
             /\ lzfOut' = b
             /\ lzfOutIdx' = BlockStart(file, b)
             /\ lzfOutSize' = BlockEnd(file, b)
             /\ Continue("eager")
  /\ UNCHANGED <<file, streamVars, job, senderOpen, callVars>>

(* Mutant: the boundary is looked for one record too early.                *)
SkipsGridBlock_OffByOne ==
  /\ recordBytesRead = 0
  /\ currentRecord % GroupSize = 0
  /\ file.spatial /\ file.hasVar
  /\ ~IsRecordBlock(file, lzfOutIdx, lzfOutSize)

(* The block in hand opens a record at a group boundary of a spatial file  *)
(* and does not parse as records.                                          *)
SkipsGridBlock ==
  LET recordsEmitted == currentRecord - 1
  IN /\ recordBytesRead = 0
     /\ recordsEmitted > 0 /\ recordsEmitted % GroupSize = 0
     /\ file.spatial /\ file.hasVar
     /\ ~IsRecordBlock(file, lzfOutIdx, lzfOutSize)

(* Mutant: the flag is cleared on receive and never set by the prefetch.   *)
PrefetchNext_ForgetsJob ==
  /\ reader = "eager"
  /\ \/ /\ SubmitJob
        /\ Continue("read")
     \/ /\ SubmitNothing
        /\ Continue("read")
     \/ /\ SubmitFails
        /\ Return("error")
  /\ UNCHANGED <<file, resultQ, job, senderOpen, requestOutstanding, lzfOut,
                 lzfOutIdx, lzfOutSize, callVars>>

(* Mutant: the answer of submit_next is ignored.                           *)
PrefetchNext_AssumesJob ==
  /\ reader = "eager"
  /\ requestOutstanding' = TRUE
  /\ \/ /\ SubmitJob \/ SubmitNothing
        /\ Continue("read")
     \/ /\ SubmitFails
        /\ Return("error")
  /\ UNCHANGED <<file, resultQ, job, senderOpen, lzfOut, lzfOutIdx,
                 lzfOutSize, callVars>>

(* Mutant: nothing left to prefetch is an error at once.                   *)
PrefetchNext_EndIsError ==
  /\ reader = "eager"
  /\ \/ /\ SubmitJob
        /\ requestOutstanding' = TRUE
        /\ Continue("read")
     \/ /\ SubmitNothing \/ SubmitFails
        /\ UNCHANGED requestOutstanding
        /\ Return("error")
  /\ UNCHANGED <<file, resultQ, job, senderOpen, lzfOut, lzfOutIdx,
                 lzfOutSize, callVars>>

(* The rest of the loop's turn: submit the next block eagerly, then keep   *)
(* this one or skip it and go round again.                                 *)
PrefetchNext ==
  /\ reader = "eager"
  /\ \/ /\ SubmitJob
        /\ requestOutstanding' = TRUE
        /\ lzfOut' = IF SkipsGridBlock THEN 0 ELSE lzfOut
        /\ Continue(IF SkipsGridBlock THEN "recv" ELSE "read")
     \/ /\ SubmitNothing
        /\ UNCHANGED <<requestOutstanding, lzfOut>>
        /\ IF SkipsGridBlock THEN Return("error") ELSE Continue("read")
     \/ /\ SubmitFails
        /\ UNCHANGED <<requestOutstanding, lzfOut>>
        /\ Return("error")
  /\ UNCHANGED <<file, resultQ, job, senderOpen, lzfOutIdx, lzfOutSize,
                 callVars>>

(* Mutant: the worker is joined while the job channel is still open.       *)
DropReader_KeepsSender ==
  /\ reader = "idle"
  /\ Continue(IF worker = "none" THEN "closed" ELSE "join")
  /\ UNCHANGED <<file, streamVars, resultQ, job, senderOpen,
                 requestOutstanding, blockVars, callVars>>

(* The caller drops the reader: PrefetchWorker::drop closes the job        *)
(* channel first and then joins, while the result channel is still open.   *)
DropReader ==
  /\ reader = "idle"
  /\ senderOpen' = FALSE
  /\ Continue(IF worker = "none" THEN "closed" ELSE "join")
  /\ UNCHANGED <<file, streamVars, resultQ, job, requestOutstanding,
                 blockVars, callVars>>

JoinWorker ==
  /\ reader = "join" /\ worker = "exited"
  /\ Continue("closed")
  /\ UNCHANGED <<file, streamVars, resultQ, job, senderOpen,
                 requestOutstanding, blockVars, callVars>>

-----------------------------------------------------------------------------
(* The worker's loop.                                                      *)

WorkerTakesJob ==
  /\ worker = "idle" /\ requestQ # <<>>
  /\ job' = Head(requestQ)
  /\ requestQ' = Tail(requestQ)
  /\ worker' = "busy"
  /\ UNCHANGED <<file, readPos, resultQ, senderOpen, reader,
                 requestOutstanding, blockVars, callVars, retVars>>

(* Mutant: a block that does not decompress gets no answer.                *)
WorkerSendsResult_SwallowsErrors ==
  /\ worker = "busy" /\ Len(resultQ) < ChannelCapacity
  /\ resultQ' = IF file.fault[job] = "corrupt" THEN resultQ
                ELSE Append(resultQ, job)
  /\ worker' = "idle"
  /\ UNCHANGED <<file, readPos, requestQ, job, senderOpen, reader,
                 requestOutstanding, blockVars, callVars, retVars>>

(* decompress_job and the send of its outcome, which blocks on a full      *)
(* channel.                                                                *)
WorkerSendsResult ==
  /\ worker = "busy" /\ Len(resultQ) < ChannelCapacity
  /\ resultQ' = Append(resultQ, job)
  /\ worker' = "idle"
  /\ UNCHANGED <<file, readPos, requestQ, job, senderOpen, reader,
                 requestOutstanding, blockVars, callVars, retVars>>

(* recv() fails only on a closed channel that is also empty.               *)
WorkerExits ==
  /\ worker = "idle" /\ requestQ = <<>> /\ ~senderOpen
  /\ worker' = "exited"
  /\ UNCHANGED <<file, readPos, requestQ, resultQ, job, senderOpen, reader,
                 requestOutstanding, blockVars, callVars, retVars>>

-----------------------------------------------------------------------------
(* The steps of a call or a drop in progress; what starts one is up to the *)
(* caller.                                                                 *)
ReaderStep ==
  \/ CopyBytes
  \/ CopyPanics
  \/ EndFixedPart
  \/ EndRecord
  \/ FetchBlock
  \/ ReceiveBlock
  \/ PrefetchNext
  \/ JoinWorker

WorkerStep ==
  \/ WorkerTakesJob
  \/ WorkerSendsResult
  \/ WorkerExits

Next ==
  \/ BeginRecord
  \/ DropReader
  \/ ReaderStep
  \/ WorkerStep

(* Both threads keep running: neither holds a lock or waits for anything   *)
(* but the channels.  No fairness for the caller.                          *)
Fairness == WF_vars(ReaderStep) /\ WF_vars(WorkerStep)

Spec == Init /\ [][Next]_vars /\ Fairness

-----------------------------------------------------------------------------
(* Properties.                                                             *)

Blocks == 1 .. NumBlocks(file)

(* Every variable holds a value the program's type for it can hold.        *)
TypeOK ==
  /\ WellFormed(file)
  /\ readPos \in 0 .. NumBlocks(file)
  /\ requestQ \in Seq(Blocks) /\ resultQ \in Seq(Blocks)
  /\ worker \in {"none", "idle", "busy", "exited"}
  /\ job \in 0 .. NumBlocks(file) /\ (worker = "busy" => job \in Blocks)
  /\ senderOpen \in BOOLEAN
  /\ reader \in {"idle", "read", "recv", "eager", "join", "closed",
                 "panicked"}
  /\ requestOutstanding \in BOOLEAN
  /\ lzfOut \in 0 .. NumBlocks(file)
  /\ lzfOutIdx \in Nat /\ lzfOutSize \in Nat
  /\ currentRecord \in Nat /\ recordBytesRead \in Nat
  /\ bufFrom \in Nat /\ need \in Nat
  /\ phase \in {"fixed", "var"}
  /\ result \in {"none", "row", "end", "error"}
  /\ hasCurrent \in BOOLEAN
  /\ delivered \in Nat /\ errors \in Nat

(* Jobs the reader has sent and whose result it has not taken.             *)
InFlight ==
  Len(requestQ) + (IF worker = "busy" THEN 1 ELSE 0) + Len(resultQ)

(* At most one job is in flight, none whenever the reader is about to send *)
(* one, so no send of either thread ever finds its channel full - the      *)
(* depth-1 channels "let the reader stay one job ahead", and Drop may join *)
(* without draining the results.                                           *)
SendsNeverBlock ==
  /\ InFlight <= 1
  /\ reader = "eager" => InFlight = 0
  /\ reader = "read" /\ ~requestOutstanding => InFlight = 0

(* What makes that inductive: request_outstanding is TRUE exactly while a   *)
(* job is in flight, except after an error, when a job that failed has     *)
(* been answered and the flag stays; and the worker outlives every call.   *)
JobAccounting ==
  /\ InFlight <= 1
  /\ ~requestOutstanding => InFlight = 0
  /\ errors = 0 /\ requestOutstanding => InFlight = 1
  /\ reader = "eager" => ~requestOutstanding
  /\ reader = "recv" => requestOutstanding
  /\ reader \notin {"join", "closed"} => senderOpen
  /\ senderOpen => worker # "exited"

(* "Make sure a request is in flight before we try to consume a result":   *)
(* the reader waits in recv() only for a job that is on its way.           *)
RecvHasJob == reader = "recv" => InFlight = 1

(* The same for a caller that has not seen an error yet.                   *)
RecvHasJobUntilError == errors = 0 => RecvHasJob

(* The record whose bytes, all of them and no others, the buffer holds.    *)
BufferedRecord ==
  LET Holds(r) == file.start[r] = bufFrom /\ file.len[r] = recordBytesRead
  IN IF \E r \in 1 .. NumRecords(file) : Holds(r)
     THEN CHOOSE r \in 1 .. NumRecords(file) : Holds(r)
     ELSE 0

(* Until the first error the row a caller can read is exactly the record   *)
(* the reader counts: across block borders, skipped grid blocks and every  *)
(* interleaving with the worker.                                           *)
RowsAreExact ==
  errors = 0 /\ reader = "idle" /\ result = "row"
    => BufferedRecord = currentRecord

(* The row reader's contract, error or not: read_index answers "no current *)
(* record" unless the buffer holds the record next() announced.            *)
CurrentRowIsWhole ==
  reader = "idle" /\ hasCurrent => BufferedRecord = currentRecord

Damaged ==
  \/ \E b \in Blocks : file.fault[b] # "none"
  \/ \E r \in 1 .. NumRecords(file) :
       NumBlocks(file) = 0 \/ BlockEnd(file, NumBlocks(file))
                                < EndOfRecord(file, r)

(* The first error is never about a block the caller has no use for yet:   *)
(* the record it asked for, or one in the block right after it, is         *)
(* damaged or missing.                                                     *)
FirstErrorIsNear ==
  errors = 1 /\ reader = "idle" /\ result = "error" =>
    LET end == EndOfRecord(file, currentRecord)
    IN \/ NumBlocks(file) = 0
       \/ BlockEnd(file, NumBlocks(file)) < end
       \/ \E b \in Blocks :
            /\ file.fault[b] # "none"
            /\ IF b = 1 THEN TRUE ELSE BlockStart(file, b - 1) < end

(* A block is discarded only if it holds no byte of any record: "grid      *)
(* blocks are automatically detected and skipped so the caller sees only   *)
(* record data".                                                           *)
SkipsOnlyGrid ==
  [][reader = "eager" /\ SkipsGridBlock => lzfOut \in file.grid]_vars

(* No call hangs or panics before the first error.                         *)
CallsReturn ==
  (reader \in {"read", "recv", "eager"} /\ errors = 0) ~> (reader = "idle")

(* Dropping the reader always completes, errors or not: the worker sees    *)
(* the closed channel and exits, so the join returns.                      *)
DropCompletes == (reader = "join") ~> (reader = "closed")

-----------------------------------------------------------------------------
(* Up to its first error the reader implements the record stream; what a   *)
(* caller that carries on after an error sees is outside that promise.     *)
Stream == INSTANCE RecordStream WITH
  total   <- NumRecords(file),
  damaged <- Damaged,
  rows    <- delivered,
  row     <- IF errors = 0 /\ reader = "idle" /\ result = "row"
             THEN BufferedRecord ELSE 0,
  outcome <- IF errors = 0 THEN result ELSE "error",
  busy    <- errors = 0 /\ reader \in {"read", "recv", "eager"},
  open    <- reader \notin {"join", "closed"}

ImplementsRecordStream == Stream!Spec
=============================================================================
