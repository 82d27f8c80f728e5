------------------------- MODULE PrefetchReaderProofs -------------------------
(***************************************************************************)
(* Proofs about PrefetchReader.                                            *)
(*                                                                         *)
(* First, for every set of well-formed files and every layout constant:    *)
(* type correctness, and the job accounting from which it follows that no  *)
(* send ever blocks and that, until the first error, recv() is only ever   *)
(* entered for a job on its way.                                           *)
(*                                                                         *)
(* Then what the reader delivers, for every set of well-formed files whose *)
(* grid blocks the skip heuristic can tell from record data: the rows are  *)
(* the file's records, the first error is about damage near the record     *)
(* asked for, and every step is one the record stream allows.  The         *)
(* argument follows one number, the offset of the next byte the reader     *)
(* will copy (Pos).  It starts where a block starts that is in hand, moves *)
(* only by what is copied or by a whole grid block, and is compared with   *)
(* where the record in progress starts and ends.                           *)
(***************************************************************************)
EXTENDS PrefetchReader, NaturalSets

(* The types the actions see of an open file, from WellFormed.             *)
LEMMA FileTypes ==
  ASSUME NEW f, WellFormed(f)
  PROVE  /\ NumRecords(f) \in Nat /\ NumBlocks(f) \in Nat
         /\ f.hasVar \in BOOLEAN /\ f.spatial \in BOOLEAN
         /\ \A b \in 1 .. NumBlocks(f) :
              BlockStart(f, b) \in Nat /\ BlockEnd(f, b) \in Nat
         /\ \A q : VarLen(f, q) \in Nat
<1> USE DEF WellFormed, FileType, NumRecords, NumBlocks
<1>1. /\ f.start \in Seq(Nat) /\ f.len \in Seq(Nat) /\ f.cut \in Seq(Nat)
      /\ f.hasVar \in BOOLEAN /\ f.spatial \in BOOLEAN
  OBVIOUS
<1>2. NumRecords(f) \in Nat /\ NumBlocks(f) \in Nat
  BY <1>1
<1>3. ASSUME NEW b \in 1 .. NumBlocks(f)
      PROVE  BlockStart(f, b) \in Nat /\ BlockEnd(f, b) \in Nat
  BY <1>1, <1>2, <1>3 DEF BlockStart, BlockEnd
<1>4. ASSUME NEW q PROVE VarLen(f, q) \in Nat
  <2>1. CASE \E r \in 1 .. NumRecords(f) : f.start[r] = q
    <3> DEFINE r == CHOOSE r \in 1 .. NumRecords(f) : f.start[r] = q
    <3>1. r \in 1 .. NumRecords(f)
      BY <2>1
    <3>2. f.len[r] >= HeaderLen /\ Len(f.len) = NumRecords(f)
      BY <3>1 DEF RecordsInOrder
    <3>3. f.len[r] \in Nat
      BY <1>1, <3>1, <3>2
    <3>4. f.len[r] - HeaderLen \in Nat
      BY <3>2, <3>3, LayoutAssumption
    <3> QED
      BY <2>1, <3>4 DEF VarLen
  <2>2. CASE ~ \E r \in 1 .. NumRecords(f) : f.start[r] = q
    BY <2>2, LayoutAssumption DEF VarLen
  <2> QED BY <2>1, <2>2
<1> QED BY <1>1, <1>2, <1>3, <1>4

-----------------------------------------------------------------------------
(* Type correctness.                                                       *)

LEMMA TypeInit == Init => TypeOK
<1> SUFFICES ASSUME Init PROVE TypeOK
  OBVIOUS
<1>1. WellFormed(file)
  BY FilesAssumption DEF Init
<1>2. NumBlocks(file) \in Nat
  BY <1>1, FileTypes
<1>3. requestQ \in Seq(Blocks) /\ resultQ \in Seq(Blocks)
  BY DEF Init
<1>4. senderOpen \in BOOLEAN /\ requestOutstanding \in BOOLEAN
      /\ hasCurrent \in BOOLEAN
  BY Zenon DEF Init
<1> QED
  BY <1>1, <1>2, <1>3, <1>4 DEF Init, TypeOK, Blocks

(* Every step keeps every variable in its type.                            *)
LEMMA TypeStep == TypeOK /\ [Next]_vars => TypeOK'
<1> SUFFICES ASSUME TypeOK, [Next]_vars PROVE TypeOK'
  OBVIOUS
<1> USE DEF TypeOK
<1>1. /\ NumRecords(file) \in Nat /\ NumBlocks(file) \in Nat
      /\ \A b \in Blocks :
           BlockStart(file, b) \in Nat /\ BlockEnd(file, b) \in Nat
      /\ \A q : VarLen(file, q) \in Nat
  BY FileTypes DEF Blocks
<1>2. ASSUME NEW outcome \in {"row", "end", "error"}, Return(outcome)
      PROVE  /\ reader' = "idle"
             /\ result' \in {"row", "end", "error"} /\ hasCurrent' \in BOOLEAN
             /\ delivered' \in Nat /\ errors' \in Nat
  <2>1. hasCurrent' \in BOOLEAN
    <3>1. CASE outcome = "error"
      BY <1>2, <3>1, Zenon DEF Return
    <3>2. CASE outcome # "error"
      BY <1>2, <3>2, Zenon DEF Return
    <3> QED BY <3>1, <3>2
  <2> QED
    BY <1>2, <2>1 DEF Return
<1>3. ASSUME NEW place, Continue(place)
      PROVE  /\ reader' = place
             /\ result' = result /\ hasCurrent' = hasCurrent
             /\ delivered' = delivered /\ errors' = errors
  BY <1>3 DEF Continue, retVars
<1>4. ASSUME SubmitJob
      PROVE  /\ readPos' \in 0 .. NumBlocks(file)
             /\ requestQ' \in Seq(Blocks)
             /\ worker' \in {"none", "idle", "busy", "exited"}
  <2>1. readPos + 1 \in Blocks
    BY <1>1, <1>4 DEF SubmitJob, AtEndOfBlocks, Blocks
  <2> QED
    BY <1>1, <1>4, <2>1 DEF SubmitJob, Blocks
<1>5. ASSUME SubmitNothing \/ SubmitFails
      PROVE  /\ readPos' \in 0 .. NumBlocks(file)
             /\ requestQ' = requestQ /\ worker' = worker
  BY <1>1, <1>5 DEF SubmitNothing, SubmitFails, AtEndOfBlocks,
                    NextBlockShort, streamVars
<1>6. CASE BeginRecord
  <2>1. CASE currentRecord' > NumRecords(file)
    BY <1>1, <1>2, <1>6, <2>1 DEF BeginRecord, streamVars, blockVars, Blocks
  <2>2. CASE ~(currentRecord' > NumRecords(file))
    BY <1>1, <1>3, <1>6, <2>2, LayoutAssumption, SMTT(60)
       DEF BeginRecord, streamVars, blockVars, Blocks
  <2> QED BY <2>1, <2>2
<1>7. CASE CopyBytes
  BY <1>1, <1>7 DEF CopyBytes, streamVars, retVars, Blocks
<1>8. CASE CopyPanics
  BY <1>1, <1>3, <1>8, SMTT(60)
     DEF CopyPanics, streamVars, blockVars, callVars, Blocks
<1>9. CASE EndFixedPart
  BY <1>1, <1>9 DEF EndFixedPart, streamVars, blockVars, retVars, Blocks
<1>10. CASE EndRecord
  BY <1>1, <1>2, <1>10 DEF EndRecord, streamVars, blockVars, callVars, Blocks
<1>11. CASE FetchBlock
  <2>1. CASE requestOutstanding /\ Continue("recv") /\ lzfOut' = 0
             /\ UNCHANGED <<streamVars, requestOutstanding>>
    BY <1>1, <1>3, <1>11, <2>1 DEF FetchBlock, streamVars, callVars, Blocks
  <2>2. CASE SubmitJob /\ requestOutstanding' = TRUE /\ Continue("recv")
             /\ lzfOut' = 0
    <3>1. /\ readPos' \in 0 .. NumBlocks(file)
          /\ requestQ' \in Seq(Blocks)
          /\ worker' \in {"none", "idle", "busy", "exited"}
          /\ worker' = "busy" => worker = "busy"
      BY <1>4, <2>2 DEF SubmitJob
    <3>2. /\ reader' = "recv" /\ UNCHANGED retVars
      BY <2>2 DEF Continue
    <3>3. UNCHANGED <<file, resultQ, job, senderOpen, lzfOutIdx, lzfOutSize,
                      callVars>>
      BY <1>11 DEF FetchBlock
    <3> QED
      BY <1>1, <2>2, <3>1, <3>2, <3>3 DEF callVars, retVars, Blocks
  <2>3. CASE (SubmitNothing \/ SubmitFails) /\ Return("error")
             /\ UNCHANGED <<requestOutstanding, lzfOut>>
    BY <1>1, <1>2, <1>5, <1>11, <2>3 DEF FetchBlock, callVars, Blocks
  <2> QED BY <1>11, <2>1, <2>2, <2>3 DEF FetchBlock
<1>12. CASE ReceiveBlock
  <2>0. resultQ \in Seq(Blocks) /\ resultQ # <<>>
        /\ resultQ' = Tail(resultQ)
    BY <1>12 DEF ReceiveBlock
  <2>1. Head(resultQ) \in Blocks /\ resultQ' \in Seq(Blocks)
    BY <2>0
  <2>2. CASE file.fault[Head(resultQ)] = "corrupt"
    BY <1>1, <1>2, <1>12, <2>1, <2>2
       DEF ReceiveBlock, streamVars, blockVars, callVars, Blocks
  <2>3. CASE file.fault[Head(resultQ)] # "corrupt"
    <3>1. /\ lzfOut' \in 0 .. NumBlocks(file)
          /\ lzfOutIdx' \in Nat /\ lzfOutSize' \in Nat
      BY <1>1, <1>12, <2>1, <2>3 DEF ReceiveBlock, Blocks
    <3> QED
      BY <1>1, <1>3, <1>12, <2>1, <2>3, <3>1
         DEF ReceiveBlock, streamVars, callVars, Blocks
  <2> QED BY <2>2, <2>3
<1>13. CASE PrefetchNext
  <2>1. CASE SubmitJob /\ requestOutstanding' = TRUE
             /\ lzfOut' = (IF SkipsGridBlock THEN 0 ELSE lzfOut)
             /\ Continue(IF SkipsGridBlock THEN "recv" ELSE "read")
    <3>1. /\ readPos' \in 0 .. NumBlocks(file)
          /\ requestQ' \in Seq(Blocks)
          /\ worker' \in {"none", "idle", "busy", "exited"}
          /\ worker' = "busy" => worker = "busy"
      BY <1>4, <2>1 DEF SubmitJob
    <3>2. /\ reader' \in {"recv", "read"} /\ UNCHANGED retVars
      BY <2>1 DEF Continue
    <3>3. UNCHANGED <<file, resultQ, job, senderOpen, lzfOutIdx, lzfOutSize,
                      callVars>>
      BY <1>13 DEF PrefetchNext
    <3>4. lzfOut' \in {0, lzfOut}
      BY <2>1
    <3> QED
      BY <1>1, <2>1, <3>1, <3>2, <3>3, <3>4 DEF callVars, retVars, Blocks
  <2>2. CASE SubmitNothing /\ UNCHANGED <<requestOutstanding, lzfOut>>
             /\ IF SkipsGridBlock THEN Return("error") ELSE Continue("read")
    BY <1>1, <1>2, <1>3, <1>5, <1>13, <2>2
       DEF PrefetchNext, callVars, Blocks
  <2>3. CASE SubmitFails /\ UNCHANGED <<requestOutstanding, lzfOut>>
             /\ Return("error")
    BY <1>1, <1>2, <1>5, <1>13, <2>3 DEF PrefetchNext, callVars, Blocks
  <2> QED BY <1>13, <2>1, <2>2, <2>3 DEF PrefetchNext
<1>14. CASE DropReader
  BY <1>1, <1>3, <1>14
     DEF DropReader, streamVars, blockVars, callVars, Blocks
<1>15. CASE JoinWorker
  BY <1>1, <1>3, <1>15
     DEF JoinWorker, streamVars, blockVars, callVars, Blocks
<1>16. CASE WorkerTakesJob
  BY <1>1, <1>16 DEF WorkerTakesJob, blockVars, callVars, retVars, Blocks
<1>17. CASE WorkerSendsResult
  <2>1. requestQ' = requestQ /\ readPos' = readPos
    BY <1>17 DEF WorkerSendsResult
  <2> QED
    BY <1>1, <1>17, <2>1
       DEF WorkerSendsResult, blockVars, callVars, retVars, Blocks
<1>18. CASE WorkerExits
  BY <1>1, <1>18 DEF WorkerExits, blockVars, callVars, retVars, Blocks
<1>19. CASE UNCHANGED vars
  BY <1>19 DEF vars, streamVars, blockVars, callVars, retVars, Blocks
<1> QED
  BY <1>6, <1>7, <1>8, <1>9, <1>10, <1>11, <1>12, <1>13, <1>14, <1>15, <1>16,
     <1>17, <1>18, <1>19 DEF Next, ReaderStep, WorkerStep

(* Every reachable state of the reader is well typed.                      *)
THEOREM TypeCorrect == Spec => []TypeOK
BY TypeInit, TypeStep, PTL DEF Spec

-----------------------------------------------------------------------------
(* The accounting of jobs.                                                 *)

(* InFlight is a sum of three natural numbers.                             *)
LEMMA InFlightType ==
  TypeOK => /\ InFlight \in Nat
            /\ Len(requestQ) \in Nat /\ Len(resultQ) \in Nat
BY DEF TypeOK, InFlight

LEMMA AccountingInit == Init => JobAccounting
<1> SUFFICES ASSUME Init PROVE JobAccounting
  OBVIOUS
<1>1. Len(requestQ) = 0 /\ Len(resultQ) = 0 /\ worker = "none"
  BY DEF Init
<1>2. InFlight = 0
  BY <1>1 DEF InFlight
<1> QED
  BY <1>1, <1>2 DEF Init, JobAccounting

(* A step that leaves the channels, the worker and the flag alone keeps    *)
(* the count.                                                              *)
LEMMA SameInFlight ==
  UNCHANGED <<requestQ, resultQ, worker>> => InFlight' = InFlight
BY DEF InFlight

(* Sending a job counts it once, also when it spawns the worker.           *)
LEMMA SubmitCounts ==
  ASSUME TypeOK, SubmitJob, UNCHANGED resultQ
  PROVE  InFlight' = InFlight + 1 /\ (worker # "exited" => worker' # "exited")
<1>1. readPos + 1 \in Blocks
  BY FileTypes DEF TypeOK, SubmitJob, AtEndOfBlocks, Blocks
<1>2. Len(requestQ') = Len(requestQ) + 1
  BY <1>1 DEF TypeOK, SubmitJob
<1>3. worker' = "busy" <=> worker = "busy"
  BY DEF SubmitJob
<1>4. Len(requestQ) \in Nat /\ Len(resultQ) \in Nat /\ resultQ' = resultQ
  BY InFlightType
<1> QED
  BY <1>2, <1>3, <1>4 DEF InFlight, SubmitJob

(* Every step keeps the flag and the job it stands for together.           *)
LEMMA AccountingStep ==
  TypeOK /\ JobAccounting /\ [Next]_vars => JobAccounting'
<1> SUFFICES ASSUME TypeOK, JobAccounting, [Next]_vars PROVE JobAccounting'
  OBVIOUS
<1>1. /\ InFlight \in Nat /\ Len(requestQ) \in Nat /\ Len(resultQ) \in Nat
      /\ errors \in Nat
  BY InFlightType DEF TypeOK
<1>2. ASSUME NEW outcome, Return(outcome)
      PROVE  /\ reader' = "idle"
             /\ errors' \in {errors, errors + 1}
             /\ outcome = "error" => errors' = errors + 1
  BY <1>2 DEF Return
<1>3. ASSUME NEW place, Continue(place)
      PROVE  reader' = place /\ errors' = errors
  BY <1>3 DEF Continue, retVars
<1>4. ASSUME SubmitNothing \/ SubmitFails
      PROVE  requestQ' = requestQ /\ worker' = worker
  BY <1>4 DEF SubmitNothing, SubmitFails, streamVars
<1> USE DEF JobAccounting
<1>5. CASE BeginRecord
  <2>1. InFlight' = InFlight
    BY <1>5, SameInFlight DEF BeginRecord, streamVars
  <2>2. reader' \in {"idle", "read"} /\ errors' \in {errors, errors + 1}
    BY <1>2, <1>3, <1>5 DEF BeginRecord
  <2> QED
    BY <1>1, <1>5, <2>1, <2>2 DEF BeginRecord, streamVars
<1>6. CASE CopyBytes \/ EndFixedPart
  BY <1>1, <1>6, SameInFlight
     DEF CopyBytes, EndFixedPart, streamVars, retVars
<1>7. CASE CopyPanics
  BY <1>1, <1>3, <1>7, SameInFlight DEF CopyPanics, streamVars
<1>8. CASE EndRecord
  BY <1>1, <1>2, <1>8, SameInFlight DEF EndRecord, streamVars
<1>9. CASE FetchBlock
  <2>1. CASE requestOutstanding /\ Continue("recv") /\ lzfOut' = 0
             /\ UNCHANGED <<streamVars, requestOutstanding>>
    BY <1>1, <1>3, <1>9, <2>1, SameInFlight DEF FetchBlock, streamVars
  <2>2. CASE ~requestOutstanding /\ SubmitJob /\ requestOutstanding' = TRUE
             /\ Continue("recv") /\ lzfOut' = 0
    <3>1. InFlight' = InFlight + 1
          /\ (worker # "exited" => worker' # "exited")
      BY <1>9, <2>2, SubmitCounts DEF FetchBlock
    <3>2. senderOpen' = senderOpen
      BY <1>9 DEF FetchBlock
    <3>3. reader = "read" /\ reader' = "recv" /\ errors' = errors
      BY <1>3, <1>9, <2>2 DEF FetchBlock
    <3> QED
      BY <1>1, <2>2, <3>1, <3>2, <3>3
  <2>3. CASE ~requestOutstanding /\ (SubmitNothing \/ SubmitFails)
             /\ Return("error") /\ UNCHANGED <<requestOutstanding, lzfOut>>
    BY <1>1, <1>2, <1>4, <1>9, <2>3, SameInFlight DEF FetchBlock
  <2> QED BY <1>9, <2>1, <2>2, <2>3 DEF FetchBlock
<1>10. CASE ReceiveBlock
  <2>1. /\ reader = "recv" /\ requestOutstanding /\ senderOpen
        /\ UNCHANGED <<requestQ, worker, senderOpen>>
    BY <1>10 DEF ReceiveBlock, streamVars
  <2>2. Len(resultQ') = Len(resultQ) - 1
    <3>1. resultQ \in Seq(Blocks) /\ resultQ # <<>> /\ resultQ' = Tail(resultQ)
      BY <1>10 DEF ReceiveBlock, TypeOK
    <3> QED BY <3>1
  <2>3. InFlight' = InFlight - 1
    BY <1>1, <2>1, <2>2 DEF InFlight
  <2>4. InFlight' = 0
    <3>1. InFlight' \in Nat
      BY <1>1, <2>1, <2>2, <1>10 DEF InFlight, ReceiveBlock, TypeOK
    <3> QED BY <1>1, <2>3, <3>1
  <2>5. \/ reader' = "idle" /\ errors' = errors + 1
           /\ requestOutstanding' = requestOutstanding
        \/ reader' = "eager" /\ errors' = errors /\ requestOutstanding' = FALSE
    BY <1>2, <1>3, <1>10 DEF ReceiveBlock
  <2>6. senderOpen' /\ worker' # "exited"
    BY <2>1
  <2>7. CASE reader' = "idle" /\ errors' = errors + 1
    <3>1. errors' # 0
      BY <1>1, <2>7
    <3> QED BY <2>4, <2>6, <2>7, <3>1
  <2>8. CASE reader' = "eager" /\ requestOutstanding' = FALSE
    BY <2>4, <2>6, <2>8
  <2> QED
    BY <2>5, <2>7, <2>8
<1>11. CASE PrefetchNext
  <2>1. InFlight = 0 /\ ~requestOutstanding /\ senderOpen /\ worker # "exited"
        /\ UNCHANGED <<senderOpen, resultQ>>
    BY <1>11 DEF PrefetchNext
  <2>2. CASE SubmitJob /\ requestOutstanding' = TRUE
             /\ Continue(IF SkipsGridBlock THEN "recv" ELSE "read")
    <3>1. InFlight' = 1 /\ worker' # "exited"
      BY <2>1, <2>2, SubmitCounts
    <3>2. reader' \in {"recv", "read"} /\ errors' = errors
      BY <2>2 DEF Continue, retVars
    <3> QED
      BY <1>1, <2>1, <2>2, <3>1, <3>2
  <2>3. CASE (SubmitNothing \/ SubmitFails) /\ UNCHANGED requestOutstanding
             /\ (Return("error") \/ Continue("read"))
    <3>1. InFlight' = 0 /\ worker' = worker
      BY <1>4, <2>1, <2>3, SameInFlight
    <3>2. /\ reader' \in {"idle", "read"}
          /\ errors' \in {errors, errors + 1}
      BY <1>2, <1>3, <2>3
    <3> QED
      BY <1>1, <2>1, <2>3, <3>1, <3>2
  <2> QED BY <1>11, <2>2, <2>3 DEF PrefetchNext
<1>12. CASE DropReader
  <2>1. InFlight' = InFlight
    BY <1>12, SameInFlight DEF DropReader, streamVars
  <2>2. reader' \in {"closed", "join"} /\ errors' = errors
    BY <1>12 DEF DropReader, Continue, retVars
  <2> QED
    BY <1>1, <1>12, <2>1, <2>2 DEF DropReader, streamVars
<1>13. CASE JoinWorker
  BY <1>1, <1>3, <1>13, SameInFlight DEF JoinWorker, streamVars
<1>14. CASE WorkerTakesJob
  <2>1. Len(requestQ') = Len(requestQ) - 1
    <3>1. requestQ \in Seq(Blocks) /\ requestQ # <<>>
          /\ requestQ' = Tail(requestQ)
      BY <1>14 DEF WorkerTakesJob, TypeOK
    <3> QED BY <3>1
  <2>2. InFlight' = InFlight
    BY <1>1, <1>14, <2>1 DEF WorkerTakesJob, InFlight
  <2> QED
    BY <1>1, <1>14, <2>2 DEF WorkerTakesJob, retVars
<1>15. CASE WorkerSendsResult
  <2>1. Len(resultQ') = Len(resultQ) + 1
    <3>1. resultQ \in Seq(Blocks) /\ job \in Blocks
          /\ resultQ' = Append(resultQ, job)
      BY <1>15 DEF WorkerSendsResult, TypeOK
    <3> QED BY <3>1
  <2>2. InFlight' = InFlight
    BY <1>1, <1>15, <2>1 DEF WorkerSendsResult, InFlight
  <2> QED
    BY <1>1, <1>15, <2>2 DEF WorkerSendsResult, retVars
<1>16. CASE WorkerExits
  <2>1. InFlight' = InFlight
    BY <1>1, <1>16 DEF WorkerExits, InFlight
  <2> QED
    BY <1>1, <1>16, <2>1 DEF WorkerExits, retVars
<1>17. CASE UNCHANGED vars
  BY <1>17, SameInFlight DEF vars, streamVars, retVars
<1> QED
  BY <1>5, <1>6, <1>7, <1>8, <1>9, <1>10, <1>11, <1>12, <1>13, <1>14, <1>15,
     <1>16, <1>17 DEF Next, ReaderStep, WorkerStep

THEOREM Accounting == Spec => []JobAccounting
<1>1. TypeOK /\ TypeOK' /\ JobAccounting /\ [Next]_vars => JobAccounting'
  BY AccountingStep
<1> QED
  BY <1>1, AccountingInit, TypeCorrect, PTL DEF Spec

(* Neither thread ever blocks on a full channel, whatever the file holds   *)
(* and however often the caller retries after an error.                    *)
THEOREM SendsNeverBlockTheorem == Spec => []SendsNeverBlock
<1>1. JobAccounting => SendsNeverBlock
  BY DEF JobAccounting, SendsNeverBlock
<1> QED
  BY <1>1, Accounting, PTL

(* Until a call has failed, recv() waits for a job that is on its way.     *)
THEOREM RecvHasJobTheorem == Spec => []RecvHasJobUntilError
<1>1. JobAccounting => RecvHasJobUntilError
  BY DEF JobAccounting, RecvHasJobUntilError, RecvHasJob
<1> QED
  BY <1>1, Accounting, PTL

-----------------------------------------------------------------------------
(* Facts about well-formed files.                                          *)

(* What one record is: a header at least, somewhere in the stream.         *)
LEMMA RecordTypes ==
  ASSUME NEW f, WellFormed(f)
  PROVE  \A r \in 1 .. NumRecords(f) :
           /\ f.start[r] \in Nat /\ f.len[r] \in Nat
           /\ f.len[r] >= HeaderLen
           /\ ~f.hasVar => f.len[r] = HeaderLen
           /\ EndOfRecord(f, r) \in Nat
           /\ f.start[r] < EndOfRecord(f, r)
<1>1. /\ f.start \in Seq(Nat) /\ f.len \in Seq(Nat)
      /\ Len(f.len) = Len(f.start)
  BY DEF WellFormed, FileType, RecordsInOrder, NumRecords
<1>2. ASSUME NEW r \in 1 .. NumRecords(f)
      PROVE  /\ f.start[r] \in Nat /\ f.len[r] \in Nat
             /\ f.len[r] >= HeaderLen
             /\ ~f.hasVar => f.len[r] = HeaderLen
  BY <1>1, <1>2 DEF WellFormed, RecordsInOrder, NumRecords
<1> QED
  BY <1>2, LayoutAssumption DEF EndOfRecord

(* Blocks follow one another: a later block ends no earlier.               *)
LEMMA CutsRise ==
  ASSUME NEW f, WellFormed(f),
         NEW a \in 1 .. NumBlocks(f), NEW b \in 1 .. NumBlocks(f), a <= b
  PROVE  f.cut[a] <= f.cut[b]
<1> DEFINE S == {n \in Nat : a + n <= NumBlocks(f) => f.cut[a] <= f.cut[a + n]}
<1>1. NumBlocks(f) \in Nat /\ \A c \in 1 .. NumBlocks(f) : f.cut[c] \in Nat
  BY FileTypes DEF BlockEnd
<1>2. 0 \in S
  BY <1>1
<1>3. ASSUME NEW n \in Nat, n \in S PROVE n + 1 \in S
  <2>1. SUFFICES ASSUME a + (n + 1) <= NumBlocks(f)
                 PROVE  f.cut[a] <= f.cut[a + (n + 1)]
    OBVIOUS
  <2>2. a + n \in 1 .. NumBlocks(f) /\ a + (n + 1) \in 1 .. NumBlocks(f)
    BY <1>1, <2>1
  <2>3. f.cut[a] <= f.cut[a + n]
    BY <1>3, <2>2
  <2>4. BlockStart(f, a + (n + 1)) <= BlockEnd(f, a + (n + 1))
    BY <2>2 DEF WellFormed, BlocksInOrder
  <2>5. f.cut[a + n] <= f.cut[a + (n + 1)]
    BY <2>2, <2>4 DEF BlockStart, BlockEnd
  <2> QED
    BY <1>1, <2>2, <2>3, <2>5
<1> HIDE DEF S
<1>4. b - a \in S
  BY <1>1, <1>2, <1>3, SetInduction
<1> QED
  BY <1>1, <1>4 DEF S

(* Records do not overlap.                                                 *)
LEMMA RecordsRise ==
  ASSUME NEW f, WellFormed(f),
         NEW r \in 1 .. NumRecords(f), NEW s \in 1 .. NumRecords(f), r < s
  PROVE  EndOfRecord(f, r) <= f.start[s]
<1> DEFINE S == {n \in Nat : r + 1 + n <= NumRecords(f)
                   => EndOfRecord(f, r) <= f.start[r + 1 + n]}
<1>1. /\ NumRecords(f) \in Nat
      /\ \A q \in 1 .. NumRecords(f) :
           /\ f.start[q] \in Nat /\ EndOfRecord(f, q) \in Nat
           /\ f.start[q] < EndOfRecord(f, q)
  BY FileTypes, RecordTypes
<1>2. ASSUME NEW q \in 1 .. NumRecords(f) - 1
      PROVE  EndOfRecord(f, q) <= f.start[q + 1]
  <2>1. \/ f.start[q + 1] = EndOfRecord(f, q)
        \/ f.start[q + 1] >= EndOfRecord(f, q)
    BY <1>2 DEF WellFormed, RecordsInOrder
  <2>2. q \in 1 .. NumRecords(f) /\ q + 1 \in 1 .. NumRecords(f)
    BY <1>1, <1>2
  <2> QED
    BY <1>1, <2>1, <2>2
<1>3. 0 \in S
  BY <1>1, <1>2
<1>4. ASSUME NEW n \in Nat, n \in S PROVE n + 1 \in S
  <2>1. SUFFICES ASSUME r + 1 + (n + 1) <= NumRecords(f)
                 PROVE  EndOfRecord(f, r) <= f.start[r + 1 + (n + 1)]
    OBVIOUS
  <2>2. r + 1 + n \in 1 .. NumRecords(f) - 1
        /\ r + 1 + n \in 1 .. NumRecords(f)
        /\ r + 1 + (n + 1) \in 1 .. NumRecords(f)
        /\ r + 1 + (n + 1) = (r + 1 + n) + 1
    BY <1>1, <2>1
  <2>3. EndOfRecord(f, r) <= f.start[r + 1 + n]
    BY <1>4, <2>2
  <2>4. EndOfRecord(f, r + 1 + n) <= f.start[r + 1 + (n + 1)]
    BY <1>2, <2>2
  <2> QED
    BY <1>1, <2>2, <2>3, <2>4
<1> HIDE DEF S
<1>5. s - (r + 1) \in S
  BY <1>1, <1>3, <1>4, SetInduction
<1> QED
  BY <1>1, <1>5 DEF S

(* So a record is known by where it starts.                                *)
LEMMA OneStart ==
  ASSUME NEW f, WellFormed(f),
         NEW r \in 1 .. NumRecords(f), NEW s \in 1 .. NumRecords(f),
         f.start[r] = f.start[s]
  PROVE  r = s
<1>1. /\ NumRecords(f) \in Nat
      /\ \A q \in 1 .. NumRecords(f) :
           /\ f.start[q] \in Nat /\ EndOfRecord(f, q) \in Nat
           /\ f.start[q] < EndOfRecord(f, q)
  BY FileTypes, RecordTypes
<1>2. CASE r < s
  BY <1>1, <1>2, RecordsRise
<1>3. CASE s < r
  BY <1>1, <1>3, RecordsRise
<1> QED
  BY <1>1, <1>2, <1>3

(* And the length word read where it starts is its own.                    *)
LEMMA VarLenOfRecord ==
  ASSUME NEW f, WellFormed(f), NEW r \in 1 .. NumRecords(f)
  PROVE  VarLen(f, f.start[r]) = f.len[r] - HeaderLen
<1> DEFINE q == CHOOSE q \in 1 .. NumRecords(f) : f.start[q] = f.start[r]
<1>1. q \in 1 .. NumRecords(f) /\ f.start[q] = f.start[r]
  OBVIOUS
<1>2. VarLen(f, f.start[r]) = f.len[q] - HeaderLen
  BY DEF VarLen
<1>3. q = r
  BY <1>1, OneStart
<1> QED
  BY <1>2, <1>3

(* An empty block parses as any number of records.                         *)
LEMMA EmptyBlockParses ==
  ASSUME NEW f, NEW q \in Nat
  PROVE  IsRecordBlock(f, q, q)
<1>1. ProbeEnd(f, q, q) = q
  BY LayoutAssumption DEF ProbeEnd
<1> QED
  BY <1>1 DEF IsRecordBlock

(* Before the first byte of record c, a reader past record c - 1 stands in *)
(* the gap between two groups: what blocks lie there hold grid cells, or   *)
(* nothing.                                                                *)
LEMMA GapIsGrid ==
  ASSUME NEW f, WellFormed(f),
         NEW c \in 2 .. NumRecords(f), NEW b \in 1 .. NumBlocks(f),
         EndOfRecord(f, c - 1) <= BlockStart(f, b),
         BlockStart(f, b) < f.start[c]
  PROVE  /\ f.spatial /\ f.hasVar /\ (c - 1) % GroupSize = 0
         /\ \/ BlockStart(f, b) = BlockEnd(f, b)
            \/ b \in f.grid /\ BlockEnd(f, b) <= f.start[c]
<1> DEFINE e == EndOfRecord(f, c - 1)
<1>1. /\ NumRecords(f) \in Nat /\ NumBlocks(f) \in Nat
      /\ BlockStart(f, b) \in Nat /\ BlockEnd(f, b) \in Nat
      /\ BlockStart(f, b) <= BlockEnd(f, b)
      /\ \A a \in 1 .. NumBlocks(f) : f.cut[a] \in Nat
      /\ BlockEnd(f, b) = f.cut[b]
  BY FileTypes DEF WellFormed, BlocksInOrder, BlockEnd
<1>2. c - 1 \in 1 .. NumRecords(f) - 1 /\ (c - 1) + 1 = c
      /\ c - 1 \in 1 .. NumRecords(f) /\ c \in 1 .. NumRecords(f)
  BY <1>1
<1>3. e \in Nat /\ f.start[c] \in Nat
  BY <1>2, RecordTypes
<1>4. \/ f.start[c] = e
      \/ /\ f.spatial /\ f.hasVar /\ (c - 1) % GroupSize = 0
         /\ OnlyGridBetween(f, e, f.start[c])
  BY <1>2 DEF WellFormed, RecordsInOrder
<1>5. f.start[c] # e
  BY <1>1, <1>3
<1>6. CASE f.cut[NumBlocks(f)] <= e
  <2>1. f.cut[b] <= f.cut[NumBlocks(f)]
    BY <1>1, CutsRise
  <2> QED
    BY <1>1, <1>3, <1>4, <1>5, <1>6, <2>1
<1>7. CASE \E a \in 1 .. NumBlocks(f) : \E d \in (a + 1) .. NumBlocks(f) :
             /\ f.cut[a] = e /\ f.cut[d] = f.start[c]
             /\ (a + 1) .. d \subseteq f.grid
  <2>0. PICK a \in 1 .. NumBlocks(f) : \E d \in (a + 1) .. NumBlocks(f) :
             /\ f.cut[a] = e /\ f.cut[d] = f.start[c]
             /\ (a + 1) .. d \subseteq f.grid
    BY <1>7
  <2>1. PICK d \in (a + 1) .. NumBlocks(f) :
             /\ f.cut[a] = e /\ f.cut[d] = f.start[c]
             /\ (a + 1) .. d \subseteq f.grid
    BY <2>0
  <2>2. CASE b <= a
    <3>1. f.cut[b] <= f.cut[a]
      BY <2>2, CutsRise
    <3> QED
      BY <1>1, <1>3, <1>4, <1>5, <2>1, <3>1
  <2>3. CASE b > a
    <3>1. b <= d
      <4>1. SUFFICES ASSUME d < b PROVE FALSE
        BY <1>1, <2>1
      <4>2. b - 1 \in 1 .. NumBlocks(f) /\ d <= b - 1 /\ b # 1
            /\ d \in 1 .. NumBlocks(f)
        BY <1>1, <2>1, <4>1
      <4>3. f.cut[d] <= f.cut[b - 1]
        BY <4>2, CutsRise
      <4>4. BlockStart(f, b) = f.cut[b - 1]
        BY <4>2 DEF BlockStart
      <4> QED
        BY <1>1, <1>3, <2>1, <4>2, <4>3, <4>4
    <3>2. b \in f.grid
      BY <1>1, <2>1, <2>3, <3>1
    <3>3. d \in 1 .. NumBlocks(f)
      BY <1>1, <2>1
    <3>4. f.cut[b] <= f.cut[d]
      BY <3>1, <3>3, CutsRise
    <3> QED
      BY <1>1, <1>4, <1>5, <2>1, <3>2, <3>4
  <2> QED
    BY <1>1, <2>1, <2>2, <2>3
<1> QED
  BY <1>4, <1>5, <1>6, <1>7, <1>1 DEF OnlyGridBetween

(* A block the heuristic discards holds grid cells, and nothing of the     *)
(* record that is asked for.                                               *)
LEMMA SkippedIsGrid ==
  ASSUME NEW f, WellFormed(f), GridDetectable(f),
         NEW c \in 2 .. NumRecords(f), NEW b \in 1 .. NumBlocks(f),
         EndOfRecord(f, c - 1) <= BlockStart(f, b),
         BlockStart(f, b) <= f.start[c],
         f.spatial, f.hasVar, (c - 1) % GroupSize = 0,
         ~IsRecordBlock(f, BlockStart(f, b), BlockEnd(f, b))
  PROVE  b \in f.grid /\ BlockEnd(f, b) <= f.start[c]
<1>1. /\ NumRecords(f) \in Nat /\ NumBlocks(f) \in Nat
      /\ BlockStart(f, b) \in Nat /\ BlockEnd(f, b) \in Nat
  BY FileTypes
<1>2. /\ c \in 1 .. NumRecords(f) /\ c > 1
      /\ f.start[c] \in Nat /\ EndOfRecord(f, c) \in Nat
      /\ f.start[c] < EndOfRecord(f, c)
  BY <1>1, RecordTypes
<1>3. CASE BlockStart(f, b) = f.start[c]
  <2>1. b \in f.grid
    BY <1>2, <1>3 DEF GridDetectable
  <2>2. EndOfRecord(f, c) <= BlockStart(f, b) \/ BlockEnd(f, b) <= f.start[c]
    BY <1>2, <2>1 DEF WellFormed, RecordsInOrder
  <2> QED
    BY <1>1, <1>2, <1>3, <2>1, <2>2
<1>4. CASE BlockStart(f, b) < f.start[c]
  <2>1. BlockStart(f, b) # BlockEnd(f, b)
    BY <1>1, EmptyBlockParses
  <2> QED
    BY <1>4, <2>1, GapIsGrid
<1> QED
  BY <1>1, <1>2, <1>3, <1>4

(* A block it keeps opens the record, or is empty.                         *)
LEMMA KeptOpensRecord ==
  ASSUME NEW f, WellFormed(f), GridDetectable(f),
         NEW c \in 2 .. NumRecords(f), NEW b \in 1 .. NumBlocks(f),
         EndOfRecord(f, c - 1) <= BlockStart(f, b),
         BlockStart(f, b) <= f.start[c],
         \/ ~(f.spatial /\ f.hasVar /\ (c - 1) % GroupSize = 0)
         \/ IsRecordBlock(f, BlockStart(f, b), BlockEnd(f, b))
  PROVE  BlockStart(f, b) = f.start[c] \/ BlockStart(f, b) = BlockEnd(f, b)
<1>1. SUFFICES ASSUME BlockStart(f, b) # f.start[c]
               PROVE  BlockStart(f, b) = BlockEnd(f, b)
  OBVIOUS
<1>2. BlockStart(f, b) < f.start[c]
  <2>1. BlockStart(f, b) \in Nat /\ f.start[c] \in Nat
    BY FileTypes, RecordTypes
  <2> QED
    BY <1>1, <2>1
<1>3. /\ f.spatial /\ f.hasVar /\ (c - 1) % GroupSize = 0
      /\ BlockStart(f, b) = BlockEnd(f, b) \/ b \in f.grid
  BY <1>2, GapIsGrid
<1>4. b \in f.grid => ~IsRecordBlock(f, BlockStart(f, b), BlockEnd(f, b))
  BY <1>3 DEF GridDetectable
<1> QED
  BY <1>3, <1>4

(* Between two records that do not touch, a block ends: the one that holds *)
(* the last byte of the first.                                             *)
LEMMA GapEndsBlock ==
  ASSUME NEW f, WellFormed(f),
         NEW c \in 2 .. NumRecords(f), NEW b \in 1 .. NumBlocks(f),
         BlockStart(f, b) < EndOfRecord(f, c - 1),
         EndOfRecord(f, c - 1) <= BlockEnd(f, b)
  PROVE  \/ EndOfRecord(f, c - 1) = f.start[c]
         \/ EndOfRecord(f, c - 1) = BlockEnd(f, b)
<1> DEFINE e == EndOfRecord(f, c - 1)
<1>1. /\ NumRecords(f) \in Nat /\ NumBlocks(f) \in Nat
      /\ BlockStart(f, b) \in Nat /\ BlockEnd(f, b) = f.cut[b]
      /\ \A a \in 1 .. NumBlocks(f) : f.cut[a] \in Nat
  BY FileTypes DEF BlockEnd
<1>2. c - 1 \in 1 .. NumRecords(f) - 1 /\ (c - 1) + 1 = c
      /\ c - 1 \in 1 .. NumRecords(f)
  BY <1>1
<1>3. e \in Nat
  BY <1>2, RecordTypes
<1>4. f.start[c] = e \/ OnlyGridBetween(f, e, f.start[c])
  BY <1>2 DEF WellFormed, RecordsInOrder
<1>5. CASE f.cut[NumBlocks(f)] <= e
  <2>1. f.cut[b] <= f.cut[NumBlocks(f)]
    BY <1>1, CutsRise
  <2> QED
    BY <1>1, <1>3, <1>5, <2>1
<1>6. CASE \E a \in 1 .. NumBlocks(f) : f.cut[a] = e
  <2>1. PICK a \in 1 .. NumBlocks(f) : f.cut[a] = e
    BY <1>6
  <2>2. CASE b <= a
    <3>1. f.cut[b] <= f.cut[a]
      BY <2>2, CutsRise
    <3> QED
      BY <1>1, <1>3, <2>1, <3>1
  <2>3. CASE a < b
    <3>1. b - 1 \in 1 .. NumBlocks(f) /\ a <= b - 1 /\ b # 1
      BY <1>1, <2>1, <2>3
    <3>2. f.cut[a] <= f.cut[b - 1]
      BY <3>1, CutsRise
    <3>3. BlockStart(f, b) = f.cut[b - 1]
      BY <3>1 DEF BlockStart
    <3> QED
      BY <1>1, <1>3, <2>1, <3>1, <3>2, <3>3
  <2> QED
    BY <1>1, <2>1, <2>2, <2>3
<1> QED
  BY <1>1, <1>4, <1>5, <1>6 DEF OnlyGridBetween

-----------------------------------------------------------------------------
(* The inductive invariant.                                                *)

(* Blocks the reader has received, until the first error.                  *)
Taken == readPos - InFlight

TakenStart == IF Taken = 0 THEN 0 ELSE BlockStart(file, Taken)
TakenEnd   == IF Taken = 0 THEN 0 ELSE BlockEnd(file, Taken)

(* The job in flight is the last block taken off the file.                 *)
JobsAreNext ==
  /\ \A i \in 1 .. Len(requestQ) : requestQ[i] = readPos
  /\ \A i \in 1 .. Len(resultQ) : resultQ[i] = readPos
  /\ worker = "busy" => job = readPos

(* The indices stay inside the block in hand, and the buffer is there      *)
(* whenever bytes of it are.                                               *)
InBlock ==
  /\ lzfOutSize = TakenEnd
  /\ TakenStart <= lzfOutIdx /\ lzfOutIdx <= lzfOutSize
  /\ reader \in {"idle", "read"} /\ lzfOutIdx < lzfOutSize => lzfOut # 0
  /\ reader = "eager" => Taken > 0 /\ lzfOutIdx = TakenStart /\ lzfOut = Taken

(* Where the next byte of the stream will come from.                       *)
Pos == IF reader = "recv" THEN lzfOutSize ELSE lzfOutIdx

(* Where record r ends; record 0 ends where the first one starts.          *)
EndOf(r) == IF r = 0 THEN 0 ELSE EndOfRecord(file, r)

(* Between calls the reader stands at the end of the record it counts, and *)
(* at the start of no block but the first.                                 *)
AtRest ==
  reader = "idle" /\ currentRecord <= NumRecords(file) =>
    /\ delivered = currentRecord
    /\ lzfOutIdx = EndOf(currentRecord)
    /\ IF currentRecord = 0 THEN result = "none"
       ELSE /\ result = "row"
            /\ bufFrom = file.start[currentRecord]
            /\ recordBytesRead = file.len[currentRecord]
            /\ TakenStart < lzfOutIdx

(* After the last record every call has answered with the end.             *)
AtEnd ==
  reader = "idle" /\ currentRecord > NumRecords(file) =>
    delivered = NumRecords(file) /\ result = "end"

(* The bytes read so far are the first ones of the record the call counts. *)
(* Before the first, only grid blocks or empty ones are to come before it. *)
RecordSoFar ==
  IF recordBytesRead = 0
  THEN /\ EndOf(currentRecord - 1) <= Pos
       /\ Pos <= file.start[currentRecord]
       /\ reader = "read" => Pos = file.start[currentRecord] \/ Pos = lzfOutSize
  ELSE /\ bufFrom = file.start[currentRecord]
       /\ Pos = file.start[currentRecord] + recordBytesRead

(* What is still to read is what the record has left, or its header.       *)
BytesToCome ==
  /\ phase = "fixed" => recordBytesRead + need = HeaderLen
  /\ phase = "var" => /\ file.hasVar
                      /\ recordBytesRead >= HeaderLen
                      /\ recordBytesRead + need = file.len[currentRecord]
  /\ need = 0 => reader = "read" /\ TakenStart < lzfOutIdx

InCall ==
  reader \in {"read", "recv", "eager"} =>
    /\ currentRecord \in 1 .. NumRecords(file)
    /\ delivered = currentRecord - 1
    /\ RecordSoFar
    /\ BytesToCome

NoErrorYet ==
  /\ InBlock /\ AtRest /\ AtEnd /\ InCall
  /\ reader # "panicked" /\ result # "error"

RowsInv == GridDetectable(file) /\ JobsAreNext /\ (errors = 0 => NoErrorYet)

-----------------------------------------------------------------------------
(* The job in flight.                                                      *)

(* Nothing has been sent.                                                  *)
LEMMA JobsInit == Init => JobsAreNext
BY DEF Init, JobsAreNext

(* Nothing in flight: both channels are empty and the worker waits.        *)
LEMMA NoJob ==
  ASSUME TypeOK, InFlight = 0
  PROVE  Len(requestQ) = 0 /\ Len(resultQ) = 0 /\ worker # "busy"
BY InFlightType DEF InFlight

(* A job sent while none is in flight is the next block, in every place.   *)
LEMMA SubmitIsNext ==
  ASSUME TypeOK, InFlight = 0, SubmitJob, UNCHANGED <<resultQ, job>>
  PROVE  JobsAreNext'
<1>1. Len(requestQ) = 0 /\ Len(resultQ) = 0 /\ worker # "busy"
  BY NoJob
<1>2. requestQ = <<>>
  BY <1>1 DEF TypeOK
<1>3. requestQ' = <<readPos'>> /\ worker' # "busy"
  BY <1>1, <1>2 DEF SubmitJob
<1> QED
  BY <1>1, <1>3 DEF JobsAreNext

(* Every step keeps the job in flight the last block taken off the file.   *)
LEMMA JobsStep ==
  TypeOK /\ JobAccounting /\ JobsAreNext /\ [Next]_vars => JobsAreNext'
<1> SUFFICES ASSUME TypeOK, JobAccounting, JobsAreNext, [Next]_vars
             PROVE  JobsAreNext'
  OBVIOUS
<1>1. ASSUME UNCHANGED <<readPos, requestQ, resultQ, worker, job>>
      PROVE  JobsAreNext'
  BY <1>1 DEF JobsAreNext
<1>2. ASSUME InFlight = 0, SubmitNothing \/ SubmitFails,
             UNCHANGED <<resultQ, job>>
      PROVE  JobsAreNext'
  <2>1. requestQ' = requestQ /\ worker' = worker
    BY <1>2 DEF SubmitNothing, SubmitFails, streamVars
  <2> QED
    BY <1>2, <2>1, NoJob DEF JobsAreNext
<1>3. CASE BeginRecord \/ CopyBytes \/ CopyPanics \/ EndFixedPart \/ EndRecord
           \/ DropReader \/ JoinWorker
  BY <1>1, <1>3 DEF BeginRecord, CopyBytes, CopyPanics, EndFixedPart,
                    EndRecord, DropReader, JoinWorker, streamVars
<1>4. CASE FetchBlock
  <2>1. UNCHANGED <<resultQ, job>> /\ (~requestOutstanding => InFlight = 0)
    BY <1>4 DEF FetchBlock, JobAccounting
  <2> QED
    BY <1>1, <1>2, <1>4, <2>1, SubmitIsNext DEF FetchBlock, streamVars
<1>5. CASE ReceiveBlock
  <2>1. /\ resultQ \in Seq(Blocks) /\ resultQ # <<>>
        /\ resultQ' = Tail(resultQ)
        /\ UNCHANGED <<readPos, requestQ, worker, job>>
    BY <1>5 DEF ReceiveBlock, TypeOK, streamVars
  <2>2. \A i \in 1 .. Len(resultQ') :
          i + 1 \in 1 .. Len(resultQ) /\ resultQ'[i] = resultQ[i + 1]
    BY <2>1
  <2> QED
    BY <2>1, <2>2 DEF JobsAreNext
<1>6. CASE PrefetchNext
  <2>1. UNCHANGED <<resultQ, job>> /\ InFlight = 0
    BY <1>6 DEF PrefetchNext, JobAccounting
  <2> QED
    BY <1>2, <1>6, <2>1, SubmitIsNext DEF PrefetchNext
<1>7. CASE WorkerTakesJob
  <2>1. /\ requestQ \in Seq(Blocks) /\ requestQ # <<>>
        /\ requestQ' = Tail(requestQ) /\ job' = requestQ[1]
        /\ UNCHANGED <<readPos, resultQ>>
    BY <1>7 DEF WorkerTakesJob, TypeOK
  <2>2. \A i \in 1 .. Len(requestQ') :
          i + 1 \in 1 .. Len(requestQ) /\ requestQ'[i] = requestQ[i + 1]
    BY <2>1
  <2>3. 1 \in 1 .. Len(requestQ)
    BY <2>1
  <2> QED
    BY <2>1, <2>2, <2>3 DEF JobsAreNext
<1>8. CASE WorkerSendsResult
  <2>1. /\ resultQ \in Seq(Blocks) /\ job \in Blocks /\ job = readPos
        /\ resultQ' = Append(resultQ, job)
        /\ UNCHANGED <<readPos, requestQ>> /\ worker' # "busy"
    BY <1>8 DEF WorkerSendsResult, TypeOK, JobsAreNext
  <2>2. \A i \in 1 .. Len(resultQ') :
          resultQ'[i] = IF i = Len(resultQ) + 1 THEN job ELSE resultQ[i]
    BY <2>1
  <2>3. \A i \in 1 .. Len(resultQ') :
          i # Len(resultQ) + 1 => i \in 1 .. Len(resultQ)
    BY <2>1
  <2> QED
    BY <2>1, <2>2, <2>3 DEF JobsAreNext
<1>9. CASE WorkerExits
  BY <1>9 DEF WorkerExits, JobsAreNext
<1>10. CASE UNCHANGED vars
  BY <1>1, <1>10 DEF vars, streamVars
<1> QED
  BY <1>3, <1>4, <1>5, <1>6, <1>7, <1>8, <1>9, <1>10
     DEF Next, ReaderStep, WorkerStep

-----------------------------------------------------------------------------
(* The blocks taken.                                                       *)

(* The blocks taken are blocks of the file: a job in flight was taken off  *)
(* it first.                                                               *)
LEMMA TakenType ==
  ASSUME TypeOK, JobAccounting, JobsAreNext
  PROVE  /\ Taken \in 0 .. NumBlocks(file)
         /\ TakenStart \in Nat /\ TakenEnd \in Nat
         /\ TakenStart <= TakenEnd
<1>1. /\ NumBlocks(file) \in Nat
      /\ \A b \in 1 .. NumBlocks(file) :
           /\ BlockStart(file, b) \in Nat /\ BlockEnd(file, b) \in Nat
           /\ BlockStart(file, b) <= BlockEnd(file, b)
  BY FileTypes DEF TypeOK, WellFormed, BlocksInOrder
<1>2. /\ InFlight \in Nat /\ InFlight <= 1
      /\ Len(requestQ) \in Nat /\ Len(resultQ) \in Nat
      /\ readPos \in 0 .. NumBlocks(file)
  BY InFlightType DEF JobAccounting, TypeOK
<1>3. InFlight = 1 => readPos \in Blocks
  <2>1. CASE worker = "busy"
    BY <2>1 DEF JobsAreNext, TypeOK
  <2>2. CASE Len(requestQ) > 0
    <3>1. 1 \in 1 .. Len(requestQ) /\ requestQ[1] \in Blocks
      BY <1>2, <2>2 DEF TypeOK
    <3> QED
      BY <3>1 DEF JobsAreNext
  <2>3. CASE Len(resultQ) > 0
    <3>1. 1 \in 1 .. Len(resultQ) /\ resultQ[1] \in Blocks
      BY <1>2, <2>3 DEF TypeOK
    <3> QED
      BY <3>1 DEF JobsAreNext
  <2> QED
    BY <1>2, <2>1, <2>2, <2>3 DEF InFlight
<1>4. Taken \in 0 .. NumBlocks(file)
  BY <1>1, <1>2, <1>3 DEF Taken, Blocks
<1> QED
  BY <1>1, <1>4 DEF TakenStart, TakenEnd

(* Steps that neither send nor receive leave the block in hand.            *)
LEMMA SameTaken ==
  ASSUME UNCHANGED <<file, readPos, requestQ, resultQ, worker>>
  PROVE  Taken' = Taken /\ TakenStart' = TakenStart /\ TakenEnd' = TakenEnd
<1>1. Taken' = Taken
  BY SameInFlight DEF Taken
<1> QED
  BY <1>1 DEF TakenStart, TakenEnd

(* So does sending a job: it is in flight, not taken.                      *)
LEMMA SubmitKeepsTaken ==
  ASSUME TypeOK, SubmitJob, UNCHANGED <<file, resultQ>>
  PROVE  Taken' = Taken /\ TakenStart' = TakenStart /\ TakenEnd' = TakenEnd
<1>1. InFlight' = InFlight + 1 /\ readPos' = readPos + 1
  BY SubmitCounts DEF SubmitJob
<1>2. Taken' = Taken
  BY <1>1, InFlightType DEF Taken, TypeOK
<1> QED
  BY <1>2 DEF TakenStart, TakenEnd

(* And the worker: it moves a job from one place in flight to another.     *)
LEMMA WorkerKeepsTaken ==
  ASSUME TypeOK, WorkerStep
  PROVE  Taken' = Taken /\ TakenStart' = TakenStart /\ TakenEnd' = TakenEnd
<1>1. InFlight' = InFlight
  <2>0. Len(requestQ) \in Nat /\ Len(resultQ) \in Nat
    BY InFlightType
  <2>1. CASE WorkerTakesJob
    <3>1. requestQ \in Seq(Blocks) /\ requestQ # <<>>
          /\ requestQ' = Tail(requestQ)
      BY <2>1 DEF WorkerTakesJob, TypeOK
    <3>2. Len(requestQ') = Len(requestQ) - 1
      BY <3>1
    <3> QED
      BY <2>0, <2>1, <3>2 DEF WorkerTakesJob, InFlight
  <2>2. CASE WorkerSendsResult
    <3>1. resultQ \in Seq(Blocks) /\ job \in Blocks
          /\ resultQ' = Append(resultQ, job)
      BY <2>2 DEF WorkerSendsResult, TypeOK
    <3>2. Len(resultQ') = Len(resultQ) + 1
      BY <3>1
    <3> QED
      BY <2>0, <2>2, <3>2 DEF WorkerSendsResult, InFlight
  <2>3. CASE WorkerExits
    BY <2>0, <2>3 DEF WorkerExits, InFlight
  <2> QED
    BY <2>1, <2>2, <2>3 DEF WorkerStep
<1>2. readPos' = readPos /\ file' = file
  BY DEF WorkerStep, WorkerTakesJob, WorkerSendsResult, WorkerExits
<1>3. Taken' = Taken
  BY <1>1, <1>2 DEF Taken
<1> QED
  BY <1>2, <1>3 DEF TakenStart, TakenEnd

(* A result received is the block after the last one taken, and starts     *)
(* where that one ended.                                                   *)
LEMMA ReceiveTakes ==
  ASSUME TypeOK, JobAccounting, JobsAreNext, ReceiveBlock
  PROVE  LET b == Head(resultQ)
         IN /\ b = Taken + 1 /\ b \in Blocks
            /\ BlockStart(file, b) = TakenEnd
            /\ Taken' = b
            /\ TakenStart' = BlockStart(file, b)
            /\ TakenEnd' = BlockEnd(file, b)
<1> DEFINE b == Head(resultQ)
<1>1. /\ resultQ \in Seq(Blocks) /\ resultQ # <<>> /\ resultQ' = Tail(resultQ)
      /\ UNCHANGED <<file, readPos, requestQ, worker>>
  BY DEF ReceiveBlock, TypeOK, streamVars
<1>2. /\ b \in Blocks /\ b = resultQ[1] /\ 1 \in 1 .. Len(resultQ)
      /\ Len(resultQ') = Len(resultQ) - 1 /\ Len(resultQ) >= 1
  BY <1>1
<1>3. b = readPos
  BY <1>2 DEF JobsAreNext
<1>4. InFlight = 1 /\ InFlight' = 0
  <2>1. /\ InFlight \in Nat /\ InFlight <= 1
        /\ Len(requestQ) \in Nat /\ Len(resultQ) \in Nat
    BY InFlightType DEF JobAccounting
  <2> QED
    BY <1>1, <1>2, <2>1 DEF InFlight
<1>5. NumBlocks(file) \in Nat /\ readPos \in Nat
  BY FileTypes DEF TypeOK
<1>6. b = Taken + 1 /\ Taken' = b
  BY <1>1, <1>3, <1>4, <1>5 DEF Taken
<1> HIDE DEF b
<1>7. BlockStart(file, b) = TakenEnd
  <2>1. Taken \in Nat /\ b \in Int
    BY <1>2, <1>5, <1>6, TakenType DEF Blocks
  <2>2. b = 1 <=> Taken = 0
    BY <1>6, <2>1
  <2>3. b - 1 = Taken
    BY <1>6, <2>1
  <2> QED
    BY <2>2, <2>3 DEF BlockStart, BlockEnd, TakenEnd
<1>8. b # 0
  BY <1>2 DEF Blocks
<1>9. TakenStart' = BlockStart(file, b) /\ TakenEnd' = BlockEnd(file, b)
  BY <1>1, <1>6, <1>8 DEF TakenStart, TakenEnd
<1> QED
  BY <1>2, <1>6, <1>7, <1>9 DEF b

-----------------------------------------------------------------------------
(* The position in the stream, until the first error.                      *)

BeforeError ==
  /\ TypeOK /\ JobAccounting /\ GridDetectable(file) /\ JobsAreNext
  /\ errors = 0 /\ NoErrorYet

(* The arithmetic the actions are about.                                   *)
LEMMA Quantities ==
  ASSUME TypeOK, JobAccounting, JobsAreNext
  PROVE  /\ NumRecords(file) \in Nat /\ NumBlocks(file) \in Nat
         /\ currentRecord \in Nat /\ recordBytesRead \in Nat
         /\ bufFrom \in Nat /\ need \in Nat /\ delivered \in Nat
         /\ lzfOutIdx \in Nat /\ lzfOutSize \in Nat /\ errors \in Nat
         /\ Taken \in 0 .. NumBlocks(file)
         /\ TakenStart \in Nat /\ TakenEnd \in Nat
         /\ HeaderLen \in Nat /\ HeaderLen > 0
         /\ \A r \in 1 .. NumRecords(file) :
              /\ file.start[r] \in Nat /\ file.len[r] \in Nat
              /\ file.len[r] >= HeaderLen
              /\ EndOf(r) = file.start[r] + file.len[r]
         /\ EndOf(0) = 0
BY TakenType, FileTypes, RecordTypes, LayoutAssumption
   DEF TypeOK, EndOf, EndOfRecord

(* Where a call starts reading: at its record, or at the end of a block    *)
(* when grid blocks come first.                                            *)
LEMMA CallStartsNear ==
  ASSUME BeforeError, reader = "idle", currentRecord < NumRecords(file)
  PROVE  /\ lzfOutIdx <= file.start[currentRecord + 1]
         /\ \/ lzfOutIdx = file.start[currentRecord + 1]
            \/ lzfOutIdx = lzfOutSize
<1> DEFINE c == currentRecord + 1
<1> USE DEF BeforeError, NoErrorYet
<1>1. /\ NumRecords(file) \in Nat /\ NumBlocks(file) \in Nat
      /\ currentRecord \in Nat /\ lzfOutIdx \in Nat
      /\ Taken \in 0 .. NumBlocks(file)
      /\ WellFormed(file) /\ c \in 1 .. NumRecords(file)
      /\ file.start[c] \in Nat
  BY Quantities DEF TypeOK
<1>2. lzfOutIdx = EndOf(currentRecord)
  BY <1>1 DEF AtRest
<1>3. CASE currentRecord = 0
  <2>1. file.start[1] = 0
    BY <1>1, <1>3 DEF WellFormed, RecordsInOrder
  <2> QED
    BY <1>2, <1>3, <2>1 DEF EndOf
<1>4. CASE currentRecord > 0
  <2>1. /\ currentRecord \in 1 .. NumRecords(file) /\ currentRecord < c
        /\ c \in 2 .. NumRecords(file) /\ c - 1 = currentRecord
    BY <1>1, <1>4
  <2>2. lzfOutIdx = EndOfRecord(file, currentRecord)
    BY <1>2, <1>4 DEF EndOf
  <2>3. lzfOutIdx <= file.start[c]
    BY <1>1, <2>1, <2>2, RecordsRise
  <2>4. TakenStart < lzfOutIdx /\ lzfOutIdx <= TakenEnd /\ lzfOutSize = TakenEnd
    BY <1>1, <2>1, <1>4 DEF AtRest, InBlock
  <2>5. Taken # 0
    BY <1>1, <2>4 DEF TakenStart, TakenEnd
  <2>6. /\ Taken \in 1 .. NumBlocks(file)
        /\ TakenStart = BlockStart(file, Taken)
        /\ TakenEnd = BlockEnd(file, Taken)
    BY <1>1, <2>5 DEF TakenStart, TakenEnd
  <2> HIDE DEF c
  <2>7. \/ EndOfRecord(file, c - 1) = file.start[c]
        \/ EndOfRecord(file, c - 1) = BlockEnd(file, Taken)
    BY <1>1, <2>1, <2>2, <2>4, <2>6, GapEndsBlock
  <2> QED
    BY <2>1, <2>2, <2>3, <2>4, <2>6, <2>7 DEF c
<1> QED
  BY <1>1, <1>3, <1>4

(* A call that begins stands where its record starts, or before grid       *)
(* blocks.                                                                 *)
LEMMA BeginKeepsRows ==
  ASSUME BeforeError, BeginRecord, errors' = 0
  PROVE  NoErrorYet'
<1> USE DEF BeforeError, NoErrorYet
<1>1. /\ UNCHANGED <<file, lzfOut, lzfOutIdx, lzfOutSize>>
      /\ Taken' = Taken /\ TakenStart' = TakenStart /\ TakenEnd' = TakenEnd
  BY SameTaken DEF BeginRecord, streamVars, blockVars
<1>2. reader = "idle" /\ currentRecord' = currentRecord + 1
  BY DEF BeginRecord
<1>3. CASE currentRecord' > NumRecords(file)
  <2>1. reader' = "idle" /\ result' = "end" /\ delivered' = delivered
    BY <1>3 DEF BeginRecord, Return
  <2>2. delivered = NumRecords(file)
    BY <1>2, <1>3, Quantities DEF AtRest, AtEnd
  <2> QED
    BY <1>1, <1>2, <1>3, <2>1, <2>2, Quantities
       DEF InBlock, AtRest, AtEnd, InCall
<1>4. CASE ~(currentRecord' > NumRecords(file))
  <2>1. /\ reader' = "read" /\ UNCHANGED retVars
        /\ recordBytesRead' = 0 /\ need' = HeaderLen /\ phase' = "fixed"
    BY <1>4 DEF BeginRecord, Continue
  <2>2. currentRecord < NumRecords(file) /\ currentRecord' \in 1 .. NumRecords(file)
        /\ currentRecord' - 1 = currentRecord
    BY <1>2, <1>4, Quantities
  <2>3. /\ lzfOutIdx <= file.start[currentRecord']
        /\ \/ lzfOutIdx = file.start[currentRecord']
           \/ lzfOutIdx = lzfOutSize
    BY <1>2, <2>2, CallStartsNear
  <2>4. delivered = currentRecord /\ lzfOutIdx = EndOf(currentRecord)
    BY <1>2, <2>2, Quantities DEF AtRest
  <2>5. EndOf(currentRecord - 1)' = EndOf(currentRecord)
    BY <1>1, <2>2 DEF EndOf
  <2>6. RecordSoFar'
    BY <1>1, <2>1, <2>2, <2>3, <2>4, <2>5, Quantities DEF RecordSoFar, Pos
  <2>7. BytesToCome'
    BY <2>1, Quantities DEF BytesToCome
  <2>8. InBlock'
    BY <1>1, <1>2, <2>1 DEF InBlock
  <2> QED
    BY <1>1, <2>1, <2>2, <2>4, <2>6, <2>7, <2>8
       DEF AtRest, AtEnd, InCall, retVars
<1> QED
  BY <1>3, <1>4

(* What is copied is what the record has next.                             *)
LEMMA CopyKeepsRows ==
  ASSUME BeforeError, CopyBytes
  PROVE  NoErrorYet'
<1> USE DEF BeforeError, NoErrorYet
<1>1. /\ UNCHANGED <<file, reader, lzfOut, lzfOutSize, currentRecord, phase>>
      /\ UNCHANGED retVars
      /\ Taken' = Taken /\ TakenStart' = TakenStart /\ TakenEnd' = TakenEnd
  BY SameTaken DEF CopyBytes, streamVars
<1>2. PICK toCopy \in Nat \ {0} :
        /\ lzfOutIdx' = lzfOutIdx + toCopy
        /\ recordBytesRead' = recordBytesRead + toCopy
        /\ need' = need - toCopy
        /\ lzfOutIdx + toCopy <= lzfOutSize /\ toCopy <= need
  <2> DEFINE available == lzfOutSize - lzfOutIdx
             toCopy    == IF need < available THEN need ELSE available
  <2>1. toCopy \in Nat \ {0} /\ lzfOutIdx + toCopy <= lzfOutSize
        /\ toCopy <= need
    BY Quantities DEF CopyBytes
  <2>2. /\ lzfOutIdx' = lzfOutIdx + toCopy
        /\ recordBytesRead' = recordBytesRead + toCopy
        /\ need' = need - toCopy
    BY DEF CopyBytes
  <2> HIDE DEF toCopy
  <2> QED
    BY <2>1, <2>2
<1>3. /\ reader = "read" /\ lzfOut # 0 /\ lzfOutIdx < lzfOutSize
      /\ bufFrom' = IF recordBytesRead = 0 THEN lzfOutIdx ELSE bufFrom
  BY DEF CopyBytes
<1>4. /\ currentRecord \in 1 .. NumRecords(file)
      /\ delivered = currentRecord - 1
      /\ RecordSoFar /\ BytesToCome
  BY <1>3 DEF InCall
<1>5. /\ bufFrom' = file.start[currentRecord]
      /\ lzfOutIdx' = file.start[currentRecord] + recordBytesRead'
      /\ recordBytesRead' # 0
  BY <1>2, <1>3, <1>4, Quantities DEF RecordSoFar, Pos
<1>6. RecordSoFar'
  BY <1>1, <1>3, <1>5 DEF RecordSoFar, Pos
<1>7. BytesToCome'
  BY <1>1, <1>2, <1>3, <1>4, Quantities DEF BytesToCome, InBlock
<1>8. InBlock'
  BY <1>1, <1>2, <1>3, Quantities DEF InBlock
<1> QED
  BY <1>1, <1>3, <1>4, <1>6, <1>7, <1>8 DEF AtRest, AtEnd, InCall, retVars

(* The slice that would panic needs an error to have kept the indices.     *)
LEMMA NoPanicYet ==
  ASSUME BeforeError
  PROVE  ~CopyPanics
BY DEF BeforeError, NoErrorYet, InBlock, CopyPanics

(* The length word in the buffer is the record's own.                      *)
LEMMA FixedPartKeepsRows ==
  ASSUME BeforeError, EndFixedPart
  PROVE  NoErrorYet'
<1> USE DEF BeforeError, NoErrorYet
<1>1. /\ UNCHANGED <<file, reader, lzfOut, lzfOutIdx, lzfOutSize,
                     currentRecord, recordBytesRead, bufFrom>>
      /\ UNCHANGED retVars
      /\ Taken' = Taken /\ TakenStart' = TakenStart /\ TakenEnd' = TakenEnd
  BY SameTaken DEF EndFixedPart, streamVars, blockVars
<1>2. /\ reader = "read" /\ need = 0 /\ phase = "fixed" /\ file.hasVar
      /\ phase' = "var" /\ need' = VarLen(file, bufFrom)
  BY DEF EndFixedPart
<1>3. /\ currentRecord \in 1 .. NumRecords(file)
      /\ delivered = currentRecord - 1
      /\ RecordSoFar /\ BytesToCome
  BY <1>2 DEF InCall
<1>4. recordBytesRead = HeaderLen /\ recordBytesRead # 0
  BY <1>2, <1>3, Quantities DEF BytesToCome
<1>5. bufFrom = file.start[currentRecord]
  BY <1>3, <1>4 DEF RecordSoFar
<1>6. need' = file.len[currentRecord] - HeaderLen
  BY <1>2, <1>3, <1>5, VarLenOfRecord DEF TypeOK
<1>7. RecordSoFar'
  BY <1>1, <1>3, <1>4 DEF RecordSoFar, Pos, EndOf
<1>8. BytesToCome'
  BY <1>1, <1>2, <1>3, <1>4, <1>6, Quantities DEF BytesToCome
<1>9. InBlock'
  BY <1>1, <1>2 DEF InBlock
<1> QED
  BY <1>1, <1>2, <1>3, <1>7, <1>8, <1>9 DEF AtRest, AtEnd, InCall, retVars

(* A row is announced when its last byte has been copied.                  *)
LEMMA EndKeepsRows ==
  ASSUME BeforeError, EndRecord
  PROVE  NoErrorYet'
<1> USE DEF BeforeError, NoErrorYet
<1>1. /\ UNCHANGED <<file, lzfOut, lzfOutIdx, lzfOutSize,
                     currentRecord, recordBytesRead, bufFrom>>
      /\ Taken' = Taken /\ TakenStart' = TakenStart /\ TakenEnd' = TakenEnd
  BY SameTaken DEF EndRecord, streamVars, blockVars, callVars
<1>2. /\ reader = "read" /\ need = 0 /\ (phase = "var" \/ ~file.hasVar)
      /\ reader' = "idle" /\ result' = "row" /\ delivered' = delivered + 1
  BY DEF EndRecord, Return
<1>3. /\ currentRecord \in 1 .. NumRecords(file)
      /\ delivered = currentRecord - 1
      /\ RecordSoFar /\ BytesToCome
  BY <1>2 DEF InCall
<1>4. /\ recordBytesRead = file.len[currentRecord] /\ recordBytesRead # 0
      /\ TakenStart < lzfOutIdx
  <2>1. CASE phase = "var"
    BY <1>2, <1>3, <2>1, Quantities DEF BytesToCome
  <2>2. CASE phase = "fixed" /\ ~file.hasVar
    <3>1. file.len[currentRecord] = HeaderLen
      BY <1>3, <2>2, RecordTypes DEF TypeOK
    <3> QED
      BY <1>2, <1>3, <2>2, <3>1, Quantities DEF BytesToCome
  <2> QED
    BY <1>2, <2>1, <2>2 DEF TypeOK
<1>5. /\ bufFrom = file.start[currentRecord]
      /\ lzfOutIdx = EndOf(currentRecord)
  BY <1>2, <1>3, <1>4, Quantities DEF RecordSoFar, Pos
<1>6. EndOf(currentRecord)' = EndOf(currentRecord)
  BY <1>1 DEF EndOf
<1>7. AtRest'
  BY <1>1, <1>2, <1>3, <1>4, <1>5, <1>6, Quantities DEF AtRest
<1>8. AtEnd'
  BY <1>1, <1>3, Quantities DEF AtEnd
<1>9. InBlock'
  BY <1>1, <1>2 DEF InBlock
<1> QED
  BY <1>2, <1>7, <1>8, <1>9 DEF InCall

(* Asking for a block does not move the reader.                            *)
LEMMA FetchKeepsRows ==
  ASSUME BeforeError, FetchBlock, errors' = 0
  PROVE  NoErrorYet'
<1> USE DEF BeforeError, NoErrorYet
<1>1. /\ reader = "read" /\ need > 0 /\ lzfOutIdx >= lzfOutSize
      /\ UNCHANGED <<file, resultQ, lzfOutIdx, lzfOutSize, callVars>>
  BY DEF FetchBlock
<1>2. reader' = "recv" /\ UNCHANGED retVars
  BY DEF FetchBlock, Return, Continue
<1>3. Taken' = Taken /\ TakenStart' = TakenStart /\ TakenEnd' = TakenEnd
  <2>1. CASE SubmitJob
    BY <1>1, <2>1, SubmitKeepsTaken
  <2>2. CASE UNCHANGED streamVars
    BY <1>1, <2>2, SameTaken DEF streamVars
  <2> QED
    BY <1>2, <2>1, <2>2 DEF FetchBlock, Return
<1>4. /\ currentRecord \in 1 .. NumRecords(file)
      /\ delivered = currentRecord - 1
      /\ RecordSoFar /\ BytesToCome
  BY <1>1 DEF InCall
<1>5. lzfOutIdx = lzfOutSize
  BY <1>1, Quantities DEF InBlock
<1>6. RecordSoFar'
  BY <1>1, <1>2, <1>4, <1>5 DEF RecordSoFar, Pos, EndOf, callVars
<1>7. BytesToCome'
  BY <1>1, <1>4, Quantities DEF BytesToCome, callVars
<1>8. InBlock'
  BY <1>1, <1>2, <1>3 DEF InBlock
<1> QED
  BY <1>1, <1>2, <1>4, <1>6, <1>7, <1>8
     DEF AtRest, AtEnd, InCall, retVars, callVars

(* A block received starts where the one before it ended.                  *)
LEMMA ReceiveKeepsRows ==
  ASSUME BeforeError, ReceiveBlock, errors' = 0
  PROVE  NoErrorYet'
<1> DEFINE b == Head(resultQ)
<1> USE DEF BeforeError, NoErrorYet
<1>1. reader = "recv" /\ UNCHANGED <<file, callVars>>
  BY DEF ReceiveBlock
<1>2. /\ reader' = "eager" /\ UNCHANGED retVars
      /\ lzfOut' = b /\ lzfOutIdx' = BlockStart(file, b)
      /\ lzfOutSize' = BlockEnd(file, b)
  BY DEF ReceiveBlock, Return, Continue
<1>3. /\ b = Taken + 1 /\ b \in Blocks /\ BlockStart(file, b) = TakenEnd
      /\ Taken' = b /\ TakenStart' = BlockStart(file, b)
      /\ TakenEnd' = BlockEnd(file, b)
  BY ReceiveTakes
<1> HIDE DEF b
<1>4. /\ currentRecord \in 1 .. NumRecords(file)
      /\ delivered = currentRecord - 1
      /\ RecordSoFar /\ BytesToCome
  BY <1>1 DEF InCall
<1>5. lzfOutIdx' = lzfOutSize
  BY <1>2, <1>3 DEF InBlock
<1>6. RecordSoFar'
  BY <1>1, <1>2, <1>4, <1>5 DEF RecordSoFar, Pos, EndOf, callVars
<1>7. BytesToCome'
  BY <1>1, <1>4, Quantities DEF BytesToCome, callVars
<1>8. InBlock'
  <2>1. BlockStart(file, b) \in Nat /\ BlockEnd(file, b) \in Nat
        /\ BlockStart(file, b) <= BlockEnd(file, b)
    BY <1>3, FileTypes DEF TypeOK, WellFormed, BlocksInOrder, Blocks
  <2> QED
    BY <1>2, <1>3, <2>1 DEF InBlock, Blocks
<1> QED
  BY <1>1, <1>2, <1>4, <1>6, <1>7, <1>8
     DEF AtRest, AtEnd, InCall, retVars, callVars

(* The skip decision in terms of the block in hand: a block discarded is a *)
(* grid block before the record, one kept opens the record or is empty.    *)
LEMMA SkipDecision ==
  ASSUME BeforeError, reader = "eager"
  PROVE  /\ Taken \in 1 .. NumBlocks(file)
         /\ lzfOut = Taken /\ lzfOutIdx = BlockStart(file, Taken)
         /\ lzfOutSize = BlockEnd(file, Taken)
         /\ SkipsGridBlock => /\ Taken \in file.grid
                              /\ lzfOutSize <= file.start[currentRecord]
         /\ ~SkipsGridBlock /\ recordBytesRead = 0
              => \/ lzfOutIdx = file.start[currentRecord]
                 \/ lzfOutIdx = lzfOutSize
<1> USE DEF BeforeError, NoErrorYet
<1>1. /\ Taken \in 1 .. NumBlocks(file)
      /\ lzfOut = Taken /\ lzfOutIdx = BlockStart(file, Taken)
      /\ lzfOutSize = BlockEnd(file, Taken)
  BY Quantities DEF InBlock, TakenStart, TakenEnd
<1>2. /\ currentRecord \in 1 .. NumRecords(file) /\ RecordSoFar
  BY DEF InCall
<1>3. ASSUME recordBytesRead = 0, currentRecord > 1
      PROVE  /\ currentRecord \in 2 .. NumRecords(file)
             /\ EndOfRecord(file, currentRecord - 1) <= lzfOutIdx
             /\ lzfOutIdx <= file.start[currentRecord]
  BY <1>2, <1>3, Quantities DEF RecordSoFar, Pos, EndOf
<1>4. ASSUME SkipsGridBlock
      PROVE  Taken \in file.grid /\ lzfOutSize <= file.start[currentRecord]
  <2>1. /\ recordBytesRead = 0 /\ currentRecord > 1
        /\ file.spatial /\ file.hasVar /\ (currentRecord - 1) % GroupSize = 0
        /\ ~IsRecordBlock(file, BlockStart(file, Taken), BlockEnd(file, Taken))
    BY <1>1, <1>2, <1>4, Quantities DEF SkipsGridBlock
  <2> QED
    BY <1>1, <1>3, <2>1, SkippedIsGrid DEF TypeOK
<1>5. ASSUME ~SkipsGridBlock, recordBytesRead = 0
      PROVE  \/ lzfOutIdx = file.start[currentRecord]
             \/ lzfOutIdx = lzfOutSize
  <2>1. CASE currentRecord = 1
    <3>1. file.start[1] = 0
      BY <1>2, <2>1, Quantities DEF TypeOK, WellFormed, RecordsInOrder
    <3> QED
      BY <1>2, <1>5, <2>1, <3>1, Quantities DEF RecordSoFar, Pos
  <2>2. CASE currentRecord > 1
    <3>1. \/ ~(file.spatial /\ file.hasVar /\ (currentRecord - 1) % GroupSize = 0)
          \/ IsRecordBlock(file, BlockStart(file, Taken), BlockEnd(file, Taken))
      BY <1>1, <1>5, <2>2, Quantities DEF SkipsGridBlock
    <3> QED
      BY <1>1, <1>3, <1>5, <2>2, <3>1, KeptOpensRecord DEF TypeOK
  <2> QED
    BY <1>2, <2>1, <2>2, Quantities
<1> QED
  BY <1>1, <1>4, <1>5

(* A block skipped moves the reader over grid cells, one kept does not     *)
(* move it.                                                                *)
LEMMA PrefetchKeepsRows ==
  ASSUME BeforeError, PrefetchNext, errors' = 0
  PROVE  NoErrorYet'
<1> USE DEF BeforeError, NoErrorYet
<1>1. /\ reader = "eager"
      /\ UNCHANGED <<file, resultQ, lzfOutIdx, lzfOutSize, callVars>>
  BY DEF PrefetchNext
<1>2. /\ UNCHANGED retVars
      /\ reader' = IF SkipsGridBlock THEN "recv" ELSE "read"
      /\ ~SkipsGridBlock => lzfOut' = lzfOut
  BY DEF PrefetchNext, Return, Continue
<1>3. Taken' = Taken /\ TakenStart' = TakenStart /\ TakenEnd' = TakenEnd
  <2>1. CASE SubmitJob
    BY <1>1, <2>1, SubmitKeepsTaken
  <2>2. CASE UNCHANGED streamVars
    BY <1>1, <2>2, SameTaken DEF streamVars
  <2> QED
    BY <1>2, <2>1, <2>2 DEF PrefetchNext, SubmitNothing, Return
<1>4. /\ currentRecord \in 1 .. NumRecords(file)
      /\ delivered = currentRecord - 1
      /\ RecordSoFar /\ BytesToCome
  BY <1>1 DEF InCall
<1>5. /\ Taken \in 1 .. NumBlocks(file) /\ lzfOut = Taken
      /\ SkipsGridBlock => lzfOutSize <= file.start[currentRecord]
      /\ ~SkipsGridBlock /\ recordBytesRead = 0
           => \/ lzfOutIdx = file.start[currentRecord]
              \/ lzfOutIdx = lzfOutSize
  BY <1>1, SkipDecision
<1>6. RecordSoFar'
  <2>1. CASE SkipsGridBlock
    <3>1. recordBytesRead = 0
      BY <2>1 DEF SkipsGridBlock
    <3>2. EndOf(currentRecord - 1)' = EndOf(currentRecord - 1)
      BY <1>1 DEF EndOf, callVars
    <3>3. EndOf(currentRecord - 1) \in Nat
      BY <1>4, Quantities
    <3>4. EndOf(currentRecord - 1) <= lzfOutIdx /\ lzfOutIdx <= lzfOutSize
      BY <1>1, <1>4, <3>1 DEF RecordSoFar, Pos, InBlock
    <3> QED
      BY <1>1, <1>2, <1>5, <2>1, <3>1, <3>2, <3>3, <3>4, Quantities
         DEF RecordSoFar, Pos, callVars
  <2>2. CASE ~SkipsGridBlock
    BY <1>1, <1>2, <1>4, <1>5, <2>2 DEF RecordSoFar, Pos, EndOf, callVars
  <2> QED
    BY <2>1, <2>2
<1>7. BytesToCome'
  BY <1>1, <1>4, Quantities DEF BytesToCome, callVars
<1>8. InBlock'
  BY <1>1, <1>2, <1>3, <1>5, Quantities DEF InBlock
<1> QED
  BY <1>1, <1>2, <1>4, <1>6, <1>7, <1>8
     DEF AtRest, AtEnd, InCall, retVars, callVars

(* Everything else leaves the reader's place in the stream alone.          *)
LEMMA OthersKeepRows ==
  ASSUME BeforeError,
         DropReader \/ JoinWorker \/ WorkerStep \/ UNCHANGED vars
  PROVE  NoErrorYet'
<1> USE DEF BeforeError, NoErrorYet
<1>1. /\ UNCHANGED <<file, blockVars, callVars, retVars>>
      /\ Taken' = Taken /\ TakenStart' = TakenStart /\ TakenEnd' = TakenEnd
  <2>1. CASE DropReader \/ JoinWorker
    BY <2>1, SameTaken DEF DropReader, JoinWorker, Continue, streamVars
  <2>2. CASE WorkerStep
    <3>1. UNCHANGED <<file, blockVars, callVars, retVars>>
      BY <2>2 DEF WorkerStep, WorkerTakesJob, WorkerSendsResult, WorkerExits
    <3> QED
      BY <2>2, <3>1, WorkerKeepsTaken
  <2>3. CASE UNCHANGED vars
    BY <2>3, SameTaken DEF vars, streamVars
  <2> QED
    BY <2>1, <2>2, <2>3
<1>2. reader' = reader \/ reader' \in {"closed", "join"}
  BY DEF DropReader, JoinWorker, Continue, WorkerStep, WorkerTakesJob,
         WorkerSendsResult, WorkerExits, vars
<1>3. UNCHANGED <<lzfOut, lzfOutIdx, lzfOutSize, currentRecord, recordBytesRead,
                  bufFrom, need, phase, result, delivered>>
  BY <1>1 DEF blockVars, callVars, retVars
<1>4. InBlock'
  BY <1>1, <1>2, <1>3 DEF InBlock
<1>5. AtRest' /\ AtEnd'
  BY <1>1, <1>2, <1>3 DEF AtRest, AtEnd, EndOf
<1>6. InCall'
  BY <1>1, <1>2, <1>3 DEF InCall, RecordSoFar, BytesToCome, Pos, EndOf
<1> QED
  BY <1>2, <1>3, <1>4, <1>5, <1>6

-----------------------------------------------------------------------------
(* The first error.                                                        *)

(* Some damage in the blocks before offset "end" or in the next one.       *)
DamagedNear(f, end) ==
  \/ NumBlocks(f) = 0
  \/ BlockEnd(f, NumBlocks(f)) < end
  \/ \E b \in 1 .. NumBlocks(f) :
       /\ f.fault[b] # "none"
       /\ IF b = 1 THEN TRUE ELSE BlockStart(f, b - 1) < end

(* A block that is asked for is asked for because the record is not whole. *)
LEMMA RecordGoesOn ==
  ASSUME BeforeError, reader \in {"read", "recv", "eager"},
         reader = "read" => need > 0
  PROVE  /\ currentRecord \in 1 .. NumRecords(file)
         /\ Pos < EndOfRecord(file, currentRecord)
<1> USE DEF BeforeError, NoErrorYet
<1>1. /\ currentRecord \in 1 .. NumRecords(file) /\ RecordSoFar /\ BytesToCome
  BY DEF InCall
<1>2. need > 0
  BY <1>1, Quantities DEF BytesToCome
<1>3. recordBytesRead < file.len[currentRecord]
  BY <1>1, <1>2, Quantities, SMTT(60) DEF BytesToCome, TypeOK
<1>4. Pos < file.start[currentRecord] + file.len[currentRecord]
  BY <1>1, <1>3, Quantities DEF RecordSoFar, Pos
<1> QED
  BY <1>1, <1>4 DEF EndOfRecord

(* The block after the one in hand is near the record: the one in hand     *)
(* starts before the record's end.                                         *)
LEMMA NextBlockIsNear ==
  ASSUME BeforeError, reader \in {"read", "recv", "eager"},
         reader = "read" => need > 0,
         Taken + 1 \in Blocks, file.fault[Taken + 1] # "none"
  PROVE  DamagedNear(file, EndOfRecord(file, currentRecord))
<1> USE DEF BeforeError, NoErrorYet
<1>1. Taken \in Nat
  BY Quantities
<1>2. currentRecord \in 1 .. NumRecords(file)
      /\ Pos < EndOfRecord(file, currentRecord)
  BY RecordGoesOn
<1>3. TakenStart <= Pos
  BY Quantities DEF InBlock, Pos
<1>4. EndOfRecord(file, currentRecord) \in Nat /\ Pos \in Nat
  BY <1>2, RecordTypes, Quantities DEF Pos, TypeOK
<1>5. Taken # 0 => BlockStart(file, Taken) < EndOfRecord(file, currentRecord)
  BY <1>2, <1>3, <1>4, Quantities DEF TakenStart
<1>6. Taken + 1 # 1 => BlockStart(file, (Taken + 1) - 1)
                         < EndOfRecord(file, currentRecord)
  <2>1. (Taken + 1) - 1 = Taken
    BY <1>1
  <2> QED
    BY <1>1, <1>5, <2>1
<1> QED
  BY <1>6 DEF DamagedNear, Blocks

(* Every block has been taken and the record is still not whole.           *)
LEMMA DataRunsOut ==
  ASSUME BeforeError, Taken = NumBlocks(file), currentRecord \in 1 .. NumRecords(file),
         lzfOutSize < EndOfRecord(file, currentRecord)
  PROVE  DamagedNear(file, EndOfRecord(file, currentRecord))
BY DEF BeforeError, NoErrorYet, InBlock, TakenEnd, DamagedNear

(* The step that makes the first error leaves a call whose record is not   *)
(* whole, and what it needs next is damaged or missing.                    *)
LEMMA FirstErrorStep ==
  ASSUME BeforeError, [Next]_vars, errors' # 0
  PROVE  /\ reader \in {"read", "recv", "eager"}
         /\ currentRecord \in 1 .. NumRecords(file)
         /\ Return("error")
         /\ UNCHANGED <<file, currentRecord>>
         /\ DamagedNear(file, EndOfRecord(file, currentRecord))
<1> USE DEF BeforeError, NoErrorYet
<1>1. /\ FetchBlock \/ ReceiveBlock \/ PrefetchNext
      /\ Return("error")
  <2>1. ~ (BeginRecord \/ CopyBytes \/ EndFixedPart \/ EndRecord \/ CopyPanics
            \/ DropReader \/ JoinWorker \/ WorkerStep \/ UNCHANGED vars)
    BY DEF BeginRecord, CopyBytes, EndFixedPart, EndRecord, CopyPanics,
           DropReader, JoinWorker, WorkerStep, WorkerTakesJob,
           WorkerSendsResult, WorkerExits, Return, Continue, vars, retVars
  <2>2. FetchBlock \/ ReceiveBlock \/ PrefetchNext
    BY <2>1 DEF Next, ReaderStep
  <2>3. ~ \E place \in {"recv", "eager", "read"} : Continue(place)
    BY DEF Continue, retVars
  <2> QED
    BY <2>2, <2>3 DEF FetchBlock, ReceiveBlock, PrefetchNext
<1>2. UNCHANGED <<file, currentRecord>>
  BY <1>1 DEF FetchBlock, ReceiveBlock, PrefetchNext, callVars
<1>3. CASE FetchBlock
  <2>1. reader = "read" /\ need > 0 /\ lzfOutIdx >= lzfOutSize
    BY <1>3 DEF FetchBlock
  <2>2. ~requestOutstanding /\ (SubmitNothing \/ SubmitFails)
    BY <1>1, <1>3 DEF FetchBlock, Return, Continue
  <2>3. InFlight = 0 /\ Taken = readPos
    <3>1. InFlight = 0
      BY <2>2 DEF JobAccounting
    <3> QED
      BY <3>1 DEF Taken, TypeOK
  <2>4. currentRecord \in 1 .. NumRecords(file)
        /\ Pos < EndOfRecord(file, currentRecord)
    BY <2>1, RecordGoesOn
  <2>5. CASE SubmitNothing
    <3>1. lzfOutSize < EndOfRecord(file, currentRecord)
      BY <2>1, <2>4, Quantities DEF Pos, InBlock
    <3> QED
      BY <1>1, <1>2, <2>1, <2>3, <2>4, <2>5, <3>1, DataRunsOut
         DEF SubmitNothing, AtEndOfBlocks
  <2>6. CASE SubmitFails
    <3>1. Taken + 1 \in Blocks /\ file.fault[Taken + 1] # "none"
      BY <2>3, <2>6, Quantities
         DEF SubmitFails, NextBlockShort, AtEndOfBlocks, Blocks
    <3> QED
      BY <1>1, <1>2, <2>1, <2>4, <3>1, NextBlockIsNear
  <2> QED
    BY <2>2, <2>5, <2>6
<1>4. CASE ReceiveBlock
  <2>1. reader = "recv" /\ file.fault[Head(resultQ)] = "corrupt"
    BY <1>1, <1>4 DEF ReceiveBlock, Return, Continue
  <2>2. Taken + 1 \in Blocks /\ file.fault[Taken + 1] # "none"
    BY <1>4, <2>1, ReceiveTakes
  <2> QED
    BY <1>1, <1>2, <2>1, <2>2, RecordGoesOn, NextBlockIsNear
<1>5. CASE PrefetchNext
  <2>1. reader = "eager"
    BY <1>5 DEF PrefetchNext
  <2>2. \/ SubmitFails
        \/ SubmitNothing /\ SkipsGridBlock
    BY <1>1, <1>5 DEF PrefetchNext, Return, Continue
  <2>3. InFlight = 0 /\ Taken = readPos
    <3>1. InFlight = 0
      BY <2>1 DEF JobAccounting
    <3> QED
      BY <3>1 DEF Taken, TypeOK
  <2>4. currentRecord \in 1 .. NumRecords(file)
    BY <2>1, RecordGoesOn
  <2>5. CASE SubmitFails
    <3>1. Taken + 1 \in Blocks /\ file.fault[Taken + 1] # "none"
      BY <2>3, <2>5, Quantities
         DEF SubmitFails, NextBlockShort, AtEndOfBlocks, Blocks
    <3> QED
      BY <1>1, <1>2, <2>1, <2>4, <3>1, NextBlockIsNear
  <2>6. CASE SubmitNothing /\ SkipsGridBlock
    <3>1. lzfOutSize <= file.start[currentRecord]
      BY <2>1, <2>6, SkipDecision
    <3>2. /\ file.start[currentRecord] < EndOfRecord(file, currentRecord)
          /\ file.start[currentRecord] \in Nat
          /\ EndOfRecord(file, currentRecord) \in Nat /\ lzfOutSize \in Nat
      BY <2>4, RecordTypes, Quantities DEF TypeOK
    <3> QED
      BY <1>1, <1>2, <2>1, <2>3, <2>4, <2>6, <3>1, <3>2, DataRunsOut
         DEF SubmitNothing, AtEndOfBlocks
  <2> QED
    BY <2>2, <2>5, <2>6
<1> QED
  BY <1>1, <1>3, <1>4, <1>5

-----------------------------------------------------------------------------
(* The invariant holds.                                                    *)

(* A reader just opened stands at the start of the first record.           *)
LEMMA RowsInit ==
  ASSUME \A f \in Files : GridDetectable(f), Init
  PROVE  RowsInv
<1>1. WellFormed(file) /\ GridDetectable(file)
  BY FilesAssumption DEF Init
<1>2. NumRecords(file) \in Nat
  BY <1>1, FileTypes
<1>3. Len(requestQ) = 0 /\ Len(resultQ) = 0 /\ worker = "none" /\ readPos = 0
  BY DEF Init
<1>4. Taken = 0
  BY <1>3 DEF Taken, InFlight
<1>5. InBlock
  BY <1>4 DEF Init, InBlock, TakenStart, TakenEnd
<1>6. AtRest /\ AtEnd /\ InCall
  BY <1>2 DEF Init, AtRest, AtEnd, InCall, EndOf
<1> QED
  BY <1>1, <1>5, <1>6, JobsInit DEF Init, RowsInv, NoErrorYet

(* Every step keeps the invariant.                                         *)
LEMMA RowsStep ==
  TypeOK /\ JobAccounting /\ RowsInv /\ [Next]_vars => RowsInv'
<1> SUFFICES ASSUME TypeOK, JobAccounting, RowsInv, [Next]_vars
             PROVE  RowsInv'
  OBVIOUS
<1>1. JobsAreNext'
  BY JobsStep DEF RowsInv
<1>2. file' = file /\ (errors' = errors \/ errors' = errors + 1)
  BY DEF Next, ReaderStep, WorkerStep, BeginRecord, CopyBytes, CopyPanics,
         EndFixedPart, EndRecord, FetchBlock, ReceiveBlock, PrefetchNext,
         DropReader, JoinWorker, WorkerTakesJob, WorkerSendsResult,
         WorkerExits, Return, Continue, vars, retVars
<1>3. ASSUME errors' = 0 PROVE NoErrorYet'
  <2>1. errors = 0
    BY <1>2, <1>3 DEF TypeOK
  <2>2. BeforeError
    BY <2>1 DEF BeforeError, RowsInv
  <2> QED
    BY <1>3, <2>2, BeginKeepsRows, CopyKeepsRows, NoPanicYet,
       FixedPartKeepsRows, EndKeepsRows, FetchKeepsRows, ReceiveKeepsRows,
       PrefetchKeepsRows, OthersKeepRows DEF Next, ReaderStep
<1> QED
  BY <1>1, <1>2, <1>3 DEF RowsInv

(* RowsInv holds throughout, given files of which the skip heuristic is    *)
(* right.                                                                  *)
THEOREM RowsInvariant ==
  ASSUME \A f \in Files : GridDetectable(f)
  PROVE  Spec => []RowsInv
<1>1. Init => RowsInv
  BY RowsInit
<1>2. TypeOK /\ JobAccounting /\ RowsInv /\ [Next]_vars => RowsInv'
  BY RowsStep
<1> QED
  BY <1>1, <1>2, TypeCorrect, Accounting, PTL DEF Spec

-----------------------------------------------------------------------------
(* What a caller sees.                                                     *)

(* A buffer that holds the bytes of record r holds no other record's.      *)
LEMMA RowHeld ==
  ASSUME TypeOK, NEW r \in 1 .. NumRecords(file),
         bufFrom = file.start[r], recordBytesRead = file.len[r]
  PROVE  BufferedRecord = r
<1> DEFINE Holds(q) == file.start[q] = bufFrom /\ file.len[q] = recordBytesRead
           c == CHOOSE q \in 1 .. NumRecords(file) : Holds(q)
<1>1. Holds(r)
  OBVIOUS
<1>2. c \in 1 .. NumRecords(file) /\ Holds(c)
  BY <1>1
<1>3. c = r
  BY <1>2, OneStart DEF TypeOK
<1>4. BufferedRecord = c
  BY <1>1 DEF BufferedRecord
<1> QED
  BY <1>3, <1>4

(* Between calls, the record in the buffer is the one the reader counts.   *)
LEMMA RowAtRest ==
  ASSUME BeforeError, reader = "idle", result = "row"
  PROVE  BufferedRecord = currentRecord /\ delivered = currentRecord
<1> USE DEF BeforeError, NoErrorYet
<1>1. /\ currentRecord \in 1 .. NumRecords(file)
      /\ bufFrom = file.start[currentRecord]
      /\ recordBytesRead = file.len[currentRecord]
      /\ delivered = currentRecord
  BY Quantities DEF AtRest, AtEnd
<1> QED
  BY <1>1, RowHeld

(* Whatever the file's blocks look like and however the worker is          *)
(* scheduled, until a call fails a row that is announced is the record the *)
(* reader counts - provided the file is one whose grid blocks the skip     *)
(* heuristic can tell from record data.                                    *)
THEOREM RowsAreExactTheorem ==
  ASSUME \A f \in Files : GridDetectable(f)
  PROVE  Spec => []RowsAreExact
<1>1. TypeOK /\ JobAccounting /\ RowsInv => RowsAreExact
  BY RowAtRest DEF RowsAreExact, RowsInv, BeforeError
<1> QED
  BY <1>1, TypeCorrect, Accounting, RowsInvariant, PTL

(* Before the first error no call panics.                                  *)
THEOREM NoPanicBeforeError ==
  ASSUME \A f \in Files : GridDetectable(f)
  PROVE  Spec => [](errors = 0 => reader # "panicked")
<1>1. RowsInv => (errors = 0 => reader # "panicked")
  BY DEF RowsInv, NoErrorYet
<1> QED
  BY <1>1, RowsInvariant, PTL

(* Only the step of the first error has something to show; later calls     *)
(* leave errors = 1 with another outcome.                                  *)
LEMMA FirstErrorNearStep ==
  TypeOK /\ JobAccounting /\ RowsInv /\ FirstErrorIsNear /\ [Next]_vars
    => FirstErrorIsNear'
<1> SUFFICES ASSUME TypeOK, JobAccounting, RowsInv, FirstErrorIsNear,
                    [Next]_vars,
                    errors' = 1, reader' = "idle", result' = "error"
             PROVE  DamagedNear(file', EndOfRecord(file', currentRecord'))
  BY DEF FirstErrorIsNear, DamagedNear, Blocks
<1>1. CASE errors = 0
  <2>1. BeforeError
    BY <1>1 DEF BeforeError, RowsInv
  <2> QED
    BY <2>1, FirstErrorStep
<1>2. CASE errors # 0
  <2>1. \/ errors' = errors + 1
        \/ UNCHANGED <<file, reader, result, errors, currentRecord>>
    BY DEF Next, ReaderStep, WorkerStep, BeginRecord, CopyBytes, CopyPanics,
           EndFixedPart, EndRecord, FetchBlock, ReceiveBlock, PrefetchNext,
           DropReader, JoinWorker, WorkerTakesJob, WorkerSendsResult,
           WorkerExits, Return, Continue, vars, retVars, callVars
  <2>2. UNCHANGED <<file, reader, result, errors, currentRecord>>
    BY <1>2, <2>1 DEF TypeOK
  <2> QED
    BY <2>2 DEF FirstErrorIsNear, DamagedNear, Blocks
<1> QED
  BY <1>1, <1>2

(* The first call that fails fails for a reason: the record it asked for,  *)
(* or one in the block right after it, is damaged or missing.  The job the *)
(* worker runs ahead of the reader never makes an earlier call fail.       *)
THEOREM FirstErrorIsNearTheorem ==
  ASSUME \A f \in Files : GridDetectable(f)
  PROVE  Spec => []FirstErrorIsNear
<1>1. Init => FirstErrorIsNear
  BY DEF Init, FirstErrorIsNear
<1>2. TypeOK /\ JobAccounting /\ RowsInv /\ FirstErrorIsNear /\ [Next]_vars
        => FirstErrorIsNear'
  BY FirstErrorNearStep
<1> QED
  BY <1>1, <1>2, TypeCorrect, Accounting, RowsInvariant, PTL DEF Spec

(* "Grid blocks are automatically detected and skipped": on such files a   *)
(* block the reader discards is a grid block.  Without the hypothesis this *)
(* fails.                                                                  *)
THEOREM SkipsOnlyGridTheorem ==
  ASSUME \A f \in Files : GridDetectable(f)
  PROVE  Spec => [][errors = 0 /\ reader = "eager" /\ SkipsGridBlock
                      => lzfOut \in file.grid]_vars
<1>1. TypeOK /\ JobAccounting /\ RowsInv
        => (errors = 0 /\ reader = "eager" /\ SkipsGridBlock
              => lzfOut \in file.grid)
  BY SkipDecision DEF RowsInv, BeforeError
<1> QED
  BY <1>1, TypeCorrect, Accounting, RowsInvariant, PTL

-----------------------------------------------------------------------------
(* The reader implements the record stream, step by step.                  *)

(* Damage near a record is damage.                                         *)
LEMMA NearIsDamaged ==
  ASSUME TypeOK, NEW r \in 1 .. NumRecords(file),
         DamagedNear(file, EndOfRecord(file, r))
  PROVE  Damaged
BY DEF DamagedNear, Damaged, Blocks

(* A reader just opened is a stream of which nothing has been read.        *)
LEMMA StreamInit == Init => Stream!Init
<1> SUFFICES ASSUME Init PROVE Stream!Init
  OBVIOUS
<1>1. NumRecords(file) \in Nat
  BY FilesAssumption, FileTypes DEF Init
<1>2. Damaged \in BOOLEAN
  BY DEF Damaged
<1> QED
  BY <1>1, <1>2 DEF Init, Stream!Init

(* Every step of the reader is a step of the stream or a stutter.          *)
LEMMA StreamStep ==
  TypeOK /\ JobAccounting /\ RowsInv /\ [Next]_vars
    => [Stream!Next]_Stream!vars
<1> SUFFICES ASSUME TypeOK, JobAccounting, RowsInv, [Next]_vars
             PROVE  [Stream!Next]_Stream!vars
  OBVIOUS
<1>1. file' = file /\ NumRecords(file') = NumRecords(file) /\ Damaged' = Damaged
  <2>1. file' = file
    BY DEF Next, ReaderStep, WorkerStep, BeginRecord, CopyBytes, CopyPanics,
           EndFixedPart, EndRecord, FetchBlock, ReceiveBlock, PrefetchNext,
           DropReader, JoinWorker, WorkerTakesJob, WorkerSendsResult,
           WorkerExits, vars
  <2> QED
    BY <2>1 DEF Damaged, Blocks
<1>2. CASE errors # 0
  <2>1. errors' # 0 /\ delivered' = delivered
    BY <1>2 DEF TypeOK, Next, ReaderStep, WorkerStep, BeginRecord, CopyBytes,
       CopyPanics, EndFixedPart, EndRecord, FetchBlock, ReceiveBlock,
       PrefetchNext, DropReader, JoinWorker, WorkerTakesJob,
       WorkerSendsResult, WorkerExits, Return, Continue, vars, retVars
  <2>2. \/ reader \notin {"join", "closed"} /\ reader' \notin {"join", "closed"}
        \/ reader \notin {"join", "closed"} /\ reader' \in {"join", "closed"}
        \/ reader \in {"join", "closed"} /\ reader' \in {"join", "closed"}
    BY DEF Next, ReaderStep, WorkerStep, BeginRecord, CopyBytes,
       CopyPanics, EndFixedPart, EndRecord, FetchBlock, ReceiveBlock,
       PrefetchNext, DropReader, JoinWorker, WorkerTakesJob,
       WorkerSendsResult, WorkerExits, Return, Continue, vars
  <2> QED
    BY <1>1, <1>2, <2>1, <2>2 DEF Stream!Next, Stream!Close, Stream!vars
<1>3. CASE errors = 0
  <2>0. BeforeError /\ result # "error"
    BY <1>3 DEF BeforeError, RowsInv, NoErrorYet
  <2>1. CASE errors' # 0
    <3>1. /\ reader \in {"read", "recv", "eager"}
          /\ currentRecord \in 1 .. NumRecords(file)
          /\ Return("error")
          /\ DamagedNear(file, EndOfRecord(file, currentRecord))
      BY <2>0, <2>1, FirstErrorStep
    <3>2. Damaged
      BY <3>1, NearIsDamaged
    <3>3. reader' = "idle" /\ delivered' = delivered
      BY <3>1 DEF Return
    <3> QED
      BY <1>1, <1>3, <2>1, <3>1, <3>2, <3>3
         DEF Stream!Next, Stream!Return, Stream!ReturnError
  <2>2. CASE errors' = 0
    <3>1. CASE BeginRecord
      <4>1. reader = "idle"
        BY <3>1 DEF BeginRecord
      <4>2. CASE currentRecord' > NumRecords(file)
        <5>1. delivered = NumRecords(file)
          BY <2>0, <3>1, <4>2, Quantities
             DEF BeginRecord, BeforeError, NoErrorYet, AtRest, AtEnd
        <5>2. reader' = "idle" /\ result' = "end" /\ delivered' = delivered
          BY <3>1, <4>2 DEF BeginRecord, Return
        <5> QED
          BY <1>1, <1>3, <2>0, <2>2, <4>1, <5>1, <5>2
             DEF Stream!Next, Stream!CallAtEnd
      <4>3. CASE ~(currentRecord' > NumRecords(file))
        <5>1. delivered < NumRecords(file)
          BY <2>0, <3>1, <4>3, Quantities
             DEF BeginRecord, BeforeError, NoErrorYet, AtRest
        <5>2. reader' = "read" /\ result' = result /\ delivered' = delivered
          BY <3>1, <4>3 DEF BeginRecord, Continue, retVars
        <5> QED
          BY <1>1, <1>3, <2>0, <2>2, <4>1, <5>1, <5>2
             DEF Stream!Next, Stream!Call
      <4> QED
        BY <4>2, <4>3
    <3>2. CASE EndRecord
      <4>1. /\ reader = "read" /\ reader' = "idle" /\ result' = "row"
            /\ delivered' = delivered + 1
        BY <1>3, <3>2 DEF EndRecord, Return
      <4>2. /\ NoErrorYet' /\ delivered = currentRecord - 1
            /\ currentRecord \in 1 .. NumRecords(file)
            /\ currentRecord' = currentRecord
        BY <2>0, <3>2, <4>1, EndKeepsRows
           DEF BeforeError, NoErrorYet, InCall, EndRecord, callVars
      <4>3. /\ bufFrom' = file'.start[currentRecord']
            /\ recordBytesRead' = file'.len[currentRecord']
        BY <1>1, <4>1, <4>2, Quantities DEF BeforeError, NoErrorYet, AtRest
      <4>4. /\ bufFrom = file.start[currentRecord]
            /\ recordBytesRead = file.len[currentRecord]
        BY <1>1, <3>2, <4>2, <4>3 DEF EndRecord, callVars
      <4>5. BufferedRecord = currentRecord
        BY <4>2, <4>4, RowHeld
      <4>6. BufferedRecord' = BufferedRecord
        BY <1>1, <3>2 DEF BufferedRecord, EndRecord, callVars
      <4> QED
        BY <1>1, <1>3, <2>2, <4>1, <4>2, <4>5, <4>6, Quantities
           DEF Stream!Next, Stream!Return, Stream!ReturnRow, BeforeError
    <3>3. CASE DropReader
      <4>1. /\ reader = "idle" /\ reader' \in {"join", "closed"}
            /\ result' = result /\ delivered' = delivered
        BY <3>3 DEF DropReader, Continue, retVars
      <4> QED
        BY <1>1, <1>3, <2>2, <4>1 DEF Stream!Next, Stream!Close
    <3>4. CASE CopyBytes \/ EndFixedPart \/ FetchBlock \/ ReceiveBlock
               \/ PrefetchNext
      <4>1. /\ reader \in {"read", "recv", "eager"}
            /\ reader' \in {"read", "recv", "eager"}
            /\ result' = result /\ delivered' = delivered
        BY <1>3, <2>2, <3>4
           DEF CopyBytes, EndFixedPart, FetchBlock, ReceiveBlock, PrefetchNext,
               Return, Continue, retVars
      <4> QED
        BY <1>1, <1>3, <2>2, <4>1 DEF Stream!vars
    <3>5. CASE JoinWorker
      <4>1. /\ reader = "join" /\ reader' = "closed"
            /\ result' = result /\ delivered' = delivered
        BY <3>5 DEF JoinWorker, Continue, retVars
      <4> QED
        BY <1>1, <1>3, <2>2, <4>1 DEF Stream!vars
    <3>6. CASE WorkerStep \/ UNCHANGED vars
      <4>1. UNCHANGED <<reader, result, delivered, bufFrom, recordBytesRead>>
        BY <3>6 DEF WorkerStep, WorkerTakesJob, WorkerSendsResult, WorkerExits,
                    vars, retVars, callVars
      <4>2. BufferedRecord' = BufferedRecord
        BY <1>1, <4>1 DEF BufferedRecord
      <4> QED
        BY <1>1, <1>3, <2>2, <4>1, <4>2 DEF Stream!vars
    <3> QED
      BY <2>0, <3>1, <3>2, <3>3, <3>4, <3>5, <3>6, NoPanicYet
         DEF Next, ReaderStep
  <2> QED
    BY <2>1, <2>2
<1> QED
  BY <1>2, <1>3

(* Up to its first error the reader with its worker, its channels, its     *)
(* blocks and its skipped grid cells takes no step the record stream does  *)
(* not allow: each call returns the next record, the end after the last    *)
(* one, or an error if the file is damaged.                                *)
THEOREM StreamSafety ==
  ASSUME \A f \in Files : GridDetectable(f)
  PROVE  Spec => Stream!Init /\ [][Stream!Next]_Stream!vars
<1>1. Init => Stream!Init
  BY StreamInit
<1>2. TypeOK /\ JobAccounting /\ RowsInv /\ [Next]_vars
        => [Stream!Next]_Stream!vars
  BY StreamStep
<1> QED
  BY <1>1, <1>2, TypeCorrect, Accounting, RowsInvariant, PTL DEF Spec
=============================================================================
