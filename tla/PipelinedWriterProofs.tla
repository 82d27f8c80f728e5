------------------------ MODULE PipelinedWriterProofs ------------------------
(***************************************************************************)
(* Proofs about PipelinedWriter, for every set of DataFrames, every block  *)
(* and group size and every channel capacity: type correctness, the count  *)
(* of blocks on their way and with it the absence of a mutual wait, the    *)
(* order and the accuracy of what reaches the file, and that a finished    *)
(* file is the one that writing row after row gives.  The second part is   *)
(* about FrameWriter: all this holds inside write_yxdb_impl too; a header  *)
(* that names an index is only written when nothing of the frame is        *)
(* missing from the file; and what an interrupted call leaves is a file    *)
(* the readers are specified for, that holds the announced records only if *)
(* it holds the whole frame.                                               *)
(***************************************************************************)
EXTENDS FrameWriter, BlockLayoutProofs

(* TypeOK is not inductive by itself: a row that was there when a group    *)
(* was opened must still be there when the group's last block is written.  *)
GroupHasRow ==
  \/ pc \in {"settle", "settleGroup"}
  \/ pc \in {"drain", "send"} /\ goal = "group"
  => row < Len(rows)

Typed == TypeOK /\ GroupHasRow

LEMMA TypedInit == Init => Typed
<1> SUFFICES ASSUME Init PROVE Typed
  OBVIOUS
<1>1. rows \in Seq(RowType)
  BY PipelineAssumption DEF Init
<1>2. Len(rows) \in Nat
  BY <1>1
<1>3. rawOpen \in BOOLEAN /\ doneOpen \in BOOLEAN
  BY Zenon DEF Init
<1> QED
  BY <1>1, <1>2, <1>3 DEF Init, Typed, TypeOK, GroupHasRow

(* What TakeDone does to the variables it changes.                         *)
LEMMA TakeDoneType ==
  ASSUME TypeOK, TakeDone, pending > 0
  PROVE  /\ written' \in Seq(Nat) /\ doneQ' \in Seq(Nat) /\ pending' \in Nat
         /\ pending' = pending - 1
         /\ Len(doneQ) \in Nat \ {0} /\ Len(doneQ') = Len(doneQ) - 1
         /\ Len(written) \in Nat /\ Len(written') = Len(written) + 1
<1> USE DEF TypeOK
<1>1. /\ Head(doneQ) \in Nat /\ Tail(doneQ) \in Seq(Nat)
      /\ Len(doneQ) \in Nat \ {0} /\ Len(Tail(doneQ)) = Len(doneQ) - 1
  BY EmptySeq, HeadTailProperties DEF TakeDone
<1>2. /\ written' \in Seq(Nat) /\ Len(written) \in Nat
      /\ Len(written') = Len(written) + 1
  BY <1>1, AppendProperties, LenProperties DEF TakeDone
<1>3. pending' \in Nat
  BY DEF TakeDone
<1> QED BY <1>1, <1>2, <1>3 DEF TakeDone

LEMMA TypedStep == Typed /\ [Next]_vars => Typed'
<1> SUFFICES ASSUME Typed, [Next]_vars PROVE Typed'
  OBVIOUS
<1> USE DEF Typed, TypeOK, GroupHasRow
<1>1. Len(rows) \in Nat /\ Len(written) \in Nat /\ BlockSize \in Nat
      /\ (pc = "build" => rows[row + 1].len \in Nat)
  <2>1. Len(rows) \in Nat /\ Len(written) \in Nat /\ BlockSize \in Nat
    BY SizesAssumption
  <2>2. pc = "build" => rows[row + 1] \in RowType
    BY <2>1, ElementOfSeq
  <2> QED BY <2>1, <2>2 DEF RowType
<1>2. CASE NextRow
  <2>1. CASE row = Len(rows)
    BY <1>1, <1>2, <2>1 DEF NextRow, fileVars, ends, workerVars
  <2>2. CASE row # Len(rows) /\ IsGroupStart(row) /\ BufLen > 0
    BY <1>1, <1>2, <2>2 DEF NextRow, fileVars, ends, workerVars
  <2>3. CASE row # Len(rows) /\ IsGroupStart(row) /\ ~(BufLen > 0)
    <3>1. pc' = "build" /\ goal' = "group" /\ row < Len(rows)
          /\ index' = Append(index, Len(written))
      BY <1>1, <1>2, <2>3 DEF NextRow
    <3>2. index' \in Seq(Nat)
      BY <1>1, <3>1, AppendProperties
    <3> QED
      BY <1>1, <1>2, <3>1, <3>2 DEF NextRow, fileVars, ends, workerVars
  <2>4. CASE row # Len(rows) /\ ~IsGroupStart(row)
    <3>1. pc' = "build" /\ goal' = goal /\ row < Len(rows)
          /\ index' = index
      BY <1>1, <1>2, <2>4 DEF NextRow
    <3> QED
      BY <1>1, <1>2, <3>1 DEF NextRow, fileVars, ends, workerVars
  <2> QED BY <2>1, <2>2, <2>3, <2>4
<1>3. CASE BuildRecord
  BY <1>1, <1>3 DEF BuildRecord, fileVars, ends, workerVars
<1>4. CASE AppendRecord
  BY <1>1, <1>4 DEF AppendRecord, BufLen, fileVars, ends, workerVars
<1>5. CASE DrainCompleted
  <2>1. CASE pending > 0 /\ doneQ # <<>>
    BY <1>1, <1>5, <2>1, TakeDoneType
       DEF DrainCompleted, mainVars, ends, workerVars
  <2>2. CASE ~(pending > 0 /\ doneQ # <<>>)
    BY <1>1, <1>5, <2>2
       DEF DrainCompleted, mainVars, fileVars, ends, workerVars
  <2> QED BY <2>1, <2>2
<1>6. CASE Settle
  <2>1. CASE pending > 0
    BY <1>1, <1>6, <2>1, TakeDoneType DEF Settle, ends, workerVars
  <2>2. CASE ~(pending > 0)
    <3>1. /\ pc \in {"settle", "settleGroup", "settleLast"}
          /\ pc' = CASE pc = "settle"      -> "send"
                     [] pc = "settleGroup" -> "build"
                     [] pc = "settleLast"  -> "join"
          /\ index' = IF pc = "settleGroup" THEN Append(index, Len(written))
                      ELSE index
      BY <1>6, <2>2 DEF Settle
    <3>2. index' \in Seq(Nat)
      <4>1. Append(index, Len(written)) \in Seq(Nat)
        BY <1>1, AppendProperties
      <4> QED BY <3>1, <4>1
    <3>3. UNCHANGED <<rows, row, bufFrom, bufTo, remaining, goal, pending,
                      written, doneQ, rawQ, rawOpen, doneOpen, worker, job>>
      BY <1>6, <2>2 DEF Settle, fileVars, ends, workerVars
    <3> QED
      BY <1>1, <3>1, <3>2, <3>3
  <2> QED BY <2>1, <2>2
<1>7. CASE SendBlock
  BY <1>1, <1>7 DEF SendBlock, ends, workerVars
<1>8. CASE CloseRaw
  <2>1. rawOpen' \in BOOLEAN
    BY <1>8, Zenon DEF CloseRaw
  <2> QED
    BY <1>1, <1>8, <2>1 DEF CloseRaw, mainVars, fileVars, workerVars
<1>9. CASE JoinWorker
  BY <1>1, <1>9 DEF JoinWorker, mainVars, fileVars, ends, workerVars
<1>10. CASE Fail
  <2>1. rawOpen' \in BOOLEAN /\ doneOpen' \in BOOLEAN
    BY <1>10, Zenon DEF Fail
  <2>2. pc' = "failed" /\ UNCHANGED <<rows, mainVars, fileVars, rawQ, workerVars>>
    BY <1>10 DEF Fail
  <2> QED
    BY <1>1, <2>1, <2>2 DEF mainVars, fileVars, workerVars
<1>11. CASE WorkerTakes
  BY <1>1, <1>11, HeadTailProperties
     DEF WorkerTakes, mainVars, fileVars, ends
<1>12. CASE WorkerSends
  BY <1>1, <1>12 DEF WorkerSends, mainVars, ends
<1>13. CASE WorkerExits
  BY <1>1, <1>13 DEF WorkerExits, mainVars, fileVars, ends
<1>14. CASE UNCHANGED vars
  BY <1>1, <1>14 DEF vars, mainVars, fileVars, ends, workerVars
<1> QED
  BY <1>2, <1>3, <1>4, <1>5, <1>6, <1>7, <1>8, <1>9, <1>10, <1>11, <1>12,
     <1>13, <1>14 DEF Next, MainStep, WorkerStep

(* Every variable holds a value of its type, in every DataFrame's run.     *)
THEOREM PipelineTypeCorrect == Spec => []TypeOK
<1>1. Typed => TypeOK
  BY DEF Typed
<1> QED BY <1>1, TypedInit, TypedStep, PTL DEF Spec
-----------------------------------------------------------------------------
(* The count of blocks on their way.                                       *)

(* Who still holds which channel end: the worker outlives the channels.    *)
EndsOpen ==
  /\ pc \notin {"settleLast", "join", "done", "failed"} => rawOpen
  /\ pc # "failed" => doneOpen
  /\ rawOpen /\ doneOpen => worker # "exited"

Accounted == Typed /\ PipelineAccounting /\ EndsOpen

(* The lengths PipelineAccounting adds up are natural numbers.             *)
LEMMA QueueLengths ==
  ASSUME TypeOK
  PROVE  /\ Len(rawQ) \in Nat /\ Len(doneQ) \in Nat
         /\ (rawQ # <<>> <=> Len(rawQ) > 0)
         /\ (doneQ # <<>> <=> Len(doneQ) > 0)
         /\ ChannelCapacity \in Nat \ {0}
BY EmptySeq, PipelineAssumption DEF TypeOK

LEMMA AccountedInit == Init => Accounted
<1> SUFFICES ASSUME Init PROVE Accounted
  OBVIOUS
<1>1. rawOpen /\ doneOpen /\ worker = "idle" /\ pc = "row"
  BY DEF Init
<1>2. Len(rawQ) = 0 /\ Len(doneQ) = 0 /\ pending = 0
  BY DEF Init
<1>3. PipelineAccounting
  BY <1>1, <1>2, PipelineAssumption DEF PipelineAccounting, InFlight
<1>4. EndsOpen
  BY <1>1 DEF EndsOpen
<1> QED BY <1>3, <1>4, TypedInit DEF Accounted

LEMMA AccountedStep == Accounted /\ [Next]_vars => Accounted'
<1> SUFFICES ASSUME Accounted, [Next]_vars
             PROVE  PipelineAccounting' /\ EndsOpen'
  BY TypedStep DEF Accounted
<1> USE DEF Accounted, Typed, PipelineAccounting, InFlight, EndsOpen
<1>1. /\ Len(rawQ) \in Nat /\ Len(doneQ) \in Nat /\ pending \in Nat
      /\ (rawQ # <<>> <=> Len(rawQ) > 0)
      /\ (doneQ # <<>> <=> Len(doneQ) > 0)
      /\ ChannelCapacity \in Nat \ {0}
  BY QueueLengths DEF TypeOK
<1>2. CASE NextRow
  <2>1. UNCHANGED <<pending, rawQ, doneQ, rawOpen, doneOpen, worker>>
        /\ pc = "row" /\ pc' \in {"send", "close", "drain", "build"}
        /\ (pc' = "send" => goal' = "last")
    BY <1>2, Zenon DEF NextRow, fileVars, ends, workerVars
  <2> QED BY <1>1, <2>1
<1>3. CASE BuildRecord
  BY <1>1, <1>3 DEF BuildRecord, fileVars, ends, workerVars
<1>4. CASE AppendRecord
  <2>1. UNCHANGED <<pending, rawQ, doneQ, rawOpen, doneOpen, worker>>
        /\ pc = "append" /\ pc' \in {"row", "drain"}
    BY <1>4, Zenon DEF AppendRecord, fileVars, ends, workerVars
  <2> QED BY <1>1, <2>1
<1>5. CASE DrainCompleted
  <2>1. CASE pending > 0 /\ doneQ # <<>>
    <3>1. TakeDone /\ UNCHANGED <<pc, goal, rawQ, rawOpen, doneOpen, worker>>
      BY <1>5, <2>1 DEF DrainCompleted, mainVars, ends, workerVars
    <3>2. pending' = pending - 1 /\ Len(doneQ') = Len(doneQ) - 1
      BY <2>1, <3>1, TakeDoneType
    <3> QED BY <1>1, <1>5, <3>1, <3>2 DEF DrainCompleted
  <2>2. CASE ~(pending > 0 /\ doneQ # <<>>)
    BY <1>1, <1>5, <2>2
       DEF DrainCompleted, mainVars, fileVars, ends, workerVars
  <2> QED BY <2>1, <2>2
<1>6. CASE Settle
  <2>1. CASE pending > 0
    <3>1. TakeDone /\ UNCHANGED <<pc, goal, rawQ, rawOpen, doneOpen, worker>>
      BY <1>6, <2>1 DEF Settle, ends, workerVars
    <3>2. pending' = pending - 1 /\ Len(doneQ') = Len(doneQ) - 1
      BY <2>1, <3>1, TakeDoneType
    <3>3. pc \in {"settle", "settleGroup", "settleLast"}
      BY <1>6 DEF Settle
    <3> QED BY <1>1, <3>1, <3>2, <3>3
  <2>2. CASE ~(pending > 0)
    BY <1>1, <1>6, <2>2 DEF Settle, fileVars, ends, workerVars
  <2> QED BY <2>1, <2>2
<1>7. CASE SendBlock
  <2>1. Len(rawQ') = Len(rawQ) + 1
    BY <1>7, AppendProperties DEF SendBlock, TypeOK
  <2>2. /\ pc = "send" /\ Len(rawQ) < ChannelCapacity
        /\ pending' = pending + 1
        /\ UNCHANGED <<goal, doneQ, rawOpen, doneOpen, worker>>
        /\ pc' = CASE goal = "group" -> "settleGroup"
                   [] goal = "last"  -> "close"
                   [] OTHER          -> "append"
    BY <1>7 DEF SendBlock, ends, workerVars
  <2>3. goal \in {"group", "record", "split", "last"}
    BY DEF TypeOK
  <2> QED BY <1>1, <2>1, <2>2, <2>3
<1>8. CASE CloseRaw
  BY <1>1, <1>8 DEF CloseRaw, mainVars, fileVars, workerVars
<1>9. CASE JoinWorker
  BY <1>1, <1>9 DEF JoinWorker, mainVars, fileVars, ends, workerVars
<1>10. CASE Fail
  <2>1. pc' = "failed" /\ ~rawOpen' /\ ~doneOpen'
        /\ UNCHANGED <<rawQ, doneQ>>
    BY <1>10 DEF Fail, fileVars
  <2> QED BY <1>1, <2>1
<1>11. CASE WorkerTakes
  <2>1. Len(rawQ') = Len(rawQ) - 1
    BY <1>1, <1>11, HeadTailProperties DEF WorkerTakes, TypeOK
  <2> QED
    BY <1>1, <1>11, <2>1 DEF WorkerTakes, mainVars, fileVars, ends
<1>12. CASE WorkerSends
  <2>1. Len(doneQ') = Len(doneQ) + 1
    BY <1>12, AppendProperties DEF WorkerSends, TypeOK
  <2> QED
    BY <1>1, <1>12, <2>1 DEF WorkerSends, mainVars, ends
<1>13. CASE WorkerExits
  BY <1>1, <1>13 DEF WorkerExits, mainVars, fileVars, ends
<1>14. CASE UNCHANGED vars
  BY <1>1, <1>14 DEF vars, mainVars, fileVars, ends, workerVars
<1> QED
  BY <1>2, <1>3, <1>4, <1>5, <1>6, <1>7, <1>8, <1>9, <1>10, <1>11, <1>12,
     <1>13, <1>14 DEF Next, MainStep, WorkerStep

LEMMA AlwaysAccounted == Spec => []Accounted
BY AccountedInit, AccountedStep, PTL DEF Spec

(* pending_blocks is the number of blocks on their way, and stays below    *)
(* what the channels and the compress thread can hold.                     *)
THEOREM PipelineAccountingTheorem == Spec => []PipelineAccounting
<1>1. Accounted => PipelineAccounting
  BY DEF Accounted
<1> QED BY <1>1, AlwaysAccounted, PTL

(* With channels of two or more blocks the threads of write_records never  *)
(* wait for each other.  One block would not be enough: the last send is   *)
(* not preceded by a drain and may be the third block in flight.           *)
THEOREM NoMutualWaitTheorem ==
  ASSUME ChannelCapacity > 1
  PROVE  Spec => []NoMutualWait
<1>1. Accounted => NoMutualWait
  BY QueueLengths
     DEF Accounted, Typed, TypeOK, PipelineAccounting, InFlight, EndsOpen,
         NoMutualWait
<1> QED BY <1>1, AlwaysAccounted, PTL
-----------------------------------------------------------------------------
(* The order of the blocks.                                                *)

(* A block moves from the head of one queue to the tail of the one before. *)
LEMMA MoveHead ==
  ASSUME NEW s \in Seq(Nat), NEW t \in Seq(Nat), t # <<>>
  PROVE  Append(s, Head(t)) \o Tail(t) = s \o t
<1> DEFINE u == Append(s, Head(t))
<1>1. /\ Head(t) \in Nat /\ Tail(t) \in Seq(Nat) /\ Len(t) \in Nat \ {0}
      /\ Len(Tail(t)) = Len(t) - 1 /\ Head(t) = t[1]
      /\ \A i \in 1 .. Len(Tail(t)) : Tail(t)[i] = t[i + 1]
  BY HeadTailProperties, EmptySeq
<1>2. /\ u \in Seq(Nat) /\ Len(u) = Len(s) + 1 /\ Len(s) \in Nat
      /\ \A i \in 1 .. Len(s) : u[i] = s[i]
      /\ u[Len(s) + 1] = t[1]
  BY <1>1, AppendProperties, LenProperties
<1> HIDE DEF u
<1>3. /\ s \o t \in Seq(Nat) /\ Len(s \o t) = Len(s) + Len(t)
      /\ \A i \in 1 .. Len(s) + Len(t) :
           (s \o t)[i] = IF i <= Len(s) THEN s[i] ELSE t[i - Len(s)]
  BY ConcatProperties
<1>4. /\ u \o Tail(t) \in Seq(Nat)
      /\ Len(u \o Tail(t)) = Len(u) + Len(Tail(t))
      /\ \A i \in 1 .. Len(u) + Len(Tail(t)) :
           (u \o Tail(t))[i] = IF i <= Len(u) THEN u[i]
                               ELSE Tail(t)[i - Len(u)]
  BY <1>1, <1>2, ConcatProperties
<1>5. Len(u \o Tail(t)) = Len(s \o t)
  BY <1>1, <1>2, <1>3, <1>4
<1>6. ASSUME NEW i \in 1 .. Len(u \o Tail(t))
      PROVE  (u \o Tail(t))[i] = (s \o t)[i]
  <2>1. CASE i <= Len(s)
    BY <1>1, <1>2, <1>3, <1>4, <1>5, <2>1
  <2>2. CASE i = Len(s) + 1
    BY <1>1, <1>2, <1>3, <1>4, <1>5, <2>2
  <2>3. CASE i > Len(s) + 1
    <3>1. (u \o Tail(t))[i] = Tail(t)[i - Len(u)]
      BY <1>1, <1>2, <1>4, <2>3
    <3>2. i - Len(u) \in 1 .. Len(Tail(t)) /\ i - Len(u) + 1 = i - Len(s)
      BY <1>1, <1>2, <1>4, <2>3
    <3>3. (s \o t)[i] = t[i - Len(s)]
      BY <1>2, <1>3, <1>5, <2>3, SMTT(60)
    <3> QED BY <1>1, <3>1, <3>2, <3>3
  <2> QED BY <1>2, <2>1, <2>2, <2>3, SMTT(60)
<1>7. u \o Tail(t) = s \o t
  BY <1>3, <1>4, <1>5, <1>6, SeqEqual
<1> QED BY <1>7 DEF u

LEMMA Associative ==
  \A s, t, u \in Seq(Nat) : (s \o t) \o u = s \o (t \o u)
<1>1. SUFFICES ASSUME NEW s \in Seq(Nat), NEW t \in Seq(Nat),
                      NEW u \in Seq(Nat)
               PROVE  (s \o t) \o u = s \o (t \o u)
  OBVIOUS
<1> QED BY <1>1, ConcatAssociative, SMTT(60)

(* A block sent after all others is the last of the pipeline.              *)
LEMMA AppendToConcat ==
  ASSUME NEW s \in Seq(Nat), NEW t \in Seq(Nat), NEW x \in Nat
  PROVE  s \o Append(t, x) = Append(s \o t, x)
<1>1. <<x>> \in Seq(Nat) /\ s \o t \in Seq(Nat)
  BY ConcatProperties
<1>2. Append(t, x) = t \o <<x>> /\ Append(s \o t, x) = (s \o t) \o <<x>>
  BY <1>1, AppendIsConcat
<1>3. (s \o t) \o <<x>> = s \o (t \o <<x>>)
  BY <1>1, Associative, Zenon
<1>4. s \o Append(t, x) = s \o (t \o <<x>>)
  BY <1>2, Zenon
<1> QED BY <1>2, <1>3, <1>4, Zenon

Increasing(s) ==
  \A i \in 1 .. Len(s) : \A k \in 1 .. Len(s) : i < k => s[i] < s[k]

Bounded(s, n) == \A i \in 1 .. Len(s) : s[i] <= n

(* Sending a block that ends later keeps the order.                        *)
LEMMA AppendIncreasing ==
  ASSUME NEW s \in Seq(Nat), NEW m \in Nat, NEW n \in Nat,
         Increasing(s), Bounded(s, m), m < n
  PROVE  /\ Increasing(Append(s, n)) /\ Bounded(Append(s, n), n)
         /\ Append(s, n) # <<>> /\ Append(s, n)[Len(Append(s, n))] = n
<1>1. /\ Len(s) \in Nat /\ Len(Append(s, n)) = Len(s) + 1
      /\ \A i \in 1 .. Len(s) : Append(s, n)[i] = s[i] /\ s[i] \in Nat
      /\ Append(s, n)[Len(s) + 1] = n
  BY AppendProperties, LenProperties, ElementOfSeq
<1> DEFINE u == Append(s, n)
<1> HIDE DEF u
<1>2. /\ Len(s) \in Nat /\ Len(u) = Len(s) + 1 /\ u[Len(s) + 1] = n
      /\ \A i \in 1 .. Len(s) : u[i] = s[i] /\ s[i] \in Nat
  BY <1>1 DEF u
<1>3. \A i \in 1 .. Len(s) : s[i] <= m
  BY DEF Bounded
<1>4. \A i \in 1 .. Len(u) : u[i] <= n
  BY <1>2, <1>3
<1>5. ASSUME NEW i \in 1 .. Len(u), NEW k \in 1 .. Len(u), i < k
      PROVE  u[i] < u[k]
  <2>1. CASE k = Len(s) + 1
    BY <1>2, <1>3, <1>5, <2>1
  <2>2. CASE k # Len(s) + 1
    <3>1. i \in 1 .. Len(s) /\ k \in 1 .. Len(s)
      BY <1>2, <1>5, <2>2
    <3> QED BY <1>2, <1>5, <3>1 DEF Increasing
  <2> QED BY <2>1, <2>2
<1>6. u # <<>> /\ u[Len(u)] = n
  BY <1>2
<1> QED BY <1>4, <1>5, <1>6 DEF u, Increasing, Bounded

(* The block a thread abandons leaves a gap, not a disorder.               *)
LEMMA GapKeepsOrder ==
  ASSUME NEW s \in Seq(Nat), NEW x \in Nat, NEW t \in Seq(Nat), NEW n \in Nat,
         Increasing((s \o <<x>>) \o t), Bounded((s \o <<x>>) \o t, n)
  PROVE  Increasing(s \o t) /\ Bounded(s \o t, n)
<1> DEFINE u == s \o <<x>>
           v == u \o t
           w == s \o t
<1>1. /\ u \in Seq(Nat) /\ Len(u) = Len(s) + 1 /\ Len(s) \in Nat
      /\ \A i \in 1 .. Len(s) : u[i] = s[i]
  <2>1. <<x>> \in Seq(Nat) /\ Len(<<x>>) = 1
    OBVIOUS
  <2> QED BY <2>1, ConcatProperties, LenProperties
<1> HIDE DEF u
<1>2. /\ Len(v) = Len(u) + Len(t) /\ Len(t) \in Nat
      /\ \A i \in 1 .. Len(u) : v[i] = u[i]
      /\ \A i \in Len(u) + 1 .. Len(u) + Len(t) : v[i] = t[i - Len(u)]
  BY <1>1, ConcatAt, LenProperties
<1>3. /\ Len(w) = Len(s) + Len(t)
      /\ \A i \in 1 .. Len(s) : w[i] = s[i]
      /\ \A i \in Len(s) + 1 .. Len(s) + Len(t) : w[i] = t[i - Len(s)]
  BY ConcatAt
<1>4. Increasing(v) /\ Bounded(v, n)
  BY DEF u
<1> HIDE DEF v, w
<1>5. ASSUME NEW i \in 1 .. Len(w), i <= Len(s)
      PROVE  w[i] = v[i]
  <2>1. i \in 1 .. Len(s) /\ i \in 1 .. Len(u)
    BY <1>1, <1>3, <1>5
  <2> QED BY <1>1, <1>2, <1>3, <2>1
<1>6. ASSUME NEW i \in 1 .. Len(w), i > Len(s)
      PROVE  w[i] = v[i + 1]
  <2>0. i \in Len(s) + 1 .. Len(s) + Len(t)
    BY <1>1, <1>2, <1>3, <1>6
  <2>1. w[i] = t[i - Len(s)]
    BY <1>3, <2>0
  <2>2. i + 1 \in Len(u) + 1 .. Len(u) + Len(t) /\ (i + 1) - Len(u) = i - Len(s)
    BY <1>1, <1>2, <1>3, <1>6
  <2>3. v[i + 1] = t[i - Len(s)]
    BY <1>2, <2>2
  <2> QED BY <2>1, <2>3
<1>7. ASSUME NEW i \in 1 .. Len(w)
      PROVE  \E j \in 1 .. Len(v) :
               w[i] = v[j] /\ j = (IF i <= Len(s) THEN i ELSE i + 1)
  <2>1. CASE i <= Len(s)
    BY <1>1, <1>2, <1>3, <1>5, <2>1
  <2>2. CASE i > Len(s)
    <3>1. i + 1 \in 1 .. Len(v)
      BY <1>1, <1>2, <1>3
    <3> QED BY <1>1, <1>6, <2>2, <3>1
  <2> QED BY <1>1, <2>1, <2>2
<1>8. ASSUME NEW i \in 1 .. Len(w), NEW k \in 1 .. Len(w), i < k
      PROVE  w[i] < w[k]
  <2>1. PICK a \in 1 .. Len(v) :
               w[i] = v[a] /\ a = (IF i <= Len(s) THEN i ELSE i + 1)
    BY <1>7
  <2>2. PICK b \in 1 .. Len(v) :
               w[k] = v[b] /\ b = (IF k <= Len(s) THEN k ELSE k + 1)
    BY <1>7
  <2>3. a < b
    BY <1>1, <1>8, <2>1, <2>2
  <2> QED BY <1>4, <2>1, <2>2, <2>3 DEF Increasing
<1>9. ASSUME NEW i \in 1 .. Len(w) PROVE w[i] <= n
  BY <1>4, <1>7 DEF Bounded
<1> QED BY <1>8, <1>9 DEF w, Increasing, Bounded

(* Where the blocks of a step are.  Only a send adds one; a worker that    *)
(* finds nobody to send to takes its block with it.                        *)
LEMMA PipelineStep ==
  ASSUME Typed, Next
  PROVE  \/ Pipeline' = Pipeline /\ bufFrom' = bufFrom
         \/ SendBlock /\ Pipeline' = Append(Pipeline, bufTo)
         \/ /\ WorkerExits /\ worker = "busy" /\ ~doneOpen
            /\ Pipeline = ((written \o doneQ) \o <<job>>) \o rawQ
            /\ Pipeline' = (written \o doneQ) \o rawQ
            /\ bufFrom' = bufFrom
<1>1. /\ bufTo \in Nat /\ job \in Nat
      /\ written \in Seq(Nat) /\ doneQ \in Seq(Nat) /\ rawQ \in Seq(Nat)
      /\ InHand \in Seq(Nat) /\ written \o doneQ \in Seq(Nat)
      /\ (written \o doneQ) \o InHand \in Seq(Nat)
  <2>1. /\ bufTo \in Nat /\ job \in Nat
        /\ written \in Seq(Nat) /\ doneQ \in Seq(Nat) /\ rawQ \in Seq(Nat)
    BY DEF Typed, TypeOK
  <2>2. InHand \in Seq(Nat)
    BY <2>1 DEF InHand
  <2>3. written \o doneQ \in Seq(Nat)
    BY <2>1, ConcatProperties
  <2> QED BY <2>1, <2>2, <2>3, ConcatProperties
<1>2. ASSUME UNCHANGED <<written, doneQ, rawQ, worker, job>>
      PROVE  Pipeline' = Pipeline
  BY <1>2 DEF Pipeline, InHand
<1>3. ASSUME TakeDone, UNCHANGED <<rawQ, worker, job>>
      PROVE  Pipeline' = Pipeline
  <2>1. written' \o doneQ' = written \o doneQ
    BY <1>1, <1>3, MoveHead DEF TakeDone
  <2> QED BY <1>3, <2>1 DEF Pipeline, InHand
<1>4. CASE NextRow \/ BuildRecord \/ AppendRecord \/ CloseRaw \/ JoinWorker
           \/ Fail
  <2>1. UNCHANGED <<written, doneQ, rawQ, worker, job, bufFrom>>
    BY <1>4 DEF NextRow, BuildRecord, AppendRecord, CloseRaw, JoinWorker,
                Fail, mainVars, fileVars, ends, workerVars
  <2> QED BY <1>2, <2>1
<1>5. CASE DrainCompleted \/ Settle
  <2>1. \/ TakeDone
        \/ UNCHANGED <<written, doneQ>>
    BY <1>5 DEF DrainCompleted, Settle, fileVars
  <2>2. UNCHANGED <<rawQ, worker, job, bufFrom>>
    BY <1>5 DEF DrainCompleted, Settle, mainVars, ends, workerVars
  <2> QED BY <1>2, <1>3, <2>1, <2>2
<1>6. CASE SendBlock
  <2>1. /\ rawQ' = Append(rawQ, bufTo)
        /\ UNCHANGED <<written, doneQ, worker, job>>
    BY <1>6 DEF SendBlock, workerVars
  <2> DEFINE s == (written \o doneQ) \o InHand
  <2>2. s' = s
    BY <2>1 DEF InHand
  <2>3. s \o Append(rawQ, bufTo) = Append(s \o rawQ, bufTo)
    BY <1>1, AppendToConcat
  <2> QED BY <1>6, <2>1, <2>2, <2>3 DEF Pipeline
<1>7. CASE WorkerTakes
  <2>1. /\ InHand = <<>> /\ InHand' = <<Head(rawQ)>> /\ rawQ' = Tail(rawQ)
        /\ UNCHANGED <<written, doneQ, bufFrom>> /\ rawQ # <<>>
    BY <1>7 DEF WorkerTakes, InHand, mainVars, fileVars
  <2> DEFINE s == written \o doneQ
  <2>2. s \in Seq(Nat) /\ Head(rawQ) \in Nat /\ s' = s
    BY <1>1, <2>1, HeadTailProperties
  <2>3. s \o <<Head(rawQ)>> = Append(s, Head(rawQ)) /\ s \o <<>> = s
    BY <2>2, AppendIsConcat, ConcatEmptySeq
  <2>4. Append(s, Head(rawQ)) \o Tail(rawQ) = s \o rawQ
    BY <1>1, <2>1, <2>2, MoveHead
  <2> QED BY <2>1, <2>2, <2>3, <2>4 DEF Pipeline
<1>8. CASE WorkerSends
  <2>1. /\ InHand = <<job>> /\ InHand' = <<>> /\ doneQ' = Append(doneQ, job)
        /\ UNCHANGED <<written, rawQ, bufFrom>>
    BY <1>8 DEF WorkerSends, InHand, mainVars
  <2>2. Append(doneQ, job) = doneQ \o <<job>> /\ <<job>> \in Seq(Nat)
    BY <1>1, AppendIsConcat
  <2>3. (written \o doneQ) \o <<job>> = written \o (doneQ \o <<job>>)
    <3>1. written \in Seq(Nat) /\ doneQ \in Seq(Nat) /\ <<job>> \in Seq(Nat)
      BY <1>1, <2>2
    <3> QED BY <3>1, Associative, Zenon
  <2>4. written \o (doneQ \o <<job>>) \in Seq(Nat)
    BY <1>1, <2>2, ConcatProperties
  <2>5. (written \o (doneQ \o <<job>>)) \o <<>> = written \o (doneQ \o <<job>>)
    BY <2>4, ConcatEmptySeq
  <2> QED BY <2>1, <2>2, <2>3, <2>5 DEF Pipeline
<1>9. CASE WorkerExits
  <2>0. worker = "idle" \/ (worker = "busy" /\ ~doneOpen)
    BY <1>9, Zenon DEF WorkerExits
  <2>1. /\ UNCHANGED <<written, doneQ, rawQ, bufFrom>> /\ worker' = "exited"
    BY <1>9 DEF WorkerExits, mainVars, fileVars
  <2>2. InHand' = <<>>
    BY <2>1 DEF InHand
  <2>3. (written \o doneQ) \o <<>> = written \o doneQ
    BY <1>1, ConcatEmptySeq
  <2>4. Pipeline' = (written \o doneQ) \o rawQ
    BY <2>1, <2>2, <2>3 DEF Pipeline
  <2>5. CASE worker = "idle"
    BY <2>1, <2>3, <2>4, <2>5 DEF Pipeline, InHand
  <2>6. CASE worker = "busy" /\ ~doneOpen
    BY <1>9, <2>1, <2>4, <2>6 DEF Pipeline, InHand
  <2> QED BY <2>0, <2>5, <2>6
<1> QED
  BY <1>4, <1>5, <1>6, <1>7, <1>8, <1>9 DEF Next, MainStep, WorkerStep

(* What is in the buffer at each place of the row loop: bytes to flush     *)
(* wherever a flush is on its way, and nothing once it has been sent.      *)
BuffersFill ==
  /\ bufFrom <= bufTo
  /\ pc = "row" /\ row > 0 => bufFrom < bufTo
  /\ pc = "append" => remaining > 0
  /\ pc \in {"drain", "send"} /\ goal \in {"record", "split"} => remaining > 0
  /\ pc \in {"drain", "settle", "send"} => bufFrom < bufTo
  /\ pc = "settle" => goal = "group"
  /\ pc = "settleGroup" => bufFrom = bufTo

LEMMA BuffersFillInit == Init => BuffersFill
BY DEF Init, BuffersFill

LEMMA BuffersFillStep == Typed /\ BuffersFill /\ [Next]_vars => BuffersFill'
<1> SUFFICES ASSUME Typed, BuffersFill, [Next]_vars PROVE BuffersFill'
  OBVIOUS
<1> USE DEF BuffersFill
<1>1. /\ bufFrom \in Nat /\ bufTo \in Nat /\ remaining \in Nat /\ row \in Nat
      /\ goal \in {"group", "record", "split", "last"}
      /\ BlockSize \in Nat \ {0}
      /\ pc = "build" => rows[row + 1].len \in Nat \ {0}
  <2>1. rows \in Seq(RowType) /\ Len(rows) \in Nat
    BY DEF Typed, TypeOK
  <2>2. pc = "build" => rows[row + 1] \in RowType
    BY <2>1, ElementOfSeq DEF Typed, TypeOK
  <2> QED BY <2>2, SizesAssumption DEF Typed, TypeOK, RowType
<1>2. CASE NextRow
  <2>1. UNCHANGED <<bufFrom, bufTo, row, remaining>> /\ pc = "row"
    BY <1>2 DEF NextRow
  <2>2. \/ pc' = "send" /\ goal' = "last" /\ BufLen > 0
        \/ pc' = "close"
        \/ pc' = "drain" /\ goal' = "group" /\ BufLen > 0
        \/ pc' = "build"
    BY <1>2, Zenon DEF NextRow
  <2> QED BY <1>1, <2>1, <2>2 DEF BufLen
<1>3. CASE BuildRecord
  <2>1. UNCHANGED <<bufFrom, bufTo>> /\ remaining' > 0
    BY <1>1, <1>3 DEF BuildRecord
  <2>2. \/ pc' = "drain" /\ BufLen > 0
        \/ pc' = "append"
    BY <1>3, Zenon DEF BuildRecord
  <2> QED BY <1>1, <2>1, <2>2 DEF BufLen
<1>4. CASE AppendRecord
  <2>1. pc = "append" /\ UNCHANGED bufFrom
    BY <1>4 DEF AppendRecord
  <2>2. \/ bufTo' = bufTo + remaining /\ pc' = "row"
        \/ /\ remaining > BlockSize - BufLen
           /\ bufTo' = bufTo + (BlockSize - BufLen)
           /\ remaining' = remaining - (BlockSize - BufLen)
           /\ pc' = "drain"
    BY <1>1, <1>4 DEF AppendRecord, BufLen
  <2> QED BY <1>1, <2>1, <2>2 DEF BufLen
<1>5. CASE DrainCompleted
  <2>1. UNCHANGED <<bufFrom, bufTo, row, remaining, goal>> /\ pc = "drain"
    BY <1>5 DEF DrainCompleted, mainVars
  <2>2. \/ pc' \in {"drain", "send"}
        \/ pc' = "settle" /\ goal = "group"
    BY <1>5 DEF DrainCompleted
  <2> QED BY <1>1, <2>1, <2>2
<1>6. CASE Settle
  <2>1. UNCHANGED <<bufFrom, bufTo, row, remaining, goal>>
    BY <1>6 DEF Settle
  <2>2. \/ pc' = pc
        \/ pc = "settle" /\ pc' = "send"
        \/ pc' \in {"build", "join"}
    BY <1>6 DEF Settle
  <2> QED BY <1>1, <2>1, <2>2
<1>7. CASE SendBlock
  <2>1. /\ pc = "send" /\ bufFrom' = bufTo
        /\ UNCHANGED <<bufTo, row, remaining, goal>>
        /\ pc' = CASE goal = "group" -> "settleGroup"
                   [] goal = "last"  -> "close"
                   [] OTHER          -> "append"
    BY <1>7 DEF SendBlock
  <2> QED BY <1>1, <2>1
<1>8. CASE CloseRaw \/ JoinWorker \/ Fail
  <2>1. UNCHANGED <<bufFrom, bufTo>> /\ pc' \in {"settleLast", "done", "failed"}
    BY <1>8 DEF CloseRaw, JoinWorker, Fail, mainVars
  <2> QED BY <1>1, <2>1
<1>9. CASE WorkerStep \/ UNCHANGED vars
  <2>1. UNCHANGED <<bufFrom, bufTo, row, remaining, goal, pc>>
    BY <1>9 DEF WorkerStep, WorkerTakes, WorkerSends, WorkerExits, vars,
                mainVars
  <2> QED BY <1>1, <2>1
<1> QED
  BY <1>2, <1>3, <1>4, <1>5, <1>6, <1>7, <1>8, <1>9 DEF Next, MainStep

(* The blocks increase and the last one sent ends where the buffer begins. *)
PipelineEndsAtBuffer ==
  /\ Increasing(Pipeline) /\ Bounded(Pipeline, bufFrom)
  /\ pc = "settleGroup" => Pipeline # <<>>
  /\ pc # "failed" /\ Pipeline # <<>> => Pipeline[Len(Pipeline)] = bufFrom

Ordered == Accounted /\ BuffersFill /\ PipelineEndsAtBuffer

LEMMA OrderedInit == Init => Ordered
<1> SUFFICES ASSUME Init PROVE PipelineEndsAtBuffer
  BY AccountedInit, BuffersFillInit DEF Ordered
<1>1. written = <<>> /\ doneQ = <<>> /\ InHand = <<>> /\ rawQ = <<>>
      /\ pc = "row"
  BY DEF Init, InHand
<1>2. \A s \in Seq(Nat) : s \o <<>> = s
  BY ConcatEmptySeq
<1>3. Pipeline = <<>>
  BY <1>1, <1>2 DEF Pipeline
<1>4. \A i \in 1 .. Len(<<>>) : FALSE
  OBVIOUS
<1> QED BY <1>1, <1>3, <1>4 DEF PipelineEndsAtBuffer, Increasing, Bounded

LEMMA PipelineType == TypeOK => Pipeline \in Seq(Nat)
<1> SUFFICES ASSUME TypeOK PROVE Pipeline \in Seq(Nat)
  OBVIOUS
<1>1. written \in Seq(Nat) /\ doneQ \in Seq(Nat) /\ rawQ \in Seq(Nat)
  BY DEF TypeOK
<1>2. InHand \in Seq(Nat)
  BY DEF TypeOK, InHand
<1> QED BY <1>1, <1>2, ConcatProperties DEF Pipeline

LEMMA OrderedStep == Ordered /\ [Next]_vars => Ordered'
<1> SUFFICES ASSUME Ordered, [Next]_vars PROVE PipelineEndsAtBuffer'
  BY AccountedStep, BuffersFillStep DEF Ordered, Accounted
<1>1. /\ Pipeline \in Seq(Nat) /\ bufFrom \in Nat /\ bufTo \in Nat /\ job \in Nat
      /\ written \in Seq(Nat) /\ doneQ \in Seq(Nat) /\ rawQ \in Seq(Nat)
  BY PipelineType DEF Ordered, Accounted, Typed, TypeOK
<1>2. Increasing(Pipeline) /\ Bounded(Pipeline, bufFrom)
  BY DEF Ordered, PipelineEndsAtBuffer
<1>3. ASSUME Pipeline' = Pipeline, bufFrom' = bufFrom,
             pc' = "settleGroup" => pc = "settleGroup",
             pc = "failed" => pc' = "failed"
      PROVE  PipelineEndsAtBuffer'
  BY <1>3 DEF Ordered, PipelineEndsAtBuffer, Increasing, Bounded
<1>4. CASE UNCHANGED vars
  BY <1>3, <1>4 DEF vars, mainVars, fileVars, workerVars, ends, Pipeline, InHand
<1>5. CASE SendBlock /\ Pipeline' = Append(Pipeline, bufTo)
  <2>1. bufFrom < bufTo /\ bufFrom' = bufTo
    BY <1>5 DEF SendBlock, Ordered, BuffersFill
  <2>2. Increasing(Append(Pipeline, bufTo)) /\ Bounded(Append(Pipeline, bufTo), bufTo)
    BY <1>1, <1>2, <2>1, AppendIncreasing
  <2>3. /\ Append(Pipeline, bufTo) # <<>>
        /\ Append(Pipeline, bufTo)[Len(Append(Pipeline, bufTo))] = bufTo
    BY <1>1, <1>2, <2>1, AppendIncreasing
  <2>4. Increasing(Pipeline') /\ Bounded(Pipeline', bufFrom')
    BY <1>5, <2>1, <2>2
  <2>5. Pipeline' # <<>> /\ Pipeline'[Len(Pipeline')] = bufFrom'
    BY <1>5, <2>1, <2>3
  <2> QED
    BY <2>4, <2>5 DEF PipelineEndsAtBuffer
<1>6. CASE /\ WorkerExits /\ worker = "busy" /\ ~doneOpen
           /\ Pipeline = ((written \o doneQ) \o <<job>>) \o rawQ
           /\ Pipeline' = (written \o doneQ) \o rawQ
           /\ bufFrom' = bufFrom
  <2>1. pc = "failed" /\ pc' = "failed"
    BY <1>6 DEF Ordered, Accounted, EndsOpen, WorkerExits
  <2>2. written \o doneQ \in Seq(Nat)
    BY <1>1, ConcatProperties
  <2>3. /\ Increasing((written \o doneQ) \o rawQ)
        /\ Bounded((written \o doneQ) \o rawQ, bufFrom)
    BY <1>1, <1>2, <1>6, <2>2, GapKeepsOrder
  <2> QED
    BY <1>6, <2>1, <2>3 DEF PipelineEndsAtBuffer, Increasing, Bounded
<1>7. CASE Next /\ Pipeline' = Pipeline /\ bufFrom' = bufFrom
  <2>1. CASE SendBlock
    <3>1. bufFrom' = bufTo /\ bufFrom < bufTo
      BY <2>1 DEF SendBlock, Ordered, BuffersFill
    <3> QED BY <1>1, <1>7, <3>1
  <2>2. CASE ~SendBlock
    <3>1. pc' = "settleGroup" => pc = "settleGroup"
      BY <1>7, <2>2
         DEF Next, MainStep, WorkerStep, NextRow, BuildRecord, AppendRecord,
             DrainCompleted, Settle, CloseRaw, JoinWorker, Fail, WorkerTakes,
             WorkerSends, WorkerExits
    <3>2. pc = "failed" => pc' = "failed"
      BY <1>7, <2>2
         DEF Next, MainStep, WorkerStep, NextRow, BuildRecord, AppendRecord,
             DrainCompleted, Settle, CloseRaw, JoinWorker, Fail, WorkerTakes,
             WorkerSends, WorkerExits
    <3> QED BY <1>3, <1>7, <3>1, <3>2
  <2> QED BY <2>1, <2>2
<1> QED
  BY <1>4, <1>5, <1>6, <1>7, PipelineStep DEF Ordered, Accounted

LEMMA AlwaysOrdered == Spec => []Ordered
BY OrderedInit, OrderedStep, PTL DEF Spec

(* The blocks reach the file in the order of the records, none twice:      *)
(* whatever the interleaving, and also when the call fails.                *)
THEOREM BlocksInOrderTheorem == Spec => []BlocksInOrder
<1>1. Ordered => BlocksInOrder
  BY DEF Ordered, PipelineEndsAtBuffer, Increasing, BlocksInOrder
<1> QED BY <1>1, AlwaysOrdered, PTL

(* An index entry is taken only when everything before its group is in the *)
(* file.                                                                   *)
THEOREM IndexIsAccurateTheorem == Spec => IndexIsAccurate
<1>1. ASSUME Ordered, [Next]_vars, index' # index
      PROVE  pending = 0 /\ written # <<>> /\ Last(written) = bufTo
  <2>1. CASE NextRow
    <3>1. row > 0 /\ pc = "row" /\ ~(BufLen > 0)
      BY <1>1, <2>1, Zenon DEF NextRow, IsGroupStart
    <3>2. bufFrom < bufTo /\ bufFrom \in Nat /\ bufTo \in Nat
      BY <1>1, <3>1 DEF Ordered, BuffersFill, Accounted, Typed, TypeOK
    <3> QED BY <3>1, <3>2 DEF BufLen
  <2>2. CASE Settle
    <3>1. pc = "settleGroup" /\ ~(pending > 0)
      BY <1>1, <2>2, Zenon DEF Settle
    <3>2. pending = 0 /\ InFlight = 0
      BY <1>1, <3>1
         DEF Ordered, Accounted, Typed, TypeOK, PipelineAccounting
    <3>3. worker # "busy" /\ doneQ = <<>> /\ rawQ = <<>>
      BY <1>1, <3>2, QueueLengths DEF Ordered, Accounted, Typed, InFlight
    <3>4. written \in Seq(Nat) /\ InHand = <<>>
      BY <1>1, <3>3 DEF Ordered, Accounted, Typed, TypeOK, InHand
    <3>5. Pipeline = written
      <4>1. written \o <<>> = written
        BY <3>4, ConcatEmptySeq
      <4> QED BY <3>3, <3>4, <4>1 DEF Pipeline
    <3>6. written # <<>> /\ written[Len(written)] = bufTo
      BY <1>1, <3>1, <3>5 DEF Ordered, PipelineEndsAtBuffer, BuffersFill
    <3> QED BY <3>2, <3>6 DEF Last
  <2>3. CASE ~NextRow /\ ~Settle
    <3>1. BuildRecord \/ SendBlock => UNCHANGED index
      BY DEF BuildRecord, SendBlock
    <3>2. AppendRecord \/ DrainCompleted \/ CloseRaw \/ JoinWorker \/ Fail
            => UNCHANGED index
      BY DEF AppendRecord, DrainCompleted, CloseRaw, JoinWorker, Fail, mainVars
    <3>3. WorkerStep \/ UNCHANGED vars => UNCHANGED index
      BY DEF WorkerStep, WorkerTakes, WorkerSends, WorkerExits, vars, mainVars
    <3> QED
      BY <1>1, <2>3, <3>1, <3>2, <3>3 DEF Next, MainStep
  <2> QED BY <2>1, <2>2, <2>3
<1>2. Ordered /\ [Next]_vars
      => [index' # index =>
            pending = 0 /\ written # <<>> /\ Last(written) = bufTo]_vars
  BY <1>1
<1> QED BY <1>2, AlwaysOrdered, PTL DEF Spec, IndexIsAccurate
-----------------------------------------------------------------------------
(* The file is the one the sequential layout gives.                        *)

(* write_records closes its channel when every row is in the blocks sent,  *)
(* and returns when they have all come back.                               *)
Closing ==
  /\ pc = "row" => remaining = 0
  /\ pc = "drain" => goal # "last"
  /\ pc = "send" /\ goal = "last" => row = Len(rows) /\ remaining = 0
  /\ pc \in {"close", "settleLast", "join", "done"}
       => row = Len(rows) /\ remaining = 0 /\ bufFrom = bufTo
  /\ pc \in {"join", "done"} => pending = 0
  /\ pc # "failed" /\ Pipeline = <<>> => bufFrom = 0

LEMMA ClosingInit == Init => Closing
BY DEF Init, Closing

LEMMA ClosingStep == Ordered /\ Closing /\ [Next]_vars => Closing'
<1> SUFFICES ASSUME Ordered, Closing, [Next]_vars PROVE Closing'
  OBVIOUS
<1>1. /\ Typed /\ TypeOK /\ BuffersFill /\ Accounted
      /\ Pipeline \in Seq(Nat) /\ bufTo \in Nat /\ bufFrom \in Nat
  BY PipelineType DEF Ordered, Accounted, Typed, TypeOK
<1>2. pc' # "failed" /\ Pipeline' = <<>> => bufFrom' = 0
  <2>1. CASE Pipeline' = Pipeline /\ bufFrom' = bufFrom
    <3>1. pc = "failed" => pc' = "failed"
      BY DEF Next, MainStep, NextRow, BuildRecord, AppendRecord, DrainCompleted,
             Settle, SendBlock, CloseRaw, JoinWorker, Fail, WorkerStep,
             WorkerTakes, WorkerSends, WorkerExits, vars
    <3> QED BY <2>1, <3>1 DEF Closing
  <2>2. CASE Pipeline' = Append(Pipeline, bufTo)
    <3>1. Append(Pipeline, bufTo) # <<>>
      BY <1>1
    <3> QED BY <2>2, <3>1
  <2>3. CASE WorkerExits /\ ~doneOpen
    <3>1. pc = "failed" /\ pc' = pc
      BY <1>1, <2>3 DEF WorkerExits, Accounted, EndsOpen
    <3> QED BY <3>1
  <2>4. CASE UNCHANGED vars
    <3>1. Pipeline' = Pipeline /\ bufFrom' = bufFrom
      BY <2>4 DEF vars, mainVars, fileVars, workerVars, Pipeline, InHand
    <3> QED BY <2>1, <3>1
  <2> QED BY <1>1, <2>1, <2>2, <2>3, <2>4, PipelineStep
<1> DEFINE Rest ==
  /\ pc = "row" => remaining = 0
  /\ pc = "drain" => goal # "last"
  /\ pc = "send" /\ goal = "last" => row = Len(rows) /\ remaining = 0
  /\ pc \in {"close", "settleLast", "join", "done"}
       => row = Len(rows) /\ remaining = 0 /\ bufFrom = bufTo
  /\ pc \in {"join", "done"} => pending = 0
<1>3. Rest
  BY DEF Closing
<1>4. CASE NextRow
  <2>1. /\ pc = "row" /\ UNCHANGED <<rows, row, bufFrom, bufTo, remaining>>
        /\ \/ row = Len(rows) /\ goal' = "last" /\ (BufLen > 0) /\ pc' = "send"
           \/ row = Len(rows) /\ ~(BufLen > 0) /\ pc' = "close"
           \/ goal' = "group" /\ pc' = "drain"
           \/ pc' = "build"
    BY <1>4, Zenon DEF NextRow
  <2>2. ~(BufLen > 0) => bufFrom = bufTo
    BY <1>1 DEF BufLen, BuffersFill
  <2>3. Rest'
    BY <1>3, <2>1, <2>2
  <2> QED BY <1>2, <2>3 DEF Closing
<1>5. CASE BuildRecord \/ AppendRecord
  <2>1. \/ pc' = "drain" /\ goal' \in {"record", "split"}
        \/ pc' = "append"
        \/ pc' = "row" /\ remaining' = 0
    BY <1>5 DEF BuildRecord, AppendRecord
  <2> QED BY <1>2, <2>1 DEF Closing
<1>6. CASE DrainCompleted
  <2>1. /\ pc = "drain" /\ UNCHANGED <<rows, goal>>
        /\ pc' \in {"drain", "settle", "send"}
    BY <1>6 DEF DrainCompleted, mainVars
  <2> QED BY <1>2, <1>3, <2>1 DEF Closing
<1>7. CASE Settle
  <2>1. /\ UNCHANGED <<rows, row, bufFrom, bufTo, remaining, goal>>
        /\ pc \in {"settle", "settleGroup", "settleLast"}
        /\ \/ pc' = pc
           \/ pc = "settle" /\ pc' = "send"
           \/ pc' = "build"
           \/ pc = "settleLast" /\ pc' = "join" /\ ~(pending > 0) /\ pending' = pending
    BY <1>7 DEF Settle, fileVars
  <2>2. pc = "settle" => goal = "group"
    BY <1>1 DEF BuffersFill
  <2>3. pending \in Nat
    BY <1>1 DEF TypeOK
  <2> QED BY <1>2, <1>3, <2>1, <2>2, <2>3 DEF Closing
<1>8. CASE SendBlock
  <2>1. /\ pc = "send" /\ UNCHANGED <<rows, row, bufTo, remaining, goal>>
        /\ bufFrom' = bufTo
        /\ \/ goal = "last" /\ pc' = "close"
           \/ pc' \in {"settleGroup", "append"}
    BY <1>8 DEF SendBlock
  <2> QED BY <1>2, <1>3, <2>1 DEF Closing
<1>9. CASE CloseRaw \/ JoinWorker
  <2>1. /\ UNCHANGED <<rows, row, bufFrom, bufTo, remaining, pending>>
        /\ \/ pc = "close" /\ pc' = "settleLast"
           \/ pc = "join" /\ pc' = "done"
    BY <1>9 DEF CloseRaw, JoinWorker, mainVars, fileVars
  <2> QED BY <1>2, <1>3, <2>1 DEF Closing
<1>10. CASE Fail
  <2>1. pc' = "failed"
    BY <1>10 DEF Fail
  <2> QED BY <1>2, <2>1 DEF Closing
<1>11. CASE WorkerStep \/ UNCHANGED vars
  <2>1. UNCHANGED <<rows, row, bufFrom, bufTo, remaining, goal, pc, pending>>
    BY <1>11 DEF WorkerStep, WorkerTakes, WorkerSends, WorkerExits, vars,
                 mainVars, fileVars
  <2> QED BY <1>2, <1>3, <2>1 DEF Closing
<1> QED
  BY <1>4, <1>5, <1>6, <1>7, <1>8, <1>9, <1>10, <1>11 DEF Next, MainStep

LEMMA AlwaysClosing == Spec => [](Ordered /\ Closing)
<1>1. Init => Ordered /\ Closing
  BY OrderedInit, ClosingInit
<1>2. Ordered /\ Closing /\ [Next]_vars => (Ordered /\ Closing)'
  BY OrderedStep, ClosingStep
<1> QED BY <1>1, <1>2, PTL DEF Spec

(* What the pipeline and the buffer amount to: all blocks sent, wherever   *)
(* they are, the bytes serialised, and the index.                          *)
Current == [cut |-> Pipeline, end |-> bufTo, index |-> index]

(* The sequential layouts of the first rows of the frame.                  *)
Sequential == Layouts(Lengths)

(* What laying out row number "row" has still to do, by where the main     *)
(* thread is.                                                              *)
ToDo ==
  /\ pc = "row" => Current = Sequential[row]
  /\ pc = "build" => Current = OpenGroup(Sequential[row], row)
  /\ pc = "append" => AppendSplit(Current, remaining) = Sequential[row]
  /\ pc \in {"drain", "send"} /\ goal \in {"record", "split"}
       => AppendSplit(Flush(Current), remaining) = Sequential[row]
  /\ pc \in {"drain", "settle", "send"} /\ goal = "group"
       => Current = Sequential[row] /\ IsGroupStart(row)
  /\ pc = "settleGroup"
       => Current = Flush(Sequential[row]) /\ IsGroupStart(row)
  /\ pc = "send" /\ goal = "last" => Current = Sequential[row]
  /\ pc \in {"close", "settleLast", "join", "done"}
       => Current = Flush(Sequential[row])

RowsGood == \A r \in 1 .. row : ~rows[r].bad

Follows == pc # "failed" => Fits(Current) /\ RowsGood /\ ToDo

LEMMA SequentialStep ==
  ASSUME TypeOK
  PROVE  /\ Lengths \in Seq(Nat) /\ Len(Lengths) = Len(rows) /\ Len(rows) \in Nat
         /\ \A r \in 1 .. Len(rows) : Lengths[r] = rows[r].len /\ rows[r].len \in Nat \ {0}
         /\ Sequential[0] = EmptyLayout
         /\ \A r \in 1 .. Len(rows) :
              Sequential[r] = PlaceRecord(Sequential[r - 1], r - 1, rows[r].len)
<1>1. rows \in Seq(RowType) /\ Len(rows) \in Nat
  BY DEF TypeOK
<1>2. ASSUME NEW r \in 1 .. Len(rows) PROVE rows[r].len \in Nat \ {0}
  <2>1. rows[r] \in RowType
    BY <1>1, ElementOfSeq
  <2> QED BY <2>1 DEF RowType
<1>3. /\ Lengths \in Seq(Nat) /\ Len(Lengths) = Len(rows)
      /\ \A r \in 1 .. Len(rows) : Lengths[r] = rows[r].len
  BY <1>1, <1>2 DEF Lengths
<1> QED
  BY <1>1, <1>2, <1>3, LayoutsStep DEF Sequential

LEMMA CurrentShape ==
  ASSUME Ordered, Closing, pc # "failed"
  PROVE  /\ Current \in LayoutType
         /\ Current.cut = Pipeline /\ Current.end = bufTo /\ Current.index = index
         /\ LastCut(Current) = bufFrom /\ Buffered(Current) = BufLen
         /\ BufLen \in Nat /\ bufFrom \in Nat /\ bufTo = bufFrom + BufLen
<1>1. /\ Pipeline \in Seq(Nat) /\ bufTo \in Nat /\ bufFrom \in Nat
      /\ index \in Seq(Nat) /\ bufFrom <= bufTo
  BY PipelineType DEF Ordered, Accounted, Typed, TypeOK, BuffersFill
<1>2. /\ Current \in LayoutType
      /\ Current.cut = Pipeline /\ Current.end = bufTo /\ Current.index = index
  BY <1>1 DEF Current, LayoutType
<1>3. LastCut(Current) = bufFrom
  BY <1>2 DEF LastCut, Ordered, PipelineEndsAtBuffer, Closing
<1> QED
  BY <1>1, <1>2, <1>3 DEF Buffered, BufLen

LEMMA FollowsInit == Init => Follows
<1> SUFFICES ASSUME Init PROVE Fits(Current) /\ RowsGood /\ ToDo
  BY DEF Follows
<1>1. TypeOK /\ Ordered /\ Closing
  BY TypedInit, OrderedInit, ClosingInit DEF Typed
<1>2. Pipeline = <<>>
  <2>1. written = <<>> /\ doneQ = <<>> /\ InHand = <<>> /\ rawQ = <<>>
    BY DEF Init, InHand
  <2>2. \A s \in Seq(Nat) : s \o <<>> = s
    BY ConcatEmptySeq
  <2> QED BY <2>1, <2>2 DEF Pipeline
<1>3. Current = EmptyLayout
  BY <1>2 DEF Init, Current, EmptyLayout
<1>4. Sequential[0] = EmptyLayout
  BY <1>1, SequentialStep
<1>5. pc = "row" /\ row = 0
  BY DEF Init
<1> QED
  BY <1>3, <1>4, <1>5, EmptyFits DEF ToDo, RowsGood

(* A step that sends nothing, serialises nothing and indexes nothing.      *)
LEMMA SameCurrent ==
  ASSUME Pipeline' = Pipeline, UNCHANGED <<rows, row, bufTo, index>>
  PROVE  /\ Current' = Current /\ Sequential' = Sequential
         /\ Fits(Current)' = Fits(Current) /\ RowsGood' = RowsGood
BY DEF Current, Sequential, Lengths, RowsGood, Fits

LEMMA NextRowFollows ==
  ASSUME Ordered, Closing, Follows, NextRow
  PROVE  Follows'
<1>1. /\ pc = "row" /\ Pipeline' = Pipeline /\ UNCHANGED <<rows, row, bufTo>>
  BY DEF NextRow, fileVars, workerVars, Pipeline, InHand
<1>2. Fits(Current) /\ RowsGood /\ Current = Sequential[row]
  BY <1>1 DEF Follows, ToDo
<1>3. /\ Buffered(Current) = BufLen /\ BufLen \in Nat
      /\ row > 0 => BufLen > 0
  BY <1>1, CurrentShape DEF Ordered, BuffersFill
<1>4. IsGroupStart(row) => row > 0
  BY DEF IsGroupStart
<1>5. /\ index' = index
      /\ \/ pc' = "send" /\ goal' = "last"
         \/ pc' = "close" /\ ~(BufLen > 0)
         \/ pc' = "drain" /\ goal' = "group" /\ IsGroupStart(row)
         \/ pc' = "build" /\ ~IsGroupStart(row)
  BY <1>1, <1>3, <1>4, Zenon DEF NextRow
<1>6. /\ Current' = Current /\ Sequential' = Sequential
      /\ Fits(Current)' /\ RowsGood'
  BY <1>1, <1>2, <1>5, SameCurrent
<1>7. ~(BufLen > 0) => Current = Flush(Current)
  BY <1>3 DEF Flush
<1>8. ~IsGroupStart(row) => Current = OpenGroup(Sequential[row], row)
  BY <1>2 DEF OpenGroup
<1>9. ToDo'
  BY <1>1, <1>2, <1>5, <1>6, <1>7, <1>8 DEF ToDo
<1> QED BY <1>6, <1>9 DEF Follows

LEMMA BuildFollows ==
  ASSUME Ordered, Closing, Follows, BuildRecord
  PROVE  Follows'
<1> DEFINE len == rows[row + 1].len
<1>1. /\ pc = "build" /\ Pipeline' = Pipeline
      /\ UNCHANGED <<rows, bufTo, index>> /\ row' = row + 1 /\ remaining' = len
      /\ ~rows[row + 1].bad
  BY DEF BuildRecord, fileVars, workerVars, Pipeline, InHand
<1>2. Fits(Current) /\ RowsGood /\ Current = OpenGroup(Sequential[row], row)
  BY <1>1 DEF Follows, ToDo
<1>3. row \in Nat /\ row + 1 \in 1 .. Len(rows) /\ (row + 1) - 1 = row /\ TypeOK
  BY <1>1 DEF Ordered, Accounted, Typed, TypeOK
<1>4. Sequential[row + 1] = AddRecord(Current, len)
  BY <1>2, <1>3, SequentialStep DEF PlaceRecord
<1>5. Current' = Current /\ Sequential' = Sequential
  BY <1>1 DEF Current, Sequential, Lengths
<1>6. Buffered(Current) = BufLen
  BY <1>1, CurrentShape
<1>7. IF Overflows(Current, len) THEN goal' = "record" /\ pc' = "drain"
      ELSE pc' = "append"
  BY <1>1, <1>6 DEF BuildRecord, Overflows
<1>8. Sequential'[row'] =
        AppendSplit(IF Overflows(Current, len) THEN Flush(Current) ELSE Current,
                    len)
  BY <1>1, <1>4, <1>5 DEF AddRecord, MakeRoom
<1> HIDE DEF len
<1>9. ToDo'
  BY <1>1, <1>5, <1>7, <1>8 DEF ToDo
<1>10. RowsGood'
  <2>1. ASSUME NEW r \in 1 .. row + 1 PROVE ~rows[r].bad
    <3>1. r \in 1 .. row \/ r = row + 1
      BY <1>3
    <3> QED BY <1>1, <1>2, <3>1, Zenon DEF RowsGood
  <2> QED BY <1>1, <2>1, Zenon DEF RowsGood
<1>11. Fits(Current)'
  BY <1>2, <1>5 DEF Fits
<1> QED BY <1>9, <1>10, <1>11 DEF Follows

LEMMA AppendFollows ==
  ASSUME Ordered, Closing, Follows, AppendRecord
  PROVE  Follows'
<1> DEFINE space == BlockSize - BufLen
<1>1. /\ pc = "append" /\ Pipeline' = Pipeline /\ pc' # "failed"
      /\ UNCHANGED <<rows, row, index, bufFrom>>
      /\ \/ /\ remaining <= space /\ bufTo' = bufTo + remaining
            /\ pc' = "row"
         \/ /\ ~(remaining <= space) /\ bufTo' = bufTo + space
            /\ remaining' = remaining - space
            /\ goal' = "split" /\ pc' = "drain"
  BY DEF AppendRecord, fileVars, workerVars, Pipeline, InHand
<1>2. /\ Fits(Current) /\ RowsGood
      /\ AppendSplit(Current, remaining) = Sequential[row]
  BY <1>1 DEF Follows, ToDo
<1>3. /\ Current \in LayoutType /\ Current.cut = Pipeline
      /\ Current.end = bufTo /\ Current.index = index
      /\ LastCut(Current) = bufFrom /\ Buffered(Current) = BufLen
      /\ BufLen \in Nat /\ bufFrom \in Nat /\ bufTo = bufFrom + BufLen
  BY <1>1, CurrentShape
<1>4. /\ remaining \in Nat /\ BlockSize \in Nat \ {0} /\ BufLen <= BlockSize
      /\ Pipeline \in Seq(Nat) /\ index \in Seq(Nat)
  <2>1. TypeOK
    BY DEF Ordered, Accounted, Typed
  <2>2. Buffered(Current) \in 0 .. BlockSize
    BY <1>2 DEF Fits
  <2> QED BY <1>3, <2>1, <2>2, PipelineType, SizesAssumption DEF TypeOK
<1>5. Sequential' = Sequential /\ RowsGood' = RowsGood
  BY <1>1 DEF Sequential, Lengths, RowsGood
<1>6. /\ Current'.cut = Current.cut /\ Current'.index = Current.index
      /\ Current'.end = bufTo'
      /\ Current' = [cut |-> Pipeline, end |-> bufTo', index |-> index]
  BY <1>1, <1>3 DEF Current
<1>7. CASE remaining <= space
  <2>1. bufTo' = bufTo + remaining /\ pc' = "row"
    BY <1>1, <1>7
  <2>2. /\ AppendSplit(Current, remaining) \in LayoutType
        /\ AppendSplit(Current, remaining).cut = Current.cut
        /\ AppendSplit(Current, remaining).end = Current.end + remaining
        /\ AppendSplit(Current, remaining).index = Current.index
    <3>1. Buffered(Current) + remaining <= BlockSize
      BY <1>3, <1>4, <1>7
    <3> QED BY <1>2, <1>4, <3>1, AppendWhole
  <2>3. Current' \in LayoutType
    <3>1. bufTo' \in Nat
      BY <1>3, <1>4, <2>1
    <3> QED BY <1>4, <1>6, <3>1 DEF LayoutType
  <2>4. Current' = AppendSplit(Current, remaining)
    BY <1>3, <1>6, <2>1, <2>2, <2>3, SameLayout
  <2>5. Fits(AppendSplit(Current, remaining))
    BY <1>2, <1>4, AppendSplitFits
  <2>6. Fits(Current)'
    BY <2>4, <2>5 DEF Fits
  <2>7. ToDo'
    BY <1>1, <1>2, <1>5, <2>1, <2>4 DEF ToDo
  <2> QED BY <1>2, <1>5, <2>6, <2>7 DEF Follows
<1>8. CASE ~(remaining <= space)
  <2> DEFINE m == Flush(Current')
  <2>1. /\ bufTo' = bufFrom + BlockSize /\ remaining' = remaining - space
        /\ goal' = "split" /\ pc' = "drain" /\ bufTo' \in Nat
    BY <1>1, <1>3, <1>4, <1>8
  <2>2. /\ Current' \in LayoutType /\ LastCut(Current') = bufFrom
        /\ Buffered(Current') = BlockSize
    <3>1. Current' \in LayoutType
      BY <1>4, <1>6, <2>1 DEF LayoutType
    <3>2. LastCut(Current') = bufFrom
      BY <1>3, <1>6 DEF LastCut
    <3> QED BY <1>3, <1>4, <1>6, <2>1, <3>1, <3>2 DEF Buffered
  <2>3. Fits(Current')
    <3>1. \A b : BlockBegin(Current', b) = BlockBegin(Current, b)
      BY <1>6 DEF BlockBegin
    <3> QED BY <1>2, <1>4, <1>6, <2>2, <3>1 DEF Fits
  <2>4. Fits(m)
    BY <2>3, FlushFits
  <2>5. FilledUp(Current, m)
    <3>1. m = [Current' EXCEPT !.cut = Append(@, Current'.end)]
      BY <1>4, <2>2 DEF Flush
    <3>2. /\ m.cut = Append(Current'.cut, Current'.end)
          /\ m.end = Current'.end /\ m.index = Current'.index
      BY <1>6, <3>1
    <3> QED BY <1>3, <1>6, <2>1, <3>2 DEF FilledUp
  <2>6. Buffered(Current) + remaining > BlockSize
    BY <1>3, <1>4, <1>8
  <2>7. remaining' = remaining - (BlockSize - Buffered(Current))
    BY <1>3, <2>1
  <2> HIDE DEF m
  <2>8. AppendSplit(Current, remaining) = AppendSplit(m, remaining')
    BY <1>2, <1>4, <2>4, <2>5, <2>6, <2>7, AppendBlock
  <2>9. ToDo'
    BY <1>1, <1>2, <1>5, <2>1, <2>8 DEF ToDo, m
  <2>10. Fits(Current)'
    BY <2>3 DEF Fits
  <2> QED BY <1>2, <1>5, <2>9, <2>10 DEF Follows
<1> QED BY <1>7, <1>8

(* A block that is received moves along the pipeline and changes nothing   *)
(* else.                                                                   *)
LEMMA TakeDoneKeepsPipeline ==
  ASSUME TypeOK, TakeDone, UNCHANGED <<rawQ, worker, job>>
  PROVE  Pipeline' = Pipeline
<1>1. written \in Seq(Nat) /\ doneQ \in Seq(Nat)
  BY DEF TypeOK
<1>2. written' \o doneQ' = written \o doneQ
  BY <1>1, MoveHead DEF TakeDone
<1> QED BY <1>2 DEF Pipeline, InHand

LEMMA DrainFollows ==
  ASSUME Ordered, Closing, Follows, DrainCompleted
  PROVE  Follows'
<1>1. /\ pc = "drain" /\ UNCHANGED <<rows, row, bufTo, remaining, index, goal>>
      /\ UNCHANGED <<rawQ, worker, job>>
      /\ TakeDone \/ UNCHANGED <<written, doneQ>>
      /\ \/ pc' = "drain"
         \/ pc' = "settle" /\ goal = "group"
         \/ pc' = "send" /\ goal # "group"
  BY DEF DrainCompleted, mainVars, fileVars, workerVars
<1>2. Pipeline' = Pipeline
  <2>1. TypeOK
    BY DEF Ordered, Accounted, Typed
  <2>2. CASE TakeDone
    BY <1>1, <2>1, <2>2, TakeDoneKeepsPipeline
  <2>3. CASE UNCHANGED <<written, doneQ>>
    BY <1>1, <2>3 DEF Pipeline, InHand
  <2> QED BY <1>1, <2>2, <2>3
<1>3. Fits(Current) /\ RowsGood /\ ToDo
  BY <1>1 DEF Follows
<1>4. /\ Current' = Current /\ Sequential' = Sequential
      /\ Fits(Current)' /\ RowsGood'
  BY <1>1, <1>2, <1>3, SameCurrent
<1>5. goal # "last"
  BY <1>1 DEF Closing
<1>6. ToDo'
  BY <1>1, <1>3, <1>4, <1>5 DEF ToDo
<1> QED BY <1>4, <1>6 DEF Follows

(* Nothing is on its way when nothing is pending.                          *)
LEMMA AllWritten ==
  ASSUME Ordered, pc # "failed", pending = 0
  PROVE  Pipeline = written
<1>1. InFlight = 0
  BY DEF Ordered, Accounted, PipelineAccounting
<1>2. worker # "busy" /\ doneQ = <<>> /\ rawQ = <<>>
  BY <1>1, QueueLengths DEF Ordered, Accounted, Typed, InFlight
<1>3. written \in Seq(Nat) /\ InHand = <<>>
  BY <1>2 DEF Ordered, Accounted, Typed, TypeOK, InHand
<1> QED BY <1>2, <1>3, ConcatEmptySeq DEF Pipeline

LEMMA SettleFollows ==
  ASSUME Ordered, Closing, Follows, Settle
  PROVE  Follows'
<1>1. /\ pc \in {"settle", "settleGroup", "settleLast"}
      /\ UNCHANGED <<rows, row, bufTo, remaining, goal, rawQ, worker, job>>
  BY DEF Settle, workerVars
<1>2. Fits(Current) /\ RowsGood /\ ToDo /\ TypeOK
  BY <1>1 DEF Follows, Ordered, Accounted, Typed
<1>3. CASE pending > 0
  <2>1. TakeDone /\ UNCHANGED <<pc, index>>
    BY <1>3 DEF Settle
  <2>2. Pipeline' = Pipeline
    BY <1>1, <1>2, <2>1, TakeDoneKeepsPipeline
  <2>3. /\ Current' = Current /\ Sequential' = Sequential
        /\ Fits(Current)' /\ RowsGood'
    BY <1>1, <1>2, <2>1, <2>2, SameCurrent
  <2>4. ToDo'
    BY <1>1, <1>2, <2>1, <2>3 DEF ToDo
  <2> QED BY <2>3, <2>4 DEF Follows
<1>4. CASE ~(pending > 0)
  <2>1. /\ UNCHANGED <<written, doneQ, pending>>
        /\ \/ pc = "settle" /\ pc' = "send" /\ UNCHANGED index
           \/ pc = "settleGroup" /\ pc' = "build"
              /\ index' = Append(index, Len(written))
           \/ pc = "settleLast" /\ pc' = "join" /\ UNCHANGED index
    BY <1>1, <1>4 DEF Settle, fileVars
  <2>2. Pipeline' = Pipeline
    BY <1>1, <2>1 DEF Pipeline, InHand
  <2>3. pc = "settle" => goal = "group"
    BY DEF Ordered, BuffersFill
  <2>4. CASE pc # "settleGroup"
    <3>1. /\ Current' = Current /\ Sequential' = Sequential
          /\ Fits(Current)' /\ RowsGood'
      BY <1>1, <1>2, <2>1, <2>2, <2>4, SameCurrent
    <3>2. ToDo'
      BY <1>1, <1>2, <2>1, <2>3, <2>4, <3>1 DEF ToDo
    <3> QED BY <3>1, <3>2 DEF Follows
  <2>5. CASE pc = "settleGroup"
    <3> DEFINE f == Flush(Sequential[row])
               x == Append(f.index, Len(f.cut))
    <3>1. Current = f /\ IsGroupStart(row)
      BY <1>2, <2>5 DEF ToDo
    <3>2. pending = 0
      BY <1>2, <1>4 DEF TypeOK
    <3>3. Pipeline = written
      BY <2>5, <3>2, AllWritten
    <3>4. /\ Current \in LayoutType /\ Current.cut = Pipeline
          /\ Current.end = bufTo /\ Current.index = index
      BY <2>5, CurrentShape
    <3>5. index' = x
      BY <2>1, <2>5, <3>1, <3>3, <3>4
    <3>6. OpenGroup(Sequential[row], row) = [f EXCEPT !.index = x]
      BY <3>1 DEF OpenGroup
    <3>7. index' \in Seq(Nat) /\ Len(Pipeline) \in Nat
      <4>1. index \in Seq(Nat) /\ written \in Seq(Nat)
        BY <1>2 DEF TypeOK
      <4>2. Len(written) \in Nat
        BY <4>1, LenProperties
      <4>3. index' = Append(index, Len(written))
        BY <2>1, <2>5
      <4>4. Append(index, Len(written)) \in Seq(Nat)
        <5> HIDE DEF f, x
        <5> QED BY <4>1, <4>2, AppendProperties
      <4> QED BY <3>3, <4>2, <4>3, <4>4
    <3> DEFINE g == OpenGroup(Sequential[row], row)
    <3>8. /\ g \in LayoutType /\ g.cut = Pipeline /\ g.end = bufTo
          /\ g.index = index'
      <4> HIDE DEF x, f, g
      <4>1. g = [f EXCEPT !.index = x]
        BY <3>6 DEF g
      <4>2. f \in LayoutType /\ x \in Seq(Nat)
        BY <3>1, <3>4, <3>5, <3>7
      <4>3. g \in LayoutType /\ g.cut = f.cut /\ g.end = f.end /\ g.index = x
        BY <4>1, <4>2, WithIndex
      <4> QED BY <3>1, <3>4, <3>5, <4>3
    <3>9. Current' = [cut |-> Pipeline, end |-> bufTo, index |-> index']
      BY <1>1, <2>2 DEF Current
    <3>10. Current' = g
      <4> HIDE DEF g
      <4> QED BY <3>8, <3>9 DEF LayoutType
    <3>11. Sequential' = Sequential /\ RowsGood' = RowsGood
      BY <1>1 DEF Sequential, Lengths, RowsGood
    <3>12. Fits(Current')
      <4>1. /\ LastCut(g) = LastCut(Current) /\ Buffered(g) = Buffered(Current)
            /\ \A b : BlockBegin(g, b) = BlockBegin(Current, b)
        BY <3>4, <3>8 DEF LastCut, Buffered, BlockBegin
      <4> HIDE DEF g
      <4> QED BY <1>2, <3>4, <3>8, <3>10, <4>1 DEF Fits
    <3>13. ToDo'
      BY <1>1, <2>1, <2>5, <3>10, <3>11 DEF ToDo
    <3>14. Fits(Current)'
      BY <3>12 DEF Fits
    <3> QED BY <1>2, <3>11, <3>13, <3>14 DEF Follows
  <2> QED BY <2>4, <2>5
<1> QED BY <1>3, <1>4

LEMMA SendFollows ==
  ASSUME Ordered, Closing, Follows, SendBlock
  PROVE  Follows'
<1>1. /\ pc = "send" /\ bufFrom' = bufTo
      /\ UNCHANGED <<rows, row, bufTo, remaining, index, goal>>
      /\ \/ goal = "group" /\ pc' = "settleGroup"
         \/ goal = "last" /\ pc' = "close"
         \/ goal \in {"record", "split"} /\ pc' = "append"
  BY DEF SendBlock, Ordered, Accounted, Typed, TypeOK
<1>2. /\ Current \in LayoutType /\ Current.cut = Pipeline
      /\ Current.end = bufTo /\ Current.index = index
      /\ Buffered(Current) = BufLen
      /\ bufFrom \in Nat /\ bufTo = bufFrom + BufLen /\ BufLen \in Nat
  BY <1>1, CurrentShape
<1>3. bufFrom < bufTo
  BY <1>1 DEF Ordered, BuffersFill
<1>4. Pipeline' = Append(Pipeline, bufTo)
  <2>1. Typed /\ Next
    BY DEF Ordered, Accounted, Next, MainStep
  <2>2. bufFrom' # bufFrom
    BY <1>1, <1>2, <1>3
  <2> QED BY <2>1, <2>2, PipelineStep
<1>5. Current' = Flush(Current)
  <2>1. Flush(Current) = [Current EXCEPT !.cut = Append(@, Current.end)]
    BY <1>2, <1>3 DEF Flush
  <2> QED BY <1>1, <1>4, <2>1 DEF Current
<1>6. Fits(Current) /\ RowsGood /\ ToDo
  BY <1>1 DEF Follows
<1>7. Sequential' = Sequential /\ RowsGood' = RowsGood
  BY <1>1 DEF Sequential, Lengths, RowsGood
<1>8. Fits(Current)'
  <2>1. Fits(Flush(Current))
    BY <1>6, FlushFits
  <2> QED BY <1>5, <2>1 DEF Fits
<1>9. ToDo'
  BY <1>1, <1>5, <1>6, <1>7 DEF ToDo
<1> QED BY <1>6, <1>7, <1>8, <1>9 DEF Follows

LEMMA OthersFollow ==
  ASSUME Ordered, Closing, Follows,
         CloseRaw \/ JoinWorker \/ WorkerStep \/ Fail \/ UNCHANGED vars
  PROVE  Follows'
<1> SUFFICES ASSUME pc' # "failed" PROVE Follows'
  BY DEF Follows
<1>1. /\ UNCHANGED <<rows, row, bufTo, remaining, index, goal>>
      /\ \/ pc' = pc
         \/ pc = "close" /\ pc' = "settleLast"
         \/ pc = "join" /\ pc' = "done"
  BY DEF CloseRaw, JoinWorker, Fail, WorkerStep, WorkerTakes, WorkerSends,
         WorkerExits, vars, mainVars
<1>2. pc # "failed"
  BY <1>1
<1>3. Pipeline' = Pipeline
  <2>1. CASE UNCHANGED vars
    BY <2>1 DEF vars, fileVars, workerVars, Pipeline, InHand
  <2>2. CASE Next
    <3>1. Typed /\ doneOpen
      BY <1>2 DEF Ordered, Accounted, EndsOpen
    <3>2. ~SendBlock
      BY <1>1 DEF SendBlock
    <3> QED BY <2>2, <3>1, <3>2, PipelineStep
  <2> QED BY <2>1, <2>2 DEF Next, MainStep
<1>4. Fits(Current) /\ RowsGood /\ ToDo
  BY <1>2 DEF Follows
<1>5. /\ Current' = Current /\ Sequential' = Sequential
      /\ Fits(Current)' /\ RowsGood'
  BY <1>1, <1>3, <1>4, SameCurrent
<1>6. ToDo'
  BY <1>1, <1>4, <1>5 DEF ToDo
<1> QED BY <1>5, <1>6 DEF Follows

LEMMA FollowsStep ==
  Ordered /\ Closing /\ Follows /\ [Next]_vars => Follows'
BY NextRowFollows, BuildFollows, AppendFollows, DrainFollows, SettleFollows,
   SendFollows, OthersFollow DEF Next, MainStep

LEMMA AlwaysFollows == Spec => [](Ordered /\ Closing /\ Follows)
<1>1. Init => Ordered /\ Closing /\ Follows
  BY OrderedInit, ClosingInit, FollowsInit
<1>2. Ordered /\ Closing /\ Follows /\ [Next]_vars
        => (Ordered /\ Closing /\ Follows)'
  BY OrderedStep, ClosingStep, FollowsStep
<1> QED BY <1>1, <1>2, PTL DEF Spec

(* What a finished write_records has written, and its index, is the layout *)
(* of the rows one after the other.                                        *)
LEMMA FinishedFile ==
  ASSUME Ordered, Closing, Follows, pc = "done"
  PROVE  /\ written = LayoutOf(Lengths).cut /\ index = LayoutOf(Lengths).index
         /\ RowsGood /\ row = Len(rows)
<1>1. row = Len(rows) /\ pending = 0
  BY DEF Closing
<1>2. Len(Lengths) = Len(rows)
  BY SequentialStep DEF Ordered, Accounted, Typed
<1>3. Current = LayoutOf(Lengths) /\ RowsGood
  BY <1>1, <1>2 DEF Follows, ToDo, LayoutOf, Sequential
<1>4. Current.cut = written /\ Current.index = index
  BY <1>1, AllWritten, CurrentShape
<1> QED BY <1>1, <1>3, <1>4

(* Pipelining shows in nothing: for every frame, block size, group size,   *)
(* channel capacity and interleaving of the two threads, write_records     *)
(* leaves the blocks and the index that writing row after row would.       *)
THEOREM SameAsSequentialTheorem == Spec => []SameAsSequential
<1>1. Ordered /\ Closing /\ Follows => SameAsSequential
  BY FinishedFile DEF SameAsSequential
<1> QED BY <1>1, AlwaysFollows, PTL

-----------------------------------------------------------------------------
(* write_yxdb_impl around write_records.                                   *)

(* A step of the frame writer is a step of write_records or leaves its     *)
(* state alone.                                                            *)
LEMMA FrameStep == [FrameNext]_frameVars => [Next]_vars
<1>1. WriteRecords => Next
  BY DEF WriteRecords, Next
<1>2. CompressThread => Next
  BY DEF CompressThread, Next
<1>3. WriteHeader \/ WriteIndex \/ WritePosition \/ FrameFails => UNCHANGED vars
  BY DEF WriteHeader, WriteIndex, WritePosition, FrameFails
<1> QED BY <1>1, <1>2, <1>3 DEF FrameNext, frameVars

LEMMA AlwaysOrderedInFrame == FrameSpec => []Ordered
<1>1. FrameInit => Ordered
  BY OrderedInit DEF FrameInit
<1>2. Ordered /\ [FrameNext]_frameVars => Ordered'
  BY FrameStep, OrderedStep
<1> QED BY <1>1, <1>2, PTL DEF FrameSpec

(* The blocks reach the file in the order of the records also where the    *)
(* header was written first and errors may come from outside               *)
(* write_records.                                                          *)
THEOREM FrameBlocksInOrder == FrameSpec => []BlocksInOrder
<1>1. Ordered => BlocksInOrder
  BY DEF Ordered, PipelineEndsAtBuffer, Increasing, BlocksInOrder
<1> QED BY <1>1, AlwaysOrderedInFrame, PTL

(* And the two threads never wait for each other.                          *)
THEOREM FrameNoMutualWait ==
  ASSUME ChannelCapacity > 1
  PROVE  FrameSpec => []NoMutualWait
<1>1. Accounted => NoMutualWait
  BY QueueLengths
     DEF Accounted, Typed, TypeOK, PipelineAccounting, InFlight, EndsOpen,
         NoMutualWait
<1>2. Ordered => Accounted
  BY DEF Ordered
<1> QED BY <1>1, <1>2, AlwaysOrderedInFrame, PTL

-----------------------------------------------------------------------------
(* The steps of write_yxdb_impl come in order.                             *)
FrameOrder ==
  /\ stage \in {"header", "records"} => indexPos = 0
  /\ stage \in {"index", "position", "done"} => pc = "done"
  /\ stage \in {"position", "done"} => trailer = index
  /\ stage = "done" => indexPos = Len(written)
  /\ indexPos # 0 =>
       stage \in {"done", "failed"} /\ pc = "done" /\ trailer = index /\ indexPos = Len(written)

Framed == Ordered /\ Closing /\ FrameOrder

(* A header that names an index: every row was serialised, and every byte  *)
(* of the stream and the index of its groups are in the file.              *)
NamedIndexIsWhole ==
  indexPos # 0 =>
    /\ trailer = index /\ indexPos = Len(written)
    /\ row = Len(rows) /\ remaining = 0
    /\ written # <<>> /\ Last(written) = bufTo

LEMMA FrameOrderStep ==
  FrameOrder /\ [FrameNext]_frameVars => FrameOrder'
<1> SUFFICES ASSUME FrameOrder, [FrameNext]_frameVars PROVE FrameOrder'
  OBVIOUS
<1> USE DEF FrameOrder
<1>1. CASE WriteHeader
  BY <1>1 DEF WriteHeader, indexVars, vars, mainVars, fileVars
<1>2. CASE WriteRecords
  <2>1. stage = "records" /\ UNCHANGED <<indexPos, trailer>>
    BY <1>2 DEF WriteRecords, indexVars
  <2>2. \/ pc' = "done" /\ stage' = "index"
        \/ stage' \in {"failed", "records"}
    BY <1>2 DEF WriteRecords
  <2> QED BY <2>1, <2>2
<1>3. CASE CompressThread
  <2>1. UNCHANGED <<stage, indexPos, trailer>>
    BY <1>3 DEF CompressThread, indexVars
  <2>2. UNCHANGED <<pc, index, written>>
    BY <1>3 DEF CompressThread, WorkerStep, WorkerTakes, WorkerSends,
                WorkerExits, mainVars, fileVars
  <2> QED BY <2>1, <2>2
<1>4. CASE WriteIndex
  BY <1>4 DEF WriteIndex, vars, mainVars, fileVars
<1>5. CASE WritePosition
  BY <1>5 DEF WritePosition, vars, mainVars, fileVars
<1>6. CASE FrameFails
  <2>1. /\ stage \in {"header", "index", "position"} /\ stage' = "failed"
        /\ UNCHANGED <<pc, index, written, trailer>>
        /\ \/ indexPos' = indexPos
           \/ stage = "position" /\ indexPos' = Len(written)
    BY <1>6 DEF FrameFails, vars, mainVars, fileVars
  <2> QED BY <2>1
<1>7. CASE UNCHANGED frameVars
  BY <1>7 DEF frameVars, indexVars, vars, mainVars, fileVars
<1> QED BY <1>1, <1>2, <1>3, <1>4, <1>5, <1>6, <1>7 DEF FrameNext

LEMMA AlwaysFramed == FrameSpec => []Framed
<1>1. FrameInit => Framed
  BY OrderedInit, ClosingInit DEF FrameInit, Framed, FrameOrder
<1>2. Framed /\ [FrameNext]_frameVars => Framed'
  BY FrameStep, OrderedStep, ClosingStep, FrameOrderStep DEF Framed
<1> QED BY <1>1, <1>2, PTL DEF FrameSpec

(* A header that names an index is never written too early: whatever       *)
(* failed before, in either thread, it is not there unless every row and   *)
(* the whole index are.                                                    *)
THEOREM NamedIndexIsWholeTheorem == FrameSpec => []NamedIndexIsWhole
<1>1. ASSUME Framed, indexPos # 0
      PROVE  /\ trailer = index /\ indexPos = Len(written)
             /\ row = Len(rows) /\ remaining = 0
             /\ written # <<>> /\ Last(written) = bufTo
  <2>1. /\ pc = "done" /\ trailer = index /\ indexPos = Len(written)
        /\ row = Len(rows) /\ remaining = 0 /\ bufFrom = bufTo /\ pending = 0
    BY <1>1 DEF Framed, FrameOrder, Closing
  <2>2. InFlight = 0
    BY <1>1, <2>1 DEF Framed, Ordered, Accounted, PipelineAccounting
  <2>3. worker # "busy" /\ doneQ = <<>> /\ rawQ = <<>>
    BY <1>1, <2>2, QueueLengths DEF Framed, Ordered, Accounted, Typed, InFlight
  <2>4. written \in Seq(Nat) /\ InHand = <<>>
    BY <1>1, <2>3 DEF Framed, Ordered, Accounted, Typed, TypeOK, InHand
  <2>5. Pipeline = written
    BY <2>3, <2>4, ConcatEmptySeq DEF Pipeline
  <2>6. written # <<>>
    BY <1>1, <2>1, <2>4, EmptySeq
  <2> QED BY <1>1, <2>1, <2>5, <2>6
          DEF Framed, Ordered, PipelineEndsAtBuffer, Last
<1>2. Framed => NamedIndexIsWhole
  BY <1>1 DEF NamedIndexIsWhole
<1> QED BY <1>2, AlwaysFramed, PTL

-----------------------------------------------------------------------------
(* Where the records lie in the stream.                                    *)

(* Offset is defined by itself; there is such a function.                  *)
LEMMA OffsetStep ==
  ASSUME TypeOK
  PROVE  /\ Offset[0] = 0
         /\ \A n \in 1 .. Len(rows) : Offset[n] = Offset[n - 1] + rows[n].len
<1> DEFINE Value(f, n) == IF n = 0 THEN 0 ELSE f[n - 1] + Lengths[n]
           Chain(f, k) == f = [n \in 0 .. k |-> Value(f, n)]
           S == {k \in Nat : \E f : Chain(f, k)}
<1>1. 0 \in S
  <2> DEFINE f == [n \in 0 .. 0 |-> 0]
  <2>1. Chain(f, 0)
    OBVIOUS
  <2> HIDE DEF f, Chain
  <2> QED
    BY <2>1
<1>2. ASSUME NEW k \in Nat, k \in S PROVE k + 1 \in S
  <2>1. PICK f : Chain(f, k)
    BY <1>2
  <2> DEFINE g == [n \in 0 .. k + 1 |-> IF n = k + 1 THEN Value(f, k + 1) ELSE f[n]]
  <2>2. ASSUME NEW n \in 0 .. k + 1 PROVE g[n] = Value(g, n)
    <3>1. CASE n = 0
      <4>1. g[n] = f[0] /\ 0 \in 0 .. k
        BY <3>1
      <4> QED BY <2>1, <3>1, <4>1
    <3>2. CASE n # 0
      <4>1. n - 1 \in 0 .. k /\ n - 1 # k + 1 /\ n - 1 \in 0 .. k + 1
        BY <3>2
      <4>2. g[n - 1] = f[n - 1]
        BY <4>1
      <4>3. Value(g, n) = Value(f, n)
        BY <4>2, <3>2
      <4>4. g[n] = Value(f, n)
        <5>1. CASE n = k + 1
          BY <5>1
        <5>2. CASE n # k + 1
          <6>1. n \in 0 .. k /\ g[n] = f[n]
            BY <5>2
          <6> HIDE DEF Value, g
          <6> QED BY <2>1, <6>1
        <5> QED BY <5>1, <5>2
      <4> QED BY <4>3, <4>4
    <3> QED BY <3>1, <3>2
  <2>3. Chain(g, k + 1)
    <3>1. g = [n \in 0 .. k + 1 |-> g[n]]
      OBVIOUS
    <3> HIDE DEF g, Value
    <3> QED BY <2>2, <3>1
  <2> HIDE DEF g, Chain
  <2> QED
    BY <2>3
<1>3. /\ Len(rows) \in Nat
      /\ \A r \in 1 .. Len(rows) : Lengths[r] = rows[r].len
  BY SequentialStep
<1>4. Len(rows) \in S
  <2> HIDE DEF S
  <2> QED BY <1>1, <1>2, <1>3, SetInduction
<1>5. Offset = CHOOSE f : Chain(f, Len(rows))
  BY DEF Offset
<1>6. Chain(Offset, Len(rows))
  <2> HIDE DEF Chain
  <2> QED BY <1>4, <1>5
<1>7. ASSUME NEW n \in 0 .. Len(rows) PROVE Offset[n] = Value(Offset, n)
  <2> HIDE DEF Value
  <2> QED BY <1>6
<1>8. Offset[0] = 0
  <2>1. 0 \in 0 .. Len(rows)
    BY <1>3
  <2> QED BY <1>7, <2>1
<1>9. ASSUME NEW n \in 1 .. Len(rows)
      PROVE  Offset[n] = Offset[n - 1] + rows[n].len
  <2>1. n \in 0 .. Len(rows) /\ n # 0
    BY <1>3
  <2> QED BY <1>3, <1>7, <2>1
<1> QED
  BY <1>8, <1>9

(* The sequential layout of the first n rows ends where row n + 1 starts,  *)
(* and all its blocks fit.                                                 *)
LEMMA OffsetIsEnd ==
  ASSUME TypeOK
  PROVE  \A n \in 0 .. Len(rows) :
           /\ Offset[n] \in Nat
           /\ Fits(Sequential[n]) /\ Sequential[n].end = Offset[n]
<1> DEFINE Here(n) == /\ Offset[n] \in Nat
                      /\ Fits(Sequential[n]) /\ Sequential[n].end = Offset[n]
           S == {n \in Nat : n <= Len(rows) => Here(n)}
<1>1. /\ Len(rows) \in Nat
      /\ \A r \in 1 .. Len(rows) : rows[r].len \in Nat \ {0}
      /\ Sequential[0] = EmptyLayout
      /\ \A r \in 1 .. Len(rows) :
           Sequential[r] = PlaceRecord(Sequential[r - 1], r - 1, rows[r].len)
  BY SequentialStep
<1>2. 0 \in S
  BY <1>1, OffsetStep, EmptyFits DEF EmptyLayout
<1>3. ASSUME NEW n \in Nat, n \in S PROVE n + 1 \in S
  <2> SUFFICES ASSUME n + 1 <= Len(rows) PROVE Here(n + 1)
    OBVIOUS
  <2>1. /\ n + 1 \in 1 .. Len(rows) /\ (n + 1) - 1 = n /\ Here(n)
        /\ rows[n + 1].len \in Nat
    BY <1>1, <1>3
  <2> DEFINE l == Sequential[n]
             len == rows[n + 1].len
             m == MakeRoom(OpenGroup(l, n), len)
  <2>2. Sequential[n + 1] = AppendSplit(m, len)
    BY <1>1, <2>1 DEF PlaceRecord, AddRecord
  <2>3. Fits(l) /\ l.end = Offset[n] /\ Offset[n] \in Nat /\ len \in Nat
    BY <2>1
  <2>4. Offset[n + 1] = Offset[n] + len
    BY <2>1, OffsetStep
  <2> HIDE DEF l, len
  <2>5. Fits(m) /\ m.end = l.end
    BY <2>3, OpenGroupFits, MakeRoomFits
  <2> HIDE DEF m
  <2>6. Fits(AppendSplit(m, len)) /\ AppendSplit(m, len).end = m.end + len
    BY <2>3, <2>5, AppendSplitFits
  <2> QED BY <2>2, <2>3, <2>4, <2>5, <2>6
<1>4. \A n \in Nat : n \in S
  <2> HIDE DEF S
  <2> QED BY <1>2, <1>3, SetInduction
<1> QED
  BY <1>1, <1>4

(* A later row starts further on.                                          *)
LEMMA OffsetsRise ==
  ASSUME TypeOK, NEW m \in 0 .. Len(rows)
  PROVE  \A n \in 0 .. Len(rows) : m < n => Offset[m] < Offset[n]
<1> DEFINE S == {n \in Nat : n <= Len(rows) /\ m < n => Offset[m] < Offset[n]}
<1>1. /\ Len(rows) \in Nat
      /\ \A r \in 1 .. Len(rows) : rows[r].len \in Nat \ {0}
  BY SequentialStep
<1>2. 0 \in S
  BY <1>1
<1>3. ASSUME NEW n \in Nat, n \in S PROVE n + 1 \in S
  <2> SUFFICES ASSUME n + 1 <= Len(rows), m < n + 1 PROVE Offset[m] < Offset[n + 1]
    OBVIOUS
  <2>1. /\ n + 1 \in 1 .. Len(rows) /\ (n + 1) - 1 = n /\ n \in 0 .. Len(rows)
    BY <1>1
  <2>2. Offset[n + 1] = Offset[n] + rows[n + 1].len /\ rows[n + 1].len \in Nat \ {0}
    BY <1>1, <2>1, OffsetStep
  <2>3. Offset[m] \in Nat /\ Offset[n] \in Nat
    BY <2>1, OffsetIsEnd
  <2>4. Offset[m] <= Offset[n]
    <3>1. m = n \/ m < n
      OBVIOUS
    <3> QED BY <1>3, <2>1, <2>3, <3>1
  <2> QED BY <2>2, <2>3, <2>4
<1>4. \A n \in Nat : n \in S
  <2> HIDE DEF S
  <2> QED BY <1>2, <1>3, SetInduction
<1> QED
  BY <1>1, <1>4

-----------------------------------------------------------------------------
(* A file that holds the announced records is the whole frame.             *)

WrittenEnd == IF written = <<>> THEN 0 ELSE Last(written)

(* The blocks in the file are the first ones of the pipeline.              *)
LEMMA WrittenComesFirst ==
  ASSUME TypeOK
  PROVE  /\ Len(written) \in Nat /\ Len(doneQ) \in Nat
         /\ Pipeline \in Seq(Nat) /\ Len(Pipeline) \in Nat
         /\ Len(written) + Len(doneQ) <= Len(Pipeline)
         /\ \A i \in 1 .. Len(written) : Pipeline[i] = written[i] /\ written[i] \in Nat
<1> DEFINE a == written \o doneQ
           b == a \o InHand
<1>1. /\ written \in Seq(Nat) /\ doneQ \in Seq(Nat) /\ rawQ \in Seq(Nat)
      /\ InHand \in Seq(Nat)
  BY DEF TypeOK, InHand
<1>2. /\ Len(written) \in Nat /\ Len(doneQ) \in Nat /\ Len(InHand) \in Nat
      /\ Len(rawQ) \in Nat
      /\ \A i \in 1 .. Len(written) : written[i] \in Nat
  BY <1>1, LenProperties, ElementOfSeq
<1>3. /\ a \in Seq(Nat) /\ Len(a) = Len(written) + Len(doneQ)
      /\ \A i \in 1 .. Len(written) : a[i] = written[i]
  BY <1>1, ConcatAt
<1> HIDE DEF a
<1>4. /\ b \in Seq(Nat) /\ Len(b) = Len(a) + Len(InHand)
      /\ \A i \in 1 .. Len(a) : b[i] = a[i]
  BY <1>1, <1>3, ConcatAt
<1> HIDE DEF b
<1>5. /\ Pipeline \in Seq(Nat) /\ Len(Pipeline) = Len(b) + Len(rawQ)
      /\ \A i \in 1 .. Len(b) : Pipeline[i] = b[i]
  <2>1. Pipeline = b \o rawQ
    BY DEF Pipeline, a, b
  <2> QED BY <1>1, <1>4, <2>1, ConcatAt
<1>6. ASSUME NEW i \in 1 .. Len(written) PROVE Pipeline[i] = written[i]
  <2>1. i \in 1 .. Len(a) /\ i \in 1 .. Len(b)
    BY <1>2, <1>3, <1>4
  <2> QED BY <1>3, <1>4, <1>5, <2>1
<1>7. Len(written) + Len(doneQ) <= Len(Pipeline) /\ Len(Pipeline) \in Nat
  BY <1>2, <1>3, <1>4, <1>5
<1> QED BY <1>2, <1>5, <1>6, <1>7

(* The file ends no further on than the blocks that were sent; when it     *)
(* ends there, they are all in it.                                         *)
LEMMA WrittenEndsInPipeline ==
  ASSUME Ordered
  PROVE  /\ WrittenEnd \in Nat /\ WrittenEnd <= bufFrom
         /\ (written # <<>> /\ WrittenEnd = bufFrom) => Pipeline = written
<1> DEFINE n == Len(written)
           k == Len(Pipeline)
<1>1. /\ n \in Nat /\ k \in Nat /\ n <= k /\ Pipeline \in Seq(Nat)
      /\ written \in Seq(Nat) /\ bufFrom \in Nat
      /\ \A i \in 1 .. n : Pipeline[i] = written[i] /\ written[i] \in Nat
  BY WrittenComesFirst DEF Ordered, Accounted, Typed, TypeOK
<1>2. /\ \A i \in 1 .. k : Pipeline[i] <= bufFrom
      /\ \A i \in 1 .. k : \A j \in 1 .. k : i < j => Pipeline[i] < Pipeline[j]
  BY DEF Ordered, PipelineEndsAtBuffer, Increasing, Bounded
<1>3. CASE written = <<>>
  BY <1>1, <1>3 DEF WrittenEnd
<1>4. CASE written # <<>>
  <2>1. n \in 1 .. n /\ n \in 1 .. k
    BY <1>1, <1>4, EmptySeq
  <2>2. WrittenEnd = Pipeline[n] /\ WrittenEnd \in Nat
    BY <1>1, <1>4, <2>1 DEF WrittenEnd, Last
  <2>3. WrittenEnd <= bufFrom
    BY <1>2, <2>1, <2>2
  <2>4. ASSUME WrittenEnd = bufFrom PROVE Pipeline = written
    <3>1. n = k
      <4> SUFFICES ASSUME n < k PROVE FALSE
        BY <1>1
      <4>1. k \in 1 .. k /\ Pipeline[n] < Pipeline[k] /\ Pipeline[k] <= bufFrom
        BY <1>1, <1>2, <2>1
      <4>2. Pipeline[k] \in Nat
        BY <1>1, <4>1, ElementOfSeq
      <4> QED BY <1>1, <2>2, <2>4, <4>1, <4>2
    <3> QED BY <1>1, <3>1, SeqEqual
  <2> QED BY <2>2, <2>3, <2>4
<1> QED BY <1>3, <1>4

(* The bytes serialised end no further on than the rows taken up.          *)
LEMMA CurrentEnd ==
  ASSUME Ordered, Closing, Follows, pc # "failed"
  PROVE  /\ bufTo <= Offset[row]
         /\ pc = "append" => bufTo < Offset[row]
<1>1. /\ TypeOK /\ row \in 0 .. Len(rows) /\ remaining \in Nat /\ bufTo \in Nat
      /\ Fits(Sequential[row]) /\ Sequential[row].end = Offset[row]
      /\ Offset[row] \in Nat
  BY OffsetIsEnd DEF Ordered, Accounted, Typed, TypeOK
<1>2. Fits(Current) /\ Current.end = bufTo /\ ToDo
  BY CurrentShape DEF Follows
<1>3. CASE pc = "append"
  <2>1. AppendSplit(Current, remaining).end = bufTo + remaining /\ remaining > 0
    BY <1>1, <1>2, <1>3, AppendSplitFits DEF Ordered, BuffersFill
  <2>2. bufTo + remaining = Offset[row]
    BY <1>1, <1>2, <1>3, <2>1 DEF ToDo
  <2> QED BY <1>1, <2>1, <2>2
<1>4. CASE pc \in {"drain", "send"} /\ goal \in {"record", "split"}
  <2>1. Fits(Flush(Current)) /\ Flush(Current).end = bufTo
    BY <1>2, FlushFits
  <2>2. AppendSplit(Flush(Current), remaining).end = bufTo + remaining
    BY <1>1, <2>1, AppendSplitFits
  <2>3. bufTo + remaining = Offset[row]
    BY <1>1, <1>2, <1>4, <2>2 DEF ToDo
  <2> QED BY <1>1, <1>4, <2>3
<1>5. CASE /\ pc # "append"
           /\ ~(pc \in {"drain", "send"} /\ goal \in {"record", "split"})
  <2>1. \/ Current = Sequential[row]
        \/ Current = OpenGroup(Sequential[row], row)
        \/ Current = Flush(Sequential[row])
    BY <1>1, <1>2, <1>5 DEF ToDo, TypeOK, Closing, Ordered, BuffersFill
  <2>2. Current.end = Sequential[row].end
    BY <1>1, <2>1, OpenGroupFits, FlushFits
  <2> QED BY <1>1, <1>2, <1>5, <2>2
<1> QED BY <1>3, <1>4, <1>5

ReachesEnd == Offset[Len(rows)] <= WrittenEnd

(* A chain of numbers whose ends are not in order is one number.           *)
LEMMA Squeeze ==
  ASSUME NEW a \in Nat, NEW b \in Nat, NEW c \in Nat, NEW d \in Nat, NEW e \in Nat,
         a <= b, b <= c, c <= d, d <= e
  PROVE  /\ ~(e < a)
         /\ e <= a => b = c /\ c = d /\ b = a /\ ~(d < e)
OBVIOUS

(* A file that reaches the end of the last row holds everything that was   *)
(* sent, and that is the layout of all rows.                               *)
LEMMA WholeFile ==
  ASSUME Ordered, Closing, Follows, pc # "failed", ReachesEnd
  PROVE  /\ Pipeline = written /\ written = LayoutOf(Lengths).cut
         /\ RowsGood /\ row = Len(rows) /\ pc # "build"
<1> DEFINE N == Len(rows)
<1>1. /\ TypeOK /\ N \in Nat /\ row \in 0 .. N /\ N \in 0 .. N /\ 0 \in 0 .. N
      /\ bufTo \in Nat /\ bufFrom \in Nat
      /\ pc = "build" => row < N
      /\ Len(Lengths) = N /\ Sequential[0] = EmptyLayout
  BY SequentialStep DEF Ordered, Accounted, Typed, TypeOK
<1>2. Offset[N] \in Nat /\ Offset[row] \in Nat /\ Offset[0] = 0
  BY <1>1, OffsetIsEnd, OffsetStep
<1>3. /\ WrittenEnd \in Nat /\ WrittenEnd <= bufFrom /\ bufFrom <= bufTo
      /\ bufTo <= Offset[row]
      /\ pc = "append" => bufTo < Offset[row]
  BY WrittenEndsInPipeline, CurrentEnd DEF Ordered, BuffersFill
<1> DEFINE here == Offset[row]
           total == Offset[N]
           reached == WrittenEnd
<1> HIDE DEF here, total, reached
<1>12. /\ total \in Nat /\ here \in Nat /\ total <= reached
       /\ bufTo <= here
       /\ pc = "append" => bufTo < here
       /\ row < N => here < total
  BY <1>1, <1>2, <1>3, OffsetsRise DEF ReachesEnd, here, total, reached
<1>13. /\ bufTo \in Nat /\ bufFrom \in Nat /\ reached \in Nat
       /\ reached <= bufFrom /\ bufFrom <= bufTo
  BY <1>1, <1>3 DEF reached
<1>4. row = N
  <2>1. ~(here < total)
    BY <1>12, <1>13, Squeeze
  <2> QED BY <1>1, <1>12, <2>1
<1>5. /\ WrittenEnd = bufFrom /\ bufFrom = bufTo /\ pc # "append"
      /\ WrittenEnd = Offset[N]
  <2>1. here = total
    BY <1>4 DEF here, total
  <2>2. /\ reached = bufFrom /\ bufFrom = bufTo /\ pc # "append"
        /\ reached = total
    <3>1. here <= total
      BY <1>12, <2>1
    <3>2. reached = bufFrom /\ bufFrom = bufTo /\ reached = total /\ ~(bufTo < here)
      BY <1>12, <1>13, <3>1, Squeeze
    <3> QED BY <1>12, <3>2
  <2> QED BY <2>2 DEF total, reached
<1>6. \/ pc = "row" /\ row = 0
      \/ pc \in {"close", "settleLast", "join", "done"}
  <2>1. ~(bufFrom < bufTo)
    BY <1>1, <1>5
  <2>2. pc \notin {"drain", "settle", "send", "build", "append", "settleGroup"}
    BY <1>1, <1>4, <1>5, <2>1 DEF Ordered, BuffersFill, Accounted, Typed, GroupHasRow
  <2>3. pc = "row" => row = 0
    BY <1>1, <2>1 DEF Ordered, BuffersFill
  <2> QED BY <1>1, <2>2, <2>3 DEF TypeOK
<1>7. Current.cut = Pipeline /\ ToDo /\ RowsGood
  BY CurrentShape DEF Follows
<1>8. LayoutOf(Lengths) = Flush(Sequential[N])
  BY <1>1 DEF LayoutOf, Sequential
<1>9. Flush(EmptyLayout) = EmptyLayout /\ EmptyLayout.cut = <<>>
  BY DEF Flush, Buffered, LastCut, EmptyLayout
<1>10. Pipeline = LayoutOf(Lengths).cut
  BY <1>1, <1>4, <1>6, <1>7, <1>8, <1>9 DEF ToDo
<1>11. Pipeline = written
  <2>1. CASE written # <<>>
    BY <1>5, <2>1, WrittenEndsInPipeline
  <2>2. CASE written = <<>>
    <3>1. Offset[N] = 0
      BY <1>5, <2>2 DEF WrittenEnd
    <3>2. N = 0
      <4>1. 0 < N => Offset[0] < Offset[N]
        BY <1>1, OffsetsRise
      <4> QED BY <1>1, <1>2, <3>1, <4>1
    <3> QED BY <1>1, <1>8, <1>9, <1>10, <2>2, <3>2
  <2> QED BY <2>1, <2>2
<1> QED BY <1>4, <1>6, <1>7, <1>10, <1>11

(* A call that failed has left something out.                              *)
FailedShort == pc = "failed" => WrittenEnd < Offset[Len(rows)]

LEMMA FailedShortStep ==
  Ordered /\ Closing /\ Follows /\ FailedShort /\ [Next]_vars => FailedShort'
<1> SUFFICES ASSUME Ordered, Closing, Follows, FailedShort, [Next]_vars,
                    pc' = "failed"
             PROVE  WrittenEnd' < Offset'[Len(rows')]
  BY DEF FailedShort
<1>1. rows' = rows /\ Offset' = Offset
  <2>1. rows' = rows
    BY DEF Next, MainStep, NextRow, BuildRecord, AppendRecord, DrainCompleted,
           Settle, SendBlock, CloseRaw, JoinWorker, Fail, WorkerStep,
           WorkerTakes, WorkerSends, WorkerExits, vars
  <2> QED BY <2>1 DEF Offset, Lengths
<1>2. CASE pc = "failed"
  <2>1. written' = written
    BY <1>2 DEF Next, MainStep, NextRow, BuildRecord, AppendRecord,
           DrainCompleted, Settle, SendBlock, CloseRaw, JoinWorker, Fail,
           WorkerStep, WorkerTakes, WorkerSends, WorkerExits, vars, fileVars
  <2> QED BY <1>1, <1>2, <2>1 DEF FailedShort, WrittenEnd
<1>3. CASE pc # "failed"
  <2>1. Fail
    BY <1>3 DEF Next, MainStep, NextRow, BuildRecord, AppendRecord,
           DrainCompleted, Settle, SendBlock, CloseRaw, JoinWorker,
           WorkerStep, WorkerTakes, WorkerSends, WorkerExits, vars
  <2>2. written' = written /\ (pc = "build" \/ doneQ # <<>>)
    BY <2>1 DEF Fail, fileVars
  <2>3. /\ Len(written) \in Nat /\ Len(doneQ) \in Nat /\ doneQ \in Seq(Nat)
        /\ Len(written) + Len(doneQ) <= Len(Pipeline)
        /\ Offset[Len(rows)] \in Nat /\ WrittenEnd \in Nat
    <3>1. TypeOK /\ Len(rows) \in 0 .. Len(rows)
      BY SequentialStep DEF Ordered, Accounted, Typed
    <3> QED BY <3>1, WrittenComesFirst, OffsetIsEnd, WrittenEndsInPipeline DEF TypeOK
  <2>4. ~(Offset[Len(rows)] <= WrittenEnd)
    <3> SUFFICES ASSUME ReachesEnd PROVE FALSE
      BY DEF ReachesEnd
    <3>1. Pipeline = written /\ pc # "build"
      BY <1>3, WholeFile
    <3>2. Len(doneQ) = 0
      BY <2>3, <3>1
    <3> QED BY <2>2, <2>3, <3>1, <3>2, EmptySeq
  <2>5. WrittenEnd' = WrittenEnd
    BY <2>2 DEF WrittenEnd
  <2> QED BY <1>1, <2>3, <2>4, <2>5
<1> QED BY <1>2, <1>3

(* A finished call has written up to the end of the last row.              *)
LEMMA FinishedReaches ==
  ASSUME Ordered, Closing, Follows, pc = "done"
  PROVE  ReachesEnd
<1> DEFINE N == Len(rows)
           whole == LayoutOf(Lengths)
<1>1. /\ TypeOK /\ N \in 0 .. N /\ Len(Lengths) = N
  BY SequentialStep DEF Ordered, Accounted, Typed
<1>2. Fits(Sequential[N]) /\ Sequential[N].end = Offset[N] /\ Offset[N] \in Nat
  BY <1>1, OffsetIsEnd
<1>3. whole = Flush(Sequential[N])
  BY <1>1 DEF LayoutOf, Sequential
<1>4. Fits(whole) /\ Buffered(whole) = 0 /\ whole.end = Offset[N]
  BY <1>2, <1>3, FlushFits
<1>5. written = whole.cut
  BY FinishedFile
<1> HIDE DEF whole
<1>6. LastCut(whole) \in Nat /\ LastCut(whole) = Offset[N]
  BY <1>2, <1>4, LayoutParts DEF Fits, Buffered
<1>7. WrittenEnd = LastCut(whole)
  BY <1>5 DEF WrittenEnd, LastCut, Last
<1> QED BY <1>2, <1>6, <1>7 DEF ReachesEnd

-----------------------------------------------------------------------------
(* The header announces all rows before the first is there.                *)
HeaderFirst ==
  /\ created => count = Len(rows)
  /\ stage \notin {"header", "failed"} => created
  /\ indexPos # 0 => created

LEMMA HeaderFirstStep ==
  FrameOrder /\ HeaderFirst /\ [FrameNext]_frameVars => HeaderFirst'
<1> SUFFICES ASSUME FrameOrder, HeaderFirst, [FrameNext]_frameVars PROVE HeaderFirst'
  OBVIOUS
<1> USE DEF HeaderFirst
<1>1. rows' = rows
  <2>1. [Next]_vars
    BY FrameStep
  <2> QED
    BY <2>1 DEF Next, MainStep, NextRow, BuildRecord, AppendRecord,
           DrainCompleted, Settle, SendBlock, CloseRaw, JoinWorker, Fail,
           WorkerStep, WorkerTakes, WorkerSends, WorkerExits, vars
<1>2. CASE WriteHeader
  BY <1>1, <1>2 DEF WriteHeader, indexVars
<1>3. CASE WriteRecords
  <2>1. stage = "records" /\ UNCHANGED <<created, count, indexPos>>
    BY <1>3 DEF WriteRecords, headerVars, indexVars
  <2> QED BY <1>1, <2>1
<1>4. CASE CompressThread
  BY <1>1, <1>4 DEF CompressThread, headerVars, indexVars
<1>5. CASE WriteIndex
  BY <1>1, <1>5 DEF WriteIndex, headerVars
<1>6. CASE WritePosition
  BY <1>1, <1>6 DEF WritePosition, headerVars
<1>7. CASE FrameFails
  <2>1. /\ stage' = "failed" /\ UNCHANGED <<created, count>>
        /\ indexPos' = indexPos \/ stage = "position"
    BY <1>7 DEF FrameFails, headerVars
  <2> QED BY <1>1, <2>1
<1>8. CASE UNCHANGED frameVars
  BY <1>1, <1>8 DEF frameVars, headerVars, indexVars
<1> QED BY <1>2, <1>3, <1>4, <1>5, <1>6, <1>7, <1>8 DEF FrameNext

Announced == Framed /\ Follows /\ FailedShort /\ HeaderFirst

LEMMA AlwaysAnnounced == FrameSpec => []Announced
<1>1. FrameInit => Announced
  BY OrderedInit, ClosingInit, FollowsInit
     DEF FrameInit, Init, Announced, Framed, FrameOrder, FailedShort, HeaderFirst
<1>2. Announced /\ [FrameNext]_frameVars => Announced'
  BY FrameStep, OrderedStep, ClosingStep, FrameOrderStep, FollowsStep,
     FailedShortStep, HeaderFirstStep DEF Announced, Framed
<1> QED BY <1>1, <1>2, PTL DEF FrameSpec

(* A header with the count of all rows describes, with any first part of   *)
(* the blocks, a file of the format.                                       *)
LEMMA AnnouncedIsWellFormed ==
  ASSUME Ordered, count = Len(rows)
  PROVE  File!WellFormed(FrameFile)
<1> DEFINE N == Len(rows)
           F == FrameFile
           starts == [r \in 1 .. N |-> Offset[r - 1]]
           whole == [b \in 1 .. Len(written) |-> "none"]
<1>1. /\ TypeOK /\ N \in Nat /\ Lengths \in Seq(Nat) /\ Len(Lengths) = N
      /\ \A r \in 1 .. N : Lengths[r] = rows[r].len /\ rows[r].len \in Nat \ {0}
  BY SequentialStep DEF Ordered, Accounted, Typed
<1>2. /\ written \in Seq(Nat) /\ Len(written) \in Nat
      /\ DOMAIN written = 1 .. Len(written)
      /\ \A i \in 1 .. Len(written) : written[i] \in Nat
  BY <1>1, ElementOfSeq DEF TypeOK
<1>3. SubSeq(Lengths, 1, N) = Lengths
  <2>1. /\ Len(SubSeq(Lengths, 1, N)) = N /\ SubSeq(Lengths, 1, N) \in Seq(Nat)
        /\ \A i \in 1 .. N : SubSeq(Lengths, 1, N)[i] = Lengths[i]
    BY <1>1
  <2> QED BY <1>1, <2>1, SeqEqual
<1>4. F = [start |-> starts, len |-> Lengths, cut |-> written, fault |-> whole,
           grid |-> {}, spatial |-> FALSE, hasVar |-> TRUE]
  BY <1>2, <1>3 DEF FrameFile
<1>5. /\ starts \in Seq(Nat) /\ Len(starts) = N
      /\ \A r \in 1 .. N : starts[r] = Offset[r - 1] /\ starts[r] \in Nat
  <2>1. ASSUME NEW r \in 1 .. N PROVE Offset[r - 1] \in Nat
    <3>1. r - 1 \in 0 .. N
      BY <1>1
    <3> QED BY <1>1, <3>1, OffsetIsEnd
  <2> QED BY <1>1, <2>1
<1>6. /\ whole \in Seq(File!Faults) /\ Len(whole) = Len(written)
      /\ \A b \in 1 .. Len(written) : whole[b] = "none"
  BY <1>2 DEF File!Faults
<1> HIDE DEF F, starts, whole
<1>7. /\ F.start = starts /\ F.len = Lengths /\ F.cut = written
      /\ F.fault = whole /\ F.grid = {} /\ F.spatial = FALSE
      /\ F.hasVar = TRUE
  BY <1>4
<1>8. F \in File!FileType
  BY <1>1, <1>2, <1>4, <1>5, <1>6 DEF File!FileType
<1>9. File!BlocksInOrder(F)
  <2>1. ASSUME NEW b \in 1 .. Len(written)
        PROVE  File!BlockStart(F, b) <= File!BlockEnd(F, b)
    <3>1. CASE b = 1
      BY <1>2, <1>7, <3>1 DEF File!BlockStart, File!BlockEnd
    <3>2. CASE b # 1
      <4>1. /\ b - 1 \in 1 .. Len(written) /\ b - 1 < b
            /\ b \in 1 .. Len(Pipeline) /\ b - 1 \in 1 .. Len(Pipeline)
        BY <1>1, <1>2, <3>2, WrittenComesFirst
      <4>2. Pipeline[b - 1] < Pipeline[b]
        BY <4>1 DEF Ordered, PipelineEndsAtBuffer, Increasing
      <4>3. /\ Pipeline[b - 1] = written[b - 1] /\ Pipeline[b] = written[b]
            /\ written[b - 1] \in Nat /\ written[b] \in Nat
        BY <1>1, <4>1, WrittenComesFirst
      <4>4. written[b - 1] <= written[b]
        BY <4>2, <4>3
      <4> QED BY <1>7, <3>2, <4>4 DEF File!BlockStart, File!BlockEnd
    <3> QED BY <3>1, <3>2
  <2> QED BY <1>6, <1>7, <2>1 DEF File!BlocksInOrder, File!NumBlocks
<1>10. File!RecordsInOrder(F)
  <2>1. N > 0 => starts[1] = 0
    BY <1>1, <1>5, OffsetStep
  <2>2. ASSUME NEW r \in 1 .. N - 1
        PROVE  starts[r + 1] = File!EndOfRecord(F, r)
    <3>1. r \in 1 .. N /\ r + 1 \in 1 .. N /\ (r + 1) - 1 = r
      BY <1>1
    <3>2. starts[r + 1] = Offset[r] /\ starts[r] = Offset[r - 1]
      BY <1>5, <3>1
    <3>3. Offset[r] = Offset[r - 1] + rows[r].len
      BY <1>1, <3>1, OffsetStep
    <3> QED BY <1>1, <1>7, <3>1, <3>2, <3>3 DEF File!EndOfRecord
  <2>3. \A r \in 1 .. N : Lengths[r] >= 1
    BY <1>1
  <2> QED BY <1>1, <1>5, <1>7, <2>1, <2>2, <2>3
          DEF File!RecordsInOrder, File!NumRecords
<1> QED BY <1>8, <1>9, <1>10 DEF File!WellFormed, F

(* Wherever the call is interrupted, and in whichever thread, the file     *)
(* left behind is one the readers are specified for; if it holds all the   *)
(* records its header announces, it is the whole frame, and its header     *)
(* names an index only when index and blocks are complete.                 *)
THEOREM WhatReadsIsWholeTheorem == FrameSpec => []WhatReadsIsWhole
<1>1. ASSUME Announced PROVE WhatReadsIsWhole
  <2>1. Ordered /\ Closing /\ Follows /\ FailedShort /\ HeaderFirst /\ FrameOrder
    BY <1>1 DEF Announced, Framed
  <2>2. created => count = Len(rows) /\ (Reads <=> ReachesEnd)
    BY <2>1 DEF HeaderFirst, Reads, ReachesEnd, WrittenEnd
  <2>3. created => File!WellFormed(FrameFile)
    BY <2>1, <2>2, AnnouncedIsWellFormed
  <2>4. ASSUME Reads
        PROVE  written = LayoutOf(Lengths).cut /\ \A r \in DOMAIN rows : ~rows[r].bad
    <3>1. created /\ ReachesEnd
      BY <2>2, <2>4 DEF Reads
    <3>2. /\ WrittenEnd \in Nat /\ Offset[Len(rows)] \in Nat
          /\ DOMAIN rows = 1 .. Len(rows)
      <4>1. TypeOK /\ Len(rows) \in 0 .. Len(rows)
        BY <2>1, SequentialStep DEF Ordered, Accounted, Typed
      <4> QED BY <2>1, <4>1, OffsetIsEnd, WrittenEndsInPipeline DEF TypeOK
    <3>3. pc # "failed"
      BY <2>1, <3>1, <3>2 DEF FailedShort, ReachesEnd
    <3>4. written = LayoutOf(Lengths).cut /\ RowsGood /\ row = Len(rows)
      BY <2>1, <3>1, <3>3, WholeFile
    <3> QED BY <3>2, <3>4 DEF RowsGood
  <2>5. ASSUME indexPos # 0 \/ stage = "done"
        PROVE  /\ Reads
               /\ trailer = LayoutOf(Lengths).index
               /\ indexPos = Len(written)
    <3>1. created /\ pc = "done" /\ trailer = index /\ indexPos = Len(written)
      BY <2>1, <2>5 DEF FrameOrder, HeaderFirst
    <3>2. ReachesEnd /\ index = LayoutOf(Lengths).index
      BY <2>1, <3>1, FinishedReaches, FinishedFile
    <3> QED BY <2>2, <3>1, <3>2
  <2> QED BY <2>3, <2>4, <2>5 DEF WhatReadsIsWhole
<1> QED BY <1>1, AlwaysAnnounced, PTL
=============================================================================
