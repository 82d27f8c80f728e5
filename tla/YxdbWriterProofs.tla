--------------------------- MODULE YxdbWriterProofs ---------------------------
(***************************************************************************)
(* Proofs about YxdbWriter, for every set of batches and every block and   *)
(* group size: type correctness, blocks that fit the readers' buffers      *)
(* however the writer is interrupted, and the record count as the commit   *)
(* of a file.                                                              *)
(***************************************************************************)
EXTENDS YxdbWriter, BlockLayoutProofs

Laid == TypeOK /\ Fits(layout)

LEMMA LaidInit == Init => Laid
<1> SUFFICES ASSUME Init PROVE Laid
  OBVIOUS
<1>1. Fits(layout) /\ layout \in LayoutType
  BY EmptyFits DEF Init, Fits
<1>2. /\ finished \in BOOLEAN /\ exists \in BOOLEAN
      /\ batchFailed \in BOOLEAN /\ torn \in BOOLEAN
  BY Zenon DEF Init
<1>3. disk \in [count : Nat, indexPos : Nat, index : Seq(Nat)]
  BY DEF Init
<1>4. offered \in 0 .. MaxRows
  BY BatchesAssumption DEF Init
<1> QED BY <1>1, <1>2, <1>3, <1>4 DEF Init, Laid, TypeOK

LEMMA LaidStep == Laid /\ [Next]_vars => Laid'
<1> SUFFICES ASSUME Laid, [Next]_vars PROVE Laid'
  OBVIOUS
<1>1. /\ layout \in LayoutType /\ Fits(layout) /\ recordCount \in Nat
      /\ batch \in Seq(RowType) /\ Len(batch) \in Nat /\ row \in 0 .. Len(batch)
      /\ disk \in [count : Nat, indexPos : Nat, index : Seq(Nat)]
      /\ starts \in Seq(Nat) /\ offered \in 0 .. MaxRows /\ MaxRows \in Nat
      /\ layout.end \in Nat /\ layout.index \in Seq(Nat)
      /\ Len(layout.cut) \in Nat
  BY LayoutParts, BatchesAssumption DEF Laid, TypeOK
<1>2. /\ finished \in BOOLEAN /\ exists \in BOOLEAN
      /\ batchFailed \in BOOLEAN /\ torn \in BOOLEAN
  BY DEF Laid, TypeOK
<1>3. ASSUME pc = "batch"
      PROVE  row < Len(batch) /\ batch[row + 1].len \in Nat \ {0}
  <2>1. row < Len(batch)
    BY <1>3 DEF Laid, TypeOK
  <2>2. batch[row + 1] \in RowType
    BY <1>1, <2>1, ElementOfSeq
  <2> QED BY <2>1, <2>2 DEF RowType
<1>4. CASE BeginBatch
  <2>1. batch' \in Seq(RowType) /\ Len(batch') \in Nat /\ batch' # <<>>
        /\ offered' = offered + Len(batch') /\ offered' <= MaxRows
    BY <1>4, BatchesAssumption, LenProperties DEF BeginBatch
  <2>2. Len(batch') > 0
    BY <2>1, EmptySeq
  <2>3. row' = 0 /\ pc' = "batch"
        /\ UNCHANGED <<layout, recordCount, finished, disk, exists, starts,
                       batchFailed, torn>>
    BY <1>4 DEF BeginBatch
  <2> QED BY <1>1, <1>2, <2>1, <2>2, <2>3 DEF Laid, TypeOK
<1>5. CASE WriteRow
  <2>1. pc = "batch" /\ row < Len(batch) /\ batch[row + 1].len \in Nat
    BY <1>3, <1>5 DEF WriteRow
  <2>2. layout' = PlaceRecord(layout, globalRow, batch[row + 1].len)
    BY <1>5 DEF WriteRow
  <2>3. Fits(layout')
    BY <1>1, <2>1, <2>2, PlaceRecordFits
  <2>4. layout' \in LayoutType
    BY <2>3 DEF Fits
  <2>5. starts' \in Seq(Nat)
    BY <1>1, <1>5, AppendProperties DEF WriteRow
  <2>6. /\ row' = row + 1
        /\ \/ row' = Len(batch) /\ recordCount' = recordCount + Len(batch)
              /\ pc' = "idle"
           \/ row' # Len(batch) /\ recordCount' = recordCount /\ pc' = pc
        /\ UNCHANGED <<batch, finished, disk, exists, offered, batchFailed,
                       torn>>
    BY <1>5 DEF WriteRow
  <2> QED BY <1>1, <1>2, <2>1, <2>3, <2>4, <2>5, <2>6, SMTT(60) DEF Laid, TypeOK
<1>6. ASSUME NEW l, Fits(l), BatchFails(l), torn' \in BOOLEAN
      PROVE  Laid'
  <2>1. l \in LayoutType
    BY <1>6 DEF Fits
  <2>2. batchFailed' \in BOOLEAN
    BY <1>6, Zenon DEF BatchFails
  <2> QED BY <1>1, <1>2, <1>6, <2>1, <2>2 DEF BatchFails, Laid, TypeOK
<1>7. CASE RowRejected
  <2>1. Fits(OpenGroup(layout, globalRow))
    BY <1>1, OpenGroupFits
  <2> QED BY <1>2, <1>6, <1>7, <2>1 DEF RowRejected
<1>8. CASE RowWriteFails
  <2>1. batch[row + 1].len \in Nat
    BY <1>3, <1>8 DEF RowWriteFails
  <2>2. PICK l \in FlushPoints(layout, globalRow, batch[row + 1].len) :
               BatchFails(l)
    BY <1>8 DEF RowWriteFails
  <2>3. Fits(l)
    BY <1>1, <2>1, <2>2, FlushPointsFit
  <2>4. torn' \in BOOLEAN
    BY <1>8, Zenon DEF RowWriteFails
  <2> QED BY <1>6, <2>2, <2>3, <2>4
<1>9. CASE FinishFlush
  <2>1. Fits(Flush(layout))
    BY <1>1, FlushFits
  <2>2. Flush(layout) \in LayoutType
    BY <2>1 DEF Fits
  <2> QED
    BY <1>1, <1>2, <1>9, <2>1, <2>2 DEF FinishFlush, FinishStep, Laid, TypeOK
<1>10. CASE FinishIndex \/ FinishIndexPos \/ FinishCount
  <2>1. disk' \in [count : Nat, indexPos : Nat, index : Seq(Nat)]
    BY <1>1, <1>10 DEF FinishIndex, FinishIndexPos, FinishCount
  <2>2. /\ pc' \in {"indexPos", "count", "done"}
        /\ UNCHANGED <<layout, recordCount, batch, row, finished, exists,
                       starts, offered, batchFailed, torn>>
    BY <1>10 DEF FinishIndex, FinishIndexPos, FinishCount, FinishStep
  <2> QED BY <1>1, <1>2, <2>1, <2>2 DEF Laid, TypeOK
<1>11. CASE FinishFails
  <2>1. disk' \in [count : Nat, indexPos : Nat, index : Seq(Nat)]
    BY <1>1, <1>11 DEF FinishFails
  <2>2. torn' \in BOOLEAN
    BY <1>11, Zenon DEF FinishFails
  <2>3. /\ pc' = "failed"
        /\ UNCHANGED <<layout, recordCount, batch, row, finished, exists,
                       starts, offered, batchFailed>>
    BY <1>11 DEF FinishFails
  <2> QED BY <1>1, <1>2, <2>1, <2>2, <2>3 DEF Laid, TypeOK
<1>12. CASE BeginFinish
  <2>1. finished' \in BOOLEAN
    BY <1>12, Zenon DEF BeginFinish
  <2>2. /\ pc' = "flush"
        /\ UNCHANGED <<layout, recordCount, batch, row, disk, exists,
                       starts, offered, batchFailed, torn>>
    BY <1>12 DEF BeginFinish, FinishStep
  <2> QED BY <1>1, <1>2, <2>1, <2>2 DEF Laid, TypeOK
<1>13. CASE DropWriter \/ Kill
  <2>1. exists' \in BOOLEAN
    BY <1>2, <1>13 DEF DropWriter, Kill
  <2>2. /\ pc' \in {"dropped", "killed"}
        /\ UNCHANGED <<layout, recordCount, batch, row, finished, disk,
                       starts, offered, batchFailed, torn>>
    BY <1>13 DEF DropWriter, Kill
  <2> QED BY <1>1, <1>2, <2>1, <2>2 DEF Laid, TypeOK
<1>14. CASE UNCHANGED vars
  BY <1>14 DEF vars, Laid, TypeOK
<1> QED
  BY <1>4, <1>5, <1>7, <1>8, <1>9, <1>10, <1>11, <1>12, <1>13, <1>14 DEF Next

LEMMA AlwaysLaid == Spec => []Laid
BY LaidInit, LaidStep, PTL DEF Spec

(* Every variable holds a value of its type, for every batch.              *)
THEOREM WriterTypeCorrect == Spec => []TypeOK
<1>1. Laid => TypeOK
  BY DEF Laid
<1> QED BY <1>1, AlwaysLaid, PTL

(* No block is empty or exceeds the BLOCK_SIZE buffer a reader decompresses *)
(* it into, whatever the rows and wherever a write fails.                  *)
THEOREM BlocksFitBuffersTheorem == Spec => []BlocksFitBuffers
<1>1. ASSUME Laid PROVE BlocksFitBuffers
  <2>1. Fits(layout) /\ Len(layout.cut) \in Nat
    BY <1>1, LayoutParts DEF Laid, Fits
  <2>2. ASSUME NEW b \in 1 .. Len(layout.cut)
        PROVE  EntryOffset(b - 1) = BlockBegin(layout, b)
    BY <2>1, <2>2 DEF EntryOffset, BlockBegin
  <2> QED BY <2>1, <2>2 DEF Fits, BlocksFitBuffers
<1> QED BY <1>1, AlwaysLaid, PTL

-----------------------------------------------------------------------------
(* The record count commits the file.                                      *)

(* What each step of finish leaves for the next, and the count of the rows *)
(* in the stream as long as no batch has failed.                           *)
Finishing ==
  /\ pc \in {"idle", "batch", "flush", "index", "indexPos", "count"}
       => disk.count = 0
  /\ pc \in {"index", "indexPos", "count", "done"} => Buffered(layout) = 0
  /\ pc \in {"indexPos", "count"} => disk.index = layout.index
  /\ pc = "count" => disk.indexPos = Len(layout.cut)
  /\ ~batchFailed /\ pc # "killed" =>
       Len(starts) = recordCount + (IF pc = "batch" THEN row ELSE 0)

Committed == Laid /\ Finishing /\ CountCommitsLast

LEMMA CommittedInit == Init => Committed
<1> SUFFICES ASSUME Init PROVE Finishing /\ CountCommitsLast
  BY LaidInit DEF Committed
<1>1. disk.count = 0 /\ Len(starts) = 0 /\ pc = "idle" /\ recordCount = 0
  BY DEF Init
<1> QED BY <1>1 DEF Finishing, CountCommitsLast

LEMMA CommittedStep == Committed /\ [Next]_vars => Committed'
<1> SUFFICES ASSUME Committed, [Next]_vars
             PROVE  Finishing' /\ CountCommitsLast'
  BY LaidStep DEF Committed
<1> USE DEF Committed, Finishing, CountCommitsLast
<1>1. /\ recordCount \in Nat /\ Len(starts) \in Nat /\ Len(batch) \in Nat
      /\ row \in 0 .. Len(batch) /\ starts \in Seq(Nat)
      /\ disk \in [count : Nat, indexPos : Nat, index : Seq(Nat)]
      /\ Fits(layout)
  BY DEF Laid, TypeOK
<1>2. CASE BeginBatch
  BY <1>1, <1>2 DEF BeginBatch
<1>3. CASE WriteRow
  <2>1. layout.end \in Nat
    BY <1>1, LayoutParts DEF Fits
  <2>2. Len(starts') = Len(starts) + 1
    BY <1>1, <1>3, <2>1, AppendProperties DEF WriteRow
  <2>3. /\ pc = "batch" /\ row' = row + 1
        /\ \/ row' = Len(batch) /\ recordCount' = recordCount + Len(batch)
              /\ pc' = "idle"
           \/ row' # Len(batch) /\ recordCount' = recordCount /\ pc' = pc
        /\ UNCHANGED <<disk, batchFailed>>
    BY <1>3 DEF WriteRow
  <2> QED BY <1>1, <2>2, <2>3
<1>4. CASE RowRejected \/ RowWriteFails
  <2>1. batchFailed' /\ pc' = "idle" /\ UNCHANGED disk
    BY <1>4 DEF RowRejected, RowWriteFails, BatchFails
  <2>2. pc = "batch"
    BY <1>4 DEF RowRejected, RowWriteFails
  <2> QED BY <2>1, <2>2
<1>5. CASE BeginFinish
  <2>1. /\ pc = "idle" /\ pc' = "flush"
        /\ UNCHANGED <<layout, disk, starts, recordCount, batchFailed>>
    BY <1>5 DEF BeginFinish, FinishStep
  <2> QED BY <2>1
<1>6. CASE FinishFlush
  <2>1. Buffered(Flush(layout)) = 0
    BY <1>1, FlushFits
  <2> QED BY <1>6, <2>1 DEF FinishFlush, FinishStep
<1>7. CASE FinishIndex
  <2>1. /\ pc = "index" /\ pc' = "indexPos"
        /\ UNCHANGED <<layout, starts, recordCount, batchFailed>>
        /\ disk'.index = layout.index /\ disk'.count = disk.count
    BY <1>1, <1>7 DEF FinishIndex, FinishStep
  <2> QED BY <2>1
<1>8. CASE FinishIndexPos
  <2>1. /\ pc = "indexPos" /\ pc' = "count"
        /\ UNCHANGED <<layout, starts, recordCount, batchFailed>>
        /\ disk'.index = disk.index /\ disk'.count = disk.count
        /\ disk'.indexPos = Len(layout.cut)
    BY <1>1, <1>8 DEF FinishIndexPos, FinishStep
  <2> QED BY <2>1
<1>9. CASE FinishCount \/ (FinishFails /\ pc = "count")
  <2>1. /\ pc = "count" /\ pc' \in {"done", "failed"}
        /\ UNCHANGED <<layout, starts, recordCount, batchFailed>>
        /\ disk'.index = disk.index /\ disk'.count \in {disk.count, recordCount}
        /\ disk'.indexPos = disk.indexPos
    BY <1>1, <1>9 DEF FinishCount, FinishStep, FinishFails
  <2> QED BY <1>1, <2>1
<1>10. CASE FinishFails /\ pc # "count"
  <2>1. /\ pc \in {"flush", "index", "indexPos"} /\ pc' = "failed"
        /\ UNCHANGED <<layout, starts, recordCount, batchFailed, disk>>
    BY <1>10 DEF FinishFails
  <2> QED BY <1>1, <2>1
<1>11. CASE DropWriter \/ Kill
  <2>1. /\ pc' \in {"dropped", "killed"} /\ (pc' = "dropped" => pc = "idle")
        /\ UNCHANGED <<layout, disk, starts, recordCount, batchFailed>>
    BY <1>11 DEF DropWriter, Kill
  <2> QED BY <1>1, <2>1
<1>12. CASE UNCHANGED vars
  BY <1>12 DEF vars, Buffered, LastCut
<1> QED
  BY <1>2, <1>3, <1>4, <1>5, <1>6, <1>7, <1>8, <1>9, <1>10, <1>11, <1>12
     DEF Next

(* A header that announces records announces exactly those whose blocks,   *)
(* index and index position are in the file, whenever the writer stops.    *)
THEOREM CountCommitsLastTheorem == Spec => []CountCommitsLast
<1>1. Committed => CountCommitsLast
  BY DEF Committed
<1> QED BY <1>1, CommittedInit, CommittedStep, PTL DEF Spec

-----------------------------------------------------------------------------
(* Where the rows lie.                                                     *)

(* Rows follow one another without overlap, from offset 0 on unless a      *)
(* failing write tore one.                                                 *)
StartsInOrder ==
  /\ \A r \in 1 .. Len(starts) - 1 : starts[r] < starts[r + 1]
  /\ \A r \in 1 .. Len(starts) : starts[r] < layout.end
  /\ ~torn => IF Len(starts) = 0 THEN layout.end = 0 ELSE starts[1] = 0

CutsInside == ~torn => \A b \in 1 .. Len(layout.cut) : layout.cut[b] <= layout.end

(* Of L groups all but the last are full, and the last one is begun -      *)
(* unless nothing has been written.                                        *)
GroupCount(n, L) ==
  /\ L >= 1 /\ n <= L * GroupSize
  /\ IF n = 0 THEN L = 1 ELSE (L - 1) * GroupSize < n

GroupsIndexed ==
  ~batchFailed =>
    /\ GroupCount(Len(starts), Len(layout.index))
    /\ layout.index[1] = 0
    /\ \A g \in 1 .. Len(layout.index) :
         /\ layout.index[g] \in 0 .. Len(layout.cut)
         /\ (g - 1) * GroupSize + 1 <= Len(starts)
              => CutAt(layout, layout.index[g]) = starts[(g - 1) * GroupSize + 1]

(* A failed write ends a batch or the writer.                              *)
TornFails == torn => batchFailed \/ pc = "failed"

Placed == /\ StartsInOrder /\ CutsInside /\ GroupsIndexed
          /\ RecordsSplitOnlyIfLonger

(* Arithmetic of groups.                                                   *)
LEMMA MultiplesRise ==
  ASSUME NEW G \in Nat \ {0}, NEW a \in Nat, NEW b \in Nat, a < b
  PROVE  a * G + G <= b * G
<1>1. b - (a + 1) \in Nat
  OBVIOUS
<1>2. (b - (a + 1)) * G \in Nat /\ b * G = (a * G + G) + (b - (a + 1)) * G
      /\ a * G \in Nat /\ b * G \in Nat
  BY <1>1
<1> DEFINE p == (b - (a + 1)) * G
           q == a * G
           t == b * G
<1>3. p \in Nat /\ q \in Nat /\ t \in Nat /\ t = (q + G) + p
  BY <1>2
<1> HIDE DEF p, q, t
<1>4. q + G <= t
  BY <1>3
<1> QED
  BY <1>4 DEF q, t

(* The next row opens a group exactly when every group is full.            *)
LEMMA GroupsFull ==
  ASSUME NEW n \in Nat, NEW L \in Nat, GroupCount(n, L)
  PROVE  /\ IsGroupStart(n) => n = L * GroupSize
         /\ ~IsGroupStart(n) => n = 0 \/ n < L * GroupSize
<1> DEFINE k == n \div GroupSize
<1>1. GroupSize \in Nat \ {0}
  BY SizesAssumption
<1>2. k \in Nat /\ n = k * GroupSize + (n % GroupSize)
      /\ n % GroupSize \in 0 .. GroupSize - 1
  BY <1>1
<1> HIDE DEF k
<1>3. ASSUME IsGroupStart(n) PROVE n = L * GroupSize
  <2>1. n = k * GroupSize /\ n > 0
    <3> DEFINE y == k * GroupSize
    <3>1. y \in Nat /\ n = y + (n % GroupSize) /\ n % GroupSize = 0 /\ n > 0
      BY <1>1, <1>2, <1>3 DEF IsGroupStart
    <3> HIDE DEF y
    <3>2. n = y
      BY <3>1
    <3> QED
      BY <3>1, <3>2 DEF y
  <2>2. (L - 1) * GroupSize < n /\ n <= L * GroupSize /\ L - 1 \in Nat
    BY <2>1 DEF GroupCount
  <2>3. ~(L < k)
    <3>1. SUFFICES ASSUME L < k PROVE FALSE
      OBVIOUS
    <3>2. L * GroupSize + GroupSize <= k * GroupSize
      BY <1>1, <1>2, <3>1, MultiplesRise
    <3> DEFINE x == L * GroupSize
               y == k * GroupSize
    <3>3. x \in Nat /\ y \in Nat /\ x + GroupSize <= y /\ y <= x
      BY <1>1, <1>2, <2>1, <2>2, <3>2
    <3> HIDE DEF x, y
    <3> QED
      BY <1>1, <3>3
  <2>4. ~(k < L)
    <3>1. SUFFICES ASSUME k < L PROVE FALSE
      OBVIOUS
    <3>2. k = L - 1 \/ k < L - 1
      BY <1>2, <2>2, <3>1
    <3>3. k < L - 1 => k * GroupSize + GroupSize <= (L - 1) * GroupSize
      BY <1>1, <1>2, <2>2, MultiplesRise
    <3> DEFINE x == (L - 1) * GroupSize
               y == k * GroupSize
    <3>4. x \in Nat /\ y \in Nat /\ x < y /\ (k = L - 1 => x = y)
          /\ (k < L - 1 => y + GroupSize <= x)
      BY <1>1, <1>2, <2>1, <2>2, <3>3
    <3> HIDE DEF x, y
    <3> QED
      BY <1>1, <3>2, <3>4
  <2> QED
    BY <1>2, <2>1, <2>3, <2>4
<1>4. ASSUME ~IsGroupStart(n), n # 0 PROVE n < L * GroupSize
  <2>1. SUFFICES ASSUME n = L * GroupSize PROVE FALSE
    BY <1>1 DEF GroupCount
  <2>2. n % GroupSize # 0
    BY <1>4 DEF IsGroupStart
  <2>3. ~(L < k) /\ ~(k < L)
    <3>1. L < k => L * GroupSize + GroupSize <= k * GroupSize
      BY <1>1, <1>2, MultiplesRise
    <3>2. k < L => k * GroupSize + GroupSize <= L * GroupSize
      BY <1>1, <1>2, MultiplesRise
    <3> DEFINE x == L * GroupSize
               y == k * GroupSize
               z == n % GroupSize
    <3>3. /\ x \in Nat /\ y \in Nat /\ z \in 0 .. GroupSize - 1
          /\ x = y + z
          /\ (L < k => x + GroupSize <= y) /\ (k < L => y + GroupSize <= x)
      BY <1>1, <1>2, <2>1, <3>1, <3>2
    <3> HIDE DEF x, y, z
    <3> QED
      BY <1>1, <3>3
  <2>4. L = k
    BY <1>2, <2>3
  <2> DEFINE x == L * GroupSize
             z == n % GroupSize
  <2>5. x \in Nat /\ z \in Nat /\ z # 0 /\ x = x + z
    BY <1>1, <1>2, <2>1, <2>2, <2>4
  <2> HIDE DEF x, z
  <2> QED
    BY <2>5
<1> QED
  BY <1>3, <1>4

LEMMA PlacedInit == Init => Placed
<1> SUFFICES ASSUME Init PROVE Placed
  OBVIOUS
<1>1. /\ Len(starts) = 0 /\ ~torn /\ layout.end = 0
      /\ Len(layout.cut) = 0 /\ Len(layout.index) = 1 /\ layout.index[1] = 0
  BY DEF Init, EmptyLayout
<1>2. GroupCount(0, 1)
  BY SizesAssumption DEF GroupCount
<1>3. \A g \in 1 .. 1 : ~((g - 1) * GroupSize + 1 <= 0)
  BY SizesAssumption
<1> QED
  BY <1>1, <1>2, <1>3 DEF Placed, StartsInOrder, CutsInside, GroupsIndexed,
                          RecordsSplitOnlyIfLonger

(* Steps that lay out no row: they may at most cut where the stream ends.  *)
LEMMA PlacedWithoutRow ==
  ASSUME Laid, Laid', Placed, starts' = starts,
         Extends(layout', layout), layout'.end = layout.end,
         \A b \in Len(layout.cut) + 1 .. Len(layout'.cut) :
           layout'.cut[b] = layout.end,
         torn => torn', batchFailed => batchFailed',
         batchFailed' \/ layout'.index = layout.index
  PROVE  Placed'
<1>1. /\ layout \in LayoutType /\ layout' \in LayoutType
      /\ Len(layout.cut) \in Nat /\ Len(layout'.cut) \in Nat
      /\ layout.end \in Nat /\ starts \in Seq(Nat) /\ Len(starts) \in Nat
  BY LayoutParts, LenProperties DEF Laid, TypeOK
<1>2. StartsInOrder'
  BY DEF Placed, StartsInOrder
<1>3. ASSUME NEW b \in 1 .. Len(layout'.cut)
      PROVE  \/ b \in 1 .. Len(layout.cut) /\ layout'.cut[b] = layout.cut[b]
             \/ layout'.cut[b] = layout.end
  BY <1>1 DEF Extends
<1>4. CutsInside'
  BY <1>1, <1>3, SMTT(60) DEF Placed, CutsInside
<1>5. GroupsIndexed'
  <2>1. SUFFICES ASSUME ~batchFailed' PROVE GroupsIndexed'
    BY DEF GroupsIndexed
  <2>2. ~batchFailed /\ layout'.index = layout.index /\ GroupsIndexed
    BY <2>1 DEF Placed
  <2>3. ASSUME NEW e \in 0 .. Len(layout.cut)
        PROVE  CutAt(layout', e) = CutAt(layout, e) /\ e \in 0 .. Len(layout'.cut)
    BY <1>1, ExtendsCutAt
  <2> QED
    BY <2>2, <2>3 DEF GroupsIndexed, GroupCount
<1>6. RecordsSplitOnlyIfLonger'
  <2>1. SUFFICES ASSUME ~torn',
                        NEW r \in 1 .. Len(starts), NEW b \in 1 .. Len(layout'.cut),
                        starts[r] < layout'.cut[b],
                        layout'.cut[b] < RowEnd(r)'
                 PROVE  /\ RowEnd(r)' - starts[r] > BlockSize
                        /\ \E a \in 0 .. b : EntryOffset(a)' = starts[r]
    BY DEF RecordsSplitOnlyIfLonger
  <2>2. RowEnd(r)' = RowEnd(r)
    BY DEF RowEnd
  <2>3. RowEnd(r) <= layout.end /\ RowEnd(r) \in Nat
    <3>1. CASE r = Len(starts)
      BY <1>1, <3>1 DEF RowEnd
    <3>2. CASE r # Len(starts)
      <4>1. r + 1 \in 1 .. Len(starts)
        BY <1>1, <3>2
      <4>2. starts[r + 1] < layout.end /\ starts[r + 1] \in Nat
        BY <1>1, <4>1, ElementOfSeq DEF Placed, StartsInOrder
      <4> QED
        BY <1>1, <3>2, <4>2 DEF RowEnd
    <3> QED
      BY <3>1, <3>2
  <2>4. b \in 1 .. Len(layout.cut) /\ layout'.cut[b] = layout.cut[b]
    BY <1>1, <1>3, <2>1, <2>2, <2>3
  <2>5. /\ RowEnd(r) - starts[r] > BlockSize
        /\ \E a \in 0 .. b : EntryOffset(a) = starts[r]
    BY <2>1, <2>2, <2>4 DEF Placed, RecordsSplitOnlyIfLonger
  <2>6. ASSUME NEW a \in 0 .. b PROVE EntryOffset(a)' = EntryOffset(a)
    <3>1. a # 0 => a \in 1 .. Len(layout.cut)
      BY <1>1, <2>4
    <3> QED
      BY <3>1 DEF EntryOffset, Extends
  <2> QED
    BY <2>2, <2>5, <2>6
<1> QED
  BY <1>2, <1>4, <1>5, <1>6 DEF Placed

(* A row goes behind the last one; when the groups are full it opens the   *)
(* next.                                                                   *)
LEMMA PlacedWithRow ==
  ASSUME Laid, Laid', Placed, TornFails,
         NEW len \in Nat \ {0}, NEW n,
         layout' = PlaceRecord(layout, n, len),
         starts' = Append(starts, layout.end),
         pc = "batch", ~batchFailed => n = Len(starts),
         torn' = torn, batchFailed' = batchFailed
  PROVE  Placed'
<1> DEFINE N == Len(starts)
<1>1. /\ layout \in LayoutType /\ layout' \in LayoutType
      /\ Len(layout.cut) \in Nat /\ Len(layout'.cut) \in Nat
      /\ layout.end \in Nat /\ layout.index \in Seq(Nat)
      /\ Len(layout.index) \in Nat
      /\ starts \in Seq(Nat) /\ N \in Nat /\ Fits(layout)
  BY LayoutParts, LenProperties DEF Laid, TypeOK
<1> DEFINE u == PlaceRecord(layout, n, len)
<1>10. /\ Extends(u, layout) /\ u.end = layout.end + len
       /\ \A b \in Len(layout.cut) + 1 .. Len(u.cut) :
            \/ u.cut[b] = layout.end
            \/ /\ layout.end < u.cut[b] /\ u.cut[b] < u.end
               /\ len > BlockSize
               /\ \E a \in 0 .. b : CutAt(u, a) = layout.end
       /\ IF IsGroupStart(n)
          THEN \E a \in 0 .. Len(u.cut) :
                 CutAt(u, a) = layout.end /\ u.index = Append(layout.index, a)
          ELSE u.index = layout.index
  <2>1. len \in Nat
    OBVIOUS
  <2> QED
    <3>1. \A l : Fits(l) =>
           LET p == PlaceRecord(l, n, len)
           IN /\ Extends(p, l) /\ p.end = l.end + len
              /\ \A b \in Len(l.cut) + 1 .. Len(p.cut) :
                   \/ p.cut[b] = l.end
                   \/ /\ l.end < p.cut[b] /\ p.cut[b] < p.end
                      /\ len > BlockSize
                      /\ \E a \in 0 .. b : CutAt(p, a) = l.end
              /\ IF IsGroupStart(n)
                 THEN \E a \in 0 .. Len(p.cut) :
                        CutAt(p, a) = l.end /\ p.index = Append(l.index, a)
                 ELSE p.index = l.index
      BY <2>1, PlaceRecordCuts
    <3> QED
      BY <1>1, <3>1
<1>11. layout' = u
  OBVIOUS
<1> HIDE DEF u
<1>2. Extends(layout', layout) /\ layout'.end = layout.end + len
  BY <1>10, <1>11
<1>12. ASSUME NEW b \in Len(layout.cut) + 1 .. Len(layout'.cut),
              layout'.cut[b] # layout.end
       PROVE  /\ layout.end < layout'.cut[b] /\ layout'.cut[b] < layout'.end
              /\ len > BlockSize
              /\ \E a \in 0 .. b : CutAt(layout', a) = layout.end
  BY <1>10, <1>11, <1>12
<1>13. IF IsGroupStart(n)
       THEN \E a \in 0 .. Len(layout'.cut) :
              /\ CutAt(layout', a) = layout.end
              /\ layout'.index = Append(layout.index, a)
       ELSE layout'.index = layout.index
  BY <1>10, <1>11
<1>3. /\ Len(starts') = N + 1 /\ starts'[N + 1] = layout.end
      /\ \A r \in 1 .. N : starts'[r] = starts[r] /\ starts[r] \in Nat
  BY <1>1, AppendProperties, ElementOfSeq
<1>4. StartsInOrder'
  <2>1. ASSUME NEW r \in 1 .. N + 1
        PROVE  starts'[r] < layout'.end
    <3>1. CASE r = N + 1
      BY <1>1, <1>2, <1>3, <3>1
    <3>2. CASE r # N + 1
      <4>1. r \in 1 .. N
        BY <1>1, <3>2
      <4>2. starts[r] < layout.end
        BY <4>1 DEF Placed, StartsInOrder
      <4> QED
        BY <1>1, <1>2, <1>3, <4>1, <4>2
    <3> QED
      BY <3>1, <3>2
  <2>2. ASSUME NEW r \in 1 .. N
        PROVE  starts'[r] < starts'[r + 1]
    <3>1. CASE r = N
      BY <1>1, <1>3, <3>1 DEF Placed, StartsInOrder
    <3>2. CASE r # N
      <4>1. r \in 1 .. N - 1 /\ r + 1 \in 1 .. N
        BY <1>1, <3>2
      <4> QED
        BY <1>3, <4>1 DEF Placed, StartsInOrder
    <3> QED
      BY <3>1, <3>2
  <2>3. ~torn => starts'[1] = 0
    <3>1. CASE N = 0
      BY <1>3, <3>1 DEF Placed, StartsInOrder
    <3>2. CASE N # 0
      <4>1. 1 \in 1 .. N
        BY <1>1, <3>2
      <4> QED
        BY <1>3, <3>2, <4>1 DEF Placed, StartsInOrder
    <3> QED
      BY <3>1, <3>2
  <2> QED
    BY <1>1, <1>3, <2>1, <2>2, <2>3 DEF StartsInOrder
<1>5. ASSUME NEW b \in 1 .. Len(layout'.cut)
      PROVE  \/ b \in 1 .. Len(layout.cut) /\ layout'.cut[b] = layout.cut[b]
             \/ b \in Len(layout.cut) + 1 .. Len(layout'.cut)
  BY <1>1, <1>2 DEF Extends
<1>6. CutsInside'
  <2>1. SUFFICES ASSUME ~torn, NEW b \in 1 .. Len(layout'.cut)
                 PROVE  layout'.cut[b] <= layout'.end
    BY DEF CutsInside
  <2>2. layout'.cut[b] \in Nat
    BY <1>1, LayoutParts, ElementOfSeq
  <2>3. CASE b \in 1 .. Len(layout.cut) /\ layout'.cut[b] = layout.cut[b]
    BY <1>1, <1>2, <2>1, <2>2, <2>3 DEF Placed, CutsInside
  <2>4. CASE b \in Len(layout.cut) + 1 .. Len(layout'.cut)
    <3>1. CASE layout'.cut[b] = layout.end
      BY <1>1, <1>2, <3>1
    <3>2. CASE layout'.cut[b] # layout.end
      <4>1. layout'.cut[b] < layout'.end
        BY <1>12, <2>4, <3>2
      <4>2. layout'.end \in Nat
        BY <1>1, <1>2
      <4> QED
        BY <2>2, <4>1, <4>2
    <3> QED
      BY <3>1, <3>2
  <2> QED
    BY <1>5, <2>3, <2>4
<1>7. RecordsSplitOnlyIfLonger'
  <2>1. SUFFICES ASSUME ~torn,
                        NEW r \in 1 .. N + 1, NEW b \in 1 .. Len(layout'.cut),
                        starts'[r] < layout'.cut[b],
                        layout'.cut[b] < RowEnd(r)'
                 PROVE  /\ RowEnd(r)' - starts'[r] > BlockSize
                        /\ \E a \in 0 .. b : EntryOffset(a)' = starts'[r]
    BY <1>3 DEF RecordsSplitOnlyIfLonger
  <2>2. layout'.cut[b] \in Nat
    BY <1>1, LayoutParts, ElementOfSeq
  <2>3. CASE r = N + 1
    <3>1. RowEnd(r)' = layout.end + len /\ starts'[r] = layout.end
      BY <1>2, <1>3, <2>3 DEF RowEnd
    <3>2. ~(layout'.cut[b] <= layout.end)
      BY <1>1, <2>1, <2>2, <3>1, SMTT(60)
    <3>3. b \in Len(layout.cut) + 1 .. Len(layout'.cut)
      BY <1>5, <2>1, <3>2 DEF Placed, CutsInside
    <3>4. len > BlockSize /\ \E a \in 0 .. b : CutAt(layout', a) = layout.end
      <4>1. layout'.cut[b] # layout.end
        BY <1>1, <3>2
      <4> QED
        BY <1>12, <3>3, <4>1
    <3>5. \A a : EntryOffset(a)' = CutAt(layout', a)
      BY DEF EntryOffset, CutAt
    <3> QED
      BY <1>1, <3>1, <3>4, <3>5, SMTT(60)
  <2>4. CASE r # N + 1
    <3>1. r \in 1 .. N /\ r # Len(starts') /\ starts'[r] = starts[r]
      BY <1>1, <1>3, <2>4
    <3>2. RowEnd(r)' = RowEnd(r) /\ RowEnd(r) <= layout.end
      <4>1. CASE r = N
        BY <1>1, <1>3, <3>1, <4>1 DEF RowEnd
      <4>2. CASE r # N
        <5>1. r + 1 \in 1 .. N
          BY <1>1, <3>1, <4>2
        <5>2. starts[r + 1] < layout.end /\ starts[r + 1] \in Nat
          BY <1>3, <5>1 DEF Placed, StartsInOrder
        <5> QED
          BY <1>1, <1>3, <3>1, <4>2, <5>1, <5>2 DEF RowEnd
      <4> QED
        BY <4>1, <4>2
    <3>3. RowEnd(r) \in Nat
      <4>1. r # N => r + 1 \in 1 .. N
        BY <1>1, <3>1
      <4> QED
        BY <1>1, <1>3, <4>1 DEF RowEnd
    <3>4. layout'.cut[b] < layout.end
      BY <1>1, <2>1, <2>2, <3>2, <3>3
    <3>5. b \in 1 .. Len(layout.cut) /\ layout'.cut[b] = layout.cut[b]
      <4>1. layout'.cut[b] # layout.end /\ ~(layout.end < layout'.cut[b])
        BY <1>1, <2>2, <3>4
      <4> QED
        BY <1>5, <1>12, <4>1
    <3>6. /\ RowEnd(r) - starts[r] > BlockSize
          /\ \E a \in 0 .. b : EntryOffset(a) = starts[r]
      BY <2>1, <3>1, <3>2, <3>5 DEF Placed, RecordsSplitOnlyIfLonger
    <3>7. ASSUME NEW a \in 0 .. b PROVE EntryOffset(a)' = EntryOffset(a)
      <4>1. a # 0 => a \in 1 .. Len(layout.cut)
        BY <1>1, <3>5
      <4> QED
        BY <1>2, <4>1 DEF EntryOffset, Extends
    <3> QED
      BY <3>1, <3>2, <3>6, <3>7
  <2> QED
    BY <2>3, <2>4
<1>8. ASSUME ~batchFailed PROVE GroupsIndexed'
  <2> DEFINE L == Len(layout.index)
  <2>1. /\ GroupCount(N, L) /\ layout.index[1] = 0 /\ n = N /\ ~torn
        /\ \A g \in 1 .. L :
             /\ layout.index[g] \in 0 .. Len(layout.cut)
             /\ (g - 1) * GroupSize + 1 <= N
                  => CutAt(layout, layout.index[g])
                       = starts[(g - 1) * GroupSize + 1]
    BY <1>8 DEF Placed, GroupsIndexed, TornFails
  <2>2. /\ IsGroupStart(N) => N = L * GroupSize
        /\ ~IsGroupStart(N) => N = 0 \/ N < L * GroupSize
    BY <1>1, <2>1, GroupsFull
  <2>3. L \in Nat /\ L >= 1 /\ GroupSize \in Nat \ {0}
    BY <1>1, <2>1, SizesAssumption DEF GroupCount
  <2>4. ASSUME NEW g \in 1 .. L
        PROVE  /\ layout.index[g] \in 0 .. Len(layout'.cut)
               /\ CutAt(layout', layout.index[g]) = CutAt(layout, layout.index[g])
    BY <1>1, <1>2, <2>1, ExtendsCutAt
  <2>5. ASSUME NEW g \in 1 .. L, (g - 1) * GroupSize + 1 <= N
        PROVE  CutAt(layout', layout.index[g])
                 = starts'[(g - 1) * GroupSize + 1]
    <3> DEFINE x == (g - 1) * GroupSize
    <3>1. g - 1 \in Nat
      BY <2>3
    <3>2. x \in Nat
      BY <2>3, <3>1
    <3> HIDE DEF x
    <3>3. x + 1 \in 1 .. N
      BY <1>1, <2>5, <3>2, SMTT(60) DEF x
    <3>4. starts'[x + 1] = starts[x + 1]
      BY <1>3, <3>3
    <3> QED
      BY <2>1, <2>4, <2>5, <3>4 DEF x
  <2>6. ASSUME NEW g \in 1 .. L
        PROVE  /\ g - 1 \in Nat /\ (g - 1) * GroupSize \in Nat
               /\ (g - 1) * GroupSize + GroupSize <= L * GroupSize
               /\ g # L => (g - 1) * GroupSize + GroupSize <= (L - 1) * GroupSize
    <3>1. g - 1 \in Nat /\ g - 1 < L /\ L - 1 \in Nat /\ (g # L => g - 1 < L - 1)
      BY <2>3
    <3>2. (g - 1) * GroupSize + GroupSize <= L * GroupSize
      BY <2>3, <3>1, MultiplesRise
    <3>3. ASSUME g # L
          PROVE  (g - 1) * GroupSize + GroupSize <= (L - 1) * GroupSize
      BY <2>3, <3>1, <3>3, MultiplesRise
    <3>4. (g - 1) * GroupSize \in Nat
      BY <2>3, <3>1
    <3> QED
      BY <3>1, <3>2, <3>3, <3>4
  <2>7. CASE IsGroupStart(N)
    <3>1. PICK a \in 0 .. Len(layout'.cut) :
                 /\ CutAt(layout', a) = layout.end
                 /\ layout'.index = Append(layout.index, a)
      BY <1>13, <2>1, <2>7
    <3>2. /\ Len(layout'.index) = L + 1 /\ layout'.index[L + 1] = a
          /\ \A g \in 1 .. L : layout'.index[g] = layout.index[g]
      <4>1. a \in Nat
        BY <1>1
      <4> QED
        BY <1>1, <3>1, <4>1, AppendProperties
    <3>3. N = L * GroupSize /\ N > 0
      BY <2>1, <2>2, <2>7 DEF IsGroupStart
    <3>4. GroupCount(N + 1, L + 1)
      <4> DEFINE t == L * GroupSize
      <4>1. (L + 1) * GroupSize = t + GroupSize /\ (L + 1) - 1 = L /\ t = N
        BY <2>3, <3>3
      <4> HIDE DEF t
      <4>2. N + 1 <= t + GroupSize /\ t < N + 1 /\ N + 1 # 0 /\ L + 1 >= 1
        BY <1>1, <2>3, <4>1, SMTT(60)
      <4> QED
        BY <4>1, <4>2 DEF GroupCount, t
    <3>5. ASSUME NEW g \in 1 .. L + 1
          PROVE  /\ layout'.index[g] \in 0 .. Len(layout'.cut)
                 /\ CutAt(layout', layout'.index[g])
                      = starts'[(g - 1) * GroupSize + 1]
      <4>1. CASE g = L + 1
        <5>1. (g - 1) * GroupSize = N
          BY <2>3, <3>3, <4>1
        <5> QED
          BY <1>3, <3>1, <3>2, <4>1, <5>1
      <4>2. CASE g # L + 1
        <5>1. g \in 1 .. L
          BY <2>3, <4>2
        <5> DEFINE x == (g - 1) * GroupSize
                   t == L * GroupSize
        <5>2. x \in Nat /\ x + GroupSize <= t /\ t = N
          BY <2>6, <3>3, <5>1
        <5> HIDE DEF x, t
        <5>3. x + 1 <= N
          BY <1>1, <2>3, <5>2
        <5> QED
          BY <2>4, <2>5, <3>2, <5>1, <5>3 DEF x
      <4> QED
        BY <4>1, <4>2
    <3>6. layout'.index[1] = 0
      BY <2>1, <2>3, <3>2
    <3> QED
      BY <1>3, <3>2, <3>4, <3>5, <3>6 DEF GroupsIndexed
  <2>8. CASE ~IsGroupStart(N)
    <3>1. layout'.index = layout.index
      BY <1>13, <2>1, <2>8
    <3>2. GroupCount(N + 1, L)
      <4> DEFINE t == L * GroupSize
                 q == (L - 1) * GroupSize
      <4>1. /\ t \in Nat /\ q \in Nat /\ t = q + GroupSize
            /\ N <= t /\ (N # 0 => q < N) /\ (N = 0 => q = 0)
            /\ (N # 0 => N < t)
        <5>1. L - 1 \in Nat /\ (N = 0 => L = 1)
          BY <2>1, <2>3 DEF GroupCount
        <5>2. t = q + GroupSize /\ t \in Nat /\ q \in Nat /\ (N = 0 => q = 0)
          <6>1. L - 1 \in Nat /\ (L - 1) + 1 = L
            BY <2>3, <5>1
          <6>2. q \in Nat /\ ((L - 1) + 1) * GroupSize = q + GroupSize
            BY <2>3, <6>1, Multiples
          <6>3. t \in Nat
            BY <2>3
          <6>4. N = 0 => q = 0
            <7>1. SUFFICES ASSUME N = 0 PROVE q = 0
              OBVIOUS
            <7>2. q = 0 * GroupSize
              <8>1. L - 1 = 0
                BY <5>1, <7>1
              <8> QED
                BY <8>1, Zenon
            <7> QED
              BY <2>3, <7>2
          <6> QED
            BY <6>1, <6>2, <6>3, <6>4
        <5>3. N <= t /\ (N # 0 => q < N)
          BY <2>1 DEF GroupCount
        <5>4. N # 0 => N < t
          BY <2>1, <2>2, <2>8
        <5> QED
          BY <5>2, <5>3, <5>4
      <4> HIDE DEF t, q
      <4>2. N + 1 <= t /\ q < N + 1 /\ N + 1 # 0
        BY <1>1, <2>3, <4>1
      <4> QED
        BY <2>3, <4>2 DEF GroupCount, t, q
    <3>3. ASSUME NEW g \in 1 .. L, (g - 1) * GroupSize + 1 <= N + 1
          PROVE  CutAt(layout', layout.index[g])
                   = starts'[(g - 1) * GroupSize + 1]
      <4>1. CASE (g - 1) * GroupSize + 1 <= N
        BY <2>5, <4>1
      <4>2. CASE ~((g - 1) * GroupSize + 1 <= N)
        <5> DEFINE x == (g - 1) * GroupSize
        <5>1. x \in Nat /\ x + 1 <= N + 1 /\ ~(x + 1 <= N)
          BY <2>6, <3>3, <4>2
        <5> HIDE DEF x
        <5>2. x = N
          BY <1>1, <5>1
        <5>3. N = 0
          <6>1. SUFFICES ASSUME N # 0 PROVE FALSE
            OBVIOUS
          <6> DEFINE t == L * GroupSize
                     q == (L - 1) * GroupSize
          <6>2. N < t /\ q < N /\ q \in Nat /\ t \in Nat
                /\ (g = L => x = q) /\ (g # L => x + GroupSize <= q)
            <7>1. L - 1 \in Nat
              BY <2>3
            <7>2. N < t
              BY <2>1, <2>2, <2>8, <6>1
            <7>3. q < N
              BY <2>1, <6>1 DEF GroupCount
            <7>4. q \in Nat /\ t \in Nat
              BY <2>3, <7>1
            <7>5. (g = L => x = q) /\ (g # L => x + GroupSize <= q)
              BY <2>6 DEF x
            <7> QED
              BY <7>2, <7>3, <7>4, <7>5
          <6> HIDE DEF t, q
          <6> QED
            BY <1>1, <2>3, <5>1, <5>2, <6>2
        <5>4. g = 1 /\ layout.end = 0
          BY <1>1, <2>1, <2>3, <5>3 DEF GroupCount, Placed, StartsInOrder
        <5>5. starts'[x + 1] = 0 /\ CutAt(layout', layout.index[g]) = 0
          BY <1>3, <2>1, <5>2, <5>4 DEF CutAt
        <5> QED
          BY <5>5 DEF x
      <4> QED
        BY <4>1, <4>2
    <3> QED
      BY <1>3, <2>1, <2>3, <2>4, <3>1, <3>2, <3>3 DEF GroupsIndexed
  <2> QED
    BY <2>7, <2>8
<1>9. GroupsIndexed'
  BY <1>8 DEF GroupsIndexed
<1> QED
  BY <1>4, <1>6, <1>7, <1>9 DEF Placed

Located == Committed /\ TornFails /\ Placed

LEMMA LocatedInit == Init => Located
<1> SUFFICES ASSUME Init PROVE TornFails
  BY CommittedInit, PlacedInit DEF Located
<1> QED
  BY DEF Init, TornFails

LEMMA TornFailsStep == TornFails /\ [Next]_vars => TornFails'
<1> SUFFICES ASSUME TornFails, [Next]_vars, torn' PROVE TornFails'
  BY DEF TornFails
<1>1. CASE BeginBatch
  BY <1>1 DEF TornFails, BeginBatch
<1>2. CASE WriteRow
  BY <1>2 DEF TornFails, WriteRow
<1>3. CASE RowRejected \/ RowWriteFails
  BY <1>3 DEF TornFails, RowRejected, RowWriteFails, BatchFails
<1>4. CASE BeginFinish \/ FinishFlush \/ FinishIndex \/ FinishIndexPos
           \/ FinishCount
  BY <1>4 DEF TornFails, BeginFinish, FinishFlush, FinishIndex,
              FinishIndexPos, FinishCount, FinishStep
<1>5. CASE FinishFails \/ DropWriter \/ Kill \/ UNCHANGED vars
  BY <1>5 DEF TornFails, FinishFails, DropWriter, Kill, vars
<1> QED
  BY <1>1, <1>2, <1>3, <1>4, <1>5 DEF Next

LEMMA LocatedStep == Located /\ [Next]_vars => Located'
<1> SUFFICES ASSUME Located, [Next]_vars PROVE Placed'
  BY CommittedStep, TornFailsStep DEF Located
<1>1. Laid /\ Laid' /\ Placed /\ TornFails /\ Fits(layout)
      /\ layout \in LayoutType /\ Len(layout.cut) \in Nat
  BY LaidStep, LayoutParts DEF Located, Committed, Laid, Fits
<1>2. CASE UNCHANGED <<layout, starts>> /\ (torn => torn')
           /\ (batchFailed => batchFailed')
  <2>1. Extends(layout, layout)
        /\ \A b \in Len(layout.cut) + 1 .. Len(layout.cut) :
             layout.cut[b] = layout.end
    BY <1>1 DEF Extends
  <2> QED
    BY <1>1, <1>2, <2>1, PlacedWithoutRow
<1>3. CASE BeginBatch \/ BeginFinish \/ FinishIndex \/ FinishIndexPos
           \/ FinishCount
  BY <1>2, <1>3 DEF BeginBatch, BeginFinish, FinishIndex, FinishIndexPos,
                    FinishCount, FinishStep
<1>4. CASE FinishFails \/ DropWriter \/ Kill \/ UNCHANGED vars
  BY <1>2, <1>4 DEF FinishFails, DropWriter, Kill, vars
<1>5. CASE WriteRow
  <2>1. pc = "batch" /\ row < Len(batch) /\ batch \in Seq(RowType)
        /\ row \in 0 .. Len(batch) /\ Len(batch) \in Nat
    BY <1>1, <1>5 DEF WriteRow, Laid, TypeOK
  <2>2. batch[row + 1] \in RowType
    BY <2>1, ElementOfSeq
  <2>3. batch[row + 1].len \in Nat \ {0}
    BY <2>2 DEF RowType
  <2>4. ~batchFailed => globalRow = Len(starts)
    BY <2>1 DEF Located, Committed, Finishing, globalRow
  <2>5. /\ layout' = PlaceRecord(layout, globalRow, batch[row + 1].len)
        /\ starts' = Append(starts, layout.end)
        /\ torn' = torn /\ batchFailed' = batchFailed
    BY <1>5 DEF WriteRow
  <2> QED
    BY <1>1, <2>1, <2>3, <2>4, <2>5, PlacedWithRow
<1>6. CASE RowRejected
  <2> DEFINE g == OpenGroup(layout, globalRow)
  <2>1. /\ Extends(g, layout) /\ g.end = layout.end
        /\ \A b \in Len(layout.cut) + 1 .. Len(g.cut) : g.cut[b] = layout.end
    BY <1>1, OpenGroupCuts
  <2>2. layout' = g /\ starts' = starts /\ torn' = torn /\ batchFailed'
    BY <1>6 DEF RowRejected, BatchFails
  <2> HIDE DEF g
  <2> QED
    BY <1>1, <2>1, <2>2, PlacedWithoutRow
<1>7. CASE FinishFlush
  <2> DEFINE f == Flush(layout)
  <2>1. /\ Extends(f, layout) /\ f.end = layout.end /\ f.index = layout.index
        /\ \A b \in Len(layout.cut) + 1 .. Len(f.cut) : f.cut[b] = layout.end
    BY <1>1, FlushCuts, FlushFits
  <2>2. layout' = f /\ starts' = starts /\ torn' = torn
        /\ batchFailed' = batchFailed
    BY <1>7 DEF FinishFlush, FinishStep
  <2> HIDE DEF f
  <2> QED
    BY <1>1, <2>1, <2>2, PlacedWithoutRow
<1>8. CASE RowWriteFails
  <2>1. pc = "batch" /\ row < Len(batch) /\ batch \in Seq(RowType)
        /\ row \in 0 .. Len(batch) /\ Len(batch) \in Nat
    BY <1>1, <1>8 DEF RowWriteFails, Laid, TypeOK
  <2>2. batch[row + 1] \in RowType
    BY <2>1, ElementOfSeq
  <2>3. batch[row + 1].len \in Nat
    BY <2>2 DEF RowType
  <2>4. PICK l \in FlushPoints(layout, globalRow, batch[row + 1].len) :
               BatchFails(l)
    BY <1>8 DEF RowWriteFails
  <2>5. layout.end <= l.end /\ l.end \in Nat /\ layout.end \in Nat
    BY <1>1, <2>3, <2>4, FlushPointsFit, LayoutParts DEF Fits
  <2>6. layout' = l /\ starts' = starts /\ torn' /\ batchFailed'
    BY <1>8, <2>4 DEF RowWriteFails, BatchFails
  <2>7. ASSUME NEW r \in 1 .. Len(starts)
        PROVE  starts[r] < layout'.end
    <3>1. starts[r] < layout.end /\ starts[r] \in Nat
      BY <1>1, ElementOfSeq DEF Placed, StartsInOrder, Laid, TypeOK
    <3> QED
      BY <2>5, <2>6, <3>1
  <2> QED
    BY <1>1, <2>6, <2>7 DEF Placed, StartsInOrder, CutsInside, GroupsIndexed,
                            RecordsSplitOnlyIfLonger
<1> QED
  BY <1>3, <1>4, <1>5, <1>6, <1>7, <1>8 DEF Next

LEMMA AlwaysLocated == Spec => []Located
BY LocatedInit, LocatedStep, PTL DEF Spec

(* Seeking to an index entry lands on the first record of its group, as    *)
(* long as no batch has failed.                                            *)
THEOREM IndexMarksGroupsTheorem == Spec => []IndexMarksGroups
<1>1. ASSUME Located PROVE IndexMarksGroups
  <2>1. \A e : EntryOffset(e) = CutAt(layout, e)
    BY DEF EntryOffset, CutAt
  <2> QED
    BY <1>1, <2>1 DEF Located, Placed, GroupsIndexed, GroupCount,
                      IndexMarksGroups
<1> QED BY <1>1, AlwaysLocated, PTL

(* Only a record longer than a block is split, and then it begins one,     *)
(* also after batches that failed.                                         *)
THEOREM RecordsSplitOnlyIfLongerTheorem == Spec => []RecordsSplitOnlyIfLonger
<1>1. Located => RecordsSplitOnlyIfLonger
  BY DEF Located, Placed
<1> QED BY <1>1, AlwaysLocated, PTL

(* Unless a write failed, what finish leaves is a file the readers are     *)
(* specified for, with every byte of every record in its blocks.           *)
THEOREM FinishedFileIsReadableTheorem == Spec => []FinishedFileIsReadable
<1>1. ASSUME Located PROVE FinishedFileIsReadable
  <2> SUFFICES ASSUME pc = "done", ~torn
               PROVE  File!WellFormed(WrittenFile) /\ layout.end = LastCut(layout)
    BY DEF FinishedFileIsReadable
  <2>1. /\ Fits(layout) /\ Buffered(layout) = 0 /\ StartsInOrder
        /\ starts \in Seq(Nat) /\ Len(starts) \in Nat
    BY <1>1 DEF Located, Committed, Finishing, Placed, Laid, TypeOK
  <2>2. /\ layout.cut \in Seq(Nat) /\ layout.end \in Nat
        /\ Len(layout.cut) \in Nat /\ LastCut(layout) \in Nat
    BY <2>1, LayoutParts DEF Fits
  <2>3. layout.end = LastCut(layout)
    BY <2>1, <2>2 DEF Buffered
  <2> DEFINE F == WrittenFile
             lens == [r \in 1 .. Len(starts) |-> RowEnd(r) - starts[r]]
             whole == [b \in 1 .. Len(layout.cut) |-> "none"]
  <2>4. /\ F.start = starts /\ F.len = lens /\ F.cut = layout.cut
        /\ F.fault = whole /\ F.grid = {} /\ F.spatial = FALSE
        /\ F.hasVar = TRUE
    BY DEF WrittenFile
  <2>5. ASSUME NEW r \in 1 .. Len(starts)
        PROVE  /\ lens[r] \in Nat /\ lens[r] >= 1
               /\ starts[r] + lens[r] = RowEnd(r)
    <3>1. starts[r] \in Nat
      BY <2>1, ElementOfSeq
    <3>2. RowEnd(r) \in Nat /\ starts[r] < RowEnd(r)
      <4>1. CASE r = Len(starts)
        BY <2>1, <2>2, <4>1 DEF RowEnd, StartsInOrder
      <4>2. CASE r # Len(starts)
        <5>1. r \in 1 .. Len(starts) - 1 /\ r + 1 \in 1 .. Len(starts)
          BY <2>1, <4>2
        <5> QED
          BY <2>1, <4>2, <5>1, ElementOfSeq DEF RowEnd, StartsInOrder
      <4> QED
        BY <4>1, <4>2
    <3> QED
      BY <3>1, <3>2
  <2>6. lens \in Seq(Nat) /\ Len(lens) = Len(starts)
    BY <2>1, <2>5
  <2>7. whole \in Seq(File!Faults) /\ Len(whole) = Len(layout.cut)
        /\ \A b \in 1 .. Len(layout.cut) : whole[b] = "none"
    BY <2>2 DEF File!Faults
  <2>8. F \in File!FileType
    <3>1. F = [start |-> starts, len |-> lens, cut |-> layout.cut,
               fault |-> whole, grid |-> {}, spatial |-> FALSE, hasVar |-> TRUE]
      BY DEF WrittenFile
    <3> HIDE DEF F, lens, whole
    <3> QED
      BY <2>1, <2>2, <2>6, <2>7, <3>1 DEF File!FileType
  <2> HIDE DEF F, lens, whole
  <2>9. File!BlocksInOrder(F)
    <3>1. ASSUME NEW b \in 1 .. Len(layout.cut)
          PROVE  File!BlockStart(F, b) <= File!BlockEnd(F, b)
      <4>1. layout.cut[b] \in Nat
            /\ layout.cut[b] - BlockBegin(layout, b) \in 1 .. BlockSize
        BY <2>1 DEF Fits
      <4>2. BlockBegin(layout, b) \in Nat
        <5>1. b # 1 => b - 1 \in 1 .. Len(layout.cut)
          BY <2>2
        <5> QED
          BY <2>2, <5>1, ElementOfSeq DEF BlockBegin
      <4>3. File!BlockStart(F, b) = BlockBegin(layout, b)
            /\ File!BlockEnd(F, b) = layout.cut[b]
        BY <2>4 DEF File!BlockStart, File!BlockEnd, BlockBegin
      <4> QED
        BY <4>1, <4>2, <4>3, SizesAssumption
    <3> QED
      BY <2>4, <2>7, <3>1 DEF File!BlocksInOrder, File!NumBlocks
  <2>10. File!RecordsInOrder(F)
    <3>1. Len(starts) > 0 => starts[1] = 0
      BY <2>1 DEF StartsInOrder
    <3>2. ASSUME NEW r \in 1 .. Len(starts) - 1
          PROVE  starts[r + 1] = File!EndOfRecord(F, r)
      <4>1. r \in 1 .. Len(starts) /\ r # Len(starts)
        BY <2>1
      <4>2. RowEnd(r) = starts[r + 1]
        BY <4>1 DEF RowEnd
      <4> QED
        BY <2>4, <2>5, <4>1, <4>2 DEF File!EndOfRecord
    <3> QED
      BY <2>4, <2>5, <2>6, <3>1, <3>2
         DEF File!RecordsInOrder, File!NumRecords
  <2> QED
    BY <2>3, <2>8, <2>9, <2>10 DEF File!WellFormed, F
<1> QED BY <1>1, AlwaysLocated, PTL
=============================================================================
