--------------------------- MODULE BulkReaderProofs ---------------------------
(***************************************************************************)
(* Proofs about BulkReader, for every set of well-formed files, every      *)
(* chunk budget and every estimate of block sizes: chunk borders lose      *)
(* nothing and repeat nothing, no chunk is over its budget by more than    *)
(* one block, a frame that is returned holds the file's records, and a     *)
(* sound file is not refused.                                              *)
(***************************************************************************)
EXTENDS BulkReader, NaturalSets, SequenceTheorems, FiniteSetTheorems

-----------------------------------------------------------------------------
(* Sequences put end to end.                                               *)

(* One more sequence of bytes comes behind the others.                     *)
LEMMA BytesAppend ==
  ASSUME NEW seqs \in Seq(Seq(Nat)), NEW s \in Seq(Nat)
  PROVE  /\ FlattenSeq(seqs) \in Seq(Nat)
         /\ Append(seqs, s) \in Seq(Seq(Nat))
         /\ FlattenSeq(Append(seqs, s)) = FlattenSeq(seqs) \o s
BY FlattenAppend

LEMMA BytesConcat ==
  \A x, y, z \in Seq(Nat) : (x \o y) \o z = x \o (y \o z)
<1>1. ASSUME NEW x \in Seq(Nat), NEW y \in Seq(Nat), NEW z \in Seq(Nat)
      PROVE  (x \o y) \o z = x \o (y \o z)
  BY <1>1, SMTT(30)
<1> QED BY <1>1

-----------------------------------------------------------------------------
(* The data of a run of blocks.                                            *)

Keeps(f, a, b) ==
  a = "filtered" => IsRecordBlock(f, BlockStart(f, b), BlockEnd(f, b))

BlockBytes(f, a, b) ==
  IF Keeps(f, a, b) THEN Bytes(BlockStart(f, b), BlockEnd(f, b)) ELSE <<>>

BlocksOf(f, a, from, to) ==
  FlattenSeq([i \in 1 .. to - from |-> BlockBytes(f, a, from + i)])

LEMMA BlockDataIs ==
  \A from, to :
    /\ BlockData(from, to) = BlocksOf(file, attempt, from, to)
    /\ BlockData(from, to)' = BlocksOf(file', attempt', from, to)
BY DEF BlockData, Kept, BlocksOf, BlockBytes, Keeps

LEMMA BytesShape ==
  ASSUME NEW from \in Nat, NEW to \in Nat, from <= to
  PROVE  /\ Bytes(from, to) \in Seq(Nat) /\ Len(Bytes(from, to)) = to - from
         /\ \A i \in 1 .. to - from : Bytes(from, to)[i] = from + i - 1
BY DEF Bytes

(* A block begins where the one before it ended.                           *)
LEMMA BlockTypes ==
  ASSUME NEW f, WellFormed(f)
  PROVE  /\ NumBlocks(f) \in Nat
         /\ \A b \in 1 .. NumBlocks(f) :
              /\ BlockStart(f, b) \in Nat /\ BlockEnd(f, b) \in Nat
              /\ BlockStart(f, b) <= BlockEnd(f, b)
<1>1. /\ f.cut \in Seq(Nat) /\ Len(f.cut) \in Nat /\ BlocksInOrder(f)
  BY DEF WellFormed, FileType
<1>2. \A b \in 1 .. Len(f.cut) : f.cut[b] \in Nat
  BY <1>1, ElementOfSeq
<1>3. ASSUME NEW b \in 1 .. Len(f.cut) PROVE BlockStart(f, b) \in Nat
  <2>1. b # 1 => b - 1 \in 1 .. Len(f.cut)
    BY <1>1
  <2> QED BY <1>2, <2>1 DEF BlockStart
<1> QED BY <1>1, <1>2, <1>3 DEF NumBlocks, BlockEnd, BlocksInOrder

LEMMA BlockBytesShape ==
  ASSUME NEW f, WellFormed(f), NEW a, NEW b \in 1 .. NumBlocks(f)
  PROVE  /\ BlockBytes(f, a, b) \in Seq(Nat) /\ Len(BlockBytes(f, a, b)) \in Nat
         /\ Len(BlockBytes(f, a, b)) <= BlockEnd(f, b) - BlockStart(f, b)
<1>1. /\ BlockStart(f, b) \in Nat /\ BlockEnd(f, b) \in Nat
      /\ BlockStart(f, b) <= BlockEnd(f, b)
  BY BlockTypes
<1>2. CASE Keeps(f, a, b)
  <2>1. BlockBytes(f, a, b) = Bytes(BlockStart(f, b), BlockEnd(f, b))
    BY <1>2 DEF BlockBytes
  <2>2. BlockEnd(f, b) - BlockStart(f, b) \in Nat
    BY <1>1
  <2> DEFINE from == BlockStart(f, b)
             to == BlockEnd(f, b)
             bytes == Bytes(from, to)
             n == Len(bytes)
  <2>3. from \in Nat /\ to \in Nat /\ from <= to /\ to - from \in Nat
    BY <1>1, <2>2
  <2> HIDE DEF from, to
  <2>4. bytes \in Seq(Nat) /\ n = to - from
    BY <2>3, BytesShape
  <2>5. BlockBytes(f, a, b) = bytes
    BY <2>1 DEF from, to
  <2> HIDE DEF bytes
  <2>6. Len(BlockBytes(f, a, b)) = n
    BY <2>5
  <2> HIDE DEF n
  <2>7. n \in Nat /\ n <= to - from
    BY <2>3, <2>4
  <2> QED BY <2>4, <2>5, <2>6, <2>7 DEF from, to
<1>3. CASE ~Keeps(f, a, b)
  <2>1. BlockBytes(f, a, b) = <<>> /\ <<>> \in Seq(Nat) /\ Len(<<>>) = 0
    BY <1>3 DEF BlockBytes
  <2> QED BY <1>1, <2>1
<1> QED BY <1>2, <1>3

LEMMA BlocksStep ==
  ASSUME NEW f, WellFormed(f), NEW a,
         NEW from \in Nat, NEW to \in Nat, from <= to, to <= NumBlocks(f)
  PROVE  /\ BlocksOf(f, a, from, to) \in Seq(Nat)
         /\ BlocksOf(f, a, from, from) = <<>>
         /\ to + 1 <= NumBlocks(f) =>
              BlocksOf(f, a, from, to + 1) =
                BlocksOf(f, a, from, to) \o BlockBytes(f, a, to + 1)
<1> DEFINE seqs(k) == [i \in 1 .. k - from |-> BlockBytes(f, a, from + i)]
<1>1. NumBlocks(f) \in Nat
  BY BlockTypes
<1>2. ASSUME NEW k \in Nat, from <= k, k <= NumBlocks(f)
      PROVE  /\ seqs(k) \in Seq(Seq(Nat)) /\ Len(seqs(k)) = k - from
             /\ \A i \in 1 .. k - from : seqs(k)[i] = BlockBytes(f, a, from + i)
  <2>1. ASSUME NEW i \in 1 .. k - from PROVE BlockBytes(f, a, from + i) \in Seq(Nat)
    <3>1. from + i \in 1 .. NumBlocks(f)
      BY <1>1, <1>2
    <3> QED BY <3>1, BlockBytesShape
  <2>2. k - from \in Nat
    BY <1>2
  <2> QED BY <2>1, <2>2
<1>3. seqs(from) = <<>>
  <2>1. seqs(from) \in Seq(Seq(Nat)) /\ Len(seqs(from)) = 0
    <3>1. from <= NumBlocks(f) /\ from - from = 0
      BY <1>1
    <3> HIDE DEF seqs
    <3> QED BY <1>2, <3>1
  <2> HIDE DEF seqs
  <2> QED BY <2>1, EmptySeq
<1>4. ASSUME to + 1 <= NumBlocks(f)
      PROVE  seqs(to + 1) = Append(seqs(to), BlockBytes(f, a, to + 1))
  <2> DEFINE s == seqs(to)
             t == seqs(to + 1)
             last == BlockBytes(f, a, to + 1)
             u == Append(s, last)
             n == to - from
  <2>1. /\ s \in Seq(Seq(Nat)) /\ Len(s) = n /\ n \in Nat
        /\ t \in Seq(Seq(Nat)) /\ Len(t) = n + 1
        /\ \A i \in 1 .. n : s[i] = BlockBytes(f, a, from + i)
        /\ \A i \in 1 .. n + 1 : t[i] = BlockBytes(f, a, from + i)
    <3>1. to + 1 \in Nat /\ from <= to + 1 /\ (to + 1) - from = (to - from) + 1
      OBVIOUS
    <3> HIDE DEF seqs
    <3> QED BY <1>2, <1>4, <3>1
  <2>2. last \in Seq(Nat)
    BY <1>1, <1>4, BlockBytesShape
  <2> HIDE DEF s, t, last
  <2>3. /\ u \in Seq(Seq(Nat)) /\ Len(u) = n + 1 /\ u[n + 1] = last
        /\ \A i \in 1 .. n : u[i] = s[i]
    BY <2>1, <2>2, AppendProperties
  <2> HIDE DEF u
  <2>4. from + (n + 1) = to + 1
    OBVIOUS
  <2>5. last = t[n + 1]
    BY <2>1, <2>4 DEF last
  <2> HIDE DEF n
  <2>6. ASSUME NEW i \in 1 .. n + 1 PROVE t[i] = u[i]
    <3>1. CASE i = n + 1
      BY <2>3, <2>5, <3>1
    <3>2. CASE i # n + 1
      <4>1. i \in 1 .. n
        BY <2>1, <3>2
      <4> QED BY <2>1, <2>3, <4>1
    <3> QED BY <3>1, <3>2
  <2>7. t = u
    BY <2>1, <2>3, <2>6, SeqEqual
  <2> QED BY <2>7 DEF s, t, u, last
<1>5. \A k : BlocksOf(f, a, from, k) = FlattenSeq(seqs(k))
  BY DEF BlocksOf
<1> HIDE DEF seqs
<1>6. seqs(to) \in Seq(Seq(Nat))
  BY <1>2
<1>7. FlattenSeq(seqs(to)) \in Seq(Nat)
  <2>1. <<>> \in Seq(Nat)
    OBVIOUS
  <2> QED BY <1>6, <2>1, BytesAppend
<1>8. ASSUME to + 1 <= NumBlocks(f)
      PROVE  FlattenSeq(seqs(to + 1)) = FlattenSeq(seqs(to)) \o BlockBytes(f, a, to + 1)
  <2>1. BlockBytes(f, a, to + 1) \in Seq(Nat)
    BY <1>1, <1>8, BlockBytesShape
  <2> QED BY <1>4, <1>6, <1>8, <2>1, BytesAppend
<1> QED BY <1>3, <1>5, <1>7, <1>8, FlattenEmpty

(* Two runs of blocks make one.                                            *)
LEMMA BlocksJoin ==
  ASSUME NEW f, WellFormed(f), NEW a, NEW mid \in Nat
  PROVE  \A to \in mid .. NumBlocks(f) :
           BlocksOf(f, a, 0, to) = BlocksOf(f, a, 0, mid) \o BlocksOf(f, a, mid, to)
<1> DEFINE Joined(to) ==
             BlocksOf(f, a, 0, to) = BlocksOf(f, a, 0, mid) \o BlocksOf(f, a, mid, to)
           S == {k \in Nat : mid + k <= NumBlocks(f) => Joined(mid + k)}
<1>1. NumBlocks(f) \in Nat
  BY BlockTypes
<1>2. 0 \in S
  <2> SUFFICES ASSUME mid <= NumBlocks(f) PROVE Joined(mid)
    OBVIOUS
  <2>1. BlocksOf(f, a, 0, mid) \in Seq(Nat) /\ BlocksOf(f, a, mid, mid) = <<>>
    <3>1. 0 \in Nat /\ 0 <= mid /\ mid <= mid
      OBVIOUS
    <3> QED BY <3>1, BlocksStep
  <2> QED BY <2>1, ConcatEmptySeq
<1>3. ASSUME NEW k \in Nat, k \in S PROVE k + 1 \in S
  <2> SUFFICES ASSUME mid + (k + 1) <= NumBlocks(f) PROVE Joined(mid + (k + 1))
    OBVIOUS
  <2> DEFINE to == mid + k
  <2>1. /\ mid + (k + 1) = to + 1 /\ to + 1 <= NumBlocks(f) /\ to <= NumBlocks(f)
        /\ to \in Nat /\ mid <= to /\ 0 <= to /\ Joined(to)
        /\ mid <= NumBlocks(f) /\ to + 1 \in 1 .. NumBlocks(f) /\ 0 \in Nat
        /\ 0 <= mid
    BY <1>1, <1>3
  <2> HIDE DEF to
  <2> DEFINE x == BlocksOf(f, a, 0, mid)
             y == BlocksOf(f, a, mid, to)
             z == BlockBytes(f, a, to + 1)
  <2>2. /\ BlocksOf(f, a, 0, to + 1) = BlocksOf(f, a, 0, to) \o z
        /\ BlocksOf(f, a, mid, to + 1) = y \o z
        /\ x \in Seq(Nat) /\ y \in Seq(Nat) /\ z \in Seq(Nat)
    BY <2>1, BlocksStep, BlockBytesShape
  <2>3. BlocksOf(f, a, 0, to) = x \o y
    BY <2>1
  <2> HIDE DEF x, y, z
  <2>4. x \in Seq(Nat) /\ y \in Seq(Nat) /\ z \in Seq(Nat)
    BY <2>2
  <2>5. (x \o y) \o z = x \o (y \o z)
    BY <2>4, ConcatAssociative, SMTT(60)
  <2> QED BY <2>1, <2>2, <2>3, <2>5 DEF x
<1>4. \A k \in Nat : k \in S
  <2> HIDE DEF S
  <2> QED BY <1>2, <1>3, SetInduction
<1>5. ASSUME NEW to \in mid .. NumBlocks(f) PROVE Joined(to)
  <2>1. to - mid \in Nat /\ mid + (to - mid) = to /\ to <= NumBlocks(f)
    BY <1>1
  <2>2. (to - mid) \in S
    BY <1>4, <2>1
  <2> HIDE DEF Joined
  <2> QED BY <2>1, <2>2
<1> QED BY <1>5

-----------------------------------------------------------------------------
(* The records found in the data of a chunk.                               *)

(* EndsUpTo is defined by itself; there is such a function.                *)
LEMMA EndsSteps ==
  ASSUME NEW data \in Seq(Nat)
  PROVE  \A i \in 0 .. Len(data) :
           EndsUpTo(data)[i] =
             IF i = 0 THEN <<0>>
             ELSE IF IsEnd(data)[i] THEN Append(EndsUpTo(data)[i - 1], i)
             ELSE EndsUpTo(data)[i - 1]
<1> DEFINE Value(f, i) == IF i = 0 THEN <<0>>
                          ELSE IF IsEnd(data)[i] THEN Append(f[i - 1], i)
                          ELSE f[i - 1]
           Upto(f, k) == f = [i \in 0 .. k |-> Value(f, i)]
           S == {k \in Nat : \E f : Upto(f, k)}
<1>1. 0 \in S
  <2> DEFINE f == [i \in 0 .. 0 |-> <<0>>]
  <2>1. Upto(f, 0)
    OBVIOUS
  <2> HIDE DEF f, Upto
  <2> QED BY <2>1
<1>2. ASSUME NEW k \in Nat, k \in S PROVE k + 1 \in S
  <2>1. PICK f : Upto(f, k)
    BY <1>2
  <2> DEFINE g == [i \in 0 .. k + 1 |-> IF i = k + 1 THEN Value(f, k + 1) ELSE f[i]]
  <2>2. ASSUME NEW i \in 0 .. k + 1 PROVE g[i] = Value(g, i)
    <3>1. Value(g, i) = Value(f, i)
      <4>1. CASE i = 0
        BY <4>1
      <4>2. CASE i # 0
        <5>1. i - 1 \in 0 .. k + 1 /\ i - 1 # k + 1
          BY <4>2
        <5>2. g[i - 1] = f[i - 1]
          BY <5>1
        <5> HIDE DEF g
        <5> QED BY <4>2, <5>2
      <4> QED BY <4>1, <4>2
    <3>2. g[i] = Value(f, i)
      <4>1. CASE i = k + 1
        BY <4>1
      <4>2. CASE i # k + 1
        <5>1. i \in 0 .. k /\ g[i] = f[i]
          BY <4>2
        <5> HIDE DEF Value, g
        <5> QED BY <2>1, <5>1
      <4> QED BY <4>1, <4>2
    <3> QED BY <3>1, <3>2
  <2>3. Upto(g, k + 1)
    <3>1. g = [i \in 0 .. k + 1 |-> g[i]]
      OBVIOUS
    <3> HIDE DEF g, Value
    <3> QED BY <2>2, <3>1
  <2> HIDE DEF g, Upto
  <2> QED BY <2>3
<1>3. Len(data) \in Nat
  OBVIOUS
<1>4. Len(data) \in S
  <2> HIDE DEF S
  <2> QED BY <1>1, <1>2, <1>3, SetInduction
<1>5. EndsUpTo(data) = CHOOSE f : Upto(f, Len(data))
  BY DEF EndsUpTo
<1>6. Upto(EndsUpTo(data), Len(data))
  <2> HIDE DEF Upto
  <2> QED BY <1>4, <1>5
<1>7. ASSUME NEW i \in 0 .. Len(data)
      PROVE  EndsUpTo(data)[i] = Value(EndsUpTo(data), i)
  <2> HIDE DEF Value
  <2> QED BY <1>6
<1> QED BY <1>7

(* Ends of records in data of length n: increasing, from 0 on.             *)
Rising(ends, n) ==
  /\ ends \in Seq(Nat) /\ Len(ends) \in Nat \ {0}
  /\ ends[1] = 0
  /\ \A r \in 1 .. Len(ends) : ends[r] \in 0 .. n
  /\ \A r \in 1 .. Len(ends) - 1 : ends[r] < ends[r + 1]

LEMMA RisingAppend ==
  ASSUME NEW i \in Nat, NEW ends, Rising(ends, i)
  PROVE  Rising(Append(ends, i + 1), i + 1) /\ Rising(ends, i + 1)
<1> DEFINE k == Len(ends)
           u == Append(ends, i + 1)
<1>1. /\ ends \in Seq(Nat) /\ k \in Nat \ {0} /\ ends[1] = 0
      /\ \A r \in 1 .. k : ends[r] \in 0 .. i
      /\ \A r \in 1 .. k - 1 : ends[r] < ends[r + 1]
  BY DEF Rising
<1>2. /\ u \in Seq(Nat) /\ Len(u) = k + 1 /\ u[k + 1] = i + 1
      /\ \A r \in 1 .. k : u[r] = ends[r]
  BY <1>1, AppendProperties
<1> HIDE DEF u, k
<1>3. u[1] = 0
  BY <1>1, <1>2
<1>4. ASSUME NEW r \in 1 .. k + 1 PROVE u[r] \in 0 .. i + 1
  <2>1. CASE r = k + 1
    BY <1>2, <2>1
  <2>2. CASE r # k + 1
    <3>1. r \in 1 .. k
      BY <1>1, <2>2
    <3>2. u[r] = ends[r] /\ ends[r] \in 0 .. i
      BY <1>1, <1>2, <3>1
    <3> QED BY <3>2
  <2> QED BY <2>1, <2>2
<1>5. ASSUME NEW r \in 1 .. k PROVE u[r] < u[r + 1]
  <2>1. u[r] = ends[r] /\ ends[r] \in 0 .. i
    BY <1>1, <1>2
  <2>2. CASE r = k
    BY <1>2, <2>1, <2>2
  <2>3. CASE r # k
    <3>1. r + 1 \in 1 .. k /\ r \in 1 .. k - 1
      BY <1>1, <2>3
    <3> QED BY <1>1, <1>2, <2>1, <3>1
  <2> QED BY <2>2, <2>3
<1>6. Rising(u, i + 1)
  <2>1. Len(u) \in Nat \ {0} /\ Len(u) - 1 = k
    BY <1>1, <1>2
  <2> QED BY <1>2, <1>3, <1>4, <1>5, <2>1 DEF Rising
<1>7. \A r \in 1 .. k : ends[r] \in 0 .. i + 1
  BY <1>1
<1>8. Rising(ends, i + 1)
  BY <1>1, <1>7 DEF Rising, k
<1> QED BY <1>6, <1>8 DEF u

LEMMA BoundsRise ==
  ASSUME NEW data \in Seq(Nat)
  PROVE  Rising(Bounds(data), Len(data))
<1> DEFINE E == EndsUpTo(data)
           S == {i \in Nat : i <= Len(data) => Rising(E[i], i)}
<1>1. Len(data) \in Nat
  OBVIOUS
<1>2. /\ E[0] = <<0>>
      /\ \A i \in 1 .. Len(data) : E[i] = Append(E[i - 1], i) \/ E[i] = E[i - 1]
  <2>1. E[0] = <<0>>
    BY <1>1, EndsSteps
  <2>2. ASSUME NEW i \in 1 .. Len(data)
        PROVE  E[i] = Append(E[i - 1], i) \/ E[i] = E[i - 1]
    <3>1. i \in 0 .. Len(data) /\ i # 0
      BY <1>1
    <3> QED BY <3>1, EndsSteps
  <2> QED BY <2>1, <2>2
<1> HIDE DEF E
<1>3. 0 \in S
  <2> DEFINE z == <<0>>
  <2>1. z \in Seq(Nat) /\ Len(z) = 1 /\ z[1] = 0
    OBVIOUS
  <2> HIDE DEF z
  <2>2. Rising(z, 0)
    <3>1. \A r \in 1 .. 1 : z[r] \in 0 .. 0
      BY <2>1
    <3>2. Len(z) \in Nat \ {0} /\ Len(z) - 1 = 0
      BY <2>1
    <3> QED BY <2>1, <3>1, <3>2 DEF Rising
  <2> QED BY <1>2, <2>2 DEF z
<1>4. ASSUME NEW i \in Nat, i \in S PROVE i + 1 \in S
  <2> SUFFICES ASSUME i + 1 <= Len(data) PROVE Rising(E[i + 1], i + 1)
    OBVIOUS
  <2>1. i + 1 \in 1 .. Len(data) /\ (i + 1) - 1 = i /\ Rising(E[i], i)
    BY <1>1, <1>4
  <2> QED BY <1>2, <2>1, RisingAppend
<1>5. \A i \in Nat : i \in S
  <2> HIDE DEF S
  <2> QED BY <1>3, <1>4, SetInduction
<1> QED BY <1>1, <1>5 DEF Bounds, E

(* The records cut from the data are together its first part.              *)
LEMMA RecordsFlat ==
  ASSUME NEW data \in Seq(Nat), NEW ends, Rising(ends, Len(data)),
         NEW rs \in Seq(Seq(Nat))
  PROVE  \A n \in 0 .. Len(ends) - 1 :
           /\ rs \o Records(data, ends, n) \in Seq(Seq(Nat))
           /\ FlattenSeq(rs \o Records(data, ends, n)) =
                FlattenSeq(rs) \o SubSeq(data, 1, ends[n + 1])
<1> DEFINE k == Len(ends)
           m == Len(data)
           rec(r) == SubSeq(data, ends[r] + 1, ends[r + 1])
           R(n) == Records(data, ends, n)
           Flat(n) == FlattenSeq(rs \o R(n)) = FlattenSeq(rs) \o SubSeq(data, 1, ends[n + 1])
           S == {n \in Nat : n + 1 <= k => Flat(n)}
<1>1. /\ m \in Nat /\ k \in Nat \ {0} /\ ends[1] = 0
      /\ \A r \in 1 .. k : ends[r] \in 0 .. m
      /\ \A r \in 1 .. k - 1 : ends[r] < ends[r + 1]
      /\ \A i \in 1 .. m : data[i] \in Nat
  BY ElementOfSeq DEF Rising
<1> HIDE DEF k, m
<1>2. ASSUME NEW r \in 1 .. k - 1
      PROVE  /\ rec(r) \in Seq(Nat)
             /\ SubSeq(data, 1, ends[r]) \o rec(r) = SubSeq(data, 1, ends[r + 1])
  <2>1. /\ r \in 1 .. k /\ r + 1 \in 1 .. k
        /\ ends[r] \in 0 .. m /\ ends[r + 1] \in 0 .. m /\ ends[r] < ends[r + 1]
    BY <1>1
  <2> DEFINE x == ends[r]
             y == ends[r + 1]
  <2>2. /\ x \in Nat /\ y \in Nat /\ x <= y /\ y <= m
        /\ x \in 1 - 1 .. m /\ y \in x .. m /\ 1 \in 1 .. m + 1
        /\ x + 1 \in Int /\ y \in Int
        /\ \A i \in x + 1 .. y : i \in 1 .. m
    BY <1>1, <2>1
  <2> HIDE DEF x, y
  <2>3. \A i \in x + 1 .. y : data[i] \in Nat
    BY <1>1, <2>2
  <2>4. SubSeq(data, x + 1, y) \in Seq(Nat)
    BY <2>2, <2>3, SubSeqProperties
  <2>5. SubSeq(data, 1, x) \o SubSeq(data, x + 1, y) = SubSeq(data, 1, y)
    BY <2>2, ConcatAdjacentSubSeq DEF m
  <2> QED BY <2>4, <2>5 DEF x, y
<1> HIDE DEF rec
<1>3. ASSUME NEW n \in Nat, n + 1 <= k
      PROVE  /\ R(n) \in Seq(Seq(Nat)) /\ Len(R(n)) = n
             /\ \A r \in 1 .. n : R(n)[r] = rec(r)
  <2>1. \A r \in 1 .. n : rec(r) \in Seq(Nat)
    <3>1. \A r \in 1 .. n : r \in 1 .. k - 1
      BY <1>1, <1>3
    <3> QED BY <1>2, <3>1
  <2>2. R(n) = [r \in 1 .. n |-> rec(r)]
    BY DEF Records, rec
  <2> QED BY <2>1, <2>2
<1> HIDE DEF R
<1>4. ASSUME NEW n \in Nat, (n + 1) + 1 <= k
      PROVE  R(n + 1) = Append(R(n), rec(n + 1))
  <2> DEFINE last == rec(n + 1)
             t == R(n + 1)
             s == R(n)
             u == Append(s, last)
  <2>1. /\ s \in Seq(Seq(Nat)) /\ Len(s) = n /\ \A r \in 1 .. n : s[r] = rec(r)
        /\ t \in Seq(Seq(Nat)) /\ Len(t) = n + 1 /\ \A r \in 1 .. n + 1 : t[r] = rec(r)
        /\ last \in Seq(Nat)
    <3>1. n + 1 <= k /\ n + 1 \in Nat /\ n + 1 \in 1 .. k - 1
      BY <1>1, <1>4
    <3> QED BY <1>2, <1>3, <1>4, <3>1
  <2> HIDE DEF s, t, last
  <2>2. /\ u \in Seq(Seq(Nat)) /\ Len(u) = n + 1 /\ u[n + 1] = last
        /\ \A r \in 1 .. n : u[r] = s[r]
    BY <2>1, AppendProperties
  <2> HIDE DEF u
  <2>3. ASSUME NEW r \in 1 .. n + 1 PROVE t[r] = u[r]
    <3>1. CASE r = n + 1
      BY <2>1, <2>2, <3>1 DEF last
    <3>2. CASE r # n + 1
      <4>1. r \in 1 .. n
        BY <3>2
      <4> QED BY <2>1, <2>2, <4>1
    <3> QED BY <3>1, <3>2
  <2>4. t = u
    BY <2>1, <2>2, <2>3, SeqEqual
  <2> QED BY <2>4 DEF s, t, last, u
<1>5. FlattenSeq(rs) \in Seq(Nat)
  <2>1. <<>> \in Seq(Nat)
    OBVIOUS
  <2> QED BY <2>1, BytesAppend
<1>6. ASSUME NEW n \in Nat, n + 1 <= k PROVE rs \o R(n) \in Seq(Seq(Nat))
  BY <1>3, <1>6, ConcatProperties
<1>7. 0 \in S
  <2>1. R(0) = <<>>
    <3>1. R(0) \in Seq(Seq(Nat)) /\ Len(R(0)) = 0
      BY <1>1, <1>3
    <3> QED BY <3>1, EmptySeq
  <2>2. SubSeq(data, 1, ends[0 + 1]) = <<>>
    BY <1>1, SubSeqEmpty
  <2>3. rs \o R(0) = rs /\ FlattenSeq(rs) \o <<>> = FlattenSeq(rs)
    BY <1>5, <2>1, ConcatEmptySeq
  <2>4. Flat(0)
    BY <2>2, <2>3
  <2> HIDE DEF Flat
  <2> QED BY <2>4
<1>8. ASSUME NEW n \in Nat, n + 1 <= k => Flat(n), (n + 1) + 1 <= k
      PROVE  Flat(n + 1)
  <2> DEFINE last == rec(n + 1)
             x == FlattenSeq(rs)
             y == SubSeq(data, 1, ends[n + 1])
             z == SubSeq(data, 1, ends[(n + 1) + 1])
             s == R(n)
             t == R(n + 1)
  <2>1. n + 1 \in 1 .. k - 1 /\ n + 1 <= k /\ n + 1 \in 1 .. k
    BY <1>1, <1>8
  <2>2. last \in Seq(Nat) /\ y \o last = z
    BY <1>2, <2>1
  <2>3. y \in Seq(Nat)
    <3>1. ends[n + 1] \in Int /\ \A i \in 1 .. ends[n + 1] : i \in 1 .. m
      BY <1>1, <2>1
    <3> QED BY <1>1, <3>1, SubSeqProperties
  <2>4. FlattenSeq(rs \o s) = x \o y
    BY <1>8, <2>1
  <2>5. t = Append(s, last) /\ s \in Seq(Seq(Nat)) /\ t \in Seq(Seq(Nat))
    BY <1>3, <1>4, <1>8, <2>1
  <2>6. x \in Seq(Nat)
    BY <1>5
  <2>7. rs \o s \in Seq(Seq(Nat))
    BY <1>6, <2>1
  <2> HIDE DEF x, y, z, s, t, last
  <2>8. rs \o t = Append(rs \o s, last)
    <3>1. t = s \o <<last>> /\ Append(rs \o s, last) = (rs \o s) \o <<last>>
      BY <2>2, <2>5, <2>7, AppendIsConcat
    <3>2. <<last>> \in Seq(Seq(Nat))
      BY <2>2
    <3>3. (rs \o s) \o <<last>> = rs \o (s \o <<last>>)
      BY <2>5, <3>2, ConcatAssociative, SMTT(60)
    <3> QED BY <3>1, <3>3
  <2>9. FlattenSeq(rs \o t) = (x \o y) \o last
    BY <2>2, <2>4, <2>7, <2>8, BytesAppend
  <2>10. (x \o y) \o last = x \o z
    <3>1. x \in Seq(Nat) /\ y \in Seq(Nat) /\ last \in Seq(Nat)
      BY <2>2, <2>3, <2>6
    <3>2. (x \o y) \o last = x \o (y \o last)
      BY <3>1, BytesConcat, ZenonT(60)
    <3> QED BY <2>2, <3>2
  <2> QED BY <2>9, <2>10 DEF x, z, t
<1>9. \A n \in Nat : n + 1 <= k => Flat(n)
  <2> HIDE DEF Flat
  <2>1. \A n \in Nat : n \in S => n + 1 \in S
    <3>1. \A n \in Nat : n + 1 \in Nat
      OBVIOUS
    <3>2. \A n \in Nat : n \in S => (n + 1 <= k => Flat(n))
      OBVIOUS
    <3>3. \A n \in Nat : n \in S /\ (n + 1) + 1 <= k => Flat(n + 1)
      BY <1>8, <3>2
    <3> QED BY <3>1, <3>3
  <2> HIDE DEF S
  <2>2. \A n \in Nat : n \in S
    BY <1>7, <2>1, SetInduction
  <2> QED BY <2>2 DEF S
<1>10. ASSUME NEW n \in 0 .. Len(ends) - 1
       PROVE  rs \o R(n) \in Seq(Seq(Nat)) /\ Flat(n)
  <2>1. n \in Nat /\ n + 1 <= k
    BY <1>1 DEF k
  <2> QED BY <1>6, <1>9, <2>1
<1> QED BY <1>10 DEF R

(* Data cut in two.                                                        *)
LEMMA SplitAt ==
  ASSUME NEW data \in Seq(Nat), NEW e \in 0 .. Len(data)
  PROVE  LET head == SubSeq(data, 1, e)
             tail == SubSeq(data, e + 1, Len(data))
         IN /\ head \in Seq(Nat) /\ tail \in Seq(Nat) /\ head \o tail = data
            /\ Len(tail) \in Nat /\ Len(tail) <= Len(data)
<1> DEFINE l == Len(data)
           tail == SubSeq(data, e + 1, l)
<1>1. l \in Nat /\ \A i \in 1 .. l : data[i] \in Nat
  BY ElementOfSeq
<1>2. e \in 0 .. l
  OBVIOUS
<1> HIDE DEF l
<1>3. /\ e \in Int /\ l \in Int /\ e + 1 \in Int /\ 1 \in Int
      /\ e \in 1 - 1 .. l /\ l \in e .. l /\ 1 \in 1 .. l + 1
      /\ \A i \in 1 .. e : data[i] \in Nat
      /\ \A i \in e + 1 .. l : data[i] \in Nat
  BY <1>1, <1>2
<1>4. SubSeq(data, 1, e) \in Seq(Nat)
  BY <1>3, SubSeqProperties
<1>5. tail \in Seq(Nat) /\ Len(tail) = (IF e + 1 <= l THEN l - (e + 1) + 1 ELSE 0)
  BY <1>3, SubSeqProperties
<1>6. SubSeq(data, 1, e) \o tail = SubSeq(data, 1, l)
  BY <1>3, ConcatAdjacentSubSeq DEF l
<1>7. SubSeq(data, 1, l) = data
  BY SubSeqFull DEF l
<1>8. (IF e + 1 <= l THEN l - (e + 1) + 1 ELSE 0) \in 0 .. l
  BY <1>1, <1>2
<1> HIDE DEF tail
<1>9. Len(tail) \in 0 .. l
  BY <1>5, <1>8
<1>10. Len(tail) \in Nat /\ Len(tail) <= l
  BY <1>1, <1>9
<1> QED BY <1>4, <1>5, <1>6, <1>7, <1>10 DEF l, tail

-----------------------------------------------------------------------------
(* Chunks.                                                                 *)

Listed(f) == Cardinality({b \in 1 .. NumBlocks(f) : f.fault[b] # "short"})

LEMMA ListedType ==
  ASSUME NEW f, WellFormed(f)
  PROVE  Listed(f) \in 0 .. NumBlocks(f)
<1> DEFINE all == 1 .. NumBlocks(f)
           listed == {b \in all : f.fault[b] # "short"}
<1>1. NumBlocks(f) \in Nat
  BY BlockTypes
<1>2. IsFiniteSet(all) /\ Cardinality(all) = NumBlocks(f)
  BY <1>1, FS_Interval
<1>3. listed \subseteq all
  OBVIOUS
<1> HIDE DEF all, listed
<1>4. Cardinality(listed) \in Nat /\ Cardinality(listed) <= Cardinality(all)
  BY <1>2, <1>3, FS_Subset, FS_CardinalityType
<1>5. Listed(f) = Cardinality(listed)
  BY DEF Listed, listed, all
<1> QED BY <1>1, <1>2, <1>4, <1>5

LEMMA NumListedIs == NumListed = Listed(file) /\ NumListed' = Listed(file')
BY DEF NumListed, Listed

Typed ==
  /\ file \in Files
  /\ estimate \in [1 .. NumBlocks(file) -> Estimates]
  /\ blockIdx \in 0 .. NumListed
  /\ carry \in Seq(Nat)
  /\ rows \in Seq(Seq(Nat))

(* Where Typed puts a turn of the loop.                                    *)
LEMMA TypedFacts ==
  ASSUME Typed
  PROVE  /\ WellFormed(file) /\ NumBlocks(file) \in Nat /\ Count \in Nat
         /\ NumListed \in Nat /\ NumListed <= NumBlocks(file)
         /\ blockIdx \in Nat /\ blockIdx <= NumListed
         /\ Len(carry) \in Nat
         /\ \A b \in 1 .. NumBlocks(file) : estimate[b] \in Estimates /\ estimate[b] \in Nat
<1>1. WellFormed(file)
  BY BulkAssumption DEF Typed
<1>2. NumBlocks(file) \in Nat /\ NumListed \in 0 .. NumBlocks(file)
  BY <1>1, BlockTypes, ListedType, NumListedIs
<1>3. Count \in Nat
  <2>1. file.start \in Seq(Nat)
    BY <1>1 DEF WellFormed, FileType
  <2> QED BY <2>1 DEF Count, NumRecords
<1>4. Len(carry) \in Nat /\ blockIdx \in 0 .. NumListed
  BY DEF Typed
<1>5. \A b \in 1 .. NumBlocks(file) : estimate[b] \in Estimates /\ estimate[b] \in Nat
  BY BulkAssumption DEF Typed
<1> QED BY <1>1, <1>2, <1>3, <1>4, <1>5

LEMMA ExpectedSteps ==
  ASSUME Typed
  PROVE  \A to \in blockIdx .. NumListed :
           /\ Expected[to] = (IF to = blockIdx THEN Len(carry)
                              ELSE Expected[to - 1] + estimate[to])
           /\ Expected[to] \in Nat
<1> DEFINE Value(f, to) == IF to = blockIdx THEN Len(carry) ELSE f[to - 1] + estimate[to]
           Upto(f, k) == f = [to \in blockIdx .. k |-> Value(f, to)]
           S == {k \in Nat : \E f : Upto(f, blockIdx + k)}
<1>1. /\ blockIdx \in Nat /\ NumListed \in Nat /\ blockIdx <= NumListed
      /\ Len(carry) \in Nat
      /\ \A b \in 1 .. NumListed : estimate[b] \in Nat
  BY TypedFacts
<1>2. 0 \in S
  <2> DEFINE f == [to \in blockIdx .. blockIdx |-> Len(carry)]
  <2>1. Upto(f, blockIdx)
    BY <1>1
  <2>2. blockIdx + 0 = blockIdx
    BY <1>1
  <2> HIDE DEF f, Upto
  <2> QED BY <2>1, <2>2
<1>3. ASSUME NEW k \in Nat, k \in S PROVE k + 1 \in S
  <2> DEFINE last == blockIdx + k
  <2>1. PICK f : Upto(f, last)
    BY <1>3
  <2>2. last \in Nat /\ blockIdx <= last /\ blockIdx + (k + 1) = last + 1
    BY <1>1
  <2> HIDE DEF last
  <2> DEFINE g == [to \in blockIdx .. last + 1 |->
                     IF to = last + 1 THEN Value(f, last + 1) ELSE f[to]]
  <2>3. ASSUME NEW to \in blockIdx .. last + 1 PROVE g[to] = Value(g, to)
    <3>1. Value(g, to) = Value(f, to)
      <4>1. CASE to = blockIdx
        BY <4>1
      <4>2. CASE to # blockIdx
        <5>1. to - 1 \in blockIdx .. last + 1 /\ to - 1 # last + 1
          BY <1>1, <2>2, <4>2
        <5>2. g[to - 1] = f[to - 1]
          BY <5>1
        <5> HIDE DEF g
        <5> QED BY <4>2, <5>2
      <4> QED BY <4>1, <4>2
    <3>2. g[to] = Value(f, to)
      <4>1. CASE to = last + 1
        BY <4>1
      <4>2. CASE to # last + 1
        <5>1. to \in blockIdx .. last /\ g[to] = f[to]
          BY <1>1, <2>2, <4>2
        <5> HIDE DEF Value, g
        <5> QED BY <2>1, <5>1
      <4> QED BY <4>1, <4>2
    <3> QED BY <3>1, <3>2
  <2>4. Upto(g, last + 1)
    <3>1. g = [to \in blockIdx .. last + 1 |-> g[to]]
      OBVIOUS
    <3> HIDE DEF g, Value
    <3> QED BY <2>3, <3>1
  <2> HIDE DEF g, Upto
  <2> QED BY <2>2, <2>4
<1>4. \E f : Upto(f, NumListed)
  <2>1. NumListed - blockIdx \in Nat /\ blockIdx + (NumListed - blockIdx) = NumListed
    BY <1>1
  <2> HIDE DEF S
  <2>2. (NumListed - blockIdx) \in S
    BY <1>2, <1>3, <2>1, SetInduction
  <2> HIDE DEF Upto
  <2> QED BY <2>1, <2>2 DEF S
<1>5. Expected = CHOOSE f : Upto(f, NumListed)
  BY DEF Expected
<1>6. Upto(Expected, NumListed)
  <2> HIDE DEF Upto
  <2> QED BY <1>4, <1>5
<1>7. ASSUME NEW to \in blockIdx .. NumListed PROVE Expected[to] = Value(Expected, to)
  <2> HIDE DEF Value
  <2> QED BY <1>6
<1> DEFINE T == {k \in Nat : blockIdx + k <= NumListed => Expected[blockIdx + k] \in Nat}
<1>8. 0 \in T
  BY <1>1, <1>7
<1>9. ASSUME NEW k \in Nat, k \in T PROVE k + 1 \in T
  <2> SUFFICES ASSUME blockIdx + (k + 1) <= NumListed
               PROVE  Expected[blockIdx + (k + 1)] \in Nat
    OBVIOUS
  <2> DEFINE to == blockIdx + (k + 1)
  <2>1. /\ to \in blockIdx .. NumListed /\ to # blockIdx /\ to \in 1 .. NumListed
        /\ to - 1 = blockIdx + k /\ blockIdx + k <= NumListed
    BY <1>1
  <2>2. Expected[to - 1] \in Nat
    BY <1>9, <2>1
  <2> HIDE DEF to
  <2>3. Expected[to] = Expected[to - 1] + estimate[to]
    BY <1>7, <2>1
  <2>4. Expected[to] \in Nat
    BY <1>1, <2>1, <2>2, <2>3
  <2> QED BY <2>4 DEF to
<1>10. \A k \in Nat : k \in T
  <2> HIDE DEF T
  <2> QED BY <1>8, <1>9, SetInduction
<1>11. ASSUME NEW to \in blockIdx .. NumListed PROVE Expected[to] \in Nat
  <2>1. to - blockIdx \in Nat /\ blockIdx + (to - blockIdx) = to /\ to <= NumListed
    BY <1>1
  <2>2. (to - blockIdx) \in T
    BY <1>10, <2>1
  <2> QED BY <2>1, <2>2
<1> QED BY <1>7, <1>11

(* Where a chunk ends: before its last block the budget was not reached.   *)
LEMMA BatchEndIs ==
  ASSUME Typed
  PROVE  /\ BatchEnd \in blockIdx .. NumListed
         /\ BatchEnd # blockIdx => Expected[BatchEnd - 1] < ChunkBudget
<1> DEFINE T == {to \in blockIdx .. NumListed : to = NumListed \/ Expected[to] >= ChunkBudget}
           Ends(to) == /\ \A b \in blockIdx .. to - 1 : Expected[b] < ChunkBudget
                       /\ to = NumListed \/ Expected[to] >= ChunkBudget
<1>1. /\ blockIdx \in Nat /\ NumListed \in Nat /\ blockIdx <= NumListed
      /\ ChunkBudget \in Nat
      /\ \A to \in blockIdx .. NumListed : Expected[to] \in Nat
  BY TypedFacts, ExpectedSteps, BulkAssumption
<1>2. PICK x \in T : \A y \in T : x <= y
  <2>1. T \subseteq Nat /\ NumListed \in T
    BY <1>1
  <2> HIDE DEF T
  <2> QED BY <2>1, LeastElement
<1>3. Ends(x)
  <2>1. ASSUME NEW b \in blockIdx .. x - 1 PROVE Expected[b] < ChunkBudget
    <3>1. b \in blockIdx .. NumListed /\ b < x
      BY <1>1
    <3>2. b \notin T
      BY <1>1, <1>2, <3>1
    <3> QED BY <1>1, <3>1, <3>2
  <2> QED BY <2>1
<1>4. x \in blockIdx .. NumListed
  OBVIOUS
<1>5. BatchEnd = CHOOSE to \in blockIdx .. NumListed : Ends(to)
  BY DEF BatchEnd
<1>6. BatchEnd \in blockIdx .. NumListed /\ Ends(BatchEnd)
  <2> HIDE DEF Ends
  <2> QED BY <1>3, <1>4, <1>5
<1>7. BatchEnd # blockIdx => BatchEnd - 1 \in blockIdx .. BatchEnd - 1
  BY <1>1, <1>6
<1> QED BY <1>6, <1>7

(* Blocks that decompress hold no more than was expected of them.          *)
LEMMA DataAsExpected ==
  ASSUME Typed, NEW to \in blockIdx .. NumListed,
         \A b \in blockIdx + 1 .. to : Decompresses(b)
  PROVE  /\ BlocksOf(file, attempt, blockIdx, to) \in Seq(Nat)
         /\ Len(carry) + Len(BlocksOf(file, attempt, blockIdx, to)) <= Expected[to]
<1> DEFINE D(k) == BlocksOf(file, attempt, blockIdx, blockIdx + k)
           Fits(k) == Len(carry) + Len(D(k)) <= Expected[blockIdx + k]
           S == {k \in Nat : blockIdx + k <= to => Fits(k)}
<1>1. /\ blockIdx \in Nat /\ NumListed \in Nat /\ to \in Nat /\ to <= NumListed
      /\ blockIdx <= to /\ NumBlocks(file) \in Nat /\ NumListed <= NumBlocks(file)
      /\ Len(carry) \in Nat /\ WellFormed(file)
      /\ \A b \in 1 .. NumBlocks(file) : estimate[b] \in Nat
  BY TypedFacts
<1>2. ASSUME NEW k \in Nat, blockIdx + k <= to
      PROVE  /\ D(k) \in Seq(Nat) /\ Len(D(k)) \in Nat /\ D(0) = <<>>
             /\ blockIdx + (k + 1) <= to =>
                  D(k + 1) = D(k) \o BlockBytes(file, attempt, blockIdx + (k + 1))
  <2> DEFINE mid == blockIdx + k
  <2>1. /\ mid \in Nat /\ blockIdx <= mid /\ mid <= NumBlocks(file)
        /\ blockIdx + (k + 1) = mid + 1 /\ blockIdx + 0 = blockIdx
        /\ blockIdx + (k + 1) <= to => mid + 1 <= NumBlocks(file)
    BY <1>1, <1>2
  <2> HIDE DEF mid
  <2>2. /\ BlocksOf(file, attempt, blockIdx, mid) \in Seq(Nat)
        /\ BlocksOf(file, attempt, blockIdx, blockIdx) = <<>>
        /\ mid + 1 <= NumBlocks(file) =>
             BlocksOf(file, attempt, blockIdx, mid + 1) =
               BlocksOf(file, attempt, blockIdx, mid) \o BlockBytes(file, attempt, mid + 1)
    BY <1>1, <2>1, BlocksStep
  <2>3. D(k) \in Seq(Nat)
    BY <2>2 DEF mid
  <2>4. Len(D(k)) \in Nat
    <3> DEFINE d == D(k)
    <3> HIDE DEF d
    <3>1. d \in Seq(Nat)
      BY <2>3 DEF d
    <3>2. Len(d) \in Nat
      BY <3>1
    <3> QED BY <3>2 DEF d
  <2>5. D(0) = <<>>
    BY <2>1, <2>2
  <2>6. blockIdx + (k + 1) <= to =>
          D(k + 1) = D(k) \o BlockBytes(file, attempt, blockIdx + (k + 1))
    BY <2>1, <2>2 DEF mid
  <2> QED BY <2>3, <2>4, <2>5, <2>6
<1> HIDE DEF D
<1>3. Fits(0)
  <2>1. D(0) = <<>> /\ blockIdx + 0 = blockIdx
    BY <1>1, <1>2
  <2>2. Expected[blockIdx] = Len(carry)
    BY <1>1, ExpectedSteps
  <2> QED BY <1>1, <2>1, <2>2
<1>4. ASSUME NEW k \in Nat, blockIdx + k <= to => Fits(k), blockIdx + (k + 1) <= to
      PROVE  Fits(k + 1)
  <2> DEFINE b == blockIdx + (k + 1)
             x == D(k)
             z == BlockBytes(file, attempt, b)
  <2>1. /\ b \in 1 .. NumBlocks(file) /\ b \in blockIdx + 1 .. to
        /\ b \in blockIdx .. NumListed /\ b # blockIdx
        /\ b - 1 = blockIdx + k /\ blockIdx + k \in blockIdx .. NumListed
        /\ blockIdx + k <= to
    BY <1>1, <1>4
  <2>2. x \in Seq(Nat) /\ D(k + 1) = x \o z
    BY <1>2, <1>4, <2>1
  <2>3. Fits(k)
    BY <1>4, <2>1
  <2> HIDE DEF b, Fits
  <2>4. z \in Seq(Nat) /\ Len(z) \in Nat /\ Len(z) <= BlockEnd(file, b) - BlockStart(file, b)
    BY <1>1, <2>1, BlockBytesShape
  <2>5. BlockEnd(file, b) - BlockStart(file, b) <= estimate[b]
    BY <2>1 DEF Decompresses, BlockSize
  <2>6. BlockEnd(file, b) \in Nat /\ BlockStart(file, b) \in Nat /\ estimate[b] \in Nat
    BY <1>1, <2>1, BlockTypes
  <2>7. Len(z) <= estimate[b]
    BY <2>4, <2>5, <2>6
  <2>8. Expected[b] = Expected[blockIdx + k] + estimate[b]
        /\ Expected[blockIdx + k] \in Nat
    BY <2>1, ExpectedSteps
  <2> HIDE DEF x, z
  <2>9. Len(x \o z) = Len(x) + Len(z) /\ Len(x) \in Nat
    BY <2>2, <2>4, ConcatProperties
  <2>10. Len(carry) + Len(x) <= Expected[blockIdx + k]
    BY <2>3 DEF Fits, x
  <2>11. Len(carry) + Len(x \o z) <= Expected[b]
    <3> DEFINE lx == Len(x)
               lz == Len(z)
               lc == Len(carry)
               ex == Expected[blockIdx + k]
               eb == estimate[b]
    <3>1. /\ lx \in Nat /\ lz \in Nat /\ lc \in Nat /\ ex \in Nat /\ eb \in Nat
          /\ lz <= eb /\ lc + lx <= ex /\ Len(x \o z) = lx + lz /\ Expected[b] = ex + eb
      BY <1>1, <2>4, <2>6, <2>7, <2>8, <2>9, <2>10
    <3> HIDE DEF lx, lz, lc, ex, eb
    <3>2. lc + (lx + lz) <= ex + eb
      BY <3>1
    <3> QED BY <3>1, <3>2 DEF lc
  <2> QED BY <2>2, <2>11 DEF Fits, b
<1>5. \A k \in Nat : blockIdx + k <= to => Fits(k)
  <2> HIDE DEF Fits
  <2>1. 0 \in S
    BY <1>3
  <2>2. ASSUME NEW k \in Nat, k \in S PROVE k + 1 \in S
    <3>1. blockIdx + k <= to => Fits(k)
      BY <2>2
    <3> QED BY <1>4, <3>1
  <2> HIDE DEF S
  <2>3. \A k \in Nat : k \in S
    BY <2>1, <2>2, SetInduction
  <2> QED BY <2>3 DEF S
<1>6. to - blockIdx \in Nat /\ blockIdx + (to - blockIdx) = to /\ to <= to
  BY <1>1
<1>7. Fits(to - blockIdx) /\ D(to - blockIdx) \in Seq(Nat)
  <2> HIDE DEF Fits
  <2> QED BY <1>2, <1>5, <1>6
<1> QED BY <1>6, <1>7 DEF D

(* The most that is expected of a block.                                   *)
Most == Max2(Estimates)

LEMMA MostIs == Most \in Nat \ {0} /\ \A e \in Estimates : e <= Most
<1>1. \E m \in Estimates : \A e \in Estimates : e <= m
  BY BulkAssumption
<1>2. Most \in Estimates /\ \A e \in Estimates : e <= Most
  BY <1>1 DEF Most, Max2
<1> QED BY <1>2, BulkAssumption

(* No chunk is expected to hold more than its budget and one block, if     *)
(* what is carried into it is not.                                         *)
LEMMA BudgetKept ==
  ASSUME Typed, Len(carry) < ChunkBudget + Most
  PROVE  Expected[BatchEnd] < ChunkBudget + Most
<1> DEFINE to == BatchEnd
<1>1. /\ to \in blockIdx .. NumListed /\ (to # blockIdx => Expected[to - 1] < ChunkBudget)
      /\ Expected[to] = (IF to = blockIdx THEN Len(carry) ELSE Expected[to - 1] + estimate[to])
  BY BatchEndIs, ExpectedSteps
<1> HIDE DEF to
<1>2. /\ blockIdx \in Nat /\ NumListed \in Nat /\ NumListed <= NumBlocks(file)
      /\ NumBlocks(file) \in Nat
      /\ \A b \in 1 .. NumBlocks(file) : estimate[b] \in Estimates /\ estimate[b] \in Nat
  BY TypedFacts
<1>3. CASE to = blockIdx
  BY <1>1, <1>3 DEF to
<1>4. CASE to # blockIdx
  <2>1. to - 1 \in blockIdx .. NumListed /\ to \in 1 .. NumBlocks(file)
    BY <1>1, <1>2, <1>4
  <2>2. Expected[to - 1] \in Nat /\ estimate[to] \in Nat /\ estimate[to] <= Most
    BY <1>2, <2>1, ExpectedSteps, MostIs
  <2>3. Expected[to] < ChunkBudget + Most
    BY <1>1, <1>4, <2>2, MostIs, BulkAssumption
  <2> QED BY <2>3 DEF to
<1> QED BY <1>3, <1>4

-----------------------------------------------------------------------------
(* The invariant.                                                          *)

CarryBounded == pc = "walk" => Len(carry) < ChunkBudget + Most

IInv == Typed /\ CarryBounded /\ NothingLost

LEMMA InitIInv == Init => IInv
<1> SUFFICES ASSUME Init PROVE IInv
  OBVIOUS
<1>1. file \in Files /\ WellFormed(file)
  BY BulkAssumption DEF Init
<1>2. NumListed \in Nat /\ NumBlocks(file) \in Nat
  BY <1>1, BlockTypes, ListedType, NumListedIs
<1>3. blockIdx = 0 /\ carry = <<>> /\ rows = <<>> /\ Len(carry) = 0
  BY DEF Init
<1>4. Typed
  <2>1. carry \in Seq(Nat) /\ rows \in Seq(Seq(Nat)) /\ blockIdx \in 0 .. NumListed
    BY <1>2, <1>3
  <2> QED BY <2>1 DEF Init, Typed
<1>5. CarryBounded
  BY <1>3, BulkAssumption, MostIs DEF CarryBounded
<1>6. NothingLost
  <2>1. BlockData(0, 0) = <<>>
    BY <1>1, <1>2, BlockDataIs, BlocksStep
  <2>2. FlattenSeq(rows) \o carry = <<>>
    BY <1>3, FlattenEmpty
  <2> QED BY <1>3, <2>1, <2>2 DEF NothingLost
<1> QED BY <1>4, <1>5, <1>6 DEF IInv

(* A read that fails leaves nothing behind for the next one.               *)
LEMMA FailureKeeps ==
  ASSUME Typed, AttemptFails
  PROVE  IInv'
<1>1. /\ file' = file /\ estimate' = estimate
      /\ blockIdx' = 0 /\ carry' = <<>> /\ rows' = <<>> /\ Len(carry') = 0
  BY DEF AttemptFails, fixed
<1>2. WellFormed(file') /\ NumBlocks(file') \in Nat /\ NumListed' = NumListed
      /\ NumListed \in Nat
  BY <1>1, TypedFacts, NumListedIs
<1>3. Typed'
  <2>1. carry' \in Seq(Nat) /\ rows' \in Seq(Seq(Nat)) /\ blockIdx' \in 0 .. NumListed'
    BY <1>1, <1>2
  <2> QED BY <1>1, <2>1 DEF Typed
<1>4. CarryBounded'
  <2>1. Most' = Most
    BY DEF Most, Max2
  <2> QED BY <1>1, <2>1, BulkAssumption, MostIs DEF CarryBounded
<1>5. NothingLost'
  <2>1. BlockData(0, blockIdx)' = BlocksOf(file', attempt', 0, 0)
    BY <1>1, BlockDataIs
  <2>2. BlocksOf(file', attempt', 0, 0) = <<>>
    BY <1>2, BlocksStep
  <2>3. FlattenSeq(rows') \o carry' = <<>>
    BY <1>1, FlattenEmpty
  <2> QED BY <2>1, <2>2, <2>3 DEF NothingLost
<1> QED BY <1>3, <1>4, <1>5 DEF IInv

LEMMA ChunkKeeps ==
  ASSUME IInv, Chunk
  PROVE  IInv'
<1> DEFINE to == BatchEnd
           blocks == BlockData(blockIdx, to)
           data == carry \o blocks
           ends == Bounds(data)
           n == NumComplete(ends)
<1>1. Typed /\ CarryBounded /\ NothingLost
  BY DEF IInv
<1>2. \/ AttemptFails
      \/ /\ \A b \in blockIdx + 1 .. to : Decompresses(b)
         /\ rows' = rows \o Records(data, ends, n)
         /\ blockIdx' = to
         /\ IF LeavesLoop(n)
            THEN pc' = "check" /\ carry' = <<>>
            ELSE carry' = Carried(data, ends) /\ UNCHANGED pc
         /\ UNCHANGED <<fixed, attempts, result>>
  BY ZenonT(60) DEF Chunk
<1>3. pc = "walk" /\ Chunked /\ Len(rows) < Count
  BY DEF Chunk, InLoop
<1>4. CASE AttemptFails
  BY <1>1, <1>4, FailureKeeps
<1>5. CASE /\ \A b \in blockIdx + 1 .. to : Decompresses(b)
           /\ rows' = rows \o Records(data, ends, n)
           /\ blockIdx' = to
           /\ IF LeavesLoop(n)
              THEN pc' = "check" /\ carry' = <<>>
              ELSE carry' = Carried(data, ends) /\ UNCHANGED pc
           /\ UNCHANGED <<fixed, attempts, result>>
  <2>1. /\ WellFormed(file) /\ NumBlocks(file) \in Nat /\ Count \in Nat
        /\ NumListed \in Nat /\ NumListed <= NumBlocks(file)
        /\ blockIdx \in Nat /\ blockIdx <= NumListed
    BY <1>1, TypedFacts
  <2>2. to \in blockIdx .. NumListed
    BY <1>1, BatchEndIs
  <2>3. /\ file' = file /\ estimate' = estimate /\ attempt' = attempt
        /\ NumListed' = NumListed /\ Most' = Most /\ (Chunked' <=> Chunked)
    BY <1>5, NumListedIs DEF fixed, attempt, Most, Max2, Chunked
  <2>4. blocks = BlocksOf(file, attempt, blockIdx, to)
    BY BlockDataIs
  <2>5. blocks \in Seq(Nat) /\ Len(carry) + Len(blocks) <= Expected[to]
    BY <1>1, <1>5, <2>2, <2>4, DataAsExpected
  <2>6. carry \in Seq(Nat) /\ rows \in Seq(Seq(Nat))
    BY <1>1 DEF Typed
  <2> HIDE DEF blocks
  <2>7. data \in Seq(Nat) /\ Len(data) = Len(carry) + Len(blocks)
    BY <2>5, <2>6, ConcatProperties
  <2>8. Len(data) < ChunkBudget + Most /\ Len(data) \in Nat
    <3>1. Expected[to] < ChunkBudget + Most
      BY <1>1, <1>3, BudgetKept DEF CarryBounded
    <3>2. Expected[to] \in Nat
      BY <1>1, <2>2, ExpectedSteps
    <3>3. Len(data) \in Nat /\ Len(data) <= Expected[to]
      BY <2>5, <2>7
    <3> HIDE DEF data, to
    <3> QED BY <3>1, <3>2, <3>3, MostIs, BulkAssumption
  <2> HIDE DEF data
  <2>9. Rising(ends, Len(data))
    BY <2>7, BoundsRise
  <2> HIDE DEF ends
  <2>10. /\ ends \in Seq(Nat) /\ Len(ends) \in Nat \ {0} /\ Last(ends) = ends[Len(ends)]
         /\ Last(ends) \in 0 .. Len(data)
    BY <2>9 DEF Rising, Last
  <2>11. Len(rows) \in Nat
    BY <2>6
  <2>12. /\ n \in 0 .. Len(ends) - 1
         /\ ~LeavesLoop(n) => n + 1 = Len(ends)
    <3> DEFINE k == Len(ends)
               m == Len(rows)
    <3>1. k \in Nat \ {0} /\ m \in Nat /\ m < Count
      BY <1>3, <2>10, <2>11
    <3>2. n = IF StopsAtCount /\ Count - m < k - 1 THEN Count - m ELSE k - 1
      BY DEF NumComplete
    <3>3. ~LeavesLoop(n) => ~(m + n >= Count)
      BY DEF LeavesLoop
    <3> HIDE DEF k, m, n
    <3>4. CASE StopsAtCount /\ Count - m < k - 1
      <4>1. n = Count - m
        BY <3>2, <3>4
      <4> QED BY <2>1, <3>1, <3>3, <3>4, <4>1 DEF k
    <3>5. CASE ~(StopsAtCount /\ Count - m < k - 1)
      <4>1. n = k - 1
        BY <3>2, <3>5
      <4> QED BY <3>1, <4>1 DEF k
    <3> QED BY <3>4, <3>5
  <2> HIDE DEF n
  <2>13. /\ rows' \in Seq(Seq(Nat))
         /\ FlattenSeq(rows') = FlattenSeq(rows) \o SubSeq(data, 1, ends[n + 1])
    BY <1>5, <2>6, <2>7, <2>9, <2>12, RecordsFlat
  <2> DEFINE e == Last(ends)
             head == SubSeq(data, 1, e)
             tail == SubSeq(data, e + 1, Len(data))
  <2>14. /\ head \in Seq(Nat) /\ tail \in Seq(Nat) /\ Len(tail) <= Len(data)
         /\ Len(tail) \in Nat /\ head \o tail = data
    <3>1. e \in 0 .. Len(data)
      BY <2>10
    <3> HIDE DEF e
    <3> QED BY <2>7, <3>1, SplitAt
  <2> HIDE DEF e, head, tail
  <2>15. Carried(data, ends) = tail
    BY DEF Carried, tail, e
  <2>16. Typed'
    <3>1. carry' \in Seq(Nat)
      <4>1. <<>> \in Seq(Nat)
        OBVIOUS
      <4> QED BY <1>5, <2>14, <2>15, <4>1
    <3>2. blockIdx' \in 0 .. NumListed'
      BY <1>5, <2>1, <2>2, <2>3
    <3> QED BY <1>1, <2>3, <2>13, <3>1, <3>2 DEF Typed
  <2>17. CASE LeavesLoop(n)
    <3>1. pc' # "walk"
      BY <1>5, <2>17
    <3> QED BY <2>16, <3>1 DEF IInv, CarryBounded, NothingLost
  <2>18. CASE ~LeavesLoop(n)
    <3>1. carry' = tail /\ ends[n + 1] = e
      BY <1>5, <2>10, <2>12, <2>15, <2>18 DEF e
    <3>2. CarryBounded'
      <4>1. Len(carry') \in Nat /\ Len(carry') <= Len(data)
        BY <2>14, <3>1
      <4>2. Len(carry') < ChunkBudget + Most
        BY <2>8, <4>1, MostIs, BulkAssumption
      <4> QED BY <2>3, <4>2 DEF CarryBounded
    <3>3. NothingLost'
      <4> DEFINE x == FlattenSeq(rows)
                 before == BlocksOf(file, attempt, 0, blockIdx)
      <4>1. x \in Seq(Nat) /\ before \in Seq(Nat)
        <5>1. <<>> \in Seq(Nat)
          OBVIOUS
        <5>2. 0 \in Nat /\ 0 <= blockIdx /\ blockIdx <= NumBlocks(file)
          BY <2>1
        <5> QED BY <2>1, <2>6, <5>1, <5>2, BytesAppend, BlocksStep
      <4>2. x \o carry = before
        BY <1>1, <1>3, BlockDataIs DEF NothingLost
      <4>3. BlocksOf(file, attempt, 0, to) = before \o blocks
        <5>1. to \in blockIdx .. NumBlocks(file)
          BY <2>1, <2>2
        <5> QED BY <2>1, <2>4, <5>1, BlocksJoin
      <4>4. FlattenSeq(rows') = x \o head
        BY <2>13, <3>1 DEF head
      <4> HIDE DEF x, before
      <4>5. (x \o head) \o tail = x \o (head \o tail)
        BY <2>14, <4>1, BytesConcat, Zenon
      <4>6. x \o (carry \o blocks) = (x \o carry) \o blocks
        BY <2>5, <2>6, <4>1, BytesConcat, Zenon
      <4>7. data = carry \o blocks
        BY DEF data
      <4>8. FlattenSeq(rows') \o carry' = BlocksOf(file, attempt, 0, to)
        BY <2>14, <3>1, <4>2, <4>3, <4>4, <4>5, <4>6, <4>7
      <4>9. BlockData(0, blockIdx)' = BlocksOf(file, attempt, 0, to)
        BY <1>5, <2>3, BlockDataIs
      <4> QED BY <4>8, <4>9 DEF NothingLost
    <3> QED BY <2>16, <3>2, <3>3 DEF IInv
  <2> QED BY <2>17, <2>18
<1> QED BY <1>2, <1>4, <1>5

LEMMA CheckCountKeeps ==
  ASSUME IInv, CheckCount
  PROVE  IInv'
<1>1. CASE AttemptFails
  BY <1>1, FailureKeeps DEF IInv
<1>2. CASE /\ pc' = "done"
           /\ UNCHANGED <<fixed, attempts, blockIdx, carry, rows>>
  <2>1. Typed'
    BY <1>2, NumListedIs DEF IInv, Typed, fixed
  <2> QED BY <1>2, <2>1 DEF IInv, CarryBounded, NothingLost
<1> QED BY <1>1, <1>2 DEF CheckCount

LEMMA ReadWholeKeeps ==
  ASSUME IInv, ReadWhole
  PROVE  IInv'
<1> DEFINE data == BlockData(0, NumListed)
           ends == Bounds(data)
           found == Len(ends) - 1
           m == IF found < Count THEN found ELSE Count
<1>1. \/ AttemptFails
      \/ /\ rows' = Records(data, ends, m) /\ pc' = "done"
         /\ UNCHANGED <<fixed, attempts, blockIdx, carry>>
  BY DEF ReadWhole
<1>2. CASE AttemptFails
  BY <1>2, FailureKeeps DEF IInv
<1>3. CASE /\ rows' = Records(data, ends, m) /\ pc' = "done"
           /\ UNCHANGED <<fixed, attempts, blockIdx, carry>>
  <2>1. /\ WellFormed(file) /\ NumListed \in Nat /\ NumListed <= NumBlocks(file)
        /\ Count \in Nat /\ 0 \in Nat /\ 0 <= NumListed
    BY TypedFacts DEF IInv
  <2>2. data \in Seq(Nat)
    BY <2>1, BlockDataIs, BlocksStep
  <2> HIDE DEF data
  <2>3. Rising(ends, Len(data))
    BY <2>2, BoundsRise
  <2> HIDE DEF ends
  <2>4. Len(ends) \in Nat \ {0}
    BY <2>3 DEF Rising
  <2>5. m \in 0 .. Len(ends) - 1
    BY <2>1, <2>4
  <2> HIDE DEF m
  <2>6. <<>> \o Records(data, ends, m) \in Seq(Seq(Nat))
    <3>1. <<>> \in Seq(Seq(Nat))
      OBVIOUS
    <3> QED BY <2>2, <2>3, <2>5, <3>1, RecordsFlat
  <2>7. Records(data, ends, m) = <<>> \o Records(data, ends, m)
    <3> DEFINE rec(r) == SubSeq(data, ends[r] + 1, ends[r + 1])
               R == [r \in 1 .. m |-> rec(r)]
    <3>1. Records(data, ends, m) = R
      BY DEF Records
    <3>2. m \in Nat
      BY <2>4, <2>5
    <3> HIDE DEF rec
    <3>3. R \in Seq({rec(r) : r \in 1 .. m})
      BY <3>2
    <3> HIDE DEF R
    <3>4. <<>> \o R = R
      BY <3>3, ConcatEmptySeq
    <3> QED BY <3>1, <3>4
  <2>8. rows' \in Seq(Seq(Nat))
    BY <1>3, <2>6, <2>7
  <2>9. Typed'
    BY <1>3, <2>8, NumListedIs DEF IInv, Typed, fixed
  <2> QED BY <1>3, <2>9 DEF IInv, CarryBounded, NothingLost
<1> QED BY <1>1, <1>2, <1>3

LEMMA NextIInv == IInv /\ [Next]_vars => IInv'
<1> SUFFICES ASSUME IInv, [Next]_vars PROVE IInv'
  OBVIOUS
<1>1. CASE UNCHANGED vars
  <2>1. /\ file' = file /\ attempt' = attempt /\ NumListed' = NumListed
        /\ blockIdx' = blockIdx /\ (Chunked' <=> Chunked) /\ Most' = Most
    BY <1>1, NumListedIs DEF vars, attempt, Chunked, Most, Max2
  <2>2. Typed'
    BY <1>1, <2>1 DEF IInv, Typed, vars
  <2>3. BlockData(0, blockIdx)' = BlockData(0, blockIdx)
    BY <2>1, BlockDataIs
  <2> QED BY <1>1, <2>1, <2>2, <2>3 DEF IInv, CarryBounded, NothingLost, vars
<1>2. CASE Next
  BY <1>2, ChunkKeeps, CheckCountKeeps, ReadWholeKeeps DEF Next
<1> QED BY <1>1, <1>2

(* Whatever the file, the budget and the estimates: when a chunk begins,   *)
(* the records pushed and the bytes carried over are together the data of  *)
(* the blocks consumed, with none lost or repeated at a chunk's border.    *)
THEOREM NothingLostTheorem == Spec => []NothingLost
<1>1. IInv => NothingLost
  BY DEF IInv
<1> QED BY InitIInv, NextIInv, <1>1, PTL DEF Spec

(* "This bounds peak memory to roughly this size (per chunk)": what a      *)
(* chunk is expected to hold, the bytes carried into it included, is less  *)
(* than the budget and the largest estimate of a block together.           *)
THEOREM ChunkFitsBudgetTheorem == Spec => []ChunkFitsBudget
<1>1. IInv => ChunkFitsBudget
  BY BudgetKept DEF IInv, CarryBounded, ChunkFitsBudget, Most
<1> QED BY InitIInv, NextIInv, <1>1, PTL DEF Spec

-----------------------------------------------------------------------------
(* Where the records of a file lie.                                        *)

LEMMA RecordTypes ==
  ASSUME NEW f, WellFormed(f)
  PROVE  /\ NumRecords(f) \in Nat /\ HeaderLen \in Nat \ {0} /\ GarbageLen \in Nat
         /\ \A r \in 1 .. NumRecords(f) :
              /\ f.start[r] \in Nat /\ f.len[r] \in Nat /\ f.len[r] >= HeaderLen
              /\ ~f.hasVar => f.len[r] = HeaderLen
              /\ EndOfRecord(f, r) = f.start[r] + f.len[r]
              /\ EndOfRecord(f, r) \in Nat /\ f.start[r] < EndOfRecord(f, r)
<1>1. /\ f.start \in Seq(Nat) /\ f.len \in Seq(Nat) /\ Len(f.start) \in Nat
      /\ Len(f.len) = Len(f.start)
      /\ \A r \in 1 .. Len(f.start) : f.len[r] >= HeaderLen /\ (~f.hasVar => f.len[r] = HeaderLen)
  BY DEF WellFormed, FileType, RecordsInOrder, NumRecords
<1>2. \A r \in 1 .. Len(f.start) : f.start[r] \in Nat /\ f.len[r] \in Nat
  BY <1>1, ElementOfSeq
<1>3. HeaderLen \in Nat \ {0} /\ GarbageLen \in Nat
  BY LayoutAssumption
<1> QED BY <1>1, <1>2, <1>3, SMTT(60) DEF NumRecords, EndOfRecord

(* A record ends before any later one starts.                              *)
LEMMA StartsRise ==
  ASSUME NEW f, WellFormed(f)
  PROVE  \A r, q \in 1 .. NumRecords(f) : r < q => EndOfRecord(f, r) <= f.start[q]
<1> DEFINE n == NumRecords(f)
           End(r) == EndOfRecord(f, r)
           S == {k \in Nat : \A r \in 1 .. n : r + (k + 1) <= n => End(r) <= f.start[r + (k + 1)]}
<1>1. /\ n \in Nat
      /\ \A r \in 1 .. n : f.start[r] \in Nat /\ End(r) \in Nat /\ f.start[r] < End(r)
  BY RecordTypes
<1>2. ASSUME NEW r \in 1 .. n, r + 1 <= n PROVE End(r) <= f.start[r + 1]
  <2>1. r \in 1 .. n - 1 /\ r + 1 \in 1 .. n
    BY <1>1, <1>2
  <2>2. f.start[r + 1] = End(r) \/ f.start[r + 1] >= End(r)
    BY <2>1 DEF WellFormed, RecordsInOrder
  <2> QED BY <1>1, <2>1, <2>2
<1> HIDE DEF n, End
<1>3. 0 \in S
  BY <1>2
<1>4. ASSUME NEW k \in Nat, k \in S PROVE k + 1 \in S
  <2> SUFFICES ASSUME NEW r \in 1 .. n, r + ((k + 1) + 1) <= n
               PROVE  End(r) <= f.start[r + ((k + 1) + 1)]
    OBVIOUS
  <2> DEFINE q == r + (k + 1)
  <2>1. q \in 1 .. n /\ q + 1 \in 1 .. n /\ q + 1 = r + ((k + 1) + 1) /\ q + 1 <= n /\ q <= n
    BY <1>1
  <2>2. End(r) <= f.start[q]
    BY <1>4, <2>1
  <2>3. End(q) <= f.start[q + 1]
    BY <1>2, <2>1
  <2> HIDE DEF q
  <2>4. End(r) <= f.start[q + 1]
    BY <1>1, <2>1, <2>2, <2>3
  <2> QED BY <2>1, <2>4
<1>5. \A k \in Nat : k \in S
  <2> HIDE DEF S
  <2> QED BY <1>3, <1>4, SetInduction
<1>6. ASSUME NEW r \in 1 .. n, NEW q \in 1 .. n, r < q PROVE End(r) <= f.start[q]
  <2>1. (q - r) - 1 \in Nat /\ r + (((q - r) - 1) + 1) = q /\ q <= n
    BY <1>1, <1>6
  <2>2. ((q - r) - 1) \in S
    BY <1>5, <2>1
  <2> QED BY <2>1, <2>2
<1> QED BY <1>6 DEF n, End

(* Blocks follow one another.                                              *)
LEMMA BlocksRise ==
  ASSUME NEW f, WellFormed(f)
  PROVE  \A b, c \in 1 .. NumBlocks(f) : b < c => BlockEnd(f, b) <= BlockStart(f, c)
<1> DEFINE n == NumBlocks(f)
           S == {k \in Nat : \A b \in 1 .. n :
                   b + (k + 1) <= n => BlockEnd(f, b) <= BlockStart(f, b + (k + 1))}
<1>1. /\ n \in Nat
      /\ \A b \in 1 .. n : /\ BlockStart(f, b) \in Nat /\ BlockEnd(f, b) \in Nat
                           /\ BlockStart(f, b) <= BlockEnd(f, b)
  BY BlockTypes
<1>2. ASSUME NEW b \in 1 .. n, b + 1 <= n PROVE BlockEnd(f, b) = BlockStart(f, b + 1)
  <2>1. b + 1 # 1 /\ (b + 1) - 1 = b
    BY <1>1
  <2> QED BY <2>1 DEF BlockEnd, BlockStart
<1> HIDE DEF n
<1>3. 0 \in S
  BY <1>1, <1>2
<1>4. ASSUME NEW k \in Nat, k \in S PROVE k + 1 \in S
  <2> SUFFICES ASSUME NEW b \in 1 .. n, b + ((k + 1) + 1) <= n
               PROVE  BlockEnd(f, b) <= BlockStart(f, b + ((k + 1) + 1))
    OBVIOUS
  <2> DEFINE c == b + (k + 1)
  <2>1. c \in 1 .. n /\ c + 1 \in 1 .. n /\ c + 1 = b + ((k + 1) + 1) /\ c + 1 <= n /\ c <= n
    BY <1>1
  <2>2. BlockEnd(f, b) <= BlockStart(f, c)
    BY <1>4, <2>1
  <2>3. BlockEnd(f, c) = BlockStart(f, c + 1)
    BY <1>2, <2>1
  <2> HIDE DEF c
  <2>4. BlockEnd(f, b) <= BlockStart(f, c + 1)
    BY <1>1, <2>1, <2>2, <2>3
  <2> QED BY <2>1, <2>4
<1>5. \A k \in Nat : k \in S
  <2> HIDE DEF S
  <2> QED BY <1>3, <1>4, SetInduction
<1>6. ASSUME NEW b \in 1 .. n, NEW c \in 1 .. n, b < c PROVE BlockEnd(f, b) <= BlockStart(f, c)
  <2>1. (c - b) - 1 \in Nat /\ b + (((c - b) - 1) + 1) = c /\ c <= n
    BY <1>1, <1>6
  <2>2. ((c - b) - 1) \in S
    BY <1>5, <2>1
  <2> QED BY <2>1, <2>2
<1> QED BY <1>6 DEF n

(* What a length word reads as.                                            *)
LEMMA VarLenIs ==
  ASSUME NEW f, WellFormed(f), NEW q
  PROVE  \/ \E r \in 1 .. NumRecords(f) : f.start[r] = q /\ VarLen(f, q) = f.len[r] - HeaderLen
         \/ /\ VarLen(f, q) = GarbageLen
            /\ \A r \in 1 .. NumRecords(f) : f.start[r] # q
BY DEF VarLen

LEMMA StartsDiffer ==
  ASSUME NEW f, WellFormed(f),
         NEW r \in 1 .. NumRecords(f), NEW q \in 1 .. NumRecords(f), f.start[r] = f.start[q]
  PROVE  r = q
<1>1. /\ NumRecords(f) \in Nat /\ f.start[r] \in Nat /\ EndOfRecord(f, r) \in Nat
      /\ EndOfRecord(f, q) \in Nat
      /\ f.start[r] < EndOfRecord(f, r) /\ f.start[q] < EndOfRecord(f, q)
  BY RecordTypes
<1>2. r < q => EndOfRecord(f, r) <= f.start[q]
  BY StartsRise
<1>3. q < r => EndOfRecord(f, q) <= f.start[r]
  BY StartsRise
<1> QED BY <1>1, <1>2, <1>3

LEMMA VarLenAtStart ==
  ASSUME NEW f, WellFormed(f), NEW r \in 1 .. NumRecords(f)
  PROVE  VarLen(f, f.start[r]) = f.len[r] - HeaderLen
<1>1. PICK q \in 1 .. NumRecords(f) :
        f.start[q] = f.start[r] /\ VarLen(f, f.start[r]) = f.len[q] - HeaderLen
  BY VarLenIs
<1>2. q = r
  BY <1>1, StartsDiffer
<1> QED BY <1>1, <1>2

-----------------------------------------------------------------------------
(* Increasing sequences of offsets.                                        *)

Increasing(s) == \A i \in 1 .. Len(s) - 1 : s[i] < s[i + 1]

LEMMA IncreasingSteps ==
  ASSUME NEW s \in Seq(Nat), Increasing(s)
  PROVE  \A i, j \in 1 .. Len(s) : i <= j => s[i] + (j - i) <= s[j]
<1> DEFINE n == Len(s)
           S == {k \in Nat : \A i \in 1 .. n : i + k <= n => s[i] + k <= s[i + k]}
<1>1. n \in Nat /\ \A i \in 1 .. n : s[i] \in Nat
  BY ElementOfSeq
<1>2. \A i \in 1 .. n - 1 : s[i] < s[i + 1]
  BY DEF Increasing
<1> HIDE DEF n
<1>3. 0 \in S
  BY <1>1
<1>4. ASSUME NEW k \in Nat, k \in S PROVE k + 1 \in S
  <2> SUFFICES ASSUME NEW i \in 1 .. n, i + (k + 1) <= n
               PROVE  s[i] + (k + 1) <= s[i + (k + 1)]
    OBVIOUS
  <2> DEFINE j == i + k
  <2>1. j \in 1 .. n - 1 /\ j \in 1 .. n /\ j + 1 \in 1 .. n /\ j + 1 = i + (k + 1) /\ j <= n
    BY <1>1
  <2>2. s[i] + k <= s[j]
    BY <1>4, <2>1
  <2> HIDE DEF j
  <2>3. s[i] + (k + 1) <= s[j + 1]
    <3>1. s[i] \in Nat /\ s[j] \in Nat /\ s[j + 1] \in Nat /\ s[j] < s[j + 1]
      BY <1>1, <1>2, <2>1
    <3> DEFINE x == s[i]
               y == s[j]
               z == s[j + 1]
    <3>2. x \in Nat /\ y \in Nat /\ z \in Nat /\ y < z /\ x + k <= y
      BY <2>2, <3>1
    <3> HIDE DEF x, y, z
    <3>3. x + (k + 1) <= z
      BY <3>2
    <3> QED BY <3>3 DEF x, z
  <2> QED BY <2>1, <2>3
<1>5. \A k \in Nat : k \in S
  <2> HIDE DEF S
  <2> QED BY <1>3, <1>4, SetInduction
<1>6. ASSUME NEW i \in 1 .. n, NEW j \in 1 .. n, i <= j PROVE s[i] + (j - i) <= s[j]
  <2>1. j - i \in Nat /\ i + (j - i) = j /\ j <= n
    BY <1>1, <1>6
  <2>2. (j - i) \in S
    BY <1>5, <2>1
  <2> QED BY <2>1, <2>2
<1> QED BY <1>6 DEF n

(* Numbers that increase from a on and stay below a + n, n of them, are    *)
(* a, a + 1, ...                                                           *)
LEMMA NoRoomToSkip ==
  ASSUME NEW s \in Seq(Nat), Increasing(s), NEW a \in Nat,
         \A i \in 1 .. Len(s) : a <= s[i] /\ s[i] < a + Len(s)
  PROVE  \A i \in 1 .. Len(s) : s[i] = a + i - 1
<1> DEFINE n == Len(s)
<1>1. n \in Nat /\ \A i \in 1 .. n : s[i] \in Nat
  BY ElementOfSeq
<1> SUFFICES ASSUME NEW i \in 1 .. n PROVE s[i] = a + i - 1
  OBVIOUS
<1>2. 1 \in 1 .. n /\ n \in 1 .. n /\ 1 <= i /\ i <= n
  BY <1>1
<1>3. s[1] + (i - 1) <= s[i] /\ s[i] + (n - i) <= s[n]
  BY <1>2, IncreasingSteps
<1>4. a <= s[1] /\ s[n] < a + n
  BY <1>2
<1> DEFINE x == s[1]
           y == s[i]
           z == s[n]
<1>5. /\ n \in Nat /\ i \in 1 .. n /\ x \in Nat /\ y \in Nat /\ z \in Nat
      /\ x + (i - 1) <= y /\ y + (n - i) <= z /\ a <= x /\ z < a + n
  BY <1>1, <1>2, <1>3, <1>4
<1> HIDE DEF n, x, y, z
<1>6. y = a + i - 1
  BY <1>5
<1> QED BY <1>6 DEF y

(* Two sequences put end to end.                                           *)
LEMMA ConcatIs ==
  ASSUME NEW x \in Seq(Nat), NEW y \in Seq(Nat), NEW z, z = x \o y,
         NEW m, m = Len(x), NEW n, n = Len(y)
  PROVE  /\ z \in Seq(Nat) /\ Len(z) = m + n /\ m \in Nat /\ n \in Nat
         /\ \A i \in 1 .. m : i \in 1 .. m + n /\ z[i] = x[i]
         /\ \A i \in 1 .. m + n : i > m => i - m \in 1 .. n /\ z[i] = y[i - m]
<1>1. m \in Nat /\ n \in Nat
  OBVIOUS
<1>2. /\ z \in Seq(Nat) /\ Len(z) = Len(x) + Len(y)
      /\ \A i \in 1 .. Len(x) + Len(y) : z[i] = IF i <= Len(x) THEN x[i] ELSE y[i - Len(x)]
  BY ConcatProperties
<1>3. \A i \in 1 .. m + n : z[i] = IF i <= m THEN x[i] ELSE y[i - m]
  BY <1>2
<1>4. Len(z) = m + n
  BY <1>2
<1>5. \A i \in 1 .. m : i \in 1 .. m + n /\ i <= m
  BY <1>1
<1>6. \A i \in 1 .. m + n : i > m => i - m \in 1 .. n /\ ~(i <= m)
  BY <1>1
<1> QED BY <1>1, <1>2, <1>3, <1>4, <1>5, <1>6

-----------------------------------------------------------------------------
(* The data of the first blocks is in file order, and holds nothing of a   *)
(* block that was dropped.                                                 *)

InBlock(f, a, v, b) ==
  Keeps(f, a, b) /\ BlockStart(f, b) <= v /\ v < BlockEnd(f, b)

LEMMA StreamShape ==
  ASSUME NEW f, WellFormed(f), NEW a, NEW to \in 0 .. NumBlocks(f)
  PROVE  LET s == BlocksOf(f, a, 0, to)
         IN /\ s \in Seq(Nat) /\ Increasing(s)
            /\ \A i \in 1 .. Len(s) : \E b \in 1 .. to : InBlock(f, a, s[i], b)
<1> DEFINE st(k) == BlocksOf(f, a, 0, k)
           Shape(k) == /\ Increasing(st(k))
                       /\ \A i \in 1 .. Len(st(k)) : \E b \in 1 .. k : InBlock(f, a, st(k)[i], b)
           S == {k \in Nat : k <= NumBlocks(f) => Shape(k)}
<1>1. /\ NumBlocks(f) \in Nat
      /\ \A b \in 1 .. NumBlocks(f) : /\ BlockStart(f, b) \in Nat /\ BlockEnd(f, b) \in Nat
                                      /\ BlockStart(f, b) <= BlockEnd(f, b)
  BY BlockTypes
<1>2. ASSUME NEW k \in Nat, k <= NumBlocks(f)
      PROVE  /\ st(k) \in Seq(Nat) /\ st(0) = <<>>
             /\ k + 1 <= NumBlocks(f) => st(k + 1) = st(k) \o BlockBytes(f, a, k + 1)
  <2>1. 0 \in Nat /\ 0 <= k
    OBVIOUS
  <2> QED BY <1>2, <2>1, BlocksStep
<1>3. Shape(0)
  <2>1. st(0) = <<>>
    BY <1>1, <1>2
  <2> HIDE DEF st
  <2>2. Len(st(0)) = 0
    BY <2>1
  <2> QED BY <2>2 DEF Increasing
<1>4. ASSUME NEW k \in Nat, k + 1 <= NumBlocks(f), Shape(k)
      PROVE  Shape(k + 1)
  <2> DEFINE x == st(k)
             y == BlockBytes(f, a, k + 1)
             z == st(k + 1)
             from == BlockStart(f, k + 1)
             end == BlockEnd(f, k + 1)
             m == Len(x)
             n == Len(y)
  <2>1. k + 1 \in 1 .. NumBlocks(f) /\ k <= NumBlocks(f)
    BY <1>1, <1>4
  <2>2. /\ x \in Seq(Nat) /\ y \in Seq(Nat) /\ z = x \o y
        /\ from \in Nat /\ end \in Nat /\ from <= end
    BY <1>1, <1>2, <1>4, <2>1, BlockBytesShape
  <2>3. \A i \in 1 .. n : y[i] = from + i - 1 /\ InBlock(f, a, y[i], k + 1)
    <3>1. CASE Keeps(f, a, k + 1)
      <4>1. y = Bytes(from, end)
        BY <3>1 DEF BlockBytes
      <4>2. n = end - from /\ \A i \in 1 .. end - from : y[i] = from + i - 1
        <5> HIDE DEF from, end, y
        <5> QED BY <2>2, <4>1, BytesShape
      <4>3. ASSUME NEW i \in 1 .. n PROVE y[i] = from + i - 1 /\ from <= y[i] /\ y[i] < end
        <5> HIDE DEF from, end, y, n
        <5> QED BY <2>2, <4>2
      <4> HIDE DEF y, n
      <4> QED BY <3>1, <4>3 DEF InBlock
    <3>2. CASE ~Keeps(f, a, k + 1)
      <4>1. n = 0
        BY <3>2 DEF BlockBytes
      <4> HIDE DEF n
      <4> QED BY <4>1
    <3> QED BY <3>1, <3>2
  <2>4. \A i \in 1 .. m : \E b \in 1 .. k : InBlock(f, a, x[i], b)
    BY <1>4
  <2>5. \A i \in 1 .. m - 1 : x[i] < x[i + 1]
    BY <1>4 DEF Increasing
  <2>6. m = Len(x) /\ n = Len(y)
    OBVIOUS
  <2> HIDE DEF st, x, y, z, m, n, from, end
  <2>7. /\ z \in Seq(Nat) /\ Len(z) = m + n /\ m \in Nat /\ n \in Nat
        /\ \A i \in 1 .. m : z[i] = x[i]
        /\ \A i \in 1 .. m + n : i > m => i - m \in 1 .. n /\ z[i] = y[i - m]
    BY <2>2, <2>6, ConcatIs
  <2>8. ASSUME NEW i \in 1 .. m PROVE x[i] \in Nat /\ x[i] < from
    <3>1. PICK b \in 1 .. k : InBlock(f, a, x[i], b)
      BY <2>4
    <3>2. b \in 1 .. NumBlocks(f) /\ b < k + 1
      BY <1>1, <2>1
    <3>3. BlockEnd(f, b) <= from
      BY <2>1, <3>2, BlocksRise DEF from
    <3>4. x[i] \in Nat
      BY <2>2, <2>6, ElementOfSeq
    <3>5. x[i] < BlockEnd(f, b)
      BY <3>1 DEF InBlock
    <3> DEFINE v == x[i]
               blockEnd == BlockEnd(f, b)
    <3>6. v \in Nat /\ v < blockEnd /\ blockEnd <= from /\ blockEnd \in Nat
      BY <1>1, <3>2, <3>3, <3>4, <3>5
    <3> HIDE DEF v, blockEnd
    <3>7. v < from
      BY <2>2, <3>6
    <3> QED BY <3>4, <3>7 DEF v
  <2>9. ASSUME NEW i \in 1 .. (m + n) - 1 PROVE z[i] < z[i + 1]
    <3>1. i \in 1 .. m + n /\ i + 1 \in 1 .. m + n
      BY <2>7
    <3>2. CASE i + 1 <= m
      <4>1. z[i] = x[i] /\ z[i + 1] = x[i + 1] /\ i \in 1 .. m - 1
        BY <2>7, <3>1, <3>2
      <4> QED BY <2>5, <4>1
    <3>3. CASE i = m
      <4>1. z[i] = x[i] /\ z[i + 1] = y[1] /\ 1 \in 1 .. n /\ i \in 1 .. m
        BY <2>7, <3>1, <3>3
      <4>2. y[1] = from + 1 - 1
        BY <2>3, <4>1
      <4> QED BY <2>2, <2>8, <4>1, <4>2
    <3>4. CASE i > m
      <4>1. i + 1 > m
        BY <2>7, <3>4
      <4>2. /\ z[i] = y[i - m] /\ z[i + 1] = y[(i + 1) - m]
            /\ i - m \in 1 .. n /\ (i + 1) - m \in 1 .. n
        BY <2>7, <3>1, <3>4, <4>1
      <4>3. y[i - m] = from + (i - m) - 1 /\ y[(i + 1) - m] = from + ((i + 1) - m) - 1
        BY <2>3, <4>2
      <4> QED BY <2>2, <2>7, <4>2, <4>3
    <3> QED BY <2>7, <3>2, <3>3, <3>4
  <2>10. ASSUME NEW i \in 1 .. m + n PROVE \E b \in 1 .. k + 1 : InBlock(f, a, z[i], b)
    <3>1. CASE i <= m
      <4>1. i \in 1 .. m /\ z[i] = x[i]
        BY <2>7, <3>1
      <4>2. PICK b \in 1 .. k : InBlock(f, a, x[i], b)
        BY <2>4, <4>1
      <4>3. b \in 1 .. k + 1
        OBVIOUS
      <4> QED BY <4>1, <4>2, <4>3
    <3>2. CASE i > m
      <4>1. i - m \in 1 .. n /\ z[i] = y[i - m]
        BY <2>7, <3>2
      <4>2. k + 1 \in 1 .. k + 1
        OBVIOUS
      <4> QED BY <2>3, <4>1, <4>2
    <3> QED BY <2>7, <3>1, <3>2
  <2> QED BY <2>7, <2>9, <2>10 DEF Increasing, z, st
<1> HIDE DEF Shape
<1>5. 0 \in S
  BY <1>3
<1>6. ASSUME NEW k \in Nat, k \in S PROVE k + 1 \in S
  <2> SUFFICES ASSUME k + 1 <= NumBlocks(f) PROVE Shape(k + 1)
    OBVIOUS
  <2>1. k <= NumBlocks(f)
    BY <1>1
  <2>2. Shape(k)
    BY <1>6, <2>1
  <2> QED BY <1>4, <2>2
<1>7. \A k \in Nat : k \in S
  <2> HIDE DEF S
  <2> QED BY <1>5, <1>6, SetInduction
<1>8. to \in Nat /\ to <= NumBlocks(f)
  BY <1>1
<1>9. Shape(to)
  BY <1>7, <1>8
<1> QED BY <1>2, <1>8, <1>9 DEF Shape

(* Unfiltered, the data is the file from its first byte on.                *)
LEMMA UnfilteredStream ==
  ASSUME NEW f, WellFormed(f), NEW a, a # "filtered", NEW to \in 0 .. NumBlocks(f)
  PROVE  \A i \in 1 .. Len(BlocksOf(f, a, 0, to)) : BlocksOf(f, a, 0, to)[i] = i - 1
<1> DEFINE st(k) == BlocksOf(f, a, 0, k)
           End(k) == IF k = 0 THEN 0 ELSE BlockEnd(f, k)
           Shape(k) == /\ Len(st(k)) = End(k)
                       /\ \A i \in 1 .. Len(st(k)) : st(k)[i] = i - 1
           S == {k \in Nat : k <= NumBlocks(f) => Shape(k)}
<1>1. /\ NumBlocks(f) \in Nat
      /\ \A b \in 1 .. NumBlocks(f) : /\ BlockStart(f, b) \in Nat /\ BlockEnd(f, b) \in Nat
                                      /\ BlockStart(f, b) <= BlockEnd(f, b)
  BY BlockTypes
<1>2. ASSUME NEW k \in Nat, k <= NumBlocks(f)
      PROVE  /\ st(k) \in Seq(Nat) /\ st(0) = <<>>
             /\ k + 1 <= NumBlocks(f) => st(k + 1) = st(k) \o BlockBytes(f, a, k + 1)
  <2>1. 0 \in Nat /\ 0 <= k
    OBVIOUS
  <2> QED BY <1>2, <2>1, BlocksStep
<1>3. Shape(0)
  <2>1. st(0) = <<>>
    BY <1>1, <1>2
  <2> HIDE DEF st
  <2>2. Len(st(0)) = 0
    BY <2>1
  <2> QED BY <2>2
<1>4. ASSUME NEW k \in Nat, k + 1 <= NumBlocks(f), Shape(k)
      PROVE  Shape(k + 1)
  <2> DEFINE x == st(k)
             y == BlockBytes(f, a, k + 1)
             z == st(k + 1)
             from == BlockStart(f, k + 1)
             end == BlockEnd(f, k + 1)
             m == Len(x)
             n == Len(y)
  <2>1. k + 1 \in 1 .. NumBlocks(f) /\ k <= NumBlocks(f)
    BY <1>1, <1>4
  <2>2. /\ x \in Seq(Nat) /\ y \in Seq(Nat) /\ z = x \o y
        /\ from \in Nat /\ end \in Nat /\ from <= end
    BY <1>1, <1>2, <1>4, <2>1, BlockBytesShape
  <2>3. from = End(k)
    <3>1. k # 0 => k + 1 # 1 /\ (k + 1) - 1 = k
      OBVIOUS
    <3> QED BY <3>1 DEF BlockStart, BlockEnd
  <2>4. y = Bytes(from, end)
    BY DEF BlockBytes, Keeps
  <2>5. m = End(k) /\ \A i \in 1 .. m : x[i] = i - 1
    BY <1>4
  <2>6. End(k + 1) = end
    OBVIOUS
  <2>7. m = Len(x) /\ n = Len(y)
    OBVIOUS
  <2> HIDE DEF st, x, y, z, m, n, from, end, End
  <2>8. n = end - from /\ \A i \in 1 .. end - from : y[i] = from + i - 1
    BY <2>2, <2>4, <2>7, BytesShape
  <2>9. /\ Len(z) = m + n /\ m \in Nat /\ n \in Nat
        /\ \A i \in 1 .. m : z[i] = x[i]
        /\ \A i \in 1 .. m + n : i > m => i - m \in 1 .. n /\ z[i] = y[i - m]
    BY <2>2, <2>7, ConcatIs
  <2>10. Len(z) = end
    BY <2>2, <2>3, <2>5, <2>8, <2>9
  <2>11. ASSUME NEW i \in 1 .. m + n PROVE z[i] = i - 1
    <3>1. CASE i <= m
      <4>1. i \in 1 .. m
        BY <2>9, <3>1
      <4> QED BY <2>5, <2>9, <4>1
    <3>2. CASE i > m
      <4>1. z[i] = y[i - m] /\ i - m \in 1 .. end - from
        BY <2>2, <2>8, <2>9, <2>10, <3>2
      <4>2. y[i - m] = from + (i - m) - 1
        BY <2>8, <4>1
      <4> QED BY <2>2, <2>3, <2>5, <2>9, <4>1, <4>2, SMTT(60)
    <3> QED BY <2>9, <3>1, <3>2
  <2> QED BY <2>6, <2>9, <2>10, <2>11 DEF z, st
<1> HIDE DEF Shape
<1>5. 0 \in S
  BY <1>3
<1>6. ASSUME NEW k \in Nat, k \in S PROVE k + 1 \in S
  <2> SUFFICES ASSUME k + 1 <= NumBlocks(f) PROVE Shape(k + 1)
    OBVIOUS
  <2>1. k <= NumBlocks(f)
    BY <1>1
  <2>2. Shape(k)
    BY <1>6, <2>1
  <2> QED BY <1>4, <2>2
<1>7. \A k \in Nat : k \in S
  <2> HIDE DEF S
  <2> QED BY <1>5, <1>6, SetInduction
<1>8. to \in Nat /\ to <= NumBlocks(f)
  BY <1>1
<1>9. Shape(to)
  BY <1>7, <1>8
<1> QED BY <1>9 DEF Shape

(* The second read sees nothing but records.                               *)
LEMMA FilteredInRecords ==
  ASSUME NEW f, WellFormed(f), GridTold(f), f.spatial, f.hasVar,
         NEW b \in 1 .. NumBlocks(f), NEW v \in Nat, InBlock(f, "filtered", v, b),
         NEW r \in 1 .. NumRecords(f), EndOfRecord(f, r) <= v
  PROVE  r + 1 <= NumRecords(f) /\ f.start[r + 1] <= v
<1>1. /\ NumBlocks(f) \in Nat
      /\ \A c \in 1 .. NumBlocks(f) : /\ BlockStart(f, c) \in Nat /\ BlockEnd(f, c) \in Nat
                                      /\ BlockStart(f, c) <= BlockEnd(f, c)
  BY BlockTypes
<1>2. /\ NumRecords(f) \in Nat
      /\ \A q \in 1 .. NumRecords(f) : f.start[q] \in Nat /\ EndOfRecord(f, q) \in Nat
  BY RecordTypes
<1>3. BlockStart(f, b) <= v /\ v < BlockEnd(f, b)
      /\ IsRecordBlock(f, BlockStart(f, b), BlockEnd(f, b))
  BY DEF InBlock, Keeps
<1>4. b \notin f.grid
  <2>1. BlockStart(f, b) # BlockEnd(f, b)
    BY <1>1, <1>3
  <2> QED BY <1>3, <2>1 DEF GridTold
<1>5. r + 1 <= NumRecords(f)
  <2> SUFFICES ASSUME r = NumRecords(f) PROVE FALSE
    BY <1>2
  <2>1. BlockEnd(f, b) > EndOfRecord(f, NumRecords(f)) /\ NumRecords(f) > 0
    BY <1>1, <1>2, <1>3
  <2> QED BY <1>4, <2>1 DEF GridTold
<1>6. CASE f.start[r + 1] = EndOfRecord(f, r)
  BY <1>5, <1>6
<1>7. CASE OnlyGridBetween(f, EndOfRecord(f, r), f.start[r + 1])
  <2> DEFINE e == EndOfRecord(f, r)
             s == f.start[r + 1]
  <2>1. e \in Nat /\ s \in Nat
    <3>1. r + 1 \in 1 .. NumRecords(f)
      BY <1>2, <1>5
    <3> QED BY <1>2, <3>1
  <2> SUFFICES ASSUME v < s PROVE FALSE
    BY <1>5, <2>1
  <2>2. NumBlocks(f) # 0
    BY <1>1
  <2>3. CASE f.cut[NumBlocks(f)] <= e
    <3>1. NumBlocks(f) \in 1 .. NumBlocks(f)
      BY <1>1, <2>2
    <3>2. BlockEnd(f, b) <= BlockEnd(f, NumBlocks(f))
      <4>1. b < NumBlocks(f) => BlockEnd(f, b) <= BlockStart(f, NumBlocks(f))
        BY <3>1, BlocksRise
      <4>2. b = NumBlocks(f) \/ b < NumBlocks(f)
        BY <1>1
      <4> QED BY <1>1, <3>1, <4>1, <4>2
    <3>3. BlockEnd(f, NumBlocks(f)) <= e
      BY <2>3 DEF BlockEnd
    <3> QED BY <1>1, <1>3, <2>1, <3>1, <3>2, <3>3
  <2>4. CASE \E x \in 1 .. NumBlocks(f) : \E y \in (x + 1) .. NumBlocks(f) :
               /\ f.cut[x] = e /\ f.cut[y] = s
               /\ (x + 1) .. y \subseteq f.grid
    <3>1. PICK x \in 1 .. NumBlocks(f) : \E y \in (x + 1) .. NumBlocks(f) :
            BlockEnd(f, x) = e /\ BlockEnd(f, y) = s /\ (x + 1) .. y \subseteq f.grid
      BY <2>4 DEF BlockEnd
    <3>2. PICK y \in (x + 1) .. NumBlocks(f) :
            BlockEnd(f, x) = e /\ BlockEnd(f, y) = s /\ (x + 1) .. y \subseteq f.grid
      BY <3>1
    <3>3. y \in 1 .. NumBlocks(f)
      BY <1>1
    <3>4. x < b
      <4>1. b < x => BlockEnd(f, b) <= BlockStart(f, x)
        BY BlocksRise
      <4>2. b = x => BlockEnd(f, b) = e
        BY <3>2
      <4> QED BY <1>1, <1>3, <2>1, <3>2, <4>1, <4>2
    <3>5. b <= y
      <4>1. y < b => BlockEnd(f, y) <= BlockStart(f, b)
        BY <3>3, BlocksRise
      <4> QED BY <1>1, <1>3, <2>1, <3>2, <3>3, <4>1
    <3>6. b \in (x + 1) .. y
      BY <1>1, <3>3, <3>4, <3>5
    <3> QED BY <1>4, <3>2, <3>6
  <2> QED BY <1>7, <2>2, <2>3, <2>4 DEF OnlyGridBetween
<1>8. r \in 1 .. NumRecords(f) - 1
  BY <1>2, <1>5
<1> QED BY <1>6, <1>7, <1>8 DEF WellFormed, RecordsInOrder

-----------------------------------------------------------------------------
(* What the scan finds is a chain: each record begins where the one before *)
(* it ended.                                                               *)

LEMMA IsEndSteps ==
  ASSUME NEW data \in Seq(Nat)
  PROVE  \A i \in 0 .. Len(data) :
           IsEnd(data)[i] <=>
             \/ i = 0
             \/ \E j \in 0 .. i - HeaderLen : RecordEnd(data, j) = i /\ IsEnd(data)[j]
<1> DEFINE Value(f, i) == \/ i = 0
                          \/ \E j \in 0 .. i - HeaderLen : RecordEnd(data, j) = i /\ f[j]
           Upto(f, k) == f = [i \in 0 .. k |-> Value(f, i)]
           S == {k \in Nat : \E f : Upto(f, k)}
<1>1. HeaderLen \in Nat \ {0}
  BY LayoutAssumption
<1>2. 0 \in S
  <2> DEFINE f == [i \in 0 .. 0 |-> TRUE]
  <2>1. Upto(f, 0)
    OBVIOUS
  <2> HIDE DEF f, Upto
  <2> QED BY <2>1
<1>3. ASSUME NEW k \in Nat, k \in S PROVE k + 1 \in S
  <2>1. PICK f : Upto(f, k)
    BY <1>3
  <2> DEFINE g == [i \in 0 .. k + 1 |-> IF i = k + 1 THEN Value(f, k + 1) ELSE f[i]]
  <2>2. ASSUME NEW i \in 0 .. k + 1 PROVE g[i] = Value(g, i)
    <3>1. \A j \in 0 .. i - HeaderLen : g[j] = f[j]
      <4> SUFFICES ASSUME NEW j \in 0 .. i - HeaderLen PROVE g[j] = f[j]
        OBVIOUS
      <4>1. j \in 0 .. k + 1 /\ j # k + 1
        BY <1>1
      <4> QED BY <4>1
    <3>2. Value(g, i) = Value(f, i)
      <4> HIDE DEF g
      <4> QED BY <3>1
    <3>3. g[i] = Value(f, i)
      <4>1. CASE i = k + 1
        BY <4>1
      <4>2. CASE i # k + 1
        <5>1. i \in 0 .. k /\ g[i] = f[i]
          BY <4>2
        <5> HIDE DEF Value, g
        <5> QED BY <2>1, <5>1
      <4> QED BY <4>1, <4>2
    <3> HIDE DEF Value
    <3> QED BY <3>2, <3>3
  <2>3. Upto(g, k + 1)
    <3>1. g = [i \in 0 .. k + 1 |-> g[i]]
      OBVIOUS
    <3> HIDE DEF g, Value
    <3> QED BY <2>2, <3>1
  <2> HIDE DEF g, Upto
  <2> QED BY <2>3
<1>4. Len(data) \in Nat
  OBVIOUS
<1>5. Len(data) \in S
  <2> HIDE DEF S
  <2> QED BY <1>2, <1>3, <1>4, SetInduction
<1>6. IsEnd(data) = CHOOSE f : Upto(f, Len(data))
  BY DEF IsEnd
<1>7. Upto(IsEnd(data), Len(data))
  <2> HIDE DEF Upto
  <2> QED BY <1>5, <1>6
<1>8. ASSUME NEW i \in 0 .. Len(data)
      PROVE  IsEnd(data)[i] = Value(IsEnd(data), i)
  <2> HIDE DEF Value
  <2> QED BY <1>7
<1> QED BY <1>8

(* The records found in the first i bytes.                                 *)
Chained(data, ends, i) ==
  /\ Rising(ends, i)
  /\ \A r \in 1 .. Len(ends) - 1 : RecordEnd(data, ends[r]) = ends[r + 1]
  /\ \A j \in 0 .. i : IsEnd(data)[j] => \E r \in 1 .. Len(ends) : ends[r] = j

LEMMA ChainedStep ==
  ASSUME NEW data \in Seq(Nat), NEW i \in Nat, i + 1 <= Len(data),
         NEW ends, Chained(data, ends, i)
  PROVE  /\ IsEnd(data)[i + 1] => Chained(data, Append(ends, i + 1), i + 1)
         /\ ~IsEnd(data)[i + 1] => Chained(data, ends, i + 1)
<1> DEFINE k == Len(ends)
           u == Append(ends, i + 1)
<1>1. /\ ends \in Seq(Nat) /\ k \in Nat \ {0}
      /\ \A r \in 1 .. k : ends[r] \in 0 .. i
      /\ \A r \in 1 .. k - 1 : RecordEnd(data, ends[r]) = ends[r + 1]
      /\ \A j \in 0 .. i : IsEnd(data)[j] => \E r \in 1 .. k : ends[r] = j
  BY DEF Chained, Rising
<1>2. /\ u \in Seq(Nat) /\ Len(u) = k + 1 /\ u[k + 1] = i + 1
      /\ \A r \in 1 .. k : u[r] = ends[r]
  BY <1>1, AppendProperties
<1>3. Rising(u, i + 1) /\ Rising(ends, i + 1)
  BY RisingAppend DEF Chained
<1>4. Len(data) \in Nat /\ HeaderLen \in Nat \ {0}
  BY LayoutAssumption
<1>5. k = Len(ends)
  OBVIOUS
<1> HIDE DEF k, u
<1>6. ASSUME IsEnd(data)[i + 1] PROVE Chained(data, u, i + 1)
  <2>1. PICK j \in 0 .. (i + 1) - HeaderLen : RecordEnd(data, j) = i + 1 /\ IsEnd(data)[j]
    <3>1. i + 1 \in 0 .. Len(data) /\ i + 1 # 0
      BY <1>4
    <3> QED BY <1>6, <3>1, IsEndSteps
  <2>2. j \in 0 .. i
    BY <1>4
  <2>3. PICK q \in 1 .. k : ends[q] = j
    BY <1>1, <2>1, <2>2
  <2>4. q = k
    <3> SUFFICES ASSUME q # k PROVE FALSE
      OBVIOUS
    <3>1. q \in 1 .. k - 1 /\ q + 1 \in 1 .. k
      BY <1>1
    <3>2. ends[q + 1] = i + 1 /\ ends[q + 1] \in 0 .. i
      BY <1>1, <2>1, <2>3, <3>1
    <3> QED BY <3>2
  <2>5. ASSUME NEW r \in 1 .. k PROVE RecordEnd(data, u[r]) = u[r + 1]
    <3>1. CASE r = k
      BY <1>2, <2>1, <2>3, <2>4, <3>1
    <3>2. CASE r # k
      <4>1. r \in 1 .. k - 1 /\ r + 1 \in 1 .. k
        BY <1>1, <3>2
      <4> QED BY <1>1, <1>2, <4>1
    <3> QED BY <3>1, <3>2
  <2>6. ASSUME NEW l \in 0 .. i + 1, IsEnd(data)[l]
        PROVE  \E r \in 1 .. k + 1 : u[r] = l
    <3>1. CASE l = i + 1
      <4>1. k + 1 \in 1 .. k + 1
        BY <1>1
      <4> QED BY <1>2, <3>1, <4>1
    <3>2. CASE l # i + 1
      <4>1. l \in 0 .. i
        BY <3>2
      <4>2. PICK r \in 1 .. k : ends[r] = l
        BY <1>1, <2>6, <4>1
      <4>3. r \in 1 .. k + 1
        BY <1>1
      <4> QED BY <1>2, <4>2, <4>3
    <3> QED BY <3>1, <3>2
  <2>7. Len(u) - 1 = k
    BY <1>1, <1>2
  <2> QED BY <1>2, <1>3, <2>5, <2>6, <2>7 DEF Chained
<1>7. ASSUME ~IsEnd(data)[i + 1] PROVE Chained(data, ends, i + 1)
  <2>1. ASSUME NEW l \in 0 .. i + 1, IsEnd(data)[l]
        PROVE  \E r \in 1 .. k : ends[r] = l
    <3>1. l # i + 1
      BY <1>7, <2>1
    <3>2. l \in 0 .. i
      BY <3>1
    <3> QED BY <1>1, <2>1, <3>2
  <2> QED BY <1>1, <1>3, <1>5, <2>1 DEF Chained
<1> QED BY <1>6, <1>7 DEF u

LEMMA BoundsChained ==
  ASSUME NEW data \in Seq(Nat)
  PROVE  Chained(data, Bounds(data), Len(data))
<1> DEFINE E == EndsUpTo(data)
           S == {i \in Nat : i <= Len(data) => Chained(data, E[i], i)}
<1>1. Len(data) \in Nat
  OBVIOUS
<1>2. /\ E[0] = <<0>>
      /\ \A i \in 1 .. Len(data) :
           E[i] = IF IsEnd(data)[i] THEN Append(E[i - 1], i) ELSE E[i - 1]
  <2>1. E[0] = <<0>>
    BY <1>1, EndsSteps
  <2>2. ASSUME NEW i \in 1 .. Len(data)
        PROVE  E[i] = IF IsEnd(data)[i] THEN Append(E[i - 1], i) ELSE E[i - 1]
    <3>1. i \in 0 .. Len(data) /\ i # 0
      BY <1>1
    <3> QED BY <3>1, EndsSteps
  <2> QED BY <2>1, <2>2
<1> HIDE DEF E
<1>3. 0 \in S
  <2> DEFINE z == <<0>>
  <2>1. z \in Seq(Nat) /\ Len(z) = 1 /\ z[1] = 0
    OBVIOUS
  <2> HIDE DEF z
  <2>2. Rising(z, 0)
    <3>1. \A r \in 1 .. 1 : z[r] \in 0 .. 0
      BY <2>1
    <3>2. Len(z) \in Nat \ {0} /\ Len(z) - 1 = 0
      BY <2>1
    <3> QED BY <2>1, <3>1, <3>2 DEF Rising
  <2>3. \A j \in 0 .. 0 : z[1] = j /\ 1 \in 1 .. Len(z)
    BY <2>1
  <2>4. Len(z) - 1 = 0
    BY <2>1
  <2>5. Chained(data, z, 0)
    <3>1. Len(z) - 1 = 0 /\ 1 .. 0 = {}
      BY <2>1
    <3>2. \A r \in 1 .. Len(z) - 1 : RecordEnd(data, z[r]) = z[r + 1]
      BY <3>1, Zenon
    <3>3. \A j \in 0 .. 0 : \E r \in 1 .. Len(z) : z[r] = j
      BY <2>3
    <3> QED BY <2>2, <3>2, <3>3 DEF Chained
  <2> QED BY <1>2, <2>5 DEF z
<1>4. ASSUME NEW i \in Nat, i \in S PROVE i + 1 \in S
  <2> SUFFICES ASSUME i + 1 <= Len(data) PROVE Chained(data, E[i + 1], i + 1)
    OBVIOUS
  <2>1. i + 1 \in 1 .. Len(data) /\ (i + 1) - 1 = i /\ Chained(data, E[i], i)
    BY <1>1, <1>4
  <2>2. E[i + 1] = IF IsEnd(data)[i + 1] THEN Append(E[i], i + 1) ELSE E[i]
    BY <1>2, <2>1
  <2> QED BY <2>1, <2>2, ChainedStep
<1>5. \A i \in Nat : i \in S
  <2> HIDE DEF S
  <2> QED BY <1>3, <1>4, SetInduction
<1> QED BY <1>1, <1>5 DEF Bounds, E

(* A row that is as long as its own first bytes say.                       *)
Parsed(row) ==
  row \in Seq(Nat) /\ Len(row) >= HeaderLen /\ Len(row) = RecordEnd(row, 0)

LEMMA VarLenAtType ==
  ASSUME WellFormed(file), NEW s, NEW i
  PROVE  VarLenAt(s, i) \in Int
<1>1. \A r \in 1 .. NumRecords(file) : file.len[r] - HeaderLen \in Int
  BY RecordTypes
<1>2. VarLen(file, s[i + 1]) \in Int
  BY <1>1, VarLenIs, RecordTypes
<1> QED BY <1>2, RecordTypes DEF VarLenAt

LEMMA IsSequence ==
  ASSUME NEW S, NEW s, NEW n \in Nat, s = [i \in 1 .. n |-> s[i]],
         \A i \in 1 .. n : s[i] \in S
  PROVE  s \in Seq(S) /\ Len(s) = n
OBVIOUS

LEMMA RecordsParsed ==
  ASSUME WellFormed(file), NEW data \in Seq(Nat),
         NEW n \in 0 .. Len(Bounds(data)) - 1
  PROVE  LET rs == Records(data, Bounds(data), n)
         IN rs \in Seq(Seq(Nat)) /\ Len(rs) = n /\ \A r \in 1 .. n : Parsed(rs[r])
<1> DEFINE ends == Bounds(data)
           rs == Records(data, ends, n)
           k == Len(ends)
           m == Len(data)
<1>1. Chained(data, ends, m)
  BY BoundsChained
<1>2. /\ k \in Nat \ {0} /\ m \in Nat
      /\ \A r \in 1 .. k : ends[r] \in 0 .. m
      /\ \A r \in 1 .. k - 1 : ends[r] < ends[r + 1] /\ RecordEnd(data, ends[r]) = ends[r + 1]
      /\ \A i \in 1 .. m : data[i] \in Nat
  BY <1>1, ElementOfSeq, SMTT(60) DEF Chained, Rising
<1>3. HeaderLen \in Nat \ {0}
  BY LayoutAssumption
<1> HIDE DEF ends
<1>4. n \in Nat /\ n <= k - 1
  BY <1>2 DEF ends
<1> HIDE DEF m, k
<1>5. /\ Len(rs) = n /\ rs = [r \in 1 .. n |-> rs[r]]
      /\ \A r \in 1 .. n : rs[r] = SubSeq(data, ends[r] + 1, ends[r + 1])
  <2> DEFINE rec(r) == SubSeq(data, ends[r] + 1, ends[r + 1])
  <2>1. rs = [r \in 1 .. n |-> rec(r)]
    BY DEF Records
  <2> HIDE DEF rec, rs
  <2>2. Len(rs) = n /\ \A r \in 1 .. n : rs[r] = rec(r)
    BY <1>4, <2>1
  <2>3. rs = [r \in 1 .. n |-> rs[r]]
    BY <2>1, <2>2
  <2> QED BY <2>2, <2>3 DEF rec
<1> HIDE DEF rs
<1>6. ASSUME NEW r \in 1 .. n PROVE Parsed(rs[r])
  <2> DEFINE j == ends[r]
             e == ends[r + 1]
             row == rs[r]
  <2>1. r \in 1 .. k - 1 /\ r \in 1 .. k /\ r + 1 \in 1 .. k
    BY <1>2, <1>4
  <2>2. /\ j \in Nat /\ e \in Nat /\ j < e /\ e <= m /\ RecordEnd(data, j) = e
        /\ row = SubSeq(data, j + 1, e)
    BY <1>2, <1>5, <2>1
  <2> HIDE DEF j, e, row
  <2>3. /\ row \in Seq(Nat) /\ Len(row) = e - j
        /\ \A i \in 1 .. e - j : row[i] = data[j + i]
    <3>1. j + 1 \in Int /\ e \in Int /\ \A i \in j + 1 .. e : i \in 1 .. m
      BY <1>2, <2>2
    <3>2. \A i \in j + 1 .. e : data[i] \in Nat
      BY <1>2, <3>1
    <3>3. /\ row \in Seq(Nat) /\ Len(row) = (IF j + 1 <= e THEN e - (j + 1) + 1 ELSE 0)
          /\ \A i \in 1 .. e - (j + 1) + 1 : row[i] = data[(j + 1) + i - 1]
      BY <2>2, <3>1, <3>2, SubSeqProperties
    <3>4. (IF j + 1 <= e THEN e - (j + 1) + 1 ELSE 0) = e - j /\ e - (j + 1) + 1 = e - j
      BY <2>2
    <3>5. \A i \in 1 .. e - j : (j + 1) + i - 1 = j + i
      BY <2>2
    <3> QED BY <3>3, <3>4, <3>5
  <2>4. e = j + HeaderLen + (IF file.hasVar THEN VarLenAt(data, j) ELSE 0)
    BY <2>2 DEF RecordEnd
  <2>5. e - j >= HeaderLen
    <3>1. file.hasVar => VarLenAt(data, j) \in Nat
      <4>1. /\ HeaderLen \in Nat /\ GarbageLen \in Nat
            /\ \A q \in 1 .. NumRecords(file) : file.len[q] \in Nat /\ file.len[q] >= HeaderLen
        BY RecordTypes
      <4>2. \A q \in 1 .. NumRecords(file) : file.len[q] - HeaderLen \in Nat
        BY <4>1
      <4>3. VarLen(file, data[j + 1]) \in Nat
        BY <4>1, <4>2, VarLenIs, SMTT(60)
      <4> QED BY <4>1, <4>3 DEF VarLenAt
    <3> QED BY <1>3, <2>2, <2>4, <3>1, SMTT(60)
  <2>6. VarLenAt(row, 0) = VarLenAt(data, j)
    <3>1. HeaderLen \in 1 .. e - j /\ 1 \in 1 .. e - j
      BY <1>3, <2>2, <2>5
    <3>2. row[HeaderLen] = data[j + HeaderLen] /\ row[1] = data[j + 1]
      BY <2>3, <3>1
    <3>3. 0 + HeaderLen = HeaderLen /\ 0 + 1 = 1
      BY <1>3
    <3> QED BY <3>2, <3>3 DEF VarLenAt
  <2>7. RecordEnd(row, 0) = e - j
    <3> DEFINE v == VarLenAt(data, j)
    <3>1. v \in Int
      BY VarLenAtType
    <3> DEFINE more == IF file.hasVar THEN v ELSE 0
    <3>2. RecordEnd(row, 0) = 0 + HeaderLen + more
      BY <2>6 DEF RecordEnd
    <3>3. e = j + HeaderLen + more
      BY <2>4
    <3>4. more \in Int
      BY <3>1
    <3> HIDE DEF v, more
    <3> QED BY <1>3, <2>2, <3>2, <3>3, <3>4
  <2>8. Parsed(row)
    BY <2>3, <2>5, <2>7 DEF Parsed
  <2> QED BY <2>8 DEF row
<1>7. rs \in Seq(Seq(Nat))
  <2>1. \A r \in 1 .. n : rs[r] \in Seq(Nat)
    BY <1>6 DEF Parsed
  <2> QED BY <1>4, <1>5, <2>1, IsSequence
<1> QED BY <1>5, <1>6, <1>7 DEF rs, ends

-----------------------------------------------------------------------------
(* Where the rows lie in the data they were cut from.                      *)

Before(rs, r) == Len(FlattenSeq(SubSeq(rs, 1, r)))

Placed(rs, st) ==
  /\ Before(rs, 0) = 0
  /\ \A r \in 0 .. Len(rs) : Before(rs, r) \in 0 .. Len(st)
  /\ \A r \in 1 .. Len(rs) :
       /\ Before(rs, r) = Before(rs, r - 1) + Len(rs[r])
       /\ \A i \in 1 .. Len(rs[r]) : rs[r][i] = st[Before(rs, r - 1) + i]

LEMMA RowsPlaced ==
  ASSUME NEW rs \in Seq(Seq(Nat)), NEW rest \in Seq(Nat),
         NEW st, st = FlattenSeq(rs) \o rest
  PROVE  Placed(rs, st)
<1> DEFINE n == Len(rs)
           Pre(r) == FlattenSeq(SubSeq(rs, 1, r))
<1>1. n \in Nat /\ \A r \in 1 .. n : rs[r] \in Seq(Nat)
  BY ElementOfSeq
<1>2. ASSUME NEW r \in 0 .. n
      PROVE  SubSeq(rs, 1, r) \in Seq(Seq(Nat)) /\ Pre(r) \in Seq(Nat)
  <2>1. r \in Int /\ 1 \in Int /\ \A i \in 1 .. r : i \in 1 .. n
    BY <1>1
  <2>2. SubSeq(rs, 1, r) \in Seq(Seq(Nat))
    BY <1>1, <2>1, SubSeqProperties
  <2>3. <<>> \in Seq(Nat)
    OBVIOUS
  <2> QED BY <2>2, <2>3, BytesAppend
<1>3. Pre(0) = <<>>
  <2>1. SubSeq(rs, 1, 0) = <<>>
    BY SubSeqEmpty
  <2> QED BY <2>1, FlattenEmpty
<1>4. ASSUME NEW r \in 1 .. n PROVE Pre(r) = Pre(r - 1) \o rs[r]
  <2> DEFINE s == SubSeq(rs, 1, r - 1)
  <2>1. r - 1 \in 0 .. n /\ 1 \in 1 .. n /\ r \in 1 .. n
    BY <1>1
  <2>2. s \in Seq(Seq(Nat)) /\ rs[r] \in Seq(Nat)
    BY <1>1, <1>2, <2>1
  <2>3. SubSeq(rs, 1, r) = s \o <<rs[r]>>
    BY <2>1, SubSeqRecursiveSecond
  <2> HIDE DEF s
  <2>4. SubSeq(rs, 1, r) = Append(s, rs[r])
    BY <2>2, <2>3, AppendIsConcat
  <2>5. Pre(r) = FlattenSeq(s) \o rs[r]
    BY <2>2, <2>4, BytesAppend
  <2> QED BY <2>5 DEF s
<1>5. Pre(n) = FlattenSeq(rs)
  BY SubSeqFull
<1> HIDE DEF Pre
<1> DEFINE Split(r) == \E more \in Seq(Nat) : st = Pre(r) \o more
           S == {k \in Nat : k <= n => Split(n - k)}
<1>6. 0 \in S
  <2>1. st = Pre(n) \o rest
    BY <1>5
  <2>2. Split(n)
    BY <2>1
  <2>3. n - 0 = n
    BY <1>1
  <2> HIDE DEF Split
  <2> QED BY <2>2, <2>3
<1>7. ASSUME NEW k \in Nat, k <= n => Split(n - k), k + 1 <= n
      PROVE  Split(n - (k + 1))
  <2> DEFINE r == n - k
  <2>1. r \in 1 .. n /\ r \in 0 .. n /\ r - 1 \in 0 .. n /\ n - (k + 1) = r - 1 /\ k <= n
    BY <1>1, <1>7
  <2>2. PICK more \in Seq(Nat) : st = Pre(r) \o more
    BY <1>7, <2>1
  <2> HIDE DEF r
  <2>3. Pre(r) = Pre(r - 1) \o rs[r] /\ Pre(r - 1) \in Seq(Nat) /\ rs[r] \in Seq(Nat)
    BY <1>1, <1>2, <1>4, <2>1
  <2>4. (Pre(r - 1) \o rs[r]) \o more = Pre(r - 1) \o (rs[r] \o more)
    BY <2>3, BytesConcat, Zenon
  <2>5. rs[r] \o more \in Seq(Nat)
    BY <2>3, ConcatProperties
  <2>6. Split(r - 1)
    BY <2>2, <2>3, <2>4, <2>5
  <2> QED BY <2>1, <2>6
<1>8. ASSUME NEW r \in 0 .. n PROVE Split(r)
  <2>1. \A k \in Nat : k \in S
    <3> HIDE DEF Split
    <3>1. ASSUME NEW k \in Nat, k \in S PROVE k + 1 \in S
      <4>1. k <= n => Split(n - k)
        BY <3>1
      <4>2. k + 1 <= n => Split(n - (k + 1))
        BY <1>7, <4>1
      <4> QED BY <4>2
    <3> HIDE DEF S
    <3> QED BY <1>6, <3>1, SetInduction
  <2>2. n - r \in Nat /\ n - (n - r) = r /\ n - r <= n
    BY <1>1
  <2>3. (n - r) \in S
    BY <2>1, <2>2
  <2> HIDE DEF Split
  <2> QED BY <2>2, <2>3
<1>9. \A r : Before(rs, r) = Len(Pre(r))
  BY DEF Before, Pre
<1>10. ASSUME NEW r \in 0 .. n PROVE Before(rs, r) \in 0 .. Len(st)
  <2>1. PICK more \in Seq(Nat) : st = Pre(r) \o more
    BY <1>8
  <2> DEFINE p == Pre(r)
             x == Len(p)
             y == Len(more)
  <2>2. p \in Seq(Nat) /\ st = p \o more
    BY <1>2, <2>1
  <2>3. x = Len(p) /\ y = Len(more)
    OBVIOUS
  <2> HIDE DEF p, x, y
  <2>4. Len(st) = x + y /\ x \in Nat /\ y \in Nat
    BY <2>2, <2>3, ConcatIs
  <2>5. x \in 0 .. Len(st)
    BY <2>4
  <2> QED BY <1>9, <2>3, <2>5 DEF p
<1>11. ASSUME NEW r \in 1 .. n
       PROVE  /\ Before(rs, r) = Before(rs, r - 1) + Len(rs[r])
              /\ \A i \in 1 .. Len(rs[r]) : rs[r][i] = st[Before(rs, r - 1) + i]
  <2> DEFINE p == Pre(r - 1)
             row == rs[r]
             x == Len(p)
             y == Len(row)
  <2>1. r \in 0 .. n /\ r - 1 \in 0 .. n
    BY <1>1
  <2>2. p \in Seq(Nat) /\ row \in Seq(Nat) /\ Pre(r) = p \o row
    BY <1>1, <1>2, <1>4, <2>1
  <2>3. PICK more \in Seq(Nat) : st = Pre(r) \o more
    BY <1>8, <2>1
  <2>4. x = Len(p) /\ y = Len(row) /\ Before(rs, r - 1) = x
    BY <1>9
  <2> HIDE DEF p, row, x, y
  <2> DEFINE q == p \o row
             l == Len(q)
             z == Len(more)
  <2>5. /\ q \in Seq(Nat) /\ Len(q) = x + y /\ x \in Nat /\ y \in Nat
        /\ \A i \in 1 .. x + y : i > x => i - x \in 1 .. y /\ q[i] = row[i - x]
    BY <2>2, <2>4, ConcatIs
  <2>6. q = Pre(r) /\ l = Len(q) /\ z = Len(more)
    BY <2>2
  <2> HIDE DEF q, l, z
  <2>7. \A i \in 1 .. l : st[i] = q[i]
    BY <2>3, <2>5, <2>6, ConcatIs
  <2>8. Before(rs, r) = x + y
    BY <1>9, <2>5, <2>6
  <2>9. ASSUME NEW i \in 1 .. y PROVE row[i] = st[x + i]
    <3>1. x \in Nat /\ y \in Nat
      BY <2>5
    <3>2. x + i \in 1 .. x + y /\ x + i > x /\ (x + i) - x = i
      BY <3>1
    <3>3. q[x + i] = row[i]
      BY <2>5, <3>2
    <3>4. st[x + i] = q[x + i]
      BY <2>5, <2>6, <2>7, <3>2
    <3> QED BY <3>3, <3>4
  <2> QED BY <2>4, <2>8, <2>9 DEF row
<1>12. Before(rs, 0) = 0
  BY <1>3, <1>9
<1> QED BY <1>10, <1>11, <1>12 DEF Placed

-----------------------------------------------------------------------------
(* Rows that parse and lie one after the other are the file's records.     *)

(* A row that begins where a record does, its length word in one piece, is *)
(* as long as that record.                                                 *)
LEMMA RowAtStart ==
  ASSUME WellFormed(file), NEW row, Parsed(row), NEW r \in 1 .. Count,
         row[1] = file.start[r], row[HeaderLen] = row[1] + HeaderLen - 1
  PROVE  Len(row) = file.len[r]
<1>1. /\ HeaderLen \in Nat \ {0} /\ file.len[r] \in Nat
      /\ ~file.hasVar => file.len[r] = HeaderLen
  BY RecordTypes DEF Count
<1>2. VarLenAt(row, 0) = file.len[r] - HeaderLen
  <2>1. 0 + HeaderLen = HeaderLen /\ 0 + 1 = 1
    BY <1>1
  <2>2. VarLenAt(row, 0) = VarLen(file, file.start[r])
    BY <2>1 DEF VarLenAt
  <2> QED BY <2>2, VarLenAtStart DEF Count
<1>3. Len(row) = 0 + HeaderLen + (IF file.hasVar THEN VarLenAt(row, 0) ELSE 0)
  BY DEF Parsed, RecordEnd
<1>4. CASE file.hasVar
  <2>1. Len(row) = 0 + HeaderLen + (file.len[r] - HeaderLen)
    BY <1>2, <1>3, <1>4
  <2> QED BY <1>1, <2>1
<1>5. CASE ~file.hasVar
  <2>1. Len(row) = 0 + HeaderLen + 0
    BY <1>3, <1>5
  <2> QED BY <1>1, <1>5, <2>1
<1> QED BY <1>4, <1>5

(* A row too short for a stray length begins where some record does.       *)
LEMMA RowOfSome ==
  ASSUME WellFormed(file), file.hasVar, NEW row, Parsed(row),
         Len(row) < HeaderLen + GarbageLen
  PROVE  \E r \in 1 .. Count : row[1] = file.start[r] /\ Len(row) = file.len[r]
<1>1. /\ HeaderLen \in Nat \ {0} /\ GarbageLen \in Nat
      /\ \A r \in 1 .. Count : file.len[r] \in Nat
  BY RecordTypes DEF Count
<1>2. Len(row) = 0 + HeaderLen + VarLenAt(row, 0)
  BY DEF Parsed, RecordEnd
<1>3. VarLenAt(row, 0) # GarbageLen
  BY <1>1, <1>2
<1>4. VarLenAt(row, 0) = VarLen(file, row[1]) /\ VarLen(file, row[1]) # GarbageLen
  <2>1. 0 + HeaderLen = HeaderLen /\ 0 + 1 = 1
    BY <1>1
  <2> QED BY <1>3, <2>1 DEF VarLenAt
<1>5. PICK r \in 1 .. Count :
        file.start[r] = row[1] /\ VarLen(file, row[1]) = file.len[r] - HeaderLen
  BY <1>4, VarLenIs DEF Count
<1>6. Len(row) = file.len[r]
  <2>1. Len(row) = 0 + HeaderLen + (file.len[r] - HeaderLen)
    BY <1>2, <1>4, <1>5
  <2> QED BY <1>1, <2>1
<1> QED BY <1>5, <1>6

(* A row whose bytes are consecutive from a record's start on.             *)
LEMMA RowIsRecord ==
  ASSUME WellFormed(file), NEW row \in Seq(Nat), NEW r \in 1 .. Count,
         Len(row) = file.len[r],
         \A i \in 1 .. Len(row) : row[i] = file.start[r] + i - 1
  PROVE  row = RecordBytes(r)
<1> DEFINE from == file.start[r]
           to == EndOfRecord(file, r)
           bytes == Bytes(from, to)
           n == file.len[r]
<1>1. from \in Nat /\ to \in Nat /\ n \in Nat /\ to = from + n /\ from < to
  BY RecordTypes DEF Count
<1> HIDE DEF from, to, n
<1>2. bytes \in Seq(Nat) /\ Len(bytes) = n /\ \A i \in 1 .. n : bytes[i] = from + i - 1
  <2>1. from <= to /\ to - from = n
    BY <1>1
  <2>2. /\ bytes \in Seq(Nat) /\ Len(bytes) = to - from
        /\ \A i \in 1 .. to - from : bytes[i] = from + i - 1
    BY <1>1, <2>1, BytesShape
  <2> HIDE DEF bytes
  <2> QED BY <2>1, <2>2
<1>3. Len(row) = n /\ \A i \in 1 .. n : row[i] = from + i - 1
  BY DEF from, n
<1> HIDE DEF bytes
<1>4. row = bytes
  BY <1>2, <1>3, SeqEqual
<1> QED BY <1>4 DEF RecordBytes, bytes, from, to

(* No stray length fits the data of a file with a spatial index.           *)
LEMMA StreamFits ==
  ASSUME NEW f, WellFormed(f), GridTold(f), f.spatial, f.hasVar, NEW a,
         NEW to \in 0 .. NumBlocks(f)
  PROVE  Len(BlocksOf(f, a, 0, to)) < HeaderLen + GarbageLen
<1> DEFINE s == BlocksOf(f, a, 0, to)
           n == Len(s)
<1>1. s \in Seq(Nat) /\ Increasing(s) /\ \A i \in 1 .. n : \E b \in 1 .. to : InBlock(f, a, s[i], b)
  BY StreamShape
<1> HIDE DEF s
<1>2. n \in Nat /\ \A i \in 1 .. n : s[i] \in Nat
  BY <1>1, ElementOfSeq
<1>3. HeaderLen \in Nat \ {0} /\ GarbageLen \in Nat /\ NumBlocks(f) \in Nat
  BY RecordTypes, BlockTypes
<1>4. CASE n = 0
  BY <1>3, <1>4 DEF s
<1>5. CASE n # 0
  <2>1. 1 \in 1 .. n /\ n \in 1 .. n /\ 1 <= n
    BY <1>2, <1>5
  <2>2. s[1] + (n - 1) <= s[n]
    BY <1>1, <2>1, IncreasingSteps
  <2>3. PICK b \in 1 .. to : InBlock(f, a, s[n], b)
    BY <1>1, <2>1
  <2>4. b \in 1 .. NumBlocks(f)
    BY <1>3
  <2>5. s[n] < BlockEnd(f, b) /\ BlockEnd(f, b) < HeaderLen + GarbageLen
        /\ BlockEnd(f, b) \in Nat
    BY <2>3, <2>4, BlockTypes DEF InBlock, GridTold
  <2> DEFINE x == s[1]
             y == s[n]
             z == BlockEnd(f, b)
  <2>6. /\ x \in Nat /\ y \in Nat /\ z \in Nat /\ n \in Nat
        /\ x + (n - 1) <= y /\ y < z /\ z < HeaderLen + GarbageLen
    BY <1>2, <2>1, <2>2, <2>5
  <2> HIDE DEF x, y, z, n
  <2>7. n < HeaderLen + GarbageLen
    BY <1>3, <2>6
  <2> QED BY <2>7 DEF n, s
<1> QED BY <1>4, <1>5

(* Only the next record can start where one ends.                          *)
LEMMA NextStart ==
  ASSUME NEW f, WellFormed(f),
         NEW r \in 1 .. NumRecords(f), r + 1 \in 1 .. NumRecords(f),
         NEW q \in 1 .. NumRecords(f), f.start[q] = EndOfRecord(f, r)
  PROVE  f.start[r + 1] = EndOfRecord(f, r)
<1> DEFINE e == EndOfRecord(f, r)
           next == f.start[r + 1]
           nextEnd == EndOfRecord(f, r + 1)
           qEnd == EndOfRecord(f, q)
           n == NumRecords(f)
           first == f.start[r]
<1>1. n \in Nat
  BY RecordTypes
<1>2. /\ e \in Nat /\ next \in Nat /\ nextEnd \in Nat /\ qEnd \in Nat
      /\ first < e /\ next < nextEnd /\ e < qEnd /\ first \in Nat
  BY RecordTypes
<1>3. /\ e <= next
      /\ q < r => qEnd <= first
      /\ r + 1 < q => nextEnd <= e
  <2>1. r < r + 1
    BY <1>1
  <2>2. e <= next
    BY <2>1, StartsRise
  <2>3. q < r => qEnd <= first
    BY StartsRise
  <2>4. r + 1 < q => nextEnd <= f.start[q]
    BY StartsRise
  <2> QED BY <2>2, <2>3, <2>4
<1>4. q = r => first = e
  OBVIOUS
<1>5. q = r + 1 => next = e
  OBVIOUS
<1>6. q < r \/ q = r \/ q = r + 1 \/ r + 1 < q
  BY <1>1
<1> HIDE DEF e, next, nextEnd, qEnd, n, first
<1>7. next = e
  BY <1>2, <1>3, <1>4, <1>5, <1>6
<1> QED BY <1>7 DEF next, e

LEMMA UnfilteredExact ==
  ASSUME WellFormed(file), GridTold(file), NEW a, a # "filtered",
         NEW to \in 0 .. NumBlocks(file),
         NEW rs \in Seq(Seq(Nat)), NEW rest \in Seq(Nat),
         BlocksOf(file, a, 0, to) = FlattenSeq(rs) \o rest,
         \A r \in 1 .. Len(rs) : Parsed(rs[r]),
         Len(rs) <= Count
  PROVE  \A r \in 1 .. Len(rs) : rs[r] = RecordBytes(r)
<1> DEFINE st == BlocksOf(file, a, 0, to)
           n == Len(rs)
           at(r) == Before(rs, r - 1)
           Exact(r) == at(r) = file.start[r] /\ rs[r] = RecordBytes(r) /\ Len(rs[r]) = file.len[r]
           S == {k \in Nat : k + 1 <= n => Exact(k + 1)}
<1>1. /\ Count \in Nat /\ HeaderLen \in Nat \ {0}
      /\ \A r \in 1 .. Count :
           /\ file.start[r] \in Nat /\ file.len[r] \in Nat
           /\ EndOfRecord(file, r) = file.start[r] + file.len[r]
  BY RecordTypes DEF Count
<1>2. \A i \in 1 .. Len(st) : st[i] = i - 1
  BY UnfilteredStream
<1>3. /\ n \in Nat
      /\ \A r \in 1 .. n : r \in 1 .. Count /\ rs[r] \in Seq(Nat) /\ Len(rs[r]) \in Nat
                           /\ Len(rs[r]) >= HeaderLen
  <2>1. n \in Nat /\ \A r \in 1 .. n : r \in 1 .. Count
    BY <1>1
  <2>2. \A r \in 1 .. n : rs[r] \in Seq(Nat) /\ Len(rs[r]) >= HeaderLen
    BY DEF Parsed
  <2>3. \A r \in 1 .. n : Len(rs[r]) \in Nat
    BY <2>2, LenProperties
  <2> QED BY <2>1, <2>2, <2>3
<1>4. /\ Before(rs, 0) = 0 /\ Len(st) \in Nat
      /\ \A r \in 0 .. n : Before(rs, r) \in 0 .. Len(st)
      /\ \A r \in 1 .. n : /\ Before(rs, r) = at(r) + Len(rs[r])
                           /\ \A i \in 1 .. Len(rs[r]) : rs[r][i] = st[at(r) + i]
  <2>1. st \in Seq(Nat)
    BY StreamShape
  <2>2. Len(st) \in Nat
    <3> HIDE DEF st
    <3> QED BY <2>1
  <2>3. st = FlattenSeq(rs) \o rest
    OBVIOUS
  <2> HIDE DEF st
  <2>4. Placed(rs, st)
    BY <2>3, RowsPlaced
  <2> QED BY <2>2, <2>4 DEF Placed
<1> HIDE DEF st, n
(* Rows lie one after the other in the file.                               *)
<1>5. ASSUME NEW r \in 1 .. n
      PROVE  at(r) \in Nat /\ \A i \in 1 .. Len(rs[r]) : rs[r][i] = at(r) + i - 1
  <2> DEFINE p == at(r)
             l == Len(rs[r])
  <2>1. r - 1 \in 0 .. n /\ r \in 0 .. n
    BY <1>3
  <2>2. p \in 0 .. Len(st) /\ Before(rs, r) \in 0 .. Len(st) /\ Before(rs, r) = p + l /\ l \in Nat
    BY <1>3, <1>4, <2>1
  <2>3. \A i \in 1 .. l : rs[r][i] = st[p + i]
    BY <1>4
  <2> HIDE DEF p, l
  <2>4. \A i \in 1 .. l : p + i \in 1 .. Len(st) /\ (p + i) - 1 = p + i - 1
    BY <1>4, <2>2
  <2>5. \A i \in 1 .. l : rs[r][i] = p + i - 1
    BY <1>2, <2>3, <2>4
  <2> QED BY <2>2, <2>5 DEF p, l
(* One that begins where its record does is its record.                    *)
<1>6. ASSUME NEW r \in 1 .. n, at(r) = file.start[r] PROVE Exact(r)
  <2> DEFINE row == rs[r]
  <2>1. /\ row \in Seq(Nat) /\ Parsed(row) /\ r \in 1 .. Count
        /\ Len(row) \in Nat /\ Len(row) >= HeaderLen
        /\ \A i \in 1 .. Len(row) : row[i] = file.start[r] + i - 1
    BY <1>3, <1>5, <1>6 DEF n
  <2> HIDE DEF row
  <2>2. row[1] = file.start[r] /\ row[HeaderLen] = row[1] + HeaderLen - 1
    <3>1. HeaderLen \in Nat \ {0} /\ file.start[r] \in Nat
      BY <1>1, <2>1
    <3> DEFINE l == Len(row)
    <3>2. l \in Nat /\ l >= HeaderLen
      BY <2>1
    <3> HIDE DEF l
    <3>3. 1 \in 1 .. l /\ HeaderLen \in 1 .. l
      BY <3>1, <3>2
    <3>4. 1 \in 1 .. Len(row) /\ HeaderLen \in 1 .. Len(row) /\ file.start[r] \in Nat
      BY <3>1, <3>3 DEF l
    <3>5. row[1] = file.start[r] + 1 - 1 /\ row[HeaderLen] = file.start[r] + HeaderLen - 1
      BY <2>1, <3>4
    <3> QED BY <3>1, <3>5
  <2>3. Len(row) = file.len[r]
    BY <2>1, <2>2, RowAtStart
  <2>4. row = RecordBytes(r)
    BY <2>1, <2>3, RowIsRecord
  <2> QED BY <1>6, <2>3, <2>4 DEF row
<1>7. ASSUME NEW r \in 1 .. n, r + 1 <= n, Exact(r) PROVE at(r + 1) = file.start[r + 1]
  <2> DEFINE e == EndOfRecord(file, r)
             next == file.start[r + 1]
  <2>1. /\ r + 1 \in 1 .. n /\ (r + 1) - 1 = r
        /\ r \in 1 .. Count /\ r + 1 \in 1 .. Count /\ r \in 1 .. Count - 1
    <3>1. r + 1 \in 1 .. n /\ (r + 1) - 1 = r
      BY <1>3, <1>7
    <3>2. r \in 1 .. Count /\ r + 1 \in 1 .. Count
      BY <1>3, <3>1
    <3>3. Count \in Nat
      BY <1>1
    <3> QED BY <3>1, <3>2, <3>3
  <2>2. at(r + 1) = e
    <3>1. at(r + 1) = at(r) + Len(rs[r])
      BY <1>4, <2>1
    <3>2. e = file.start[r] + file.len[r]
      BY <1>1, <2>1
    <3> QED BY <1>7, <3>1, <3>2
  <2>3. e \in Nat
    BY <2>1, RecordTypes DEF Count
  <2>4. CASE ~(file.spatial /\ file.hasVar)
    <3>1. next = e
      BY <2>1, <2>4 DEF WellFormed, RecordsInOrder, Count
    <3> QED BY <2>2, <3>1
  <2>5. CASE file.spatial /\ file.hasVar
    <3> DEFINE row == rs[r + 1]
    <3>1. Parsed(row) /\ Len(row) \in Nat /\ Len(row) >= HeaderLen
      BY <1>3, <2>1 DEF n
    <3>2. row[1] = e
      <4>1. 1 \in 1 .. Len(row)
        BY <1>1, <3>1
      <4>2. row[1] = at(r + 1) + 1 - 1
        BY <1>5, <2>1, <4>1
      <4> QED BY <2>2, <2>3, <4>2
    <3>3. Len(row) < HeaderLen + GarbageLen
      <4> DEFINE x == Before(rs, r)
                 y == Before(rs, r + 1)
                 l == Len(row)
                 m == Len(st)
      <4>1. r \in 0 .. n /\ r + 1 \in 0 .. n
        BY <1>3, <2>1
      <4>2. x \in 0 .. m /\ y \in 0 .. m /\ y = x + l /\ m \in Nat
        BY <1>4, <2>1, <4>1
      <4>3. m < HeaderLen + GarbageLen
        BY <2>5, StreamFits DEF st
      <4>4. l \in Nat /\ HeaderLen \in Nat /\ GarbageLen \in Nat
        BY <3>1, RecordTypes
      <4> HIDE DEF x, y, l, m
      <4>5. l < HeaderLen + GarbageLen
        BY <4>2, <4>3, <4>4
      <4> QED BY <4>5 DEF l
    <3>4. PICK q \in 1 .. Count : row[1] = file.start[q]
      BY <2>5, <3>1, <3>3, RowOfSome
    <3>5. next = e
      BY <2>1, <3>2, <3>4, NextStart DEF Count
    <3> QED BY <2>2, <3>5
  <2> QED BY <2>4, <2>5
<1>8. 1 <= n => at(1) = file.start[1]
  <2> SUFFICES ASSUME 1 <= n PROVE at(1) = file.start[1]
    OBVIOUS
  <2>1. 1 - 1 = 0 /\ NumRecords(file) > 0
    BY <1>1, <1>3 DEF Count
  <2>2. file.start[1] = 0
    BY <2>1 DEF WellFormed, RecordsInOrder
  <2> QED BY <1>4, <2>1, <2>2
<1> HIDE DEF Exact, at
<1>9. 0 \in S
  <2>1. 1 <= n => 1 \in 1 .. n
    BY <1>3
  <2>2. 1 <= n => Exact(1)
    BY <1>6, <1>8, <2>1
  <2>3. 0 + 1 = 1
    OBVIOUS
  <2> QED BY <2>2, <2>3
<1>10. ASSUME NEW k \in Nat, k \in S PROVE k + 1 \in S
  <2>1. CASE (k + 1) + 1 <= n
    <3>1. k + 1 \in 1 .. n /\ (k + 1) + 1 \in 1 .. n /\ k + 1 <= n
      BY <1>3, <2>1
    <3>2. Exact(k + 1)
      BY <1>10, <3>1
    <3>3. Exact((k + 1) + 1)
      BY <1>6, <1>7, <2>1, <3>1, <3>2
    <3> QED BY <3>3
  <2>2. CASE ~((k + 1) + 1 <= n)
    BY <2>2
  <2> QED BY <2>1, <2>2
<1>11. \A k \in Nat : k \in S
  <2> HIDE DEF S
  <2> QED BY <1>9, <1>10, SetInduction
<1>12. ASSUME NEW r \in 1 .. n PROVE Exact(r)
  <2>1. r - 1 \in Nat /\ (r - 1) + 1 = r /\ r <= n
    BY <1>3
  <2>2. (r - 1) \in S
    BY <1>11, <2>1
  <2> QED BY <2>1, <2>2
<1> QED BY <1>12 DEF Exact, n

(* Rows cut from increasing data lie one behind the other.                 *)
LEMMA RowsIncrease ==
  ASSUME NEW rs \in Seq(Seq(Nat)), NEW st \in Seq(Nat), Placed(rs, st), Increasing(st),
         \A r \in 1 .. Len(rs) : Parsed(rs[r])
  PROVE  \A r \in 1 .. Len(rs) :
           /\ rs[r] \in Seq(Nat) /\ Increasing(rs[r])
           /\ Len(rs[r]) \in Nat /\ Len(rs[r]) >= 1 /\ Len(rs[r]) <= Len(st)
           /\ \A i \in 1 .. Len(rs[r]) :
                /\ \E j \in 1 .. Len(st) : rs[r][i] = st[j]
                /\ r + 1 <= Len(rs) => rs[r][i] < rs[r + 1][1]
<1> DEFINE n == Len(rs)
           m == Len(st)
           at(r) == Before(rs, r - 1)
<1>1. n \in Nat /\ m \in Nat
  OBVIOUS
<1>2. ASSUME NEW r \in 1 .. n
      PROVE  /\ rs[r] \in Seq(Nat) /\ Len(rs[r]) \in Nat /\ Len(rs[r]) >= 1
             /\ at(r) \in Nat /\ at(r) + Len(rs[r]) <= m
             /\ r + 1 <= n => at(r + 1) = at(r) + Len(rs[r])
             /\ \A i \in 1 .. Len(rs[r]) : rs[r][i] = st[at(r) + i]
  <2> DEFINE row == rs[r]
             l == Len(row)
             p == at(r)
             q == Before(rs, r)
  <2>1. row \in Seq(Nat)
    BY ElementOfSeq
  <2>2. l \in Nat /\ l >= 1
    <3>1. l >= HeaderLen
      BY DEF Parsed, n
    <3> HIDE DEF row
    <3>2. l \in Nat
      BY <2>1
    <3> HIDE DEF l
    <3> QED BY <3>1, <3>2, LayoutAssumption
  <2>3. r \in 0 .. n /\ r - 1 \in 0 .. n /\ (r + 1) - 1 = r
    BY <1>1
  <2>4. p \in 0 .. m /\ q \in 0 .. m /\ q = p + l
    BY <2>3 DEF Placed
  <2>5. \A i \in 1 .. l : row[i] = st[p + i]
    BY DEF Placed
  <2>6. at(r + 1) = q
    BY <2>3
  <2> HIDE DEF row, l, p, q, m, n, at
  <2>7. p \in Nat /\ p + l <= m
    BY <1>1, <2>2, <2>4
  <2> QED BY <2>1, <2>2, <2>4, <2>5, <2>6, <2>7 DEF row, l, p, q
<1>3. \A i, j \in 1 .. m : i < j => st[i] < st[j]
  <2> SUFFICES ASSUME NEW i \in 1 .. m, NEW j \in 1 .. m, i < j PROVE st[i] < st[j]
    OBVIOUS
  <2>1. st[i] \in Nat /\ st[j] \in Nat
    BY ElementOfSeq
  <2>2. i <= j
    BY <1>1
  <2>3. st[i] + (j - i) <= st[j]
    BY <2>2, IncreasingSteps
  <2> DEFINE x == st[i]
             y == st[j]
  <2>4. x \in Nat /\ y \in Nat /\ x + (j - i) <= y
    BY <2>1, <2>3
  <2> HIDE DEF x, y, m
  <2>5. x < y
    BY <1>1, <2>4
  <2> QED BY <2>5 DEF x, y
<1> HIDE DEF n, m, at
<1>4. ASSUME NEW r \in 1 .. n
      PROVE  /\ Increasing(rs[r]) /\ Len(rs[r]) <= m
             /\ \A i \in 1 .. Len(rs[r]) :
                  /\ \E j \in 1 .. m : rs[r][i] = st[j]
                  /\ r + 1 <= n => rs[r][i] < rs[r + 1][1]
  <2> DEFINE row == rs[r]
             l == Len(row)
             p == at(r)
  <2>1. /\ l \in Nat /\ p \in Nat /\ p + l <= m /\ l <= m
        /\ \A i \in 1 .. l : row[i] = st[p + i]
    <3>1. l \in Nat /\ p \in Nat /\ p + l <= m /\ \A i \in 1 .. l : row[i] = st[p + i]
      BY <1>2
    <3> HIDE DEF row, l, p
    <3>2. l \in Nat /\ p \in Nat /\ p + l <= m
      BY <3>1
    <3>3. l <= m
      BY <1>1, <3>2
    <3> QED BY <3>1, <3>3
  <2>2. r + 1 <= n => at(r + 1) = p + l
    BY <1>2
  <2>3. l = Len(row)
    OBVIOUS
  <2> HIDE DEF row, l, p
  <2>4. \A i \in 1 .. l : p + i \in 1 .. m
    BY <1>1, <2>1
  <2>5. ASSUME NEW i \in 1 .. l - 1 PROVE row[i] < row[i + 1]
    <3>1. i \in 1 .. l /\ i + 1 \in 1 .. l /\ p + i < p + (i + 1)
      BY <2>1
    <3>2. p + i \in 1 .. m /\ p + (i + 1) \in 1 .. m
      BY <2>4, <3>1
    <3> QED BY <1>3, <2>1, <3>1, <3>2
  <2>6. ASSUME NEW i \in 1 .. l, r + 1 <= n PROVE row[i] < rs[r + 1][1]
    <3>1. r + 1 \in 1 .. n
      BY <1>1, <2>6
    <3> DEFINE next == rs[r + 1]
               k == Len(next)
    <3>2. k \in Nat /\ k >= 1 /\ (p + l) + k <= m /\ \A x \in 1 .. k : next[x] = st[(p + l) + x]
      BY <1>2, <2>2, <2>6, <3>1
    <3> HIDE DEF next, k
    <3>3. 1 \in 1 .. k /\ (p + l) + 1 \in 1 .. m /\ p + i < (p + l) + 1
      BY <1>1, <2>1, <3>2
    <3>4. next[1] = st[(p + l) + 1] /\ row[i] = st[p + i] /\ p + i \in 1 .. m
      BY <2>1, <2>4, <3>2, <3>3
    <3>5. row[i] < next[1]
      BY <1>3, <3>3, <3>4
    <3> QED BY <3>5 DEF next
  <2>7. Increasing(row)
    BY <2>5, <2>3 DEF Increasing
  <2> QED BY <2>1, <2>4, <2>6, <2>7, <2>3 DEF row
<1> QED BY <1>2, <1>4 DEF n, m

LEMMA FilteredExact ==
  ASSUME WellFormed(file), GridTold(file), file.spatial, file.hasVar,
         NEW to \in 0 .. NumBlocks(file),
         NEW rs \in Seq(Seq(Nat)), NEW rest \in Seq(Nat),
         BlocksOf(file, "filtered", 0, to) = FlattenSeq(rs) \o rest,
         \A r \in 1 .. Len(rs) : Parsed(rs[r]),
         Len(rs) = Count
  PROVE  \A r \in 1 .. Len(rs) : rs[r] = RecordBytes(r)
<1> DEFINE st == BlocksOf(file, "filtered", 0, to)
           n == Len(rs)
           m == Len(st)
           Of(r, q) == rs[r][1] = file.start[q] /\ Len(rs[r]) = file.len[q]
           w == [r \in 1 .. n |-> CHOOSE q \in 1 .. n : Of(r, q)]
<1>1. /\ Count \in Nat /\ n = Count /\ HeaderLen \in Nat \ {0} /\ GarbageLen \in Nat
      /\ \A r \in 1 .. Count : file.start[r] \in Nat /\ file.len[r] \in Nat
  BY RecordTypes DEF Count
<1>2. st \in Seq(Nat) /\ Increasing(st) /\ st = FlattenSeq(rs) \o rest
      /\ m < HeaderLen + GarbageLen
      /\ \A j \in 1 .. m : \E b \in 1 .. to : InBlock(file, "filtered", st[j], b)
  BY StreamShape, StreamFits
<1> HIDE DEF st
<1>3. \A r \in 1 .. n : Parsed(rs[r]) /\ Len(rs[r]) >= 1
  <2> SUFFICES ASSUME NEW r \in 1 .. n PROVE Parsed(rs[r]) /\ Len(rs[r]) >= 1
    OBVIOUS
  <2> DEFINE row == rs[r]
             l == Len(row)
  <2>1. Parsed(row)
    OBVIOUS
  <2>2. row \in Seq(Nat) /\ l >= HeaderLen
    BY <2>1 DEF Parsed
  <2> HIDE DEF row
  <2>3. l \in Nat
    BY <2>2
  <2> HIDE DEF l
  <2>4. l >= 1
    BY <1>1, <2>2, <2>3
  <2> QED BY <2>1, <2>4 DEF l, row
<1>4. ASSUME NEW r \in 1 .. n
      PROVE  /\ rs[r] \in Seq(Nat) /\ Increasing(rs[r])
             /\ Len(rs[r]) \in Nat /\ Len(rs[r]) <= m
             /\ \A i \in 1 .. Len(rs[r]) :
                  /\ \E j \in 1 .. m : rs[r][i] = st[j]
                  /\ r + 1 <= n => rs[r][i] < rs[r + 1][1]
  <2>1. Placed(rs, st)
    BY <1>2, RowsPlaced
  <2> QED BY <1>2, <1>3, <2>1, RowsIncrease
<1> HIDE DEF n, m
(* Each row begins where some record does.                                 *)
<1>5. ASSUME NEW r \in 1 .. n PROVE w[r] \in 1 .. n /\ Of(r, w[r])
  <2> DEFINE row == rs[r]
             l == Len(row)
  <2>1. Parsed(row) /\ l \in Nat /\ l <= m
    BY <1>3, <1>4
  <2>2. l < HeaderLen + GarbageLen
    <3>1. m \in Nat
      BY <1>2, LenProperties DEF m
    <3> HIDE DEF l
    <3> QED BY <1>1, <1>2, <2>1, <3>1
  <2>3. \E q \in 1 .. Count : row[1] = file.start[q] /\ Len(row) = file.len[q]
    BY <2>1, <2>2, RowOfSome
  <2>4. \E q \in 1 .. n : Of(r, q)
    BY <1>1, <2>3
  <2> HIDE DEF Of
  <2> QED BY <2>4
<1> HIDE DEF w
<1>6. w \in Seq(Nat) /\ Len(w) = n
  <2>1. n \in Nat
    BY <1>1
  <2>2. \A r \in 1 .. n : w[r] \in Nat
    <3> SUFFICES ASSUME NEW r \in 1 .. n PROVE w[r] \in Nat
      OBVIOUS
    <3>1. w[r] \in 1 .. n
      BY <1>5
    <3> QED BY <3>1
  <2>3. w = [r \in 1 .. n |-> w[r]]
    <3> HIDE DEF Of
    <3> DEFINE some(r) == CHOOSE q \in 1 .. n : Of(r, q)
    <3>1. w = [r \in 1 .. n |-> some(r)]
      BY DEF w
    <3> HIDE DEF some, w
    <3> QED BY <3>1
  <2> QED BY <2>1, <2>2, <2>3, IsSequence
<1>7. Increasing(w)
  <2> SUFFICES ASSUME NEW r \in 1 .. n - 1 PROVE w[r] < w[r + 1]
    BY <1>6 DEF Increasing
  <2> DEFINE a == w[r]
             b == w[r + 1]
             sa == file.start[a]
             sb == file.start[b]
             ea == EndOfRecord(file, b)
  <2>1. r \in 1 .. n /\ r + 1 \in 1 .. n /\ r + 1 <= n
    BY <1>1
  <2>2. a \in 1 .. n /\ b \in 1 .. n /\ rs[r][1] = sa /\ rs[r + 1][1] = sb
    BY <1>5, <2>1
  <2>3. sa < sb
    <3>1. Len(rs[r]) \in Nat /\ Len(rs[r]) >= 1
      BY <1>3, <1>4, <2>1
    <3>2. 1 \in 1 .. Len(rs[r])
      BY <3>1
    <3>3. rs[r][1] < rs[r + 1][1]
      BY <1>4, <2>1, <3>2
    <3> QED BY <2>2, <3>3
  <2> HIDE DEF a, b
  <2>4. a \in 1 .. NumRecords(file) /\ b \in 1 .. NumRecords(file)
    BY <1>1, <2>2 DEF Count
  <2>5. sa \in Nat /\ sb \in Nat /\ ea \in Nat /\ sb < ea
    BY <2>4, RecordTypes
  <2>6. b < a => ea <= sa
    BY <2>4, StartsRise
  <2>7. a = b => sa = sb
    OBVIOUS
  <2> HIDE DEF sa, sb, ea
  <2>8. a < b
    BY <1>1, <2>2, <2>3, <2>5, <2>6, <2>7
  <2> QED BY <2>8 DEF a, b
(* As many rows as records: each is the row of its own record.             *)
<1>8. ASSUME NEW r \in 1 .. n PROVE Of(r, r)
  <2>1. n \in Nat
    BY <1>1
  <2>2. \A i \in 1 .. Len(w) : 1 <= w[i] /\ w[i] < 1 + Len(w)
    <3> SUFFICES ASSUME NEW i \in 1 .. n PROVE 1 <= w[i] /\ w[i] < 1 + n
      BY <1>6
    <3>1. w[i] \in 1 .. n
      BY <1>5
    <3> DEFINE x == w[i]
    <3>2. x \in 1 .. n
      BY <3>1
    <3> HIDE DEF x
    <3>3. 1 <= x /\ x < 1 + n
      BY <2>1, <3>2
    <3> QED BY <3>3 DEF x
  <2>3. r \in 1 .. Len(w) /\ 1 \in Nat
    BY <1>6
  <2>4. w[r] = 1 + r - 1
    BY <1>6, <1>7, <2>2, <2>3, NoRoomToSkip
  <2>5. 1 + r - 1 = r
    BY <1>1
  <2> HIDE DEF Of
  <2> QED BY <1>5, <2>4, <2>5
<1>9. ASSUME NEW r \in 1 .. n PROVE rs[r] = RecordBytes(r)
  <2> DEFINE row == rs[r]
             l == Len(row)
             from == file.start[r]
             e == EndOfRecord(file, r)
  <2>1. /\ row \in Seq(Nat) /\ Increasing(row) /\ l = Len(row) /\ l = file.len[r]
        /\ l \in Nat /\ l >= 1 /\ row[1] = from
    BY <1>3, <1>4, <1>8
  <2>2. /\ r \in 1 .. Count /\ r \in 1 .. NumRecords(file)
        /\ from \in Nat /\ e \in Nat /\ e = from + l
    BY <1>1, <2>1, RecordTypes DEF Count
  <2>3. \A i \in 1 .. l :
          /\ \E j \in 1 .. m : row[i] = st[j]
          /\ r + 1 <= n => row[i] < rs[r + 1][1]
    BY <1>4
  <2> HIDE DEF row, l, from, e
  <2>4. ASSUME NEW i \in 1 .. l PROVE from <= row[i] /\ row[i] < from + l
    <3> DEFINE v == row[i]
    <3>1. i \in 1 .. Len(row) /\ 1 \in 1 .. Len(row) /\ 1 <= i
      BY <2>1
    <3>2. row[1] + (i - 1) <= v
      BY <2>1, <3>1, IncreasingSteps
    <3>3. v \in Nat
      BY <2>1, <3>1, ElementOfSeq
    <3>4. PICK j \in 1 .. m : v = st[j]
      BY <2>3
    <3>5. PICK b \in 1 .. to : InBlock(file, "filtered", v, b)
      BY <1>2, <3>4
    <3>6. b \in 1 .. NumBlocks(file)
      BY BlockTypes
    <3> HIDE DEF v
    <3>7. from <= v
      BY <2>1, <2>2, <3>2, <3>3
    <3>8. ~(e <= v)
      <4> SUFFICES ASSUME e <= v PROVE FALSE
        OBVIOUS
      <4>1. r + 1 <= NumRecords(file) /\ file.start[r + 1] <= v
        BY <2>2, <3>3, <3>5, <3>6, FilteredInRecords DEF e
      <4>2. r + 1 \in 1 .. n /\ r + 1 <= n
        BY <1>1, <4>1 DEF Count
      <4>3. rs[r + 1][1] = file.start[r + 1] /\ file.start[r + 1] \in Nat
        BY <1>1, <1>8, <4>2
      <4>4. v < file.start[r + 1]
        BY <2>3, <4>2, <4>3 DEF v
      <4> QED BY <3>3, <4>1, <4>3, <4>4, SMTT(60)
    <3>9. v < from + l
      BY <2>2, <3>3, <3>8
    <3> QED BY <3>7, <3>9 DEF v
  <2>5. \A i \in 1 .. Len(row) : row[i] = from + i - 1
    BY <2>1, <2>2, <2>4, NoRoomToSkip
  <2>6. row = RecordBytes(r)
    BY <2>1, <2>2, <2>5, RowIsRecord DEF from
  <2> QED BY <2>6 DEF row
<1> QED BY <1>9 DEF n

-----------------------------------------------------------------------------
(* The invariant behind the rows.                                          *)

RowsParsed == \A r \in 1 .. Len(rows) : Parsed(rows[r])

(* The rows are the beginning of the data of the first blocks.             *)
RowsFromStart ==
  \E to \in 0 .. NumListed : \E rest \in Seq(Nat) :
    BlocksOf(file, attempt, 0, to) = FlattenSeq(rows) \o rest

KnownAttempts ==
  \/ attempts \in {<<"raw">>, <<"plain">>}
  \/ /\ file.spatial /\ file.hasVar
     /\ attempts \in {<<"all", "filtered", "whole">>, <<"filtered", "whole">>, <<"whole">>}

(* What is known of the reads tried and of the count of an accepted one.   *)
Verdicts ==
  /\ pc # "done" => result = "none"
  /\ result # "error" => KnownAttempts
  /\ result = "ok" => Len(rows) <= Count /\ (Len(rows) = Count \/ ~Chunked)

RInv == IInv /\ RowsParsed /\ RowsFromStart /\ Verdicts

LEMMA InitRInv == Init => RInv
<1> SUFFICES ASSUME Init PROVE RInv
  OBVIOUS
<1>1. IInv
  BY InitIInv
<1>2. rows = <<>> /\ Len(rows) = 0 /\ WellFormed(file)
      /\ NumListed \in Nat /\ NumBlocks(file) \in Nat /\ Count \in Nat
  BY <1>1, TypedFacts DEF Init, IInv
<1>3. RowsParsed
  BY <1>2 DEF RowsParsed
<1>4. RowsFromStart
  <2>1. BlocksOf(file, attempt, 0, 0) = <<>>
    BY <1>2, BlocksStep
  <2>2. FlattenSeq(rows) \o <<>> = <<>>
    BY <1>2, FlattenEmpty
  <2>3. 0 \in 0 .. NumListed /\ <<>> \in Seq(Nat)
    BY <1>2
  <2> QED BY <2>1, <2>2, <2>3 DEF RowsFromStart
<1>5. Verdicts
  <2>1. KnownAttempts
    BY DEF Init, AttemptsFor, KnownAttempts
  <2>2. CASE Count = 0
    BY <1>2, <2>1, <2>2 DEF Init, Verdicts
  <2>3. CASE Count # 0
    BY <2>1, <2>3 DEF Init, Verdicts
  <2> QED BY <2>2, <2>3
<1> QED BY <1>1, <1>3, <1>4, <1>5 DEF RInv

LEMMA FailureKeepsRows ==
  ASSUME RInv, pc # "done", AttemptFails
  PROVE  (RowsParsed /\ RowsFromStart /\ Verdicts)'
<1>1. /\ file' = file /\ rows' = <<>> /\ Len(rows') = 0 /\ attempts' = Tail(attempts)
  BY DEF AttemptFails, fixed
<1>2. /\ WellFormed(file') /\ NumBlocks(file') \in Nat /\ NumListed' = NumListed
      /\ NumListed \in Nat
  BY <1>1, TypedFacts, NumListedIs DEF RInv, IInv
<1>3. RowsParsed'
  BY <1>1 DEF RowsParsed
<1>4. RowsFromStart'
  <2>1. BlocksOf(file', attempt', 0, 0) = <<>>
    BY <1>2, BlocksStep
  <2>2. FlattenSeq(rows') \o <<>> = <<>>
    BY <1>1, FlattenEmpty
  <2>3. 0 \in 0 .. NumListed' /\ <<>> \in Seq(Nat)
    BY <1>2
  <2> QED BY <2>1, <2>2, <2>3 DEF RowsFromStart
<1>5. Verdicts'
  <2>1. result = "none" /\ KnownAttempts
    BY DEF RInv, Verdicts
  <2>2. CASE Len(attempts) = 1
    BY <2>2 DEF AttemptFails, Verdicts
  <2>3. CASE Len(attempts) # 1
    <3>1. pc' = "walk" /\ result' = "none"
      BY <2>1, <2>3 DEF AttemptFails
    <3>2. KnownAttempts'
      <4>1. attempts \notin {<<"raw">>, <<"plain">>, <<"whole">>}
        BY <2>3
      <4>2. /\ file.spatial /\ file.hasVar
            /\ attempts \in {<<"all", "filtered", "whole">>, <<"filtered", "whole">>}
        BY <2>1, <4>1 DEF KnownAttempts
      <4>3. Tail(<<"all", "filtered", "whole">>) = <<"filtered", "whole">>
        OBVIOUS
      <4>4. Tail(<<"filtered", "whole">>) = <<"whole">>
        OBVIOUS
      <4>5. attempts' \in {<<"filtered", "whole">>, <<"whole">>}
        BY <1>1, <4>2, <4>3, <4>4, Zenon
      <4> QED BY <1>1, <4>2, <4>5 DEF KnownAttempts
    <3> QED BY <3>1, <3>2 DEF Verdicts
  <2> QED BY <2>2, <2>3
<1> QED BY <1>3, <1>4, <1>5

(* A turn of the loop: the data it has is what follows the rows there are. *)
LEMMA ChunkTurn ==
  ASSUME IInv, Chunk
  PROVE  /\ pc = "walk" /\ Chunked /\ Len(rows) < Count
         /\ \E to \in blockIdx .. NumListed : \E data \in Seq(Nat) :
              \E n \in 0 .. Len(Bounds(data)) - 1 :
                /\ BlocksOf(file, attempt, 0, to) = FlattenSeq(rows) \o data
                /\ n = NumComplete(Bounds(data))
                /\ to = NumListed <=> IsLastBatch
                /\ \/ /\ AttemptFails
                      /\ \/ \E b \in blockIdx + 1 .. to : ~Decompresses(b)
                         \/ ChunkError(data, Bounds(data), n)
                   \/ /\ rows' = rows \o Records(data, Bounds(data), n)
                      /\ pc' = IF LeavesLoop(n) THEN "check" ELSE "walk"
                      /\ UNCHANGED <<fixed, attempts, result>>
<1> DEFINE to == BatchEnd
           blocks == BlockData(blockIdx, to)
           data == carry \o blocks
           ends == Bounds(data)
           n == NumComplete(ends)
           Fails == /\ AttemptFails
                    /\ \/ \E b \in blockIdx + 1 .. to : ~Decompresses(b)
                       \/ ChunkError(data, ends, n)
           Pushes == /\ rows' = rows \o Records(data, ends, n)
                     /\ pc' = IF LeavesLoop(n) THEN "check" ELSE "walk"
                     /\ UNCHANGED <<fixed, attempts, result>>
<1>1. Typed /\ NothingLost
  BY DEF IInv
<1>2. pc = "walk" /\ Chunked /\ Len(rows) < Count /\ (Fails \/ Pushes)
  BY DEF Chunk, InLoop
<1>3. /\ WellFormed(file) /\ NumBlocks(file) \in Nat /\ Count \in Nat
      /\ NumListed \in Nat /\ NumListed <= NumBlocks(file)
      /\ blockIdx \in Nat /\ blockIdx <= NumListed
      /\ carry \in Seq(Nat) /\ rows \in Seq(Seq(Nat)) /\ Len(rows) \in Nat
  BY <1>1, TypedFacts DEF Typed
<1>4. to \in blockIdx .. NumListed
  BY <1>1, BatchEndIs
<1>5. /\ to \in Nat /\ to <= NumBlocks(file) /\ blockIdx <= to
      /\ to \in blockIdx .. NumBlocks(file)
  BY <1>3, <1>4
<1>6. blocks = BlocksOf(file, attempt, blockIdx, to)
  BY BlockDataIs
<1>11. to = NumListed <=> IsLastBatch
  BY DEF IsLastBatch
<1> HIDE DEF to, blocks
<1>7. blocks \in Seq(Nat)
  BY <1>3, <1>5, <1>6, BlocksStep
<1>8. data \in Seq(Nat)
  BY <1>3, <1>7, ConcatProperties
<1>9. BlocksOf(file, attempt, 0, to) = FlattenSeq(rows) \o data
  <2> DEFINE x == FlattenSeq(rows)
             before == BlocksOf(file, attempt, 0, blockIdx)
  <2>1. x \in Seq(Nat)
    <3>1. <<>> \in Seq(Nat)
      OBVIOUS
    <3> QED BY <1>3, <3>1, BytesAppend
  <2>2. x \o carry = before
    BY <1>1, <1>2, BlockDataIs DEF NothingLost
  <2>3. BlocksOf(file, attempt, 0, to) = before \o blocks
    BY <1>3, <1>5, <1>6, BlocksJoin
  <2> HIDE DEF x, before
  <2>4. x \o (carry \o blocks) = (x \o carry) \o blocks
    BY <1>3, <1>7, <2>1, BytesConcat, Zenon
  <2>5. BlocksOf(file, attempt, 0, to) = x \o data
    BY <2>2, <2>3, <2>4
  <2> QED BY <2>5 DEF x
<1> HIDE DEF data
<1>10. n \in 0 .. Len(ends) - 1
  <2>1. Rising(ends, Len(data))
    BY <1>8, BoundsRise
  <2> HIDE DEF ends
  <2> DEFINE k == Len(ends)
             m == Len(rows)
  <2>2. k \in Nat \ {0} /\ m \in Nat /\ m < Count
    BY <1>2, <1>3, <2>1 DEF Rising
  <2>3. n = IF StopsAtCount /\ Count - m < k - 1 THEN Count - m ELSE k - 1
    BY DEF NumComplete
  <2> HIDE DEF k, m, n
  <2>4. n \in 0 .. k - 1
    <3>1. CASE StopsAtCount /\ Count - m < k - 1
      BY <1>3, <2>2, <2>3, <3>1
    <3>2. CASE ~(StopsAtCount /\ Count - m < k - 1)
      BY <2>2, <2>3, <3>2
    <3> QED BY <3>1, <3>2
  <2> QED BY <2>4 DEF k
<1>12. n = NumComplete(ends)
  OBVIOUS
<1> HIDE DEF n
<1> QED BY <1>2, <1>4, <1>8, <1>9, <1>10, <1>11, <1>12

(* A turn that does not fail pushes the first records of its data.         *)
LEMMA TurnPushes ==
  ASSUME IInv, Chunk, ~AttemptFails
  PROVE  \E to \in 0 .. NumListed : \E data \in Seq(Nat) :
           \E n \in 0 .. Len(Bounds(data)) - 1 :
             /\ BlocksOf(file, attempt, 0, to) = FlattenSeq(rows) \o data
             /\ rows' = rows \o Records(data, Bounds(data), n)
             /\ pc' \in {"walk", "check"}
             /\ UNCHANGED <<fixed, attempts, result>>
<1> DEFINE Pushes(to, data, n) ==
             /\ BlocksOf(file, attempt, 0, to) = FlattenSeq(rows) \o data
             /\ rows' = rows \o Records(data, Bounds(data), n)
             /\ pc' = IF LeavesLoop(n) THEN "check" ELSE "walk"
             /\ UNCHANGED <<fixed, attempts, result>>
<1>1. PICK to \in blockIdx .. NumListed, data \in Seq(Nat) :
        \E n \in 0 .. Len(Bounds(data)) - 1 : Pushes(to, data, n)
  BY ChunkTurn
<1>2. PICK n \in 0 .. Len(Bounds(data)) - 1 : Pushes(to, data, n)
  BY <1>1
<1>3. to \in 0 .. NumListed
  <2>1. blockIdx \in Nat /\ NumListed \in Nat
    BY TypedFacts DEF IInv, Typed
  <2> QED BY <2>1
<1>4. pc' \in {"walk", "check"}
  BY <1>2
<1> HIDE DEF Pushes
<1> QED BY <1>2, <1>3, <1>4 DEF Pushes

(* Rows cut from data that lies behind the rows there are.                 *)
LEMMA PushedRows ==
  ASSUME WellFormed(file), RowsParsed, rows \in Seq(Seq(Nat)),
         NEW data \in Seq(Nat), NEW n \in 0 .. Len(Bounds(data)) - 1,
         NEW rs, rs = rows \o Records(data, Bounds(data), n)
  PROVE  /\ \A r \in 1 .. Len(rs) : Parsed(rs[r])
         /\ \E rest \in Seq(Nat) :
              FlattenSeq(rows) \o data = FlattenSeq(rs) \o rest
<1> DEFINE ends == Bounds(data)
           new == Records(data, ends, n)
<1>1. new \in Seq(Seq(Nat)) /\ Len(new) = n /\ \A r \in 1 .. n : Parsed(new[r])
  BY RecordsParsed
<1>2. Rising(ends, Len(data))
  BY BoundsRise
<1>3. FlattenSeq(rs) = FlattenSeq(rows) \o SubSeq(data, 1, ends[n + 1])
  BY <1>2, RecordsFlat
<1> HIDE DEF new
<1>4. rs = rows \o new
  BY DEF new
<1> DEFINE l == Len(rows)
<1>5. /\ Len(rs) = l + n /\ l \in Nat /\ n \in Nat
      /\ \A r \in 1 .. l : rs[r] = rows[r]
      /\ \A r \in 1 .. l + n : r > l => rs[r] = new[r - l]
  <2>1. /\ Len(rs) = Len(rows) + Len(new)
        /\ \A r \in 1 .. Len(rows) + Len(new) :
             rs[r] = IF r <= Len(rows) THEN rows[r] ELSE new[r - Len(rows)]
    BY <1>1, <1>4, ConcatProperties, ZenonT(60)
  <2>2. l \in Nat /\ n \in Nat
    BY <1>1, LenProperties
  <2> HIDE DEF l
  <2>3. \A r \in 1 .. l + n : rs[r] = IF r <= l THEN rows[r] ELSE new[r - l]
    BY <1>1, <2>1 DEF l
  <2>4. \A r \in 1 .. l : r \in 1 .. l + n /\ r <= l
    BY <2>2
  <2>5. \A r \in 1 .. l + n : r > l => ~(r <= l)
    BY <2>2
  <2>6. \A r \in 1 .. l : rs[r] = rows[r]
    BY <2>3, <2>4
  <2>7. \A r \in 1 .. l + n : r > l => rs[r] = new[r - l]
    BY <2>3, <2>5
  <2> QED BY <1>1, <2>1, <2>2, <2>6, <2>7 DEF l
<1>6. \A r \in 1 .. l : Parsed(rows[r])
  BY DEF RowsParsed
<1> HIDE DEF l, ends
<1>7. ASSUME NEW r \in 1 .. l + n PROVE Parsed(rs[r])
  <2>1. CASE r <= l
    <3>1. r \in 1 .. l
      BY <1>5, <2>1
    <3> QED BY <1>5, <1>6, <3>1
  <2>2. CASE r > l
    <3>1. r - l \in 1 .. n
      BY <1>5, <2>2
    <3> QED BY <1>1, <1>5, <2>2, <3>1
  <2> QED BY <1>5, <2>1, <2>2
<1>8. ends[n + 1] \in 0 .. Len(data)
  <2> DEFINE k == Len(ends)
  <2>1. k \in Nat \ {0} /\ \A r \in 1 .. k : ends[r] \in 0 .. Len(data)
    BY <1>2 DEF Rising
  <2>2. n \in 0 .. k - 1
    BY DEF ends
  <2> HIDE DEF k
  <2>3. n + 1 \in 1 .. k
    BY <2>1, <2>2
  <2> QED BY <2>1, <2>3
<1> DEFINE e == ends[n + 1]
           x == FlattenSeq(rows)
           head == SubSeq(data, 1, e)
           tail == SubSeq(data, e + 1, Len(data))
<1>9. head \in Seq(Nat) /\ tail \in Seq(Nat) /\ head \o tail = data
  BY <1>8, SplitAt
<1>10. x \in Seq(Nat)
  <2>1. <<>> \in Seq(Nat)
    OBVIOUS
  <2> QED BY <2>1, BytesAppend
<1>11. FlattenSeq(rs) = x \o head
  BY <1>3
<1> HIDE DEF x, head, tail, e
<1>12. (x \o head) \o tail = x \o (head \o tail)
  BY <1>9, <1>10, BytesConcat, Zenon
<1>13. x \o data = FlattenSeq(rs) \o tail
  BY <1>9, <1>11, <1>12
<1> QED BY <1>5, <1>7, <1>9, <1>13 DEF x

(* Parsing depends on the file alone.                                      *)
LEMMA StillParsed ==
  ASSUME file' = file, NEW rs, rs = rows', \A r \in 1 .. Len(rs) : Parsed(rs[r])
  PROVE  RowsParsed'
BY DEF RowsParsed, Parsed, RecordEnd, VarLenAt

LEMMA NextRInv == RInv /\ [Next]_vars => RInv'
<1> SUFFICES ASSUME RInv, [Next]_vars PROVE RInv'
  OBVIOUS
<1>1. /\ IInv /\ Typed /\ RowsParsed /\ RowsFromStart /\ Verdicts
      /\ WellFormed(file) /\ NumBlocks(file) \in Nat /\ Count \in Nat
      /\ NumListed \in Nat /\ NumListed <= NumBlocks(file)
      /\ rows \in Seq(Seq(Nat))
  BY TypedFacts DEF RInv, IInv, Typed
<1>2. IInv'
  BY <1>1, NextIInv
<1>3. CASE pc # "done" /\ AttemptFails
  BY <1>2, <1>3, FailureKeepsRows DEF RInv
(* Nothing is read.                                                        *)
<1>4. ASSUME UNCHANGED <<file, attempts, rows>>
      PROVE  RowsParsed' /\ RowsFromStart'
  <2>1. RowsParsed'
    BY <1>1, <1>4 DEF RowsParsed, Parsed, RecordEnd, VarLenAt
  <2>2. attempt' = attempt /\ NumListed' = NumListed
    BY <1>4, NumListedIs DEF attempt
  <2> QED BY <1>1, <1>4, <2>1, <2>2 DEF RowsFromStart
<1>5. CASE UNCHANGED vars
  <2>1. UNCHANGED <<file, attempts, rows>>
    BY <1>5 DEF vars
  <2>2. Verdicts'
    BY <1>1, <1>5 DEF vars, Verdicts, KnownAttempts, Count, Chunked, attempt
  <2> QED BY <1>2, <1>4, <2>1, <2>2 DEF RInv
<1>6. CASE Chunk
  <2>1. pc = "walk" /\ result = "none" /\ KnownAttempts
    BY <1>1, <1>6 DEF Chunk, InLoop, Verdicts
  <2>2. CASE AttemptFails
    BY <1>3, <2>1, <2>2
  <2>3. CASE ~AttemptFails
    <3>1. PICK to \in 0 .. NumListed, data \in Seq(Nat) :
            \E n \in 0 .. Len(Bounds(data)) - 1 :
              /\ BlocksOf(file, attempt, 0, to) = FlattenSeq(rows) \o data
              /\ rows' = rows \o Records(data, Bounds(data), n)
              /\ pc' \in {"walk", "check"}
              /\ UNCHANGED <<fixed, attempts, result>>
      BY <1>1, <1>6, <2>3, TurnPushes
    <3>2. PICK n \in 0 .. Len(Bounds(data)) - 1 :
              /\ BlocksOf(file, attempt, 0, to) = FlattenSeq(rows) \o data
              /\ rows' = rows \o Records(data, Bounds(data), n)
              /\ pc' \in {"walk", "check"}
              /\ UNCHANGED <<fixed, attempts, result>>
      BY <3>1
    <3>3. /\ \A r \in 1 .. Len(rows') : Parsed(rows'[r])
          /\ \E rest \in Seq(Nat) : FlattenSeq(rows) \o data = FlattenSeq(rows') \o rest
      BY <1>1, <3>2, PushedRows
    <3>4. file' = file /\ attempts' = attempts /\ attempt' = attempt
          /\ NumListed' = NumListed /\ result' = "none" /\ pc' # "done"
      BY <2>1, <3>2, NumListedIs DEF fixed, attempt
    <3>5. RowsParsed'
      BY <3>3, <3>4, StillParsed
    <3>6. RowsFromStart'
      <4>1. PICK rest \in Seq(Nat) : FlattenSeq(rows) \o data = FlattenSeq(rows') \o rest
        BY <3>3
      <4>2. BlocksOf(file', attempt', 0, to) = FlattenSeq(rows') \o rest
        BY <3>2, <3>4, <4>1
      <4>3. to \in 0 .. NumListed'
        BY <3>4
      <4> QED BY <4>2, <4>3 DEF RowsFromStart
    <3>7. Verdicts'
      BY <2>1, <3>4 DEF Verdicts, KnownAttempts
    <3> QED BY <1>2, <3>5, <3>6, <3>7 DEF RInv
  <2> QED BY <2>2, <2>3
<1>7. CASE CheckCount
  <2>1. pc # "done"
    BY <1>7 DEF CheckCount
  <2>2. CASE AttemptFails
    BY <1>3, <2>1, <2>2
  <2>3. CASE ~AttemptFails
    <3>1. /\ Len(rows) = Count /\ pc' = "done" /\ result' = "ok"
          /\ UNCHANGED <<fixed, attempts, rows>>
      BY <1>7, <2>3 DEF CheckCount
    <3>2. UNCHANGED <<file, attempts, rows>>
      BY <3>1 DEF fixed
    <3>3. KnownAttempts /\ Len(rows') <= Count' /\ Len(rows') = Count'
      BY <1>1, <2>1, <3>1, <3>2 DEF Verdicts, Count
    <3>4. Verdicts'
      BY <3>1, <3>2, <3>3 DEF Verdicts, KnownAttempts
    <3> QED BY <1>2, <1>4, <3>2, <3>4 DEF RInv
  <2> QED BY <2>2, <2>3
<1>8. CASE ReadWhole
  <2>1. pc # "done" /\ ~Chunked /\ KnownAttempts
    BY <1>1, <1>8 DEF ReadWhole, Verdicts
  <2>2. CASE AttemptFails
    BY <1>3, <2>1, <2>2
  <2>3. CASE ~AttemptFails
    <3> DEFINE data == BlockData(0, NumListed)
               ends == Bounds(data)
               found == Len(ends) - 1
               m == IF found < Count THEN found ELSE Count
    <3>1. /\ rows' = Records(data, ends, m) /\ pc' = "done" /\ result' = "ok"
          /\ UNCHANGED <<fixed, attempts>>
      BY <1>8, <2>3 DEF ReadWhole
    <3>2. file' = file /\ attempts' = attempts /\ attempt' = attempt /\ NumListed' = NumListed
          /\ Count' = Count
      BY <3>1, NumListedIs DEF fixed, attempt, Count
    <3>3. data = BlocksOf(file, attempt, 0, NumListed)
      BY BlockDataIs
    <3> HIDE DEF data
    <3>4. data \in Seq(Nat)
      <4>1. 0 \in Nat /\ 0 <= NumListed
        BY <1>1
      <4> QED BY <1>1, <3>3, <4>1, BlocksStep
    <3>5. m \in 0 .. Len(ends) - 1 /\ m <= Count
      <4>1. Rising(ends, Len(data))
        BY <3>4, BoundsRise
      <4> HIDE DEF ends
      <4> DEFINE k == Len(ends)
      <4>2. k \in Nat \ {0}
        BY <4>1 DEF Rising
      <4> HIDE DEF k
      <4>3. found = k - 1
        BY DEF k
      <4> HIDE DEF found
      <4>4. m \in 0 .. k - 1 /\ m <= Count
        BY <1>1, <4>2, <4>3
      <4> QED BY <4>4 DEF k
    <3> HIDE DEF m
    <3>6. Records(data, ends, m) \in Seq(Seq(Nat)) /\ Len(Records(data, ends, m)) = m
          /\ \A r \in 1 .. m : Parsed(Records(data, ends, m)[r])
      BY <1>1, <3>4, <3>5, RecordsParsed
    <3>7. RowsParsed'
      <4>1. \A r \in 1 .. Len(rows') : Parsed(rows'[r])
        BY <3>1, <3>6
      <4> QED BY <3>2, <4>1, StillParsed
    <3>8. RowsFromStart'
      <4> DEFINE new == Records(data, ends, m)
                 e == ends[m + 1]
                 head == SubSeq(data, 1, e)
                 tail == SubSeq(data, e + 1, Len(data))
                 none == <<>>
      <4>1. Rising(ends, Len(data))
        BY <3>4, BoundsRise
      <4>2. none \in Seq(Seq(Nat)) /\ FlattenSeq(none) = <<>>
        BY FlattenEmpty
      <4>3. FlattenSeq(none \o new) = FlattenSeq(none) \o head
        <5> HIDE DEF none
        <5> QED BY <3>4, <3>5, <4>1, <4>2, RecordsFlat
      <4>4. e \in 0 .. Len(data)
        <5> DEFINE k == Len(ends)
        <5>1. k \in Nat \ {0} /\ \A r \in 1 .. k : ends[r] \in 0 .. Len(data)
          BY <4>1 DEF Rising
        <5>2. m \in 0 .. k - 1
          BY <3>5
        <5> HIDE DEF k
        <5>3. m + 1 \in 1 .. k
          BY <5>1, <5>2
        <5> QED BY <5>1, <5>3
      <4>5. head \in Seq(Nat) /\ tail \in Seq(Nat) /\ head \o tail = data
        BY <3>4, <4>4, SplitAt
      <4>6. none \o new = new /\ FlattenSeq(none) \o head = head
        <5> HIDE DEF head, new
        <5>1. none \o new = new
          BY <3>6, ConcatEmptySeq DEF new
        <5>2. <<>> \o head = head
          BY <4>5, ConcatEmptySeq
        <5> QED BY <4>2, <5>1, <5>2
      <4>7. rows' = new
        BY <3>1
      <4> HIDE DEF new, head, tail, none
      <4>8. BlocksOf(file', attempt', 0, NumListed) = FlattenSeq(rows') \o tail
        BY <3>2, <3>3, <4>3, <4>5, <4>6, <4>7
      <4>9. NumListed \in 0 .. NumListed'
        BY <1>1, <3>2
      <4> QED BY <4>5, <4>8, <4>9 DEF RowsFromStart
    <3>9. Verdicts'
      <4>1. Len(rows') <= Count'
        BY <3>1, <3>2, <3>5, <3>6
      <4>2. ~Chunked' /\ KnownAttempts'
        BY <2>1, <3>2 DEF Chunked, KnownAttempts
      <4> QED BY <3>1, <4>1, <4>2 DEF Verdicts
    <3> QED BY <1>2, <3>7, <3>8, <3>9 DEF RInv
  <2> QED BY <2>2, <2>3
<1> QED BY <1>5, <1>6, <1>7, <1>8 DEF Next

(* A frame that is returned holds the file's records, each whole and in    *)
(* its place, whichever read it comes from - all of them unless the file   *)
(* was materialised whole.  Of files with a spatial index this supposes    *)
(* that grid blocks can be told from records.                              *)
THEOREM RowsAreExactTheorem ==
  ASSUME \A f \in Files : GridTold(f)
  PROVE  Spec => []RowsAreExact
<1>1. RInv => RowsAreExact
  <2> SUFFICES ASSUME RInv, result = "ok"
               PROVE  /\ Len(rows) <= Count
                      /\ \A r \in 1 .. Len(rows) : rows[r] = RecordBytes(r)
                      /\ Len(rows) = Count \/ ~Chunked
    BY DEF RowsAreExact
  <2>1. /\ WellFormed(file) /\ GridTold(file) /\ rows \in Seq(Seq(Nat))
        /\ NumListed \in Nat /\ NumListed <= NumBlocks(file) /\ NumBlocks(file) \in Nat
        /\ KnownAttempts
        /\ Len(rows) <= Count /\ (Len(rows) = Count \/ ~Chunked)
        /\ \A r \in 1 .. Len(rows) : Parsed(rows[r])
    BY TypedFacts DEF RInv, IInv, Typed, Verdicts, RowsParsed
  <2>2. PICK to \in 0 .. NumListed, rest \in Seq(Nat) :
          BlocksOf(file, attempt, 0, to) = FlattenSeq(rows) \o rest
    BY DEF RInv, RowsFromStart
  <2>3. to \in 0 .. NumBlocks(file)
    BY <2>1
  <2>4. CASE attempt # "filtered"
    <3>1. \A r \in 1 .. Len(rows) : rows[r] = RecordBytes(r)
      BY <2>1, <2>2, <2>3, <2>4, UnfilteredExact
    <3> QED BY <2>1, <3>1
  <2>5. CASE attempt = "filtered"
    <3>1. file.spatial /\ file.hasVar
      BY <2>1, <2>5 DEF KnownAttempts, attempt
    <3>2. Len(rows) = Count
      BY <2>1, <2>5 DEF Chunked
    <3>3. \A r \in 1 .. Len(rows) : rows[r] = RecordBytes(r)
      BY <2>1, <2>2, <2>3, <2>5, <3>1, <3>2, FilteredExact
    <3> QED BY <2>1, <3>3
  <2> QED BY <2>4, <2>5
<1> QED BY InitRInv, NextRInv, <1>1, PTL DEF Spec

-----------------------------------------------------------------------------
(* The data of a file's blocks, and the records in it.                     *)

(* Every byte of a block that is kept is there.                            *)
LEMMA StreamComplete ==
  ASSUME NEW f, WellFormed(f), NEW a, NEW b \in 1 .. NumBlocks(f), NEW v \in Nat,
         InBlock(f, a, v, b)
  PROVE  \A to \in b .. NumBlocks(f) :
           \E i \in 1 .. Len(BlocksOf(f, a, 0, to)) : BlocksOf(f, a, 0, to)[i] = v
<1> DEFINE st(k) == BlocksOf(f, a, 0, k)
           Has(k) == \E i \in 1 .. Len(st(k)) : st(k)[i] = v
           S == {k \in Nat : b + k <= NumBlocks(f) => Has(b + k)}
<1>1. /\ NumBlocks(f) \in Nat
      /\ \A c \in 1 .. NumBlocks(f) : /\ BlockStart(f, c) \in Nat /\ BlockEnd(f, c) \in Nat
                                      /\ BlockStart(f, c) <= BlockEnd(f, c)
  BY BlockTypes
<1>2. ASSUME NEW k \in Nat, k + 1 <= NumBlocks(f)
      PROVE  /\ st(k) \in Seq(Nat) /\ BlockBytes(f, a, k + 1) \in Seq(Nat)
             /\ st(k + 1) = st(k) \o BlockBytes(f, a, k + 1)
  <2>1. 0 \in Nat /\ 0 <= k /\ k <= NumBlocks(f) /\ k + 1 \in 1 .. NumBlocks(f)
    BY <1>1, <1>2
  <2> QED BY <1>2, <2>1, BlocksStep, BlockBytesShape
<1>3. Has(b)
  <2> DEFINE k == b - 1
             x == st(k)
             y == BlockBytes(f, a, b)
             z == st(b)
             from == BlockStart(f, b)
             end == BlockEnd(f, b)
             m == Len(x)
             n == Len(y)
  <2>1. k \in Nat /\ k + 1 = b /\ k + 1 <= NumBlocks(f)
    BY <1>1
  <2>2. x \in Seq(Nat) /\ y \in Seq(Nat) /\ z = x \o y
    <3> HIDE DEF st, k
    <3> QED BY <1>2, <2>1
  <2>3. /\ from \in Nat /\ end \in Nat /\ from <= end /\ from <= v /\ v < end
        /\ Keeps(f, a, b)
    BY <1>1 DEF InBlock
  <2>4. y = Bytes(from, end)
    BY <2>3 DEF BlockBytes
  <2>5. m = Len(x) /\ n = Len(y)
    OBVIOUS
  <2> HIDE DEF st, x, y, z, m, n, from, end, k
  <2>6. n = end - from /\ \A i \in 1 .. n : y[i] = from + i - 1
    BY <2>3, <2>4, <2>5, BytesShape
  <2>7. /\ Len(z) = m + n /\ m \in Nat /\ n \in Nat
        /\ \A i \in 1 .. m + n : i > m => i - m \in 1 .. n /\ z[i] = y[i - m]
    BY <2>2, <2>5, ConcatIs
  <2> DEFINE j == v - from + 1
  <2>8. j \in 1 .. n /\ m + j \in 1 .. m + n /\ m + j > m /\ (m + j) - m = j
    BY <2>3, <2>6, <2>7
  <2>9. z[m + j] = y[j]
    <3> HIDE DEF j
    <3> QED BY <2>7, <2>8
  <2>10. y[j] = v
    <3>1. y[j] = from + j - 1
      <4> HIDE DEF j
      <4> QED BY <2>6, <2>8
    <3> QED BY <2>3, <3>1
  <2> HIDE DEF j
  <2>11. m + j \in 1 .. Len(z) /\ z[m + j] = v
    BY <2>7, <2>8, <2>9, <2>10
  <2> QED BY <2>11 DEF z
<1>4. ASSUME NEW k \in Nat, k + 1 <= NumBlocks(f), Has(k) PROVE Has(k + 1)
  <2> DEFINE x == st(k)
             y == BlockBytes(f, a, k + 1)
             z == st(k + 1)
             m == Len(x)
             n == Len(y)
  <2>1. x \in Seq(Nat) /\ y \in Seq(Nat) /\ z = x \o y
    BY <1>2, <1>4
  <2>2. m = Len(x) /\ n = Len(y)
    OBVIOUS
  <2>3. PICK i \in 1 .. m : x[i] = v
    BY <1>4
  <2> HIDE DEF st, x, y, z, m, n
  <2>4. Len(z) = m + n /\ i \in 1 .. m + n /\ z[i] = x[i]
    BY <2>1, <2>2, ConcatIs
  <2> QED BY <2>3, <2>4 DEF z
<1> HIDE DEF Has
<1>5. 0 \in S
  BY <1>3
<1>6. ASSUME NEW k \in Nat, k \in S PROVE k + 1 \in S
  <2> SUFFICES ASSUME b + (k + 1) <= NumBlocks(f) PROVE Has(b + (k + 1))
    OBVIOUS
  <2>1. b + k \in Nat /\ (b + k) + 1 = b + (k + 1) /\ b + k <= NumBlocks(f)
    BY <1>1
  <2>2. Has(b + k)
    BY <1>6, <2>1
  <2> QED BY <1>4, <2>1, <2>2
<1>7. \A k \in Nat : k \in S
  <2> HIDE DEF S
  <2> QED BY <1>5, <1>6, SetInduction
<1>8. ASSUME NEW to \in b .. NumBlocks(f) PROVE Has(to)
  <2>1. to - b \in Nat /\ b + (to - b) = to /\ to <= NumBlocks(f)
    BY <1>1
  <2>2. (to - b) \in S
    BY <1>7, <2>1
  <2> QED BY <2>1, <2>2
<1> QED BY <1>8 DEF Has

(* Numbers that increase and leave out none of a, ..., a + n - 1 have      *)
(* these in one piece.                                                     *)
LEMMA RunInOnePiece ==
  ASSUME NEW s \in Seq(Nat), Increasing(s), NEW m \in 0 .. Len(s), NEW a \in Nat, NEW n \in Nat,
         \A i \in 1 .. m : s[i] < a,
         \A i \in m + 1 .. Len(s) : a <= s[i],
         \A v \in a .. a + n - 1 : \E i \in 1 .. Len(s) : s[i] = v
  PROVE  m + n <= Len(s) /\ \A i \in 1 .. n : s[m + i] = a + i - 1
<1> DEFINE l == Len(s)
           S == {k \in Nat : k <= n =>
                   m + k <= l /\ \A i \in 1 .. k : s[m + i] = a + i - 1}
<1>1. l \in Nat /\ m \in Nat /\ m <= l /\ \A i \in 1 .. l : s[i] \in Nat
  BY ElementOfSeq
<1>2. \A i, j \in 1 .. l : i <= j => s[i] + (j - i) <= s[j]
  BY IncreasingSteps
<1>3. 0 \in S
  BY <1>1
<1>4. ASSUME NEW k \in Nat, k \in S PROVE k + 1 \in S
  <2> SUFFICES ASSUME k + 1 <= n
               PROVE  m + (k + 1) <= l /\ \A i \in 1 .. k + 1 : s[m + i] = a + i - 1
    OBVIOUS
  <2>1. m + k <= l /\ \A i \in 1 .. k : s[m + i] = a + i - 1
    BY <1>4
  <2>2. a + k \in a .. a + n - 1
    OBVIOUS
  <2>3. PICK j \in 1 .. l : s[j] = a + k
    BY <2>2
  <2> HIDE DEF l
  <2>4. j > m
    <3>1. j \in 1 .. m => s[j] < a
      OBVIOUS
    <3> QED BY <1>1, <2>3, <3>1
  <2>5. j > m + k
    <3> SUFFICES ASSUME j <= m + k PROVE FALSE
      BY <1>1
    <3>1. j - m \in 1 .. k /\ m + (j - m) = j
      BY <1>1, <2>4
    <3>2. s[j] = a + (j - m) - 1
      BY <2>1, <3>1
    <3> QED BY <1>1, <2>3, <3>1, <3>2
  <2>6. m + (k + 1) \in 1 .. l /\ m + (k + 1) <= j
    BY <1>1, <2>5
  <2>7. s[m + (k + 1)] <= a + k
    <3> DEFINE h == m + (k + 1)
    <3>1. h \in 1 .. l /\ h <= j /\ h \in Nat /\ j \in Nat
      BY <1>1, <2>6
    <3>2. s[h] \in Nat /\ s[h] + (j - h) <= s[j]
      <4> HIDE DEF h
      <4> QED BY <1>1, <1>2, <3>1
    <3> HIDE DEF h
    <3>3. s[h] <= a + k
      BY <2>3, <3>1, <3>2
    <3> QED BY <3>3 DEF h
  <2>8. a + k <= s[m + (k + 1)]
    <3>1. CASE k = 0
      <4>1. m + 1 \in m + 1 .. Len(s)
        BY <1>1, <2>6, <3>1 DEF l
      <4> QED BY <3>1, <4>1
    <3>2. CASE k # 0
      <4> DEFINE h == m + k
      <4>1. k \in 1 .. k /\ h \in 1 .. l /\ h + 1 \in 1 .. l /\ h <= h + 1 /\ h + 1 = m + (k + 1)
            /\ h \in Nat
        BY <1>1, <2>6, <3>2
      <4>2. s[h] = a + k - 1
        BY <2>1, <4>1
      <4> HIDE DEF h
      <4>3. s[h] + ((h + 1) - h) <= s[h + 1] /\ s[h + 1] \in Nat
        BY <1>1, <1>2, <4>1
      <4>4. a + k <= s[h + 1]
        BY <4>1, <4>2, <4>3
      <4> QED BY <4>1, <4>4
    <3> QED BY <3>1, <3>2
  <2>9. s[m + (k + 1)] = a + (k + 1) - 1
    <3>1. s[m + (k + 1)] \in Nat
      BY <1>1, <2>6
    <3> QED BY <2>7, <2>8, <3>1
  <2>10. ASSUME NEW i \in 1 .. k + 1 PROVE s[m + i] = a + i - 1
    <3>1. i \in 1 .. k \/ i = k + 1
      OBVIOUS
    <3> QED BY <2>1, <2>9, <3>1
  <2>11. m + (k + 1) <= l
    BY <1>1, <2>6
  <2> QED BY <2>10, <2>11
<1>5. \A k \in Nat : k \in S
  <2> HIDE DEF S
  <2> QED BY <1>3, <1>4, SetInduction
<1>6. n \in S
  BY <1>5
<1> QED BY <1>6

(* How many bytes the first records have together.                         *)
IsTotal(f, p) ==
  /\ p \in [0 .. NumRecords(f) -> Nat] /\ p[0] = 0
  /\ \A r \in 1 .. NumRecords(f) : p[r] = p[r - 1] + f.len[r]

Total(f) == CHOOSE p : IsTotal(f, p)

(* The sums exist: they are defined by recursion on the records.           *)
LEMMA TotalIs ==
  ASSUME NEW f, WellFormed(f)
  PROVE  IsTotal(f, Total(f))
<1> DEFINE n == NumRecords(f)
           g == [i \in 1 .. n |-> [x \in Nat |-> x + f.len[i]]]
<1>1. n \in Nat /\ \A r \in 1 .. n : f.len[r] \in Nat
  BY RecordTypes
<1>2. g \in Steps(Nat, n)
  <2>1. ASSUME NEW i \in 1 .. n PROVE [x \in Nat |-> x + f.len[i]] \in [Nat -> Nat]
    BY <1>1
  <2> QED BY <2>1 DEF Steps
<1>3. \E p : Recurs(p, Nat, n, 0, g)
  <2> HIDE DEF n, g
  <2> QED BY <1>1, <1>2, RecursionExists
<1>4. PICK p : Recurs(p, Nat, n, 0, g)
  BY <1>3
<1>5. p \in [0 .. n -> Nat] /\ p[0] = 0 /\ \A i \in 1 .. n : p[i] = g[i][p[i - 1]]
  <2> HIDE DEF n, g
  <2> QED BY <1>4 DEF Recurs
<1>6. ASSUME NEW i \in 1 .. n PROVE p[i] = p[i - 1] + f.len[i]
  <2>1. i - 1 \in 0 .. n /\ p[i - 1] \in Nat
    BY <1>1, <1>5
  <2>2. g[i] = [x \in Nat |-> x + f.len[i]]
    OBVIOUS
  <2> HIDE DEF g, n
  <2> QED BY <1>5, <2>1, <2>2
<1>7. IsTotal(f, p)
  BY <1>5, <1>6 DEF IsTotal
<1> QED BY <1>7 DEF Total

(* No record is empty.                                                     *)
LEMMA TotalsRise ==
  ASSUME NEW f, WellFormed(f)
  PROVE  \A r, q \in 0 .. NumRecords(f) :
           /\ Total(f)[r] \in Nat /\ Total(f)[q] \in Nat
           /\ r < q => Total(f)[r] < Total(f)[q]
<1> DEFINE n == NumRecords(f)
           p == Total(f)
           S == {k \in Nat : \A r \in 0 .. n : r + (k + 1) <= n => p[r] < p[r + (k + 1)]}
<1>1. /\ n \in Nat /\ HeaderLen \in Nat \ {0}
      /\ \A r \in 1 .. n : f.len[r] \in Nat /\ f.len[r] >= HeaderLen
  BY RecordTypes
<1>2. /\ \A r \in 0 .. n : p[r] \in Nat
      /\ \A r \in 1 .. n : p[r] = p[r - 1] + f.len[r]
  BY TotalIs DEF IsTotal
<1> HIDE DEF n, p
<1>3. ASSUME NEW r \in 1 .. n PROVE p[r - 1] < p[r]
  <2>1. r - 1 \in 0 .. n /\ r \in 0 .. n
    BY <1>1
  <2> QED BY <1>1, <1>2, <2>1
<1>4. 0 \in S
  <2> SUFFICES ASSUME NEW r \in 0 .. n, r + 1 <= n PROVE p[r] < p[r + 1]
    OBVIOUS
  <2>1. r + 1 \in 1 .. n /\ (r + 1) - 1 = r
    BY <1>1
  <2> QED BY <1>3, <2>1
<1>5. ASSUME NEW k \in Nat, k \in S PROVE k + 1 \in S
  <2> SUFFICES ASSUME NEW r \in 0 .. n, r + ((k + 1) + 1) <= n
               PROVE  p[r] < p[r + ((k + 1) + 1)]
    OBVIOUS
  <2> DEFINE q == r + (k + 1)
  <2>1. /\ q + 1 = r + ((k + 1) + 1) /\ q <= n /\ q \in 0 .. n
        /\ q + 1 \in 1 .. n /\ q + 1 \in 0 .. n /\ (q + 1) - 1 = q
    BY <1>1
  <2>2. p[r] < p[q]
    BY <1>5, <2>1
  <2> HIDE DEF q
  <2>3. p[q] < p[q + 1]
    BY <1>3, <2>1
  <2>4. p[r] \in Nat /\ p[q] \in Nat /\ p[q + 1] \in Nat
    BY <1>2, <2>1
  <2>5. p[r] < p[q + 1]
    BY <2>2, <2>3, <2>4
  <2> QED BY <2>1, <2>5
<1>6. \A k \in Nat : k \in S
  <2> HIDE DEF S
  <2> QED BY <1>4, <1>5, SetInduction
<1>7. ASSUME NEW r \in 0 .. n, NEW q \in 0 .. n, r < q PROVE p[r] < p[q]
  <2>1. q - r - 1 \in Nat /\ r + ((q - r - 1) + 1) = q /\ q <= n
    BY <1>1, <1>7
  <2>2. (q - r - 1) \in S
    BY <1>6, <2>1
  <2> QED BY <2>1, <2>2
<1> QED BY <1>2, <1>7 DEF n, p

-----------------------------------------------------------------------------
(* Data that holds the records.                                            *)

(* No byte of a record is missing, and there is none between two records.  *)
Holds(f, s) ==
  /\ s \in Seq(Nat) /\ Increasing(s)
  /\ \A r \in 1 .. NumRecords(f) : \A v \in f.start[r] .. EndOfRecord(f, r) - 1 :
       \E i \in 1 .. Len(s) : s[i] = v
  /\ \A i \in 1 .. Len(s) : \A r \in 1 .. NumRecords(f) - 1 :
       EndOfRecord(f, r) <= s[i] => f.start[r + 1] <= s[i]

(* The records lie one behind the other.                                   *)
Laid(f, s) ==
  /\ Total(f)[NumRecords(f)] <= Len(s)
  /\ \A r \in 1 .. NumRecords(f) : \A i \in 1 .. f.len[r] :
       s[Total(f)[r - 1] + i] = f.start[r] + i - 1

(* Data that holds the records has them in one piece each, one behind the  *)
(* other: what increases and leaves out none of a range has it in one      *)
(* piece.                                                                  *)
LEMMA HoldsLaid ==
  ASSUME NEW f, WellFormed(f), NEW s, Holds(f, s)
  PROVE  Laid(f, s)
<1> DEFINE n == NumRecords(f)
           p == Total(f)
           l == Len(s)
           E(r) == IF r = 0 THEN 0 ELSE EndOfRecord(f, r)
           Run(r) == \A i \in 1 .. f.len[r] : s[p[r - 1] + i] = f.start[r] + i - 1
           C(r) == /\ p[r] <= l /\ (r > 0 => Run(r))
                   /\ \A i \in 1 .. p[r] : s[i] < E(r)
                   /\ \A i \in p[r] + 1 .. l : E(r) <= s[i]
           S == {r \in Nat : r <= n => C(r)}
<1>1. /\ n \in Nat /\ HeaderLen \in Nat \ {0}
      /\ \A r \in 1 .. n :
           /\ f.start[r] \in Nat /\ f.len[r] \in Nat /\ f.len[r] >= HeaderLen
           /\ EndOfRecord(f, r) = f.start[r] + f.len[r] /\ EndOfRecord(f, r) \in Nat
  BY RecordTypes
<1>2. /\ p[0] = 0 /\ \A r \in 0 .. n : p[r] \in Nat
      /\ \A r \in 1 .. n : p[r] = p[r - 1] + f.len[r]
  BY TotalIs DEF IsTotal
<1>3. /\ s \in Seq(Nat) /\ Increasing(s) /\ l \in Nat
      /\ \A i \in 1 .. l : s[i] \in Nat
  BY ElementOfSeq DEF Holds
<1>4. /\ \A r \in 1 .. n : \A v \in f.start[r] .. EndOfRecord(f, r) - 1 :
           \E i \in 1 .. l : s[i] = v
      /\ \A i \in 1 .. l : \A r \in 1 .. n - 1 :
           EndOfRecord(f, r) <= s[i] => f.start[r + 1] <= s[i]
  BY DEF Holds
<1>5. n > 0 => f.start[1] = 0
  BY DEF WellFormed, RecordsInOrder
<1>6. 0 \in S
  BY <1>2, <1>3
<1>7. ASSUME NEW r \in Nat, r + 1 <= n, C(r) PROVE C(r + 1)
  <2> DEFINE m == p[r]
             a == f.start[r + 1]
             k == f.len[r + 1]
             e == EndOfRecord(f, r + 1)
             d == E(r)
  <2>1. /\ r \in 0 .. n /\ r + 1 \in 1 .. n /\ (r + 1) - 1 = r
        /\ r > 0 => r \in 1 .. n /\ r \in 1 .. n - 1
    BY <1>1, <1>7
  <2>2. /\ m \in Nat /\ m <= l /\ a \in Nat /\ k \in Nat /\ k > 0 /\ e = a + k
        /\ p[r + 1] = m + k
    BY <1>1, <1>2, <1>7, <2>1
  <2>3. d \in Nat /\ d <= a
    <3>1. CASE r = 0
      BY <2>2, <3>1
    <3>2. CASE r # 0
      <4>1. r \in 1 .. n /\ r + 1 \in 1 .. n /\ r < r + 1
        BY <2>1, <3>2
      <4>2. EndOfRecord(f, r) <= a
        BY <4>1, StartsRise
      <4> QED BY <1>1, <3>2, <4>1, <4>2
    <3> QED BY <3>1, <3>2
  <2>4. \A i \in 1 .. m : i \in 1 .. l /\ s[i] < d
    BY <1>3, <1>7, <2>2
  <2>5. \A i \in m + 1 .. l : i \in 1 .. l /\ d <= s[i]
    BY <1>3, <1>7, <2>2
  <2>6. ASSUME NEW i \in m + 1 .. l PROVE a <= s[i]
    <3>1. i \in 1 .. l /\ d <= s[i] /\ s[i] \in Nat
      BY <1>3, <2>5
    <3>2. CASE r = 0
      BY <1>1, <1>5, <2>1, <3>1, <3>2
    <3>3. CASE r # 0
      <4>1. r \in 1 .. n - 1 /\ EndOfRecord(f, r) <= s[i]
        BY <2>1, <3>1, <3>3
      <4> QED BY <1>4, <3>1, <4>1
    <3> QED BY <3>2, <3>3
  <2>7. \A v \in a .. a + k - 1 : \E i \in 1 .. l : s[i] = v
    BY <1>4, <2>1, <2>2
  <2>8. E(r + 1) = e
    BY <2>1
  <2>9. Run(r + 1) <=> \A i \in 1 .. k : s[m + i] = a + i - 1
    BY <2>1
  <2> HIDE DEF m, a, k, e, d, E, p, Run
  <2>10. ASSUME NEW i \in 1 .. m PROVE s[i] < a
    <3>1. s[i] < d /\ s[i] \in Nat
      BY <1>3, <2>4
    <3> QED BY <2>2, <2>3, <3>1
  <2>11. m + k <= l /\ \A i \in 1 .. k : s[m + i] = a + i - 1
    <3>1. m \in 0 .. Len(s)
      BY <1>3, <2>2
    <3>2. \A i \in 1 .. m : s[i] < a
      BY <2>10
    <3>3. \A i \in m + 1 .. Len(s) : a <= s[i]
      BY <2>6
    <3>4. \A v \in a .. a + k - 1 : \E i \in 1 .. Len(s) : s[i] = v
      BY <2>7
    <3> HIDE DEF l
    <3>5. m + k <= Len(s) /\ \A i \in 1 .. k : s[m + i] = a + i - 1
      BY <1>3, <2>2, <3>1, <3>2, <3>3, <3>4, RunInOnePiece
    <3> QED BY <3>5 DEF l
  <2>12. ASSUME NEW i \in 1 .. m + k PROVE s[i] < e
    <3>1. CASE i <= m
      <4>1. i \in 1 .. m
        BY <2>2, <3>1
      <4>2. s[i] < a /\ s[i] \in Nat
        BY <1>3, <2>4, <2>10, <4>1
      <4> QED BY <2>2, <4>2
    <3>2. CASE i > m
      <4>1. i - m \in 1 .. k /\ m + (i - m) = i
        BY <2>2, <3>2
      <4>2. s[i] = a + (i - m) - 1
        BY <2>11, <4>1
      <4> QED BY <2>2, <4>1, <4>2
    <3> QED BY <2>2, <3>1, <3>2
  <2>13. ASSUME NEW i \in m + k + 1 .. l PROVE e <= s[i]
    <3> DEFINE j == m + k
    <3>1. j \in 1 .. l /\ i \in 1 .. l /\ j <= i /\ k \in 1 .. k /\ i - j >= 1
      BY <1>3, <2>2, <2>11
    <3>2. s[j] = a + k - 1
      BY <2>11, <3>1
    <3>3. s[j] + (i - j) <= s[i] /\ s[i] \in Nat
      <4> HIDE DEF j
      <4> QED BY <1>3, <3>1, IncreasingSteps DEF l
    <3> DEFINE x == i - j
    <3>4. x >= 1 /\ x \in Int
      BY <1>3, <2>2, <3>1
    <3> HIDE DEF j, x
    <3>5. a + k - 1 + x <= s[i]
      BY <3>2, <3>3 DEF x
    <3> QED BY <2>2, <3>3, <3>4, <3>5
  <2> QED BY <2>2, <2>8, <2>9, <2>11, <2>12, <2>13
<1> HIDE DEF C
<1>8. ASSUME NEW r \in Nat, r \in S PROVE r + 1 \in S
  <2> SUFFICES ASSUME r + 1 <= n PROVE C(r + 1)
    OBVIOUS
  <2>1. C(r)
    BY <1>1, <1>8
  <2> QED BY <1>7, <2>1
<1>9. \A r \in Nat : r \in S
  <2> HIDE DEF S
  <2> QED BY <1>6, <1>8, SetInduction
<1>10. ASSUME NEW r \in 0 .. n PROVE C(r)
  <2>1. r \in Nat /\ r <= n /\ r \in S
    BY <1>1, <1>9
  <2> QED BY <2>1
<1>11. p[n] <= l
  BY <1>1, <1>10 DEF C
<1>12. ASSUME NEW r \in 1 .. n PROVE Run(r)
  <2>1. r \in 0 .. n /\ r > 0
    BY <1>1
  <2> QED BY <1>10, <2>1 DEF C
<1> QED BY <1>11, <1>12 DEF Laid

(* Every byte before the end of the last block is in some block.           *)
LEMMA ByteInBlock ==
  ASSUME NEW f, WellFormed(f), NumBlocks(f) > 0,
         NEW v \in Nat, v < BlockEnd(f, NumBlocks(f))
  PROVE  \E b \in 1 .. NumBlocks(f) : BlockStart(f, b) <= v /\ v < BlockEnd(f, b)
<1>1. /\ NumBlocks(f) \in Nat
      /\ \A b \in 1 .. NumBlocks(f) : BlockStart(f, b) \in Nat /\ BlockEnd(f, b) \in Nat
  BY BlockTypes
<1> DEFINE S == {b \in 1 .. NumBlocks(f) : v < BlockEnd(f, b)}
<1>2. S \subseteq Nat /\ S # {}
  <2>1. NumBlocks(f) \in S
    BY <1>1
  <2> QED BY <1>1, <2>1
<1>3. PICK b \in S : \A c \in S : b <= c
  <2> HIDE DEF S
  <2> QED BY <1>2, LeastElement
<1>4. BlockStart(f, b) <= v
  <2>1. CASE b = 1
    BY <2>1 DEF BlockStart
  <2>2. CASE b # 1
    <3>1. b - 1 \in 1 .. NumBlocks(f) /\ ~(b <= b - 1)
      BY <1>1, <2>2
    <3>2. (b - 1) \notin S
      BY <1>3, <3>1
    <3>3. BlockEnd(f, b - 1) \in Nat /\ ~(v < BlockEnd(f, b - 1))
      BY <1>1, <3>1, <3>2
    <3>4. BlockStart(f, b) = BlockEnd(f, b - 1)
      BY <2>2 DEF BlockStart, BlockEnd
    <3> QED BY <3>3, <3>4
  <2> QED BY <2>1, <2>2
<1> QED BY <1>3, <1>4

(* Grid blocks behind the last record only: the records follow one another *)
(* without a gap.                                                          *)
LEMMA RecordsJoin ==
  ASSUME NEW f, WellFormed(f), NumBlocks(f) > 0,
         EndOfRecord(f, NumRecords(f)) <= BlockEnd(f, NumBlocks(f)),
         \A b \in f.grid : f.spatial /\ f.hasVar => BlockStart(f, b) >= f.start[NumRecords(f)]
  PROVE  \A r \in 1 .. NumRecords(f) - 1 : f.start[r + 1] = EndOfRecord(f, r)
<1> DEFINE n == NumRecords(f)
<1>1. /\ n \in Nat
      /\ \A r \in 1 .. n : /\ f.start[r] \in Nat /\ EndOfRecord(f, r) \in Nat
                           /\ f.start[r] < EndOfRecord(f, r)
  BY RecordTypes
<1>2. /\ NumBlocks(f) \in Nat
      /\ \A b \in 1 .. NumBlocks(f) : /\ BlockStart(f, b) \in Nat /\ BlockEnd(f, b) \in Nat
                                      /\ BlockStart(f, b) <= BlockEnd(f, b)
  BY BlockTypes
<1> SUFFICES ASSUME NEW r \in 1 .. n - 1 PROVE f.start[r + 1] = EndOfRecord(f, r)
  OBVIOUS
<1> DEFINE e == EndOfRecord(f, r)
           s == f.start[r + 1]
<1>3. r \in 1 .. n /\ r + 1 \in 1 .. n /\ n \in 1 .. n /\ r < n /\ r < r + 1
  BY <1>1
<1>4. e \in Nat /\ s \in Nat /\ e <= s
  BY <1>1, <1>3, StartsRise
<1>5. s <= f.start[n]
  <2>1. CASE r + 1 = n
    BY <1>1, <1>3, <2>1
  <2>2. CASE r + 1 # n
    <3>1. r + 1 < n
      BY <1>1, <1>3, <2>2
    <3>2. EndOfRecord(f, r + 1) <= f.start[n]
      BY <1>3, <3>1, StartsRise
    <3> QED BY <1>1, <1>3, <3>2
  <2> QED BY <2>1, <2>2
<1>6. CASE f.spatial /\ f.hasVar /\ OnlyGridBetween(f, e, s)
  <2>1. ~(f.cut[NumBlocks(f)] <= e)
    <3>1. e <= f.start[n] /\ f.start[n] < EndOfRecord(f, n)
      BY <1>1, <1>3, StartsRise
    <3> QED BY <1>1, <1>2, <1>3, <1>4, <3>1 DEF BlockEnd
  <2>2. PICK x \in 1 .. NumBlocks(f) : \E y \in (x + 1) .. NumBlocks(f) :
          BlockEnd(f, x) = e /\ BlockEnd(f, y) = s /\ (x + 1) .. y \subseteq f.grid
    BY <1>6, <2>1 DEF OnlyGridBetween, BlockEnd
  <2>3. PICK y \in (x + 1) .. NumBlocks(f) :
          BlockEnd(f, x) = e /\ BlockEnd(f, y) = s /\ (x + 1) .. y \subseteq f.grid
    BY <2>2
  <2>4. x + 1 \in (x + 1) .. y /\ x + 1 # 1 /\ (x + 1) - 1 = x
    BY <1>2
  <2>5. x + 1 \in f.grid
    BY <2>3, <2>4
  <2>6. BlockStart(f, x + 1) = e
    BY <2>3, <2>4 DEF BlockStart, BlockEnd
  <2>7. f.start[n] <= e
    BY <1>1, <1>3, <1>4, <1>6, <2>5, <2>6
  <2> QED BY <1>1, <1>3, <1>4, <1>5, <2>7
<1>7. CASE f.start[r + 1] = e
  BY <1>7
<1> QED BY <1>6, <1>7 DEF WellFormed, RecordsInOrder

(* What a read of the whole file brings in.                                *)
Everything(a) == BlocksOf(file, a, 0, NumBlocks(file))

(* The blocks of a sound file reach to the end of its last record.         *)
LEMMA SoundFacts ==
  ASSUME Typed, Sound, Count > 0
  PROVE  /\ NumBlocks(file) > 0 /\ NumListed = NumBlocks(file)
         /\ EndOfRecord(file, Count) <= BlockEnd(file, NumBlocks(file))
         /\ ~(file.spatial /\ file.hasVar) =>
              BlockEnd(file, NumBlocks(file)) = EndOfRecord(file, Count)
         /\ compressed => \A b \in 1 .. NumBlocks(file) : Decompresses(b)
<1>1. WellFormed(file) /\ NumBlocks(file) \in Nat
  BY TypedFacts
<1>2. \A b \in 1 .. NumBlocks(file) : /\ BlockStart(file, b) \in Nat /\ BlockEnd(file, b) \in Nat
                                      /\ BlockStart(file, b) <= BlockEnd(file, b)
  BY <1>1, BlockTypes
<1>3. PICK b \in 1 .. NumBlocks(file) :
        /\ BlockEnd(file, b) = EndOfRecord(file, Count)
        /\ ~(file.spatial /\ file.hasVar) =>
             BlockEnd(file, NumBlocks(file)) = EndOfRecord(file, Count)
  BY DEF Sound
<1>4. NumBlocks(file) > 0 /\ NumBlocks(file) \in 1 .. NumBlocks(file)
  BY <1>1
<1>5. BlockEnd(file, b) <= BlockEnd(file, NumBlocks(file))
  <2>1. b < NumBlocks(file) => BlockEnd(file, b) <= BlockStart(file, NumBlocks(file))
    BY <1>1, <1>4, BlocksRise
  <2>2. b = NumBlocks(file) \/ b < NumBlocks(file)
    BY <1>1
  <2> QED BY <1>2, <1>4, <2>1, <2>2
<1>6. NumListed = NumBlocks(file)
  <2> DEFINE all == 1 .. NumBlocks(file)
             listed == {c \in all : file.fault[c] # "short"}
  <2>1. \A c \in all : file.fault[c] # "short"
    BY DEF Sound
  <2>2. listed = all
    BY <2>1
  <2>3. Cardinality(all) = NumBlocks(file)
    BY <1>1, FS_Interval
  <2>4. NumListed = Cardinality(listed)
    BY DEF NumListed
  <2> QED BY <2>2, <2>3, <2>4
<1>7. compressed => \A c \in 1 .. NumBlocks(file) : Decompresses(c)
  BY DEF Sound, Decompresses
<1> QED BY <1>3, <1>4, <1>5, <1>6, <1>7

(* A byte of a record is in no grid block.                                 *)
LEMMA RecordByte ==
  ASSUME NEW f, WellFormed(f), NumBlocks(f) > 0,
         EndOfRecord(f, NumRecords(f)) <= BlockEnd(f, NumBlocks(f)),
         NEW r \in 1 .. NumRecords(f), NEW v \in f.start[r] .. EndOfRecord(f, r) - 1
  PROVE  /\ v \in Nat
         /\ \E b \in 1 .. NumBlocks(f) :
              b \notin f.grid /\ BlockStart(f, b) <= v /\ v < BlockEnd(f, b)
<1> DEFINE n == NumRecords(f)
<1>1. /\ n \in Nat
      /\ \A q \in 1 .. n : /\ f.start[q] \in Nat /\ EndOfRecord(f, q) \in Nat
                           /\ f.start[q] < EndOfRecord(f, q)
  BY RecordTypes
<1>2. /\ NumBlocks(f) \in Nat
      /\ \A b \in 1 .. NumBlocks(f) : /\ BlockStart(f, b) \in Nat /\ BlockEnd(f, b) \in Nat
                                      /\ BlockStart(f, b) <= BlockEnd(f, b)
  BY BlockTypes
<1>3. EndOfRecord(f, r) <= EndOfRecord(f, n)
  <2>1. r < n => EndOfRecord(f, r) <= f.start[n]
    BY <1>1, StartsRise
  <2>2. n \in 1 .. n /\ (r = n \/ r < n)
    BY <1>1
  <2> QED BY <1>1, <2>1, <2>2
<1>4. v \in Nat /\ f.start[r] <= v /\ v < EndOfRecord(f, r)
  BY <1>1
<1>5. v < BlockEnd(f, NumBlocks(f))
  <2>1. n \in 1 .. n /\ NumBlocks(f) \in 1 .. NumBlocks(f)
    BY <1>1, <1>2
  <2> QED BY <1>1, <1>2, <1>3, <1>4, <2>1
<1>6. PICK b \in 1 .. NumBlocks(f) : BlockStart(f, b) <= v /\ v < BlockEnd(f, b)
  BY <1>4, <1>5, ByteInBlock
<1>7. b \notin f.grid
  <2> SUFFICES ASSUME b \in f.grid PROVE FALSE
    OBVIOUS
  <2>1. EndOfRecord(f, r) <= BlockStart(f, b) \/ BlockEnd(f, b) <= f.start[r]
    BY DEF WellFormed, RecordsInOrder
  <2> QED BY <1>1, <1>2, <1>4, <1>6, <2>1
<1> QED BY <1>4, <1>6, <1>7

(* Taken as it is, a file whose grid blocks all lie behind the last record *)
(* brings in its records.                                                  *)
LEMMA WholeHolds ==
  ASSUME Typed, Sound, Count > 0, NEW a, a # "filtered",
         file.spatial /\ file.hasVar => GridAtEndOnly
  PROVE  /\ Holds(file, Everything(a))
         /\ \A i \in 1 .. Len(Everything(a)) : Everything(a)[i] = i - 1
<1> DEFINE s == Everything(a)
           N == NumBlocks(file)
<1>1. /\ WellFormed(file) /\ N \in Nat /\ Count \in Nat /\ N > 0
      /\ EndOfRecord(file, Count) <= BlockEnd(file, N)
  BY TypedFacts, SoundFacts
<1>2. N \in 0 .. N
  BY <1>1
<1>3. s \in Seq(Nat) /\ Increasing(s) /\ \A i \in 1 .. Len(s) : s[i] = i - 1
  BY <1>1, <1>2, StreamShape, UnfilteredStream DEF Everything
<1>4. \A r \in 1 .. NumRecords(file) - 1 : file.start[r + 1] = EndOfRecord(file, r)
  <2>1. EndOfRecord(file, NumRecords(file)) <= BlockEnd(file, NumBlocks(file))
    BY <1>1 DEF Count
  <2>2. \A b \in file.grid : file.spatial /\ file.hasVar =>
          BlockStart(file, b) >= file.start[NumRecords(file)]
    BY DEF GridAtEndOnly, Count
  <2> QED BY <1>1, <2>1, <2>2, RecordsJoin
<1>5. ASSUME NEW r \in 1 .. NumRecords(file),
             NEW v \in file.start[r] .. EndOfRecord(file, r) - 1
      PROVE  \E i \in 1 .. Len(s) : s[i] = v
  <2>1. v \in Nat /\ \E b \in 1 .. N : BlockStart(file, b) <= v /\ v < BlockEnd(file, b)
    BY <1>1, <1>5, RecordByte DEF Count
  <2>2. PICK b \in 1 .. N : BlockStart(file, b) <= v /\ v < BlockEnd(file, b)
    BY <2>1
  <2>3. InBlock(file, a, v, b)
    BY <2>2 DEF InBlock, Keeps
  <2>4. N \in b .. N
    BY <1>1
  <2> QED BY <1>1, <2>1, <2>3, <2>4, StreamComplete DEF Everything
<1>6. \A i \in 1 .. Len(s) : \A r \in 1 .. NumRecords(file) - 1 :
        EndOfRecord(file, r) <= s[i] => file.start[r + 1] <= s[i]
  BY <1>4
<1> QED BY <1>3, <1>5, <1>6 DEF Holds

(* So do the blocks that look like records, where the grid blocks do not   *)
(* and all others do.                                                      *)
LEMMA FilteredHolds ==
  ASSUME Typed, Sound, Count > 0, file.spatial, file.hasVar, GridTold(file), GridSeparable
  PROVE  Holds(file, Everything("filtered"))
<1> DEFINE s == Everything("filtered")
           N == NumBlocks(file)
<1>1. /\ WellFormed(file) /\ N \in Nat /\ Count \in Nat /\ N > 0
      /\ EndOfRecord(file, Count) <= BlockEnd(file, N)
  BY TypedFacts, SoundFacts
<1>2. N \in 0 .. N
  BY <1>1
<1>3. /\ s \in Seq(Nat) /\ Increasing(s)
      /\ \A i \in 1 .. Len(s) : \E b \in 1 .. N : InBlock(file, "filtered", s[i], b)
      /\ \A i \in 1 .. Len(s) : s[i] \in Nat
  <2>1. /\ s \in Seq(Nat) /\ Increasing(s)
        /\ \A i \in 1 .. Len(s) : \E b \in 1 .. N : InBlock(file, "filtered", s[i], b)
    BY <1>1, <1>2, StreamShape DEF Everything
  <2> QED BY <2>1, ElementOfSeq
<1>4. NumRecords(file) \in Nat
  BY <1>1 DEF Count
<1>5. ASSUME NEW r \in 1 .. NumRecords(file),
             NEW v \in file.start[r] .. EndOfRecord(file, r) - 1
      PROVE  \E i \in 1 .. Len(s) : s[i] = v
  <2>1. v \in Nat /\ \E b \in 1 .. N :
          b \notin file.grid /\ BlockStart(file, b) <= v /\ v < BlockEnd(file, b)
    BY <1>1, <1>5, RecordByte DEF Count
  <2>2. PICK b \in 1 .. N :
          b \notin file.grid /\ BlockStart(file, b) <= v /\ v < BlockEnd(file, b)
    BY <2>1
  <2>3. BlockSize(b) # 0
    <3>1. BlockStart(file, b) \in Nat /\ BlockEnd(file, b) \in Nat
      BY <1>1, BlockTypes
    <3> QED BY <2>1, <2>2, <3>1 DEF BlockSize
  <2>4. InBlock(file, "filtered", v, b)
    BY <2>2, <2>3 DEF InBlock, Keeps, GridSeparable
  <2>5. N \in b .. N
    BY <1>1
  <2> QED BY <1>1, <2>1, <2>4, <2>5, StreamComplete DEF Everything
<1>6. ASSUME NEW i \in 1 .. Len(s), NEW r \in 1 .. NumRecords(file) - 1,
             EndOfRecord(file, r) <= s[i]
      PROVE  file.start[r + 1] <= s[i]
  <2>1. PICK b \in 1 .. N : InBlock(file, "filtered", s[i], b)
    BY <1>3
  <2>2. r \in 1 .. NumRecords(file) /\ s[i] \in Nat
    BY <1>3, <1>4
  <2> HIDE DEF s
  <2> QED BY <1>1, <1>6, <2>1, <2>2, FilteredInRecords
<1> QED BY <1>3, <1>5, <1>6 DEF Holds

(* Where nothing follows the last record, its end is the end of the data.  *)
LEMMA WholeEnds ==
  ASSUME Typed, Sound, Count > 0, NEW a, a # "filtered", ~(file.spatial /\ file.hasVar)
  PROVE  Len(Everything(a)) = Total(file)[Count]
<1> DEFINE s == Everything(a)
           N == NumBlocks(file)
           l == Len(s)
           p == Total(file)
           e == EndOfRecord(file, Count)
<1>1. /\ WellFormed(file) /\ N \in Nat /\ Count \in Nat /\ N > 0
      /\ BlockEnd(file, N) = e
  BY TypedFacts, SoundFacts
<1>2. Holds(file, s) /\ \A i \in 1 .. l : s[i] = i - 1
  BY WholeHolds
<1>3. Laid(file, s)
  BY <1>1, <1>2, HoldsLaid
<1>4. s \in Seq(Nat) /\ l \in Nat /\ \A i \in 1 .. l : \E b \in 1 .. N : InBlock(file, a, s[i], b)
  <2>1. N \in 0 .. N
    BY <1>1
  <2> QED BY <1>1, <2>1, StreamShape DEF Everything
<1>5. /\ Count \in 1 .. NumRecords(file) /\ Count = NumRecords(file)
      /\ file.start[Count] \in Nat /\ file.len[Count] \in Nat \ {0}
      /\ e = file.start[Count] + file.len[Count]
  BY <1>1, RecordTypes DEF Count
<1>6. /\ p[Count - 1] \in Nat /\ p[Count] = p[Count - 1] + file.len[Count]
      /\ p[Count] <= l
  <2>1. Count - 1 \in 0 .. NumRecords(file)
    BY <1>1, <1>5
  <2> QED BY <1>1, <1>3, <1>5, <2>1, TotalIs DEF IsTotal, Laid
<1>7. p[Count] = e
  <2> DEFINE k == file.len[Count]
  <2>1. k \in 1 .. k /\ k \in Nat
    BY <1>5
  <2>2. s[p[Count - 1] + k] = file.start[Count] + k - 1
    BY <1>3, <1>5, <2>1 DEF Laid
  <2>3. p[Count - 1] + k = p[Count] /\ p[Count] \in 1 .. l
    BY <1>4, <1>5, <1>6
  <2>4. s[p[Count]] = p[Count] - 1
    BY <1>2, <2>3
  <2> HIDE DEF s, l, p, k
  <2>5. p[Count] - 1 = file.start[Count] + k - 1
    BY <2>2, <2>3, <2>4
  <2> QED BY <1>5, <2>1, <2>3, <2>5 DEF k
<1>8. l <= e
  <2> SUFFICES ASSUME l > e PROVE FALSE
    BY <1>4, <1>5
  <2>1. l \in 1 .. l
    BY <1>4, <1>5
  <2>2. s[l] = l - 1
    BY <1>2, <2>1
  <2>3. PICK b \in 1 .. N : InBlock(file, a, s[l], b)
    BY <1>4, <2>1
  <2>4. BlockEnd(file, b) <= e /\ BlockEnd(file, b) \in Nat
    <3>1. \A c \in 1 .. N : BlockStart(file, c) \in Nat /\ BlockEnd(file, c) \in Nat
                            /\ BlockStart(file, c) <= BlockEnd(file, c)
      BY <1>1, BlockTypes
    <3>2. b < N => BlockEnd(file, b) <= BlockStart(file, N)
      BY <1>1, BlocksRise
    <3>3. N \in 1 .. N /\ (b = N \/ b < N)
      BY <1>1
    <3> QED BY <1>1, <3>1, <3>2, <3>3
  <2>5. s[l] < BlockEnd(file, b)
    BY <2>3 DEF InBlock
  <2> HIDE DEF s, l
  <2> QED BY <1>4, <1>5, <2>2, <2>4, <2>5
<1> QED BY <1>4, <1>5, <1>6, <1>7, <1>8

-----------------------------------------------------------------------------
(* The scan, in data that holds the records from the one after the k-th    *)
(* on.                                                                     *)

From(f, s, k, data) ==
  /\ data \in Seq(Nat)
  /\ Total(f)[k] + Len(data) <= Len(s)
  /\ \A i \in 1 .. Len(data) : data[i] = s[Total(f)[k] + i]

(* A record is at least its header long, whatever the bytes say.           *)
LEMMA EndIsBehindHeader ==
  ASSUME WellFormed(file), NEW data, NEW i \in Nat
  PROVE  RecordEnd(data, i) \in Nat /\ i + HeaderLen <= RecordEnd(data, i)
<1>1. /\ HeaderLen \in Nat \ {0} /\ GarbageLen \in Nat
      /\ \A r \in 1 .. NumRecords(file) : file.len[r] \in Nat /\ file.len[r] >= HeaderLen
  BY RecordTypes
<1>2. VarLen(file, data[i + 1]) \in Nat
  <2>1. CASE VarLen(file, data[i + 1]) = GarbageLen
    BY <1>1, <2>1
  <2>2. CASE \E r \in 1 .. NumRecords(file) : VarLen(file, data[i + 1]) = file.len[r] - HeaderLen
    <3>1. PICK r \in 1 .. NumRecords(file) : VarLen(file, data[i + 1]) = file.len[r] - HeaderLen
      BY <2>2
    <3> QED BY <1>1, <3>1
  <2> QED BY <2>1, <2>2, VarLenIs
<1>3. VarLenAt(data, i) \in Nat
  BY <1>1, <1>2 DEF VarLenAt
<1> QED BY <1>1, <1>3 DEF RecordEnd

(* Where the header of a record is there, its end is known.                *)
LEMMA EndInPlace ==
  ASSUME WellFormed(file), NEW s \in Seq(Nat), Laid(file, s),
         NEW k \in 0 .. Count, NEW data, From(file, s, k, data),
         NEW r \in k + 1 .. Count, NEW o, o = Total(file)[r - 1] - Total(file)[k],
         o + HeaderLen <= Len(data)
  PROVE  /\ o \in Nat /\ RecordEnd(data, o) = Total(file)[r] - Total(file)[k]
<1> DEFINE p == Total(file)
           n == Len(data)
           q == p[r - 1]
           h == p[k]
           a == file.start[r]
           l == file.len[r]
<1>1. /\ Count = NumRecords(file) /\ Count \in Nat
      /\ r \in 1 .. NumRecords(file) /\ r - 1 \in 0 .. NumRecords(file)
      /\ k \in 0 .. NumRecords(file) /\ (k = r - 1 \/ k < r - 1)
  BY RecordTypes DEF Count
<1>2. HeaderLen \in Nat \ {0} /\ a \in Nat /\ l \in Nat /\ l >= HeaderLen
      /\ (~file.hasVar => l = HeaderLen)
  BY <1>1, RecordTypes
<1>3. q \in Nat /\ h \in Nat /\ h <= q /\ p[r] = q + l
  <2>1. p[r - 1] \in Nat /\ p[k] \in Nat /\ (k < r - 1 => p[k] < p[r - 1])
    BY <1>1, TotalsRise
  <2>2. p[r] = p[r - 1] + l
    BY <1>1, TotalIs DEF IsTotal
  <2> QED BY <1>1, <2>1, <2>2
<1>4. o = q - h /\ o \in Nat /\ n \in Nat /\ o + HeaderLen <= n
  BY <1>3 DEF From
<1>5. \A i \in 1 .. n : data[i] = s[h + i]
  BY DEF From
<1>6. \A i \in 1 .. l : s[q + i] = a + i - 1
  BY <1>1 DEF Laid
<1> HIDE DEF p, n, q, h, a, l
<1>7. ASSUME NEW i \in 1 .. HeaderLen PROVE data[o + i] = a + i - 1
  <2>1. o + i \in 1 .. n /\ i \in 1 .. l
    BY <1>2, <1>4
  <2>2. data[o + i] = s[h + (o + i)]
    BY <1>5, <2>1
  <2>3. h + (o + i) = q + i
    <3>1. q \in Nat /\ h \in Nat /\ o = q - h /\ i \in Nat
      BY <1>2, <1>3, <1>4
    <3> QED BY ONLY <3>1
  <2> QED BY <1>6, <2>1, <2>2, <2>3
<1>8. data[o + 1] = a /\ data[o + HeaderLen] = a + HeaderLen - 1
  <2>1. 1 \in 1 .. HeaderLen /\ HeaderLen \in 1 .. HeaderLen
    BY <1>2
  <2>2. data[o + 1] = a + 1 - 1 /\ data[o + HeaderLen] = a + HeaderLen - 1
    BY <1>7, <2>1
  <2> QED BY <1>2, <2>2
<1>9. VarLenAt(data, o) = l - HeaderLen
  <2>1. VarLen(file, a) = l - HeaderLen
    BY <1>1, VarLenAtStart DEF a, l
  <2>2. data[o + HeaderLen] = data[o + 1] + HeaderLen - 1
    BY <1>8
  <2> QED BY <1>8, <2>1, <2>2 DEF VarLenAt
<1>10. RecordEnd(data, o) = o + l
  <2>1. RecordEnd(data, o) = o + HeaderLen + (IF file.hasVar THEN l - HeaderLen ELSE 0)
    BY <1>9 DEF RecordEnd
  <2>2. CASE file.hasVar
    BY <1>2, <1>4, <2>1, <2>2
  <2>3. CASE ~file.hasVar
    BY <1>2, <1>4, <2>1, <2>3
  <2> QED BY <2>2, <2>3
<1>11. o + l = p[r] - h
  <2>1. q \in Nat /\ h \in Nat /\ l \in Nat /\ o = q - h
    BY <1>2, <1>3, <1>4
  <2>2. o + l = (q + l) - h
    BY ONLY <2>1
  <2> QED BY <1>3, <2>2
<1> QED BY <1>4, <1>10, <1>11 DEF p, h

(* The scan finds the ends of the records, as far as the data goes.        *)
LEMMA ScanFindsRecords ==
  ASSUME WellFormed(file), NEW s \in Seq(Nat), Laid(file, s),
         NEW k \in 0 .. Count, NEW data, From(file, s, k, data)
  PROVE  \A j \in 0 .. Count - k :
           /\ j + 1 <= Len(Bounds(data)) <=>
                Total(file)[k + j] <= Total(file)[k] + Len(data)
           /\ j + 1 <= Len(Bounds(data)) =>
                Bounds(data)[j + 1] = Total(file)[k + j] - Total(file)[k]
<1> DEFINE p == Total(file)
           ends == Bounds(data)
           n == Len(data)
           l == Len(ends)
           o(j) == p[k + j] - p[k]
           C(j) == /\ j + 1 <= l <=> o(j) <= n
                   /\ j + 1 <= l => ends[j + 1] = o(j)
                   /\ o(j) <= n => IsEnd(data)[o(j)]
           S == {j \in Nat : j <= Count - k => C(j)}
<1>1. Count \in Nat /\ Count = NumRecords(file) /\ HeaderLen \in Nat \ {0}
  BY RecordTypes DEF Count
<1>2. data \in Seq(Nat) /\ n \in Nat
  BY DEF From
<1>3. Rising(ends, n) /\ Chained(data, ends, n)
  BY <1>2, BoundsChained DEF Chained
<1>4. /\ l \in Nat \ {0} /\ ends[1] = 0 /\ ends \in Seq(Nat)
      /\ \A r \in 1 .. l : ends[r] \in 0 .. n
      /\ \A r \in 1 .. l - 1 : ends[r] < ends[r + 1]
      /\ \A r \in 1 .. l - 1 : RecordEnd(data, ends[r]) = ends[r + 1]
      /\ \A i \in 0 .. n : IsEnd(data)[i] => \E r \in 1 .. l : ends[r] = i
  BY <1>3 DEF Chained, Rising
<1>5. \A j \in 0 .. Count - k : p[k + j] \in Nat /\ p[k] \in Nat /\ o(j) \in Nat
  <2> SUFFICES ASSUME NEW j \in 0 .. Count - k
               PROVE  p[k + j] \in Nat /\ p[k] \in Nat /\ o(j) \in Nat
    OBVIOUS
  <2>1. k \in 0 .. NumRecords(file) /\ k + j \in 0 .. NumRecords(file) /\ (j = 0 \/ k < k + j)
    BY <1>1
  <2>2. p[k + j] \in Nat /\ p[k] \in Nat /\ (k < k + j => p[k] < p[k + j])
    BY <2>1, TotalsRise
  <2>3. j = 0 => p[k + j] = p[k]
    BY <1>1
  <2> HIDE DEF p
  <2> QED BY <2>1, <2>2, <2>3
<1>6. C(0)
  <2>1. o(0) = 0
    <3>1. 0 \in 0 .. Count - k /\ k + 0 = k
      BY <1>1
    <3> QED BY <1>5, <3>1
  <2>2. IsEnd(data)[0]
    <3>1. 0 \in 0 .. Len(data)
      BY <1>2
    <3> QED BY <1>2, <3>1, IsEndSteps
  <2> HIDE DEF o, ends, n, l
  <2> QED BY <1>2, <1>4, <2>1, <2>2
<1>7. ASSUME NEW j \in Nat, j + 1 <= Count - k, C(j) PROVE C(j + 1)
  <2> DEFINE r == k + (j + 1)
             x == o(j)
             y == o(j + 1)
  <2>1. /\ j \in 0 .. Count - k /\ j + 1 \in 0 .. Count - k
        /\ r \in k + 1 .. Count /\ r - 1 = k + j
    BY <1>1, <1>7
  <2>2. x \in Nat /\ y \in Nat
    BY <1>5, <2>1
  <2>3. x = p[r - 1] - p[k] /\ y = p[r] - p[k]
    BY <2>1
  <2>4. x + HeaderLen <= y
    <3>1. r \in 1 .. NumRecords(file)
      BY <1>1, <2>1
    <3>2. file.len[r] \in Nat /\ file.len[r] >= HeaderLen /\ p[r] = p[r - 1] + file.len[r]
      BY <3>1, RecordTypes, TotalIs DEF IsTotal
    <3>3. p[r - 1] \in Nat /\ p[k] \in Nat
      BY <1>5, <2>1
    <3> HIDE DEF p, x, y, r
    <3> QED BY <1>1, <2>3, <3>2, <3>3
  <2>5. x + HeaderLen <= n => RecordEnd(data, x) = y
    <3> SUFFICES ASSUME x + HeaderLen <= n PROVE RecordEnd(data, x) = y
      OBVIOUS
    <3>1. x + HeaderLen <= Len(data)
      OBVIOUS
    <3> HIDE DEF x, r
    <3>2. RecordEnd(data, x) = Total(file)[r] - Total(file)[k]
      BY <2>1, <2>3, <3>1, EndInPlace DEF p
    <3> QED BY <2>3, <3>2 DEF p
  <2>6. /\ j + 1 <= l <=> x <= n
        /\ j + 1 <= l => ends[j + 1] = x
        /\ x <= n => IsEnd(data)[x]
    BY <1>7
  <2> HIDE DEF x, y, o, p, ends, n, l, r
  <2>7. ASSUME (j + 1) + 1 <= l PROVE y <= n /\ ends[(j + 1) + 1] = y
    <3>1. /\ j + 1 \in 1 .. l - 1 /\ (j + 1) + 1 \in 1 .. l /\ j + 1 <= l
      BY <1>4, <2>7
    <3>2. ends[j + 1] = x /\ RecordEnd(data, x) = ends[(j + 1) + 1]
      BY <1>4, <2>6, <3>1
    <3>3. ends[(j + 1) + 1] \in 0 .. n
      BY <1>4, <3>1
    <3>4. x + HeaderLen <= RecordEnd(data, x)
      BY <2>2, EndIsBehindHeader
    <3>5. x + HeaderLen <= n
      BY <1>1, <1>2, <2>2, <3>2, <3>3, <3>4
    <3> QED BY <1>2, <2>5, <3>2, <3>3, <3>5
  <2>8. ASSUME y <= n PROVE (j + 1) + 1 <= l /\ IsEnd(data)[y]
    <3>1. x <= n /\ x + HeaderLen <= n /\ x < y
      BY <1>1, <1>2, <2>2, <2>4, <2>8
    <3>2. j + 1 <= l /\ ends[j + 1] = x /\ IsEnd(data)[x] /\ RecordEnd(data, x) = y
      BY <2>5, <2>6, <3>1
    <3>3. y \in 0 .. Len(data) /\ x \in 0 .. y - HeaderLen
      BY <1>1, <1>2, <2>2, <2>4, <2>8 DEF n
    <3>4. IsEnd(data)[y]
      BY <1>2, <3>2, <3>3, IsEndSteps
    <3>5. PICK q \in 1 .. l : ends[q] = y
      BY <1>4, <3>3, <3>4 DEF n
    <3>6. ~(q <= j + 1)
      <4> SUFFICES ASSUME q <= j + 1 PROVE FALSE
        OBVIOUS
      <4>1. q \in 1 .. Len(ends) /\ j + 1 \in 1 .. Len(ends)
        BY <1>4, <3>2 DEF l
      <4>2. Increasing(ends)
        BY <1>4 DEF Increasing, l
      <4>3. ends[q] + ((j + 1) - q) <= ends[j + 1]
        BY <1>4, <4>1, <4>2, IncreasingSteps
      <4> DEFINE d == (j + 1) - q
      <4>4. d \in Nat
        BY <1>4
      <4> HIDE DEF d
      <4>5. y + d <= x
        BY <3>2, <3>5, <4>3 DEF d
      <4> QED BY <2>2, <3>1, <4>4, <4>5
    <3> QED BY <1>4, <3>4, <3>6
  <2>9. /\ (j + 1) + 1 <= l <=> y <= n
        /\ (j + 1) + 1 <= l => ends[(j + 1) + 1] = y
        /\ y <= n => IsEnd(data)[y]
    BY <2>7, <2>8
  <2> QED BY <2>9 DEF y
<1> HIDE DEF C
<1>8. 0 \in S
  BY <1>6
<1>9. ASSUME NEW j \in Nat, j \in S PROVE j + 1 \in S
  <2> SUFFICES ASSUME j + 1 <= Count - k PROVE C(j + 1)
    OBVIOUS
  <2>1. C(j)
    BY <1>1, <1>9
  <2> QED BY <1>7, <2>1
<1>10. \A j \in Nat : j \in S
  <2> HIDE DEF S
  <2> QED BY <1>8, <1>9, SetInduction
<1>11. ASSUME NEW j \in 0 .. Count - k
       PROVE  /\ j + 1 <= l <=> p[k + j] <= p[k] + n
              /\ j + 1 <= l => ends[j + 1] = p[k + j] - p[k]
  <2>1. j \in Nat /\ j <= Count - k /\ j \in S
    BY <1>1, <1>10
  <2>2. C(j)
    BY <2>1
  <2>3. /\ j + 1 <= l <=> o(j) <= n
        /\ j + 1 <= l => ends[j + 1] = o(j)
    BY <2>2 DEF C
  <2>4. o(j) = p[k + j] - p[k]
    OBVIOUS
  <2> HIDE DEF o, p, n, l, ends
  <2>5. o(j) <= n <=> p[k + j] <= p[k] + n
    BY <1>2, <1>5, <2>4
  <2> QED BY <2>3, <2>4, <2>5
<1> QED BY <1>11

(* How many records a turn pushes when its data holds the records from the *)
(* next one on.                                                            *)
LEMMA TurnCounts ==
  ASSUME WellFormed(file), NEW s \in Seq(Nat), Laid(file, s),
         NEW k \in 0 .. Count, k = Len(rows), k < Count,
         NEW data, From(file, s, k, data),
         NEW n \in Nat, n = NumComplete(Bounds(data))
  PROVE  /\ StopsAtCount \/ Len(s) = Total(file)[Count] => n <= Count - k
         /\ n <= Count - k => Bounds(data)[n + 1] = Total(file)[k + n] - Total(file)[k]
         /\ StopsAtCount /\ k + n < Count =>
              Len(data) - Last(Bounds(data)) < file.len[k + n + 1]
         /\ Total(file)[k] + Len(data) = Len(s) => n >= Count - k
         /\ Total(file)[k] + Len(data) = Len(s) /\ Len(s) = Total(file)[Count] =>
              Last(Bounds(data)) = Len(data)
<1> DEFINE p == Total(file)
           ends == Bounds(data)
           d == Len(data)
           l == Len(ends)
           c == Count - k
           last == Last(ends)
<1>1. /\ Count \in Nat /\ Count = NumRecords(file) /\ k \in Nat /\ c \in Nat /\ c > 0
      /\ k + c = Count
  BY RecordTypes DEF Count
<1>2. data \in Seq(Nat) /\ d \in Nat /\ p[k] + d <= Len(s)
  BY DEF From
<1>3. /\ l \in Nat \ {0} /\ \A r \in 1 .. l : ends[r] \in 0 .. d
      /\ \A r \in 1 .. l - 1 : ends[r] < ends[r + 1]
      /\ ends \in Seq(Nat)
  BY <1>2, BoundsRise DEF Rising
<1>4. last = ends[l] /\ last \in 0 .. d
  BY <1>3 DEF Last
<1>5. \A j \in 0 .. c : /\ j + 1 <= l <=> p[k + j] <= p[k] + d
                        /\ j + 1 <= l => ends[j + 1] = p[k + j] - p[k]
  BY ScanFindsRecords
<1>6. p[Count] <= Len(s)
  BY <1>1 DEF Laid
<1>7. n = IF StopsAtCount /\ c < l - 1 THEN c ELSE l - 1
  BY DEF NumComplete
<1>8. \A j \in 0 .. c : k + j \in 0 .. NumRecords(file) /\ p[k + j] \in Nat
  <2>1. \A j \in 0 .. c : k + j \in 0 .. NumRecords(file)
    BY <1>1
  <2> QED BY <2>1, TotalsRise
<1>9. p[k] \in Nat /\ p[Count] \in Nat
  <2>1. k \in 0 .. NumRecords(file) /\ Count \in 0 .. NumRecords(file)
    BY <1>1
  <2> QED BY <2>1, TotalsRise
<1>10. Len(s) \in Nat
  OBVIOUS
<1> HIDE DEF p, ends, d, l, c, last
<1>11. c \in 0 .. c /\ k + c = Count
  BY <1>1
(* All records are there: so is the end of the last one.                   *)
<1>12. ASSUME p[k] + d = Len(s) PROVE c + 1 <= l /\ ends[c + 1] = p[Count] - p[k]
  BY <1>5, <1>6, <1>11, <1>12
<1>13. ASSUME Len(s) = p[Count], c + 1 <= l PROVE l = c + 1 /\ last = d /\ p[k] + d = Len(s)
  <2>1. c + 1 \in 1 .. l /\ ends[c + 1] = p[Count] - p[k]
    BY <1>1, <1>3, <1>5, <1>11, <1>13
  <2>2. ends[c + 1] >= d
    <3> DEFINE x == p[Count]
               y == p[k]
               z == ends[c + 1]
    <3>1. x \in Nat /\ y \in Nat /\ z = x - y /\ y + d <= x
      BY <1>2, <1>9, <1>13, <2>1
    <3> HIDE DEF x, y, z
    <3>2. z >= d
      BY <1>2, <3>1
    <3> QED BY <3>2 DEF z
  <2>3. ends[c + 1] = d
    BY <1>2, <1>3, <2>1, <2>2
  <2>4. ~(c + 1 < l)
    <3> SUFFICES ASSUME c + 1 < l PROVE FALSE
      OBVIOUS
    <3>1. c + 1 \in 1 .. l - 1 /\ (c + 1) + 1 \in 1 .. l
      BY <1>1, <1>3
    <3>2. ends[c + 1] < ends[(c + 1) + 1] /\ ends[(c + 1) + 1] \in 0 .. d
      BY <1>3, <3>1
    <3> QED BY <1>2, <2>3, <3>2
  <2>5. l = c + 1
    BY <1>1, <1>3, <1>13, <2>4
  <2>6. p[k] + d = Len(s)
    <3> DEFINE x == p[Count]
               y == p[k]
    <3>1. x \in Nat /\ y \in Nat /\ d = x - y
      BY <1>9, <2>1, <2>3
    <3> HIDE DEF x, y
    <3>2. y + d = x
      BY <3>1
    <3> QED BY <1>13, <3>2 DEF x, y
  <2> QED BY <1>4, <2>3, <2>5, <2>6
<1>14. StopsAtCount \/ Len(s) = p[Count] => n <= c
  <2>1. CASE StopsAtCount
    BY <1>1, <1>3, <1>7, <2>1
  <2>2. CASE ~StopsAtCount /\ Len(s) = p[Count]
    <3>1. n = l - 1
      BY <1>7, <2>2
    <3>2. CASE c + 1 <= l
      BY <1>1, <1>13, <2>2, <3>1, <3>2
    <3>3. CASE ~(c + 1 <= l)
      BY <1>1, <1>3, <3>1, <3>3
    <3> QED BY <3>2, <3>3
  <2> QED BY <2>1, <2>2
<1>15. n \in Nat /\ n + 1 <= l
  BY <1>1, <1>3, <1>7
<1>16. ASSUME n <= c PROVE ends[n + 1] = p[k + n] - p[k]
  <2>1. n \in 0 .. c
    BY <1>1, <1>15, <1>16
  <2> QED BY <1>5, <1>15, <2>1
<1>17. ASSUME StopsAtCount, k + n < Count PROVE d - last < file.len[k + n + 1]
  <2>1. n = l - 1 /\ n \in 0 .. c /\ n + 1 \in 0 .. c
    BY <1>1, <1>3, <1>7, <1>15, <1>17
  <2>2. last = p[k + n] - p[k]
    BY <1>3, <1>4, <1>16, <2>1
  <2>3. ~(p[k + (n + 1)] <= p[k] + d)
    <3>1. ~((n + 1) + 1 <= l)
      BY <1>3, <2>1
    <3> QED BY <1>5, <2>1, <3>1
  <2>4. p[k + (n + 1)] = p[k + n] + file.len[k + n + 1]
    <3>1. /\ k + n + 1 \in 1 .. NumRecords(file) /\ (k + n + 1) - 1 = k + n
          /\ k + n + 1 = k + (n + 1)
      BY <1>1, <1>15, <1>17
    <3> QED BY <3>1, TotalIs DEF IsTotal, p
  <2> DEFINE x == p[k + n]
             y == p[k]
             z == p[k + (n + 1)]
             len == file.len[k + n + 1]
  <2>5. x \in Nat /\ y \in Nat /\ z \in Nat
    BY <1>8, <1>9, <2>1
  <2>6. len \in Nat
    <3>1. k + n + 1 \in 1 .. NumRecords(file)
      BY <1>1, <1>15, <1>17
    <3> QED BY <3>1, RecordTypes
  <2>7. last = x - y /\ ~(z <= y + d) /\ z = x + len
    BY <2>2, <2>3, <2>4
  <2> HIDE DEF x, y, z, len
  <2>8. d - last < len
    BY <1>2, <2>5, <2>6, <2>7
  <2> QED BY <2>8 DEF len
<1>18. ASSUME p[k] + d = Len(s) PROVE n >= c
  <2>1. c + 1 <= l
    BY <1>12, <1>18
  <2> QED BY <1>1, <1>3, <1>7, <2>1
<1>19. ASSUME p[k] + d = Len(s), Len(s) = p[Count] PROVE last = d
  BY <1>12, <1>13, <1>19
<1> QED BY <1>14, <1>16, <1>17, <1>18, <1>19 DEF p, ends, d, c, last

-----------------------------------------------------------------------------
(* The read that succeeds.                                                 *)

(* A sound file with records, whose grid blocks can be told from them.     *)
Promised == Count > 0 /\ Sound /\ (file.spatial => GridAtEndOnly \/ GridSeparable)

(* Which of the reads brings in the records of such a file.                *)
Sure(a) ==
  \/ a \in {"raw", "plain"}
  \/ a = "filtered" /\ ~GridAtEndOnly
  \/ a = "whole" /\ GridAtEndOnly

(* The reads that are still to be tried are the last of those there were.  *)
Fit ==
  pc # "done" =>
    \/ /\ ~(file.spatial /\ file.hasVar)
       /\ \/ compressed /\ attempts = <<"plain">>
          \/ ~compressed /\ attempts = <<"raw">>
    \/ /\ file.spatial /\ file.hasVar /\ compressed
       /\ attempts \in {<<"all", "filtered", "whole">>, <<"filtered", "whole">>, <<"whole">>}

Promise ==
  Promised =>
    /\ result # "error"
    /\ pc # "done" => GridAtEndOnly \/ attempts # <<"whole">>
    /\ pc = "walk" => Len(rows) < Count
    /\ pc = "walk" /\ Sure(attempt) => Len(FlattenSeq(rows)) = Total(file)[Len(rows)]
    /\ pc = "check" /\ Sure(attempt) => Len(rows) = Count

PInv == IInv /\ Fit /\ Promise

(* What is promised depends on the file alone.                             *)
LEMMA PromiseStays ==
  ASSUME UNCHANGED fixed
  PROVE  /\ Promised' <=> Promised
         /\ GridAtEndOnly' <=> GridAtEndOnly
         /\ Count' = Count /\ Total(file)' = Total(file)
         /\ \A a : Sure(a)' <=> Sure(a)
<1>1. file' = file /\ compressed' = compressed /\ estimate' = estimate
  BY DEF fixed
<1>2. Count' = Count /\ Total(file)' = Total(file)
  BY <1>1 DEF Count
<1>3. GridAtEndOnly' <=> GridAtEndOnly
  BY <1>1 DEF GridAtEndOnly, Count
<1>4. GridSeparable' <=> GridSeparable
  BY <1>1 DEF GridSeparable, BlockSize
<1>5. Sound' <=> Sound
  BY <1>1 DEF Sound, BlockSize, Count
<1>6. Promised' <=> Promised
  BY <1>1, <1>2, <1>3, <1>4, <1>5 DEF Promised
<1>7. \A a : Sure(a)' <=> Sure(a)
  BY <1>3 DEF Sure
<1> QED BY <1>2, <1>3, <1>6, <1>7

(* A read begins with as many rows as bytes.                               *)
LEMMA NoRows ==
  ASSUME NEW f, WellFormed(f)
  PROVE  Len(FlattenSeq(<<>>)) = 0 /\ Total(f)[Len(<<>>)] = 0
<1>1. FlattenSeq(<<>>) = <<>> /\ Len(<<>>) = 0
  BY FlattenEmpty
<1>2. Total(f)[0] = 0
  BY TotalIs DEF IsTotal
<1> QED BY <1>1, <1>2

(* The read that succeeds is among those to be tried.                      *)
LEMMA InitPInv == Init => PInv
<1> SUFFICES ASSUME Init PROVE PInv
  OBVIOUS
<1>1. IInv /\ WellFormed(file) /\ Count \in Nat
  BY InitIInv, TypedFacts DEF IInv
<1>2. Fit
  BY DEF Init, AttemptsFor, Fit
<1>3. Promise
  <2> SUFFICES ASSUME Promised
               PROVE  /\ result # "error" /\ pc = "walk" /\ rows = <<>>
                      /\ attempts # <<"whole">>
    <3>1. Len(<<>>) = 0
      OBVIOUS
    <3> QED BY <1>1, <3>1, NoRows DEF Promise, Promised
  <2>1. Count # 0
    BY <1>1 DEF Promised
  <2>2. attempts \in {<<"raw">>, <<"plain">>, <<"all", "filtered", "whole">>}
    BY DEF Init, AttemptsFor
  <2>3. attempts # <<"whole">>
    BY <2>2
  <2> QED BY <2>1, <2>3 DEF Init
<1> QED BY <1>1, <1>2, <1>3 DEF PInv

(* A read that fails is not the one that brings in the records, and there  *)
(* is one after it.                                                        *)
LEMMA FailureKeepsPromise ==
  ASSUME PInv, pc # "done", AttemptFails, Promised => ~Sure(attempt)
  PROVE  PInv'
<1>1. /\ UNCHANGED fixed /\ rows' = <<>> /\ attempts' = Tail(attempts)
      /\ IF Len(attempts) = 1 THEN pc' = "done" /\ result' = "error"
         ELSE pc' = "walk" /\ UNCHANGED result
  BY DEF AttemptFails
<1>2. IInv' /\ WellFormed(file) /\ Count \in Nat
  BY FailureKeeps, TypedFacts DEF PInv, IInv
<1>3. Tail(<<"all", "filtered", "whole">>) = <<"filtered", "whole">>
  OBVIOUS
<1>4. Tail(<<"filtered", "whole">>) = <<"whole">>
  OBVIOUS
<1>5. Fit'
  <2> SUFFICES ASSUME Len(attempts) # 1 PROVE Fit'
    BY <1>1 DEF Fit
  <2>1. attempts \notin {<<"raw">>, <<"plain">>, <<"whole">>}
    OBVIOUS
  <2>2. /\ file.spatial /\ file.hasVar /\ compressed
        /\ attempts \in {<<"all", "filtered", "whole">>, <<"filtered", "whole">>}
    BY <2>1 DEF PInv, Fit
  <2>3. attempts' \in {<<"filtered", "whole">>, <<"whole">>}
    BY <1>1, <1>3, <1>4, <2>2, Zenon
  <2> QED BY <1>1, <2>2, <2>3 DEF Fit, fixed
<1>6. Promise'
  <2> SUFFICES ASSUME Promised PROVE Promise'
    BY <1>1, PromiseStays DEF Promise
  <2>1. /\ ~Sure(attempt) /\ result # "error"
        /\ GridAtEndOnly \/ attempts # <<"whole">>
    BY DEF PInv, Promise
  <2>2. /\ file.spatial /\ file.hasVar /\ compressed
        /\ attempts \in {<<"all", "filtered", "whole">>, <<"filtered", "whole">>, <<"whole">>}
    <3>1. Head(<<"plain">>) = "plain" /\ Head(<<"raw">>) = "raw"
      OBVIOUS
    <3>2. attempts \notin {<<"plain">>, <<"raw">>}
      BY <2>1, <3>1, Zenon DEF Sure, attempt
    <3> QED BY <3>2 DEF PInv, Fit
  <2>3. attempts # <<"whole">>
    <3>1. Head(<<"whole">>) = "whole"
      OBVIOUS
    <3>2. attempts = <<"whole">> => GridAtEndOnly /\ attempt = "whole"
      BY <2>1, <3>1, Zenon DEF attempt
    <3> QED BY <2>1, <3>2 DEF Sure
  <2>4. Len(attempts) # 1
    BY <2>2, <2>3
  <2>5. GridAtEndOnly \/ attempts' # <<"whole">>
    <3>1. CASE attempts = <<"all", "filtered", "whole">>
      <4>1. <<"filtered", "whole">> # <<"whole">>
        OBVIOUS
      <4>2. attempts' = <<"filtered", "whole">>
        BY <1>1, <1>3, <3>1, Zenon
      <4> QED BY <4>1, <4>2, Zenon
    <3>2. CASE attempts = <<"filtered", "whole">>
      <4>1. Head(<<"filtered", "whole">>) = "filtered"
        OBVIOUS
      <4>2. attempt = "filtered"
        BY <3>2, <4>1, Zenon DEF attempt
      <4> QED BY <2>1, <4>2 DEF Sure
    <3> QED BY <2>2, <2>3, <3>1, <3>2
  <2>6. /\ pc' = "walk" /\ result' # "error" /\ rows' = <<>> /\ Len(rows') = 0
        /\ Count' = Count /\ Count > 0 /\ file' = file
        /\ (GridAtEndOnly' <=> GridAtEndOnly)
    BY <1>1, <2>1, <2>4, PromiseStays DEF Promised, fixed
  <2>7. Len(rows') < Count'
    BY <1>2, <2>6
  <2>8. Len(FlattenSeq(rows')) = Total(file')[Len(rows')]
    BY <1>2, <2>6, NoRows
  <2> QED BY <2>5, <2>6, <2>7, <2>8 DEF Promise
<1> QED BY <1>2, <1>5, <1>6 DEF PInv

(* The data of such a read.                                                *)
LEMMA SureIsLaid ==
  ASSUME PInv, pc # "done", GridTold(file), Promised, Sure(attempt)
  PROVE  /\ Everything(attempt) \in Seq(Nat) /\ Laid(file, Everything(attempt))
         /\ attempt = "plain" => Len(Everything(attempt)) = Total(file)[Count]
         /\ attempt = "filtered" => file.spatial /\ file.hasVar /\ ~GridAtEndOnly
         /\ attempt \in {"plain", "filtered", "whole"} => compressed
<1>1. Typed /\ Sound /\ Count > 0 /\ WellFormed(file)
  BY TypedFacts DEF PInv, IInv, Promised
<1>2. /\ \/ ~(file.spatial /\ file.hasVar) /\ attempt \in {"plain", "raw"}
         \/ file.spatial /\ file.hasVar /\ attempt \in {"all", "filtered", "whole"}
      /\ attempt \in {"plain", "filtered", "whole"} => compressed
  <2>1. Head(<<"plain">>) = "plain" /\ Head(<<"raw">>) = "raw" /\ Head(<<"whole">>) = "whole"
    OBVIOUS
  <2>2. Head(<<"filtered", "whole">>) = "filtered"
    OBVIOUS
  <2>3. Head(<<"all", "filtered", "whole">>) = "all"
    OBVIOUS
  <2> QED BY <2>1, <2>2, <2>3, Zenon DEF PInv, Fit, attempt
<1>3. CASE attempt = "filtered"
  <2>1. file.spatial /\ file.hasVar /\ ~GridAtEndOnly /\ GridSeparable
    BY <1>2, <1>3 DEF Sure, Promised
  <2>2. Holds(file, Everything("filtered"))
    BY <1>1, <2>1, FilteredHolds
  <2> QED BY <1>1, <1>2, <1>3, <2>1, <2>2, HoldsLaid DEF Holds
<1>4. CASE attempt # "filtered"
  <2>1. file.spatial /\ file.hasVar => GridAtEndOnly
    BY <1>2, <1>4 DEF Sure
  <2>2. Holds(file, Everything(attempt))
    BY <1>1, <1>4, <2>1, WholeHolds
  <2>3. attempt = "plain" => Len(Everything(attempt)) = Total(file)[Count]
    BY <1>1, <1>2, <1>4, WholeEnds
  <2> QED BY <1>1, <1>2, <1>4, <2>2, <2>3, HoldsLaid DEF Holds
<1> QED BY <1>3, <1>4

(* The data of a turn follows the rows there are in the file's data.       *)
LEMMA TurnData ==
  ASSUME WellFormed(file), NEW a, NEW x \in Seq(Nat), NEW data \in Seq(Nat),
         NEW to \in 0 .. NumBlocks(file), BlocksOf(file, a, 0, to) = x \o data,
         NEW k, Len(x) = Total(file)[k]
  PROVE  /\ From(file, Everything(a), k, data)
         /\ to = NumBlocks(file) => Total(file)[k] + Len(data) = Len(Everything(a))
<1> DEFINE N == NumBlocks(file)
           s == Everything(a)
           y == BlocksOf(file, a, 0, to)
           z == BlocksOf(file, a, to, N)
           p == Total(file)[k]
           m == Len(x)
           n == Len(data)
           j == Len(y)
           l == Len(z)
<1>1. N \in Nat /\ to \in Nat /\ to <= N /\ N \in to .. N /\ N <= N /\ 0 <= to
  BY BlockTypes
<1>2. y \in Seq(Nat) /\ z \in Seq(Nat) /\ BlocksOf(file, a, N, N) = <<>>
  <2>1. y \in Seq(Nat)
    BY <1>1, BlocksStep
  <2>2. z \in Seq(Nat)
    BY <1>1, BlocksStep
  <2>3. BlocksOf(file, a, N, N) = <<>>
    BY <1>1, BlocksStep
  <2> QED BY <2>1, <2>2, <2>3
<1>3. s = y \o z
  BY <1>1, BlocksJoin DEF Everything
<1>4. y = x \o data /\ m = p /\ m = Len(x) /\ n = Len(data) /\ j = Len(y) /\ l = Len(z)
  OBVIOUS
<1>5. to = N => l = 0
  BY <1>2
<1> HIDE DEF s, y, z, p, m, n, j, l
<1>6. /\ j = m + n /\ m \in Nat /\ n \in Nat
      /\ \A i \in 1 .. m + n : i > m => i - m \in 1 .. n /\ y[i] = data[i - m]
  <2>1. /\ Len(y) = m + n /\ m \in Nat /\ n \in Nat
        /\ \A i \in 1 .. m + n : i > m => i - m \in 1 .. n /\ y[i] = data[i - m]
    <3>1. x \in Seq(Nat) /\ data \in Seq(Nat) /\ y = x \o data /\ m = Len(x) /\ n = Len(data)
      BY <1>4
    <3> QED BY ONLY <3>1, ConcatIs
  <2> QED BY <1>4, <2>1
<1>7. /\ Len(s) = j + l /\ l \in Nat
      /\ \A i \in 1 .. j : s[i] = y[i]
  BY <1>2, <1>3, <1>4, ConcatIs
<1>8. ASSUME NEW i \in 1 .. n PROVE data[i] = s[p + i]
  <2>1. m + i \in 1 .. m + n /\ m + i > m /\ (m + i) - m = i /\ m + i \in 1 .. j
    BY <1>6
  <2>2. y[m + i] = data[i]
    BY <1>6, <2>1
  <2>3. s[m + i] = y[m + i]
    BY <1>7, <2>1
  <2> QED BY <1>4, <2>2, <2>3
<1>9. p + n <= Len(s) /\ (to = N => p + n = Len(s))
  BY <1>4, <1>5, <1>6, <1>7
<1> QED BY <1>8, <1>9 DEF From, n, p, s

(* How long the rows are after a turn.                                     *)
LEMMA PushedLength ==
  ASSUME WellFormed(file), NEW rs \in Seq(Seq(Nat)), NEW data \in Seq(Nat),
         NEW n \in 0 .. Len(Bounds(data)) - 1,
         NEW new, new = rs \o Records(data, Bounds(data), n)
  PROVE  /\ Len(new) = Len(rs) + n
         /\ Len(FlattenSeq(new)) = Len(FlattenSeq(rs)) + Bounds(data)[n + 1]
         /\ Bounds(data)[n + 1] \in Nat /\ Len(FlattenSeq(rs)) \in Nat
<1> DEFINE ends == Bounds(data)
           some == Records(data, ends, n)
           x == FlattenSeq(rs)
           e == ends[n + 1]
           head == SubSeq(data, 1, e)
           l == Len(ends)
           d == Len(data)
<1>1. Rising(ends, d)
  BY BoundsRise
<1>2. l \in Nat \ {0} /\ d \in Nat /\ \A r \in 1 .. l : ends[r] \in 0 .. d
  BY <1>1 DEF Rising
<1>4. FlattenSeq(new) = x \o head
  BY <1>1, RecordsFlat
<1>5. x \in Seq(Nat)
  <2>1. <<>> \in Seq(Nat)
    OBVIOUS
  <2> QED BY <2>1, BytesAppend
<1>6. n \in 0 .. l - 1
  OBVIOUS
<1>7. e \in 0 .. d
  <2> HIDE DEF l, d, ends
  <2>1. n + 1 \in 1 .. l
    BY <1>2, <1>6
  <2> QED BY <1>2, <2>1
<1>8. head \in Seq(Nat) /\ Len(head) = e
  <2>1. 1 \in 1 .. Len(data) + 1 /\ e \in 1 - 1 .. Len(data)
    BY <1>2, <1>7
  <2> HIDE DEF e, ends
  <2>2. head \in Seq(Nat) /\ Len(head) = e - 1 + 1
    BY <2>1, SubSeqProperties
  <2> QED BY <1>2, <1>7, <2>2
<1>9. some \in Seq(Seq(Nat)) /\ Len(some) = n
  BY RecordsParsed
<1>10. Len(new) = Len(rs) + n
  <2> HIDE DEF some
  <2> QED BY <1>9, ConcatProperties DEF some
<1>11. Len(FlattenSeq(new)) = Len(x) + e /\ Len(x) \in Nat
  <2> HIDE DEF x, head, e
  <2> QED BY <1>4, <1>5, <1>8, ConcatProperties, LenProperties
<1> QED BY <1>2, <1>7, <1>10, <1>11

(* What a turn of the read that succeeds finds.                            *)
LEMMA SureTurn ==
  ASSUME PInv, pc = "walk", Chunked, GridTold(file), Promised, Sure(attempt),
         NEW to \in blockIdx .. NumListed, NEW data \in Seq(Nat), NEW n \in Nat,
         BlocksOf(file, attempt, 0, to) = FlattenSeq(rows) \o data,
         n = NumComplete(Bounds(data))
  PROVE  /\ n <= Count - Len(rows)
         /\ Bounds(data)[n + 1] = Total(file)[Len(rows) + n] - Total(file)[Len(rows)]
         /\ StopsAtCount /\ Len(rows) + n < Count =>
              Len(data) - Last(Bounds(data)) < file.len[Len(rows) + n + 1]
         /\ to = NumListed => n >= Count - Len(rows)
         /\ to = NumListed /\ ~StopsAtCount => Last(Bounds(data)) = Len(data)
         /\ Len(FlattenSeq(rows)) = Total(file)[Len(rows)]
         /\ attempt \in {"plain", "filtered"} /\ compressed
         /\ \A b \in blockIdx + 1 .. to : Decompresses(b)
<1> DEFINE s == Everything(attempt)
           x == FlattenSeq(rows)
           k == Len(rows)
           p == Total(file)
<1>1. /\ Typed /\ Sound /\ Count > 0 /\ WellFormed(file) /\ Count \in Nat
      /\ NumBlocks(file) \in Nat /\ NumListed = NumBlocks(file)
      /\ blockIdx \in Nat /\ rows \in Seq(Seq(Nat))
  BY TypedFacts, SoundFacts DEF PInv, IInv, Promised, Typed
<1>2. /\ k < Count /\ Len(x) = p[k]
  BY DEF PInv, Promise
<1>3. k \in 0 .. Count
  <2>1. k \in Nat
    BY <1>1
  <2> QED BY <1>1, <1>2, <2>1
<1>4. /\ s \in Seq(Nat) /\ Laid(file, s)
      /\ attempt = "plain" => Len(s) = p[Count]
      /\ attempt \in {"plain", "filtered", "whole"} => compressed
  BY SureIsLaid
<1>5. attempt \in {"plain", "filtered"} /\ (StopsAtCount <=> attempt = "filtered")
  BY DEF Sure, Chunked, StopsAtCount
<1>6. x \in Seq(Nat)
  <2>1. <<>> \in Seq(Nat)
    OBVIOUS
  <2> QED BY <1>1, <2>1, BytesAppend
<1>7. to \in 0 .. NumBlocks(file)
  BY <1>1
<1>8. From(file, s, k, data) /\ (to = NumBlocks(file) => p[k] + Len(data) = Len(s))
  <2> HIDE DEF x, k
  <2>1. BlocksOf(file, attempt, 0, to) = x \o data
    BY DEF x
  <2> QED BY <1>1, <1>2, <1>6, <1>7, <2>1, TurnData
<1>9. /\ StopsAtCount \/ Len(s) = p[Count] => n <= Count - k
      /\ n <= Count - k => Bounds(data)[n + 1] = p[k + n] - p[k]
      /\ StopsAtCount /\ k + n < Count =>
           Len(data) - Last(Bounds(data)) < file.len[k + n + 1]
      /\ p[k] + Len(data) = Len(s) => n >= Count - k
      /\ p[k] + Len(data) = Len(s) /\ Len(s) = p[Count] =>
           Last(Bounds(data)) = Len(data)
  <2> HIDE DEF s
  <2> QED BY <1>1, <1>2, <1>3, <1>4, <1>8, TurnCounts
<1>10. n <= Count - k
  BY <1>4, <1>5, <1>9
<1>11. ASSUME NEW b \in blockIdx + 1 .. to PROVE Decompresses(b)
  <2>1. b \in 1 .. NumBlocks(file)
    BY <1>1
  <2> QED BY <1>1, <1>4, <1>5, <2>1, SoundFacts
<1> QED BY <1>1, <1>2, <1>4, <1>5, <1>8, <1>9, <1>10, <1>11

(* It fails at no chunk: its blocks decompress, what it carries over is    *)
(* part of one record, and in the last chunk nothing is left over.         *)
LEMMA ChunkKeepsPromise ==
  ASSUME PInv, GridTold(file), CarryFits(file), Chunk
  PROVE  PInv'
<1> DEFINE k == Len(rows)
           p == Total(file)
<1>1. /\ IInv /\ Typed /\ WellFormed(file) /\ Count \in Nat /\ rows \in Seq(Seq(Nat))
      /\ k \in Nat /\ IInv'
  BY TypedFacts, NextIInv DEF PInv, IInv, Typed, Next
<1>2. /\ pc = "walk" /\ Chunked /\ k < Count
      /\ \E to \in blockIdx .. NumListed : \E data \in Seq(Nat) :
           \E n \in 0 .. Len(Bounds(data)) - 1 :
             /\ BlocksOf(file, attempt, 0, to) = FlattenSeq(rows) \o data
             /\ n = NumComplete(Bounds(data))
             /\ to = NumListed <=> IsLastBatch
             /\ \/ /\ AttemptFails
                   /\ \/ \E b \in blockIdx + 1 .. to : ~Decompresses(b)
                      \/ ChunkError(data, Bounds(data), n)
                \/ /\ rows' = rows \o Records(data, Bounds(data), n)
                   /\ pc' = IF LeavesLoop(n) THEN "check" ELSE "walk"
                   /\ UNCHANGED <<fixed, attempts, result>>
  BY <1>1, ChunkTurn
<1>3. PICK to \in blockIdx .. NumListed, data \in Seq(Nat) :
           \E n \in 0 .. Len(Bounds(data)) - 1 :
             /\ BlocksOf(file, attempt, 0, to) = FlattenSeq(rows) \o data
             /\ n = NumComplete(Bounds(data))
             /\ to = NumListed <=> IsLastBatch
             /\ \/ /\ AttemptFails
                   /\ \/ \E b \in blockIdx + 1 .. to : ~Decompresses(b)
                      \/ ChunkError(data, Bounds(data), n)
                \/ /\ rows' = rows \o Records(data, Bounds(data), n)
                   /\ pc' = IF LeavesLoop(n) THEN "check" ELSE "walk"
                   /\ UNCHANGED <<fixed, attempts, result>>
  BY <1>2
<1>4. PICK n \in 0 .. Len(Bounds(data)) - 1 :
             /\ BlocksOf(file, attempt, 0, to) = FlattenSeq(rows) \o data
             /\ n = NumComplete(Bounds(data))
             /\ to = NumListed <=> IsLastBatch
             /\ \/ /\ AttemptFails
                   /\ \/ \E b \in blockIdx + 1 .. to : ~Decompresses(b)
                      \/ ChunkError(data, Bounds(data), n)
                \/ /\ rows' = rows \o Records(data, Bounds(data), n)
                   /\ pc' = IF LeavesLoop(n) THEN "check" ELSE "walk"
                   /\ UNCHANGED <<fixed, attempts, result>>
  BY <1>3
<1> DEFINE ends == Bounds(data)
<1>5. n \in Nat
  OBVIOUS
<1>6. ASSUME Promised, Sure(attempt)
      PROVE  /\ n <= Count - k
             /\ ends[n + 1] = p[k + n] - p[k]
             /\ StopsAtCount /\ k + n < Count => Len(data) - Last(ends) < file.len[k + n + 1]
             /\ to = NumListed => n >= Count - k
             /\ to = NumListed /\ ~StopsAtCount => Last(ends) = Len(data)
             /\ Len(FlattenSeq(rows)) = p[k]
             /\ attempt \in {"plain", "filtered"} /\ compressed
             /\ \A b \in blockIdx + 1 .. to : Decompresses(b)
  BY <1>2, <1>4, <1>5, <1>6, SureTurn
<1>7. CASE /\ AttemptFails
           /\ \/ \E b \in blockIdx + 1 .. to : ~Decompresses(b)
              \/ ChunkError(data, ends, n)
  <2>1. ASSUME Promised, Sure(attempt) PROVE FALSE
    <3>1. ChunkError(data, ends, n)
      BY <1>6, <1>7, <2>1
    <3>2. CASE ~StopsAtCount /\ IsLastBatch /\ Last(ends) # Len(data)
      BY <1>4, <1>6, <2>1, <3>2
    <3>3. CASE StopsAtCount /\ ~LeavesLoop(n) /\ Len(data) - Last(ends) > MaxCarry
      <4>1. k + n < Count
        BY <1>1, <1>5, <3>3 DEF LeavesLoop
      <4>2. k + n + 1 \in 1 .. NumRecords(file)
        BY <1>1, <1>5, <4>1 DEF Count
      <4>3. attempt = "filtered" /\ file.spatial /\ file.hasVar /\ ~GridAtEndOnly
        <5>1. attempt = "filtered"
          BY <1>6, <2>1, <3>3 DEF StopsAtCount
        <5> QED BY <1>2, <2>1, <5>1, SureIsLaid
      <4>4. \E b \in file.grid : BlockStart(file, b) < file.start[NumRecords(file)]
        <5>1. \A b \in file.grid : BlockStart(file, b) \in Nat
          <6>1. file.grid \subseteq 1 .. NumBlocks(file)
            BY <1>1 DEF WellFormed, BlocksInOrder
          <6> QED BY <1>1, <6>1, BlockTypes
        <5>2. PICK b \in file.grid : Count > 0 /\ ~(BlockStart(file, b) >= file.start[Count])
          BY <4>3 DEF GridAtEndOnly
        <5>3. file.start[Count] \in Nat
          <6>1. Count \in 1 .. NumRecords(file)
            BY <1>1, <5>2 DEF Count
          <6> QED BY <1>1, <6>1, RecordTypes
        <5>4. BlockStart(file, b) < file.start[Count]
          BY <5>1, <5>2, <5>3
        <5> QED BY <5>4 DEF Count
      <4>5. file.len[k + n + 1] <= MaxCarry + 1 /\ file.len[k + n + 1] \in Nat
        BY <1>1, <4>2, <4>3, <4>4, RecordTypes DEF CarryFits
      <4>6. Len(data) - Last(ends) < file.len[k + n + 1]
        BY <1>6, <2>1, <3>3, <4>1
      <4>7. Len(data) \in Nat /\ Last(ends) \in Nat /\ MaxCarry \in Nat
        <5>1. Rising(ends, Len(data))
          BY BoundsRise
        <5> DEFINE l == Len(ends)
        <5>2. l \in Nat \ {0} /\ \A r \in 1 .. l : ends[r] \in 0 .. Len(data)
          BY <5>1 DEF Rising
        <5>3. Last(ends) = ends[l]
          BY DEF Last
        <5> HIDE DEF l, ends
        <5>4. Last(ends) \in 0 .. Len(data)
          BY <5>2, <5>3
        <5> QED BY <5>4, BulkAssumption
      <4> DEFINE d == Len(data)
                 last == Last(ends)
                 len == file.len[k + n + 1]
      <4>8. /\ d \in Nat /\ last \in Nat /\ len \in Nat /\ d - last < len /\ len <= MaxCarry + 1
            /\ d - last > MaxCarry /\ MaxCarry \in Nat
        BY <3>3, <4>5, <4>6, <4>7
      <4> HIDE DEF d, last, len
      <4> QED BY ONLY <4>8
    <3> QED BY <3>1, <3>2, <3>3 DEF ChunkError
  <2> QED BY <1>2, <1>7, <2>1, FailureKeepsPromise
<1>8. CASE /\ rows' = rows \o Records(data, ends, n)
           /\ pc' = IF LeavesLoop(n) THEN "check" ELSE "walk"
           /\ UNCHANGED <<fixed, attempts, result>>
  <2>1. /\ UNCHANGED fixed /\ attempts' = attempts /\ result' = result /\ attempt' = attempt
        /\ file' = file /\ compressed' = compressed /\ pc' \in {"check", "walk"}
    BY <1>8 DEF fixed, attempt
  <2>2. Fit'
    BY <1>2, <2>1 DEF PInv, Fit
  <2>3. /\ Len(rows') = k + n
        /\ Len(FlattenSeq(rows')) = Len(FlattenSeq(rows)) + ends[n + 1]
        /\ ends[n + 1] \in Nat /\ Len(FlattenSeq(rows)) \in Nat
    <3> DEFINE new == rows'
    <3>1. new = rows \o Records(data, Bounds(data), n)
      BY <1>8
    <3> HIDE DEF new, ends
    <3>2. /\ Len(new) = Len(rows) + n
          /\ Len(FlattenSeq(new)) = Len(FlattenSeq(rows)) + Bounds(data)[n + 1]
          /\ Bounds(data)[n + 1] \in Nat /\ Len(FlattenSeq(rows)) \in Nat
      BY <1>1, <3>1, PushedLength
    <3> QED BY <3>2 DEF new, ends
  <2>4. Promise'
    <3> SUFFICES ASSUME Promised PROVE Promise'
      BY <2>1, PromiseStays DEF Promise
    <3>1. /\ result # "error" /\ (GridAtEndOnly \/ attempts # <<"whole">>)
      BY <1>2 DEF PInv, Promise
    <3>2. /\ Count' = Count /\ (Sure(attempt)' <=> Sure(attempt))
          /\ (GridAtEndOnly' <=> GridAtEndOnly) /\ Total(file)' = p
      BY <2>1, PromiseStays DEF Sure
    <3>3. pc' = "walk" => k + n < Count
      BY <1>1, <1>5, <1>8 DEF LeavesLoop
    <3>4. ASSUME Sure(attempt) PROVE Len(FlattenSeq(rows')) = p[k + n]
      <4> DEFINE x == Len(FlattenSeq(rows))
                 e == ends[n + 1]
                 y == p[k + n]
                 z == p[k]
      <4>1. x = z /\ e = y - z
        BY <1>6, <3>4
      <4>2. y \in Nat /\ z \in Nat
        <5>1. k \in 0 .. NumRecords(file) /\ k + n \in 0 .. NumRecords(file)
          BY <1>1, <1>2, <1>5, <1>6, <3>4 DEF Count
        <5> QED BY <1>1, <5>1, TotalsRise
      <4> HIDE DEF x, e, y, z
      <4>3. x + e = y
        BY <4>1, <4>2
      <4> QED BY <2>3, <4>3 DEF x, e, y
    <3>5. ASSUME Sure(attempt), pc' = "check" PROVE k + n = Count
      <4>1. n <= Count - k /\ (to = NumListed => n >= Count - k)
        BY <1>6, <3>5
      <4>2. k + n >= Count \/ (IsLastBatch /\ n = 0)
        BY <1>8, <3>5 DEF LeavesLoop
      <4>3. to = NumListed <=> IsLastBatch
        BY <1>4
      <4>4. n >= Count - k
        <5>1. CASE k + n >= Count
          BY <1>1, <1>5, <5>1
        <5>2. CASE IsLastBatch
          BY <4>1, <4>3, <5>2
        <5> QED BY <4>2, <5>1, <5>2
      <4> HIDE DEF k
      <4> QED BY <1>1, <1>5, <4>1, <4>4
    <3> QED BY <2>1, <2>3, <3>1, <3>2, <3>3, <3>4, <3>5 DEF Promise
  <2> QED BY <1>1, <2>2, <2>4 DEF PInv
<1> QED BY <1>4, <1>7, <1>8

(* The read that succeeds does not run out of blocks with records missing. *)
LEMMA LeftWithAll ==
  ASSUME PInv, GridTold(file), Promised, Sure(attempt),
         pc = "walk", Chunked, ~InLoop
  PROVE  FALSE
<1> DEFINE s == Everything(attempt)
           x == FlattenSeq(rows)
           k == Len(rows)
           p == Total(file)
<1>1. /\ Typed /\ NothingLost /\ Sound /\ Count > 0 /\ WellFormed(file) /\ Count \in Nat
      /\ NumBlocks(file) \in Nat /\ NumListed = NumBlocks(file)
      /\ blockIdx \in 0 .. NumListed /\ rows \in Seq(Seq(Nat))
  BY TypedFacts, SoundFacts DEF PInv, IInv, Promised, Typed
<1>2. k \in Nat /\ k < Count /\ Len(x) = p[k]
  BY <1>1 DEF PInv, Promise
<1>3. blockIdx = NumBlocks(file) /\ carry = <<>>
  BY <1>1, <1>2 DEF InLoop
<1>4. s = x
  <2>1. x \in Seq(Nat)
    <3>1. <<>> \in Seq(Nat)
      OBVIOUS
    <3> QED BY <1>1, <3>1, BytesAppend
  <2>2. x \o carry = BlockData(0, blockIdx)
    BY <1>1 DEF NothingLost
  <2>3. BlockData(0, blockIdx) = s
    BY <1>3, BlockDataIs DEF Everything
  <2> HIDE DEF x
  <2>4. x \o <<>> = x
    BY <2>1, ConcatEmptySeq
  <2> QED BY <1>3, <2>2, <2>3, <2>4
<1>5. Laid(file, s)
  BY <1>1, SureIsLaid
<1>6. p[Count] <= p[k]
  BY <1>2, <1>4, <1>5 DEF Laid, Count
<1>7. p[k] \in Nat /\ p[Count] \in Nat /\ p[k] < p[Count]
  <2>1. k \in 0 .. NumRecords(file) /\ Count \in 0 .. NumRecords(file)
    BY <1>1, <1>2 DEF Count
  <2> QED BY <1>1, <1>2, <2>1, TotalsRise
<1> HIDE DEF p
<1> QED BY <1>6, <1>7

(* It does not fail the check of the count.                                *)
LEMMA CheckCountKeepsPromise ==
  ASSUME PInv, GridTold(file), CheckCount
  PROVE  PInv'
<1>1. pc # "done" /\ (pc = "check" \/ (pc = "walk" /\ Chunked /\ ~InLoop))
  <2>1. pc = "check" \/ (pc = "walk" /\ Chunked /\ ~InLoop)
    BY DEF CheckCount
  <2> QED BY <2>1
<1>2. CASE Len(rows) # Count
  <2>1. ASSUME Promised, Sure(attempt) PROVE FALSE
    <3>1. pc # "check"
      BY <1>2, <2>1 DEF PInv, Promise
    <3> QED BY <1>1, <2>1, <3>1, LeftWithAll
  <2>2. AttemptFails
    BY <1>2 DEF CheckCount
  <2> QED BY <1>1, <2>1, <2>2, FailureKeepsPromise
<1>3. CASE Len(rows) = Count
  <2>1. pc' = "done" /\ result' = "ok" /\ UNCHANGED fixed
    BY <1>3 DEF CheckCount
  <2>2. IInv'
    BY CheckCountKeeps DEF PInv
  <2> QED BY <2>1, <2>2 DEF PInv, Fit, Promise
<1> QED BY <1>2, <1>3

(* The whole file holds at least as many records as its header says.       *)
LEMMA WholeFound ==
  ASSUME PInv, pc = "walk", ~Chunked, GridTold(file), Promised, Sure(attempt)
  PROVE  /\ Len(Bounds(BlockData(0, NumListed))) - 1 >= Count
         /\ compressed => \A b \in 1 .. NumListed : Decompresses(b)
<1> DEFINE s == Everything(attempt)
           p == Total(file)
           data == BlockData(0, NumListed)
<1>1. /\ Typed /\ Sound /\ Count > 0 /\ WellFormed(file) /\ Count \in Nat
      /\ NumListed = NumBlocks(file)
      /\ compressed => \A b \in 1 .. NumBlocks(file) : Decompresses(b)
  BY TypedFacts, SoundFacts DEF PInv, IInv, Promised
<1>2. data = s
  BY <1>1, BlockDataIs DEF Everything
<1>3. s \in Seq(Nat) /\ Laid(file, s)
  BY SureIsLaid
<1>4. p[0] = 0 /\ p[Count] <= Len(s)
  BY <1>1, <1>3, TotalIs DEF IsTotal, Laid, Count
<1> HIDE DEF s, data
<1> DEFINE l == Len(s)
<1>5. l \in Nat
  BY <1>3
<1>6. From(file, s, 0, s)
  <2>1. p[0] + l <= l
    BY <1>4, <1>5
  <2>2. \A i \in 1 .. l : p[0] + i = i
    BY <1>4, <1>5
  <2> QED BY <1>3, <2>1, <2>2 DEF From
<1>7. \A j \in 0 .. Count - 0 : j + 1 <= Len(Bounds(s)) <=> p[0 + j] <= p[0] + l
  <2>1. 0 \in 0 .. Count
    BY <1>1
  <2> QED BY <1>1, <1>3, <1>6, <2>1, ScanFindsRecords
<1>8. Count + 1 <= Len(Bounds(s))
  <2>1. Count \in 0 .. Count - 0 /\ 0 + Count = Count
    BY <1>1
  <2>2. p[Count] <= p[0] + l
    <3> HIDE DEF p, l
    <3>1. p[0] + l = l
      BY <1>4, <1>5
    <3> QED BY <1>4, <3>1 DEF l
  <2> HIDE DEF p, l
  <2> QED BY <1>7, <2>1, <2>2
<1>9. Len(Bounds(s)) \in Nat
  BY <1>3, BoundsRise DEF Rising
<1> DEFINE m == Len(Bounds(s))
<1>10. m - 1 >= Count
  <2>1. m \in Nat /\ Count + 1 <= m
    BY <1>8, <1>9
  <2> HIDE DEF m
  <2> QED BY <1>1, <2>1
<1> QED BY <1>1, <1>2, <1>10 DEF data

(* It does not fail where the file is materialised whole.                  *)
LEMMA ReadWholeKeepsPromise ==
  ASSUME PInv, GridTold(file), ReadWhole
  PROVE  PInv'
<1> DEFINE found == Len(Bounds(BlockData(0, NumListed))) - 1
<1>1. pc = "walk" /\ ~Chunked
  BY DEF ReadWhole
<1>2. \/ pc' = "done" /\ result' = "ok" /\ UNCHANGED fixed
      \/ AttemptFails /\ (\/ compressed /\ \E b \in 1 .. NumListed : ~Decompresses(b)
                          \/ found < Count)
  BY DEF ReadWhole
<1> HIDE DEF found
<1>3. CASE pc' = "done" /\ result' = "ok" /\ UNCHANGED fixed
  <2>1. IInv'
    BY ReadWholeKeeps DEF PInv
  <2> QED BY <1>3, <2>1 DEF PInv, Fit, Promise
<1>4. CASE AttemptFails /\ (\/ compressed /\ \E b \in 1 .. NumListed : ~Decompresses(b)
                            \/ found < Count)
  <2>1. ASSUME Promised, Sure(attempt) PROVE FALSE
    <3>1. found >= Count /\ (compressed => \A b \in 1 .. NumListed : Decompresses(b))
      BY <1>1, <2>1, WholeFound DEF found
    <3>2. Count \in Nat /\ found \in Int
      <4>1. Typed /\ WellFormed(file) /\ Count \in Nat
        BY TypedFacts DEF PInv, IInv
      <4>2. NumListed \in Nat /\ NumListed <= NumBlocks(file) /\ 0 \in Nat /\ 0 <= NumListed
        BY <4>1, TypedFacts
      <4>3. BlockData(0, NumListed) \in Seq(Nat)
        BY <4>1, <4>2, BlockDataIs, BlocksStep
      <4> DEFINE l == Len(Bounds(BlockData(0, NumListed)))
      <4>4. l \in Nat
        BY <4>1, <4>3, BoundsRise DEF Rising
      <4>5. found = l - 1
        BY DEF found
      <4> HIDE DEF l
      <4> QED BY <4>1, <4>4, <4>5
    <3> QED BY <1>4, <3>1, <3>2
  <2> QED BY <1>1, <1>4, <2>1, FailureKeepsPromise
<1> QED BY <1>2, <1>3, <1>4

LEMMA NextPInv ==
  ASSUME \A f \in Files : GridTold(f) /\ CarryFits(f)
  PROVE  PInv /\ [Next]_vars => PInv'
<1> SUFFICES ASSUME PInv, [Next]_vars PROVE PInv'
  OBVIOUS
<1>1. GridTold(file) /\ CarryFits(file)
  BY DEF PInv, IInv, Typed
<1>2. CASE UNCHANGED vars
  <2>1. /\ UNCHANGED <<fixed, attempts, rows, pc, result>> /\ file' = file
        /\ compressed' = compressed /\ attempt' = attempt
    BY <1>2 DEF vars, fixed, attempt
  <2>2. IInv'
    BY <1>2, NextIInv DEF PInv
  <2>3. Fit'
    BY <2>1 DEF PInv, Fit
  <2>4. Promise'
    <3>1. /\ Promised' <=> Promised
          /\ GridAtEndOnly' <=> GridAtEndOnly
          /\ Count' = Count /\ Total(file)' = Total(file)
          /\ Sure(attempt)' <=> Sure(attempt)
      BY <2>1, PromiseStays DEF Sure
    <3> QED BY <2>1, <3>1 DEF PInv, Promise
  <2> QED BY <2>2, <2>3, <2>4 DEF PInv
<1>3. CASE Next
  BY <1>1, <1>3, ChunkKeepsPromise, CheckCountKeepsPromise, ReadWholeKeepsPromise DEF Next
<1> QED BY <1>2, <1>3

(* A file without records is read before a block is looked at.             *)
NoneToRead == Count = 0 => pc = "done" /\ result = "ok"

LEMMA NoneToReadStays == NoneToRead /\ [Next]_vars => NoneToRead'
<1> SUFFICES ASSUME NoneToRead, [Next]_vars PROVE NoneToRead'
  OBVIOUS
<1>1. CASE UNCHANGED vars
  BY <1>1 DEF vars, NoneToRead, Count
<1>2. CASE Next
  <2>1. pc # "done" /\ file' = file
    BY <1>2 DEF Next, Chunk, InLoop, CheckCount, ReadWhole, AttemptFails, fixed
  <2> QED BY <2>1 DEF NoneToRead, Count
<1> QED BY <1>1, <1>2

(* A sound file is read: neither a chunk's border nor a grid block between *)
(* its records, a failed read or the check of the count turns it down.     *)
THEOREM SoundFilesAreReadTheorem ==
  ASSUME \A f \in Files : GridTold(f) /\ CarryFits(f)
  PROVE  Spec => []SoundFilesAreRead
<1>1. Init => NoneToRead
  BY DEF Init, NoneToRead
<1>2. PInv /\ NoneToRead => SoundFilesAreRead
  <2> SUFFICES ASSUME PInv, NoneToRead, result = "error", Sound
               PROVE  file.spatial /\ ~GridAtEndOnly /\ ~GridSeparable
    BY DEF SoundFilesAreRead
  <2>1. Count \in Nat /\ Count # 0
    BY TypedFacts DEF PInv, IInv, NoneToRead
  <2>2. ~Promised
    BY DEF PInv, Promise
  <2> QED BY <2>1, <2>2 DEF Promised
<1> QED BY InitPInv, NextPInv, NoneToReadStays, <1>1, <1>2, PTL DEF Spec
=============================================================================
