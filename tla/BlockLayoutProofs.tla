-------------------------- MODULE BlockLayoutProofs --------------------------
(***************************************************************************)
(* What laying out records does to blocks that fit the readers' buffers:   *)
(* for every block size, group size and record length they keep fitting;   *)
(* where the cuts come from; and the layouts of many records.              *)
(***************************************************************************)
EXTENDS BlockLayout, NaturalSets, SequenceTheorems

(* Where the elements of a concatenation come from.                        *)
LEMMA ConcatAt ==
  ASSUME NEW s \in Seq(Nat), NEW t \in Seq(Nat)
  PROVE  /\ s \o t \in Seq(Nat)
         /\ Len(s \o t) = Len(s) + Len(t)
         /\ \A i \in 1 .. Len(s) : (s \o t)[i] = s[i]
         /\ \A i \in Len(s) + 1 .. Len(s) + Len(t) :
              (s \o t)[i] = t[i - Len(s)]
<1>1. Len(s) \in Nat /\ Len(t) \in Nat
  BY LenProperties
<1>2. /\ s \o t \in Seq(Nat) /\ Len(s \o t) = Len(s) + Len(t)
      /\ \A i \in 1 .. Len(s) + Len(t) :
           (s \o t)[i] = IF i <= Len(s) THEN s[i] ELSE t[i - Len(s)]
  BY ConcatProperties
<1> DEFINE w == s \o t
<1> HIDE DEF w
<1>3. \A i \in 1 .. Len(s) + Len(t) :
        w[i] = IF i <= Len(s) THEN s[i] ELSE t[i - Len(s)]
  BY <1>2 DEF w
<1>4. ASSUME NEW i \in 1 .. Len(s) PROVE w[i] = s[i]
  BY <1>1, <1>3
<1>5. ASSUME NEW i \in Len(s) + 1 .. Len(s) + Len(t)
      PROVE  w[i] = t[i - Len(s)]
  BY <1>1, <1>3, SMTT(60)
<1> QED BY <1>2, <1>4, <1>5 DEF w

LEMMA DivisionBounds ==
  \A a \in Nat, b \in Nat \ {0} :
    /\ a \div b \in Nat
    /\ (a \div b) * b <= a
    /\ a < (a \div b) * b + b
OBVIOUS

LEMMA Multiples ==
  \A i \in Nat, b \in Nat : i * b \in Nat /\ (i + 1) * b = i * b + b
OBVIOUS

-----------------------------------------------------------------------------
BlockBegin(l, b) == IF b = 1 THEN 0 ELSE l.cut[b - 1]

(* Every block has at least one byte and at most BlockSize, and so many    *)
(* are in the buffer, except that the buffer may be empty.                 *)
Fits(l) ==
  /\ l \in LayoutType
  /\ Buffered(l) \in 0 .. BlockSize
  /\ \A b \in 1 .. Len(l.cut) :
       l.cut[b] \in Nat /\ l.cut[b] - BlockBegin(l, b) \in 1 .. BlockSize

LEMMA LayoutParts ==
  ASSUME NEW l \in LayoutType
  PROVE  /\ l.cut \in Seq(Nat) /\ l.end \in Nat /\ l.index \in Seq(Nat)
         /\ Len(l.cut) \in Nat /\ LastCut(l) \in Nat
<1>1. l.cut \in Seq(Nat) /\ l.end \in Nat /\ l.index \in Seq(Nat)
  BY DEF LayoutType
<1>2. Len(l.cut) \in Nat
  BY <1>1, LenProperties
<1>3. CASE l.cut = <<>>
  BY <1>1, <1>2, <1>3 DEF LastCut
<1>4. CASE l.cut # <<>>
  <2>1. Len(l.cut) \in 1 .. Len(l.cut)
    BY <1>1, <1>2, <1>4, EmptySeq
  <2>2. l.cut[Len(l.cut)] \in Nat
    BY <1>1, <2>1, ElementOfSeq
  <2> QED BY <1>1, <1>2, <1>4, <2>2 DEF LastCut
<1> QED BY <1>3, <1>4

(* The shape of an update of the index.                                    *)
LEMMA WithIndex ==
  ASSUME NEW l \in LayoutType, NEW x \in Seq(Nat),
         NEW u, u = [l EXCEPT !.index = x]
  PROVE  u \in LayoutType /\ u.cut = l.cut /\ u.end = l.end /\ u.index = x
BY DEF LayoutType

LEMMA EmptyFits == Fits(EmptyLayout)
<1>1. EmptyLayout.cut = <<>> /\ EmptyLayout.end = 0
      /\ EmptyLayout.index = <<0>>
  BY DEF EmptyLayout
<1>2. EmptyLayout \in LayoutType
  BY DEF EmptyLayout, LayoutType
<1>3. Buffered(EmptyLayout) = 0 /\ Len(EmptyLayout.cut) = 0
  BY <1>1 DEF Buffered, LastCut
<1> QED BY <1>2, <1>3, SizesAssumption DEF Fits

(* A flush empties the buffer.                                             *)
LEMMA FlushFits ==
  ASSUME NEW l, Fits(l)
  PROVE  /\ Fits(Flush(l)) /\ Buffered(Flush(l)) = 0
         /\ Flush(l).end = l.end /\ Flush(l).index = l.index
<1>1. /\ l.cut \in Seq(Nat) /\ l.end \in Nat /\ l.index \in Seq(Nat)
      /\ Len(l.cut) \in Nat /\ LastCut(l) \in Nat /\ BlockSize \in Nat
  BY LayoutParts, SizesAssumption DEF Fits
<1>2. CASE Buffered(l) = 0
  BY <1>2 DEF Flush
<1>3. CASE Buffered(l) # 0
  <2> DEFINE f == [l EXCEPT !.cut = Append(@, l.end)]
  <2>1. Flush(l) = f
    BY <1>3 DEF Flush
  <2>2. /\ f.cut = Append(l.cut, l.end) /\ f.end = l.end /\ f.index = l.index
        /\ f \in LayoutType
    <3>1. Append(l.cut, l.end) \in Seq(Nat)
      BY <1>1, AppendProperties
    <3>2. f = [l EXCEPT !.cut = Append(l.cut, l.end), !.end = l.end]
      BY DEF Fits, LayoutType
    <3> HIDE DEF f
    <3>3. l \in LayoutType
      BY DEF Fits
    <3> DEFINE c == Append(l.cut, l.end)
    <3>4. f = [l EXCEPT !.cut = c, !.end = l.end] /\ c \in Seq(Nat)
      BY <3>1, <3>2
    <3> HIDE DEF c
    <3>5. f.cut = c /\ f.end = l.end /\ f.index = l.index /\ f \in LayoutType
      BY <1>1, <3>3, <3>4 DEF LayoutType
    <3> QED BY <3>5 DEF c
  <2> HIDE DEF f
  <2>3. /\ Len(f.cut) = Len(l.cut) + 1 /\ f.cut[Len(l.cut) + 1] = l.end
        /\ \A b \in 1 .. Len(l.cut) : f.cut[b] = l.cut[b]
    BY <1>1, <2>2, AppendProperties
  <2>4. LastCut(f) = l.end /\ Buffered(f) = 0
    BY <1>1, <2>2, <2>3 DEF LastCut, Buffered
  <2>5. BlockBegin(f, Len(l.cut) + 1) = LastCut(l)
    <3>1. CASE l.cut = <<>>
      BY <3>1 DEF BlockBegin, LastCut
    <3>2. CASE l.cut # <<>>
      <4>1. Len(l.cut) \in 1 .. Len(l.cut)
            /\ Len(l.cut) + 1 # 1 /\ (Len(l.cut) + 1) - 1 = Len(l.cut)
        BY <1>1, <3>2, EmptySeq
      <4> QED BY <1>1, <2>3, <3>2, <4>1 DEF BlockBegin, LastCut
    <3> QED BY <3>1, <3>2
  <2>6. ASSUME NEW b \in 1 .. Len(f.cut)
        PROVE  f.cut[b] \in Nat /\ f.cut[b] - BlockBegin(f, b) \in 1 .. BlockSize
    <3>1. CASE b = Len(l.cut) + 1
      <4>1. l.end - LastCut(l) \in 1 .. BlockSize
        BY <1>1, <1>3 DEF Fits, Buffered
      <4> QED BY <1>1, <2>3, <2>5, <3>1, <4>1
    <3>2. CASE b # Len(l.cut) + 1
      <4>1. b \in 1 .. Len(l.cut)
        BY <1>1, <2>3, <2>6, <3>2
      <4>2. BlockBegin(f, b) = BlockBegin(l, b)
        <5>1. CASE b = 1
          BY <5>1 DEF BlockBegin
        <5>2. CASE b # 1
          <6>1. b - 1 \in 1 .. Len(l.cut)
            BY <1>1, <4>1, <5>2
          <6> QED BY <2>3, <5>2, <6>1 DEF BlockBegin
        <5> QED BY <5>1, <5>2
      <4> QED BY <2>3, <4>1, <4>2 DEF Fits
    <3> QED BY <3>1, <3>2
  <2> QED BY <1>1, <2>1, <2>2, <2>4, <2>6 DEF Fits
<1> QED BY <1>2, <1>3

LEMMA OpenGroupFits ==
  ASSUME NEW l, Fits(l), NEW n
  PROVE  Fits(OpenGroup(l, n)) /\ OpenGroup(l, n).end = l.end
<1>1. CASE ~IsGroupStart(n)
  BY <1>1 DEF OpenGroup
<1>2. CASE IsGroupStart(n)
  <2> DEFINE f == Flush(l)
             x == Append(f.index, Len(f.cut))
             g == [f EXCEPT !.index = x]
  <2>1. Fits(f) /\ f.end = l.end
    BY FlushFits
  <2> HIDE DEF f
  <2>2. x \in Seq(Nat) /\ f \in LayoutType
    BY <2>1, LayoutParts, AppendProperties DEF Fits
  <2>3. OpenGroup(l, n) = g
    BY <1>2 DEF OpenGroup, f
  <2> HIDE DEF x
  <2>4. g = [f EXCEPT !.index = x]
    OBVIOUS
  <2> HIDE DEF g
  <2>5. g \in LayoutType /\ g.cut = f.cut /\ g.end = f.end
    BY <2>2, <2>4, WithIndex
  <2>6. LastCut(g) = LastCut(f) /\ Buffered(g) = Buffered(f)
        /\ \A b : BlockBegin(g, b) = BlockBegin(f, b)
    BY <2>5 DEF LastCut, Buffered, BlockBegin
  <2>7. Fits(g)
    BY <2>1, <2>5, <2>6 DEF Fits
  <2> QED BY <2>1, <2>3, <2>5, <2>7 DEF g
<1> QED BY <1>1, <1>2

LEMMA MakeRoomFits ==
  ASSUME NEW l, Fits(l), NEW len
  PROVE  Fits(MakeRoom(l, len)) /\ MakeRoom(l, len).end = l.end
BY FlushFits DEF MakeRoom

(* What appending does to the layout: the blocks already cut stay, and as  *)
(* many whole blocks are cut off behind them as the bytes fill.            *)
LEMMA AppendSplitParts ==
  ASSUME NEW l, Fits(l), NEW len \in Nat
  PROVE  LET n == Splits(l, len)
             g == AppendSplit(l, len)
         IN /\ n \in Nat /\ n * BlockSize \in Nat
            /\ n * BlockSize <= Buffered(l) + len
            /\ Buffered(l) + len <= n * BlockSize + BlockSize
            /\ n > 0 => n * BlockSize < Buffered(l) + len
            /\ g \in LayoutType /\ g.end = l.end + len /\ g.index = l.index
            /\ Len(g.cut) = Len(l.cut) + n
            /\ \A b \in 1 .. Len(l.cut) : g.cut[b] = l.cut[b]
            /\ \A b \in Len(l.cut) + 1 .. Len(l.cut) + n :
                 g.cut[b] = LastCut(l) + (b - Len(l.cut)) * BlockSize
<1>1. /\ l \in LayoutType /\ l.cut \in Seq(Nat) /\ l.end \in Nat
      /\ Len(l.cut) \in Nat /\ LastCut(l) \in Nat /\ BlockSize \in Nat \ {0}
      /\ Buffered(l) \in 0 .. BlockSize /\ Buffered(l) = l.end - LastCut(l)
  BY LayoutParts, SizesAssumption DEF Fits, Buffered
<1> DEFINE n == Splits(l, len)
           base == LastCut(l)
           x == [i \in 1 .. n |-> base + i * BlockSize]
           w == l.cut \o x
           e == l.end + len
           g == [l EXCEPT !.cut = w, !.end = e]
<1>2. AppendSplit(l, len) = g
  BY DEF AppendSplit
<1>3. /\ n \in Nat /\ n * BlockSize \in Nat
      /\ n * BlockSize <= Buffered(l) + len
      /\ Buffered(l) + len <= n * BlockSize + BlockSize
      /\ n > 0 => n * BlockSize < Buffered(l) + len
  <2>1. CASE len = 0
    BY <1>1, <2>1 DEF Splits
  <2>2. CASE len # 0
    <3> DEFINE a == Buffered(l) + len - 1
    <3>1. a \in Nat
      BY <1>1, <2>2
    <3>2. n = a \div BlockSize
      BY <2>2 DEF Splits
    <3> HIDE DEF a, n
    <3>3. /\ n \in Nat /\ n * BlockSize <= a
          /\ a < n * BlockSize + BlockSize
      BY <1>1, <3>1, <3>2, DivisionBounds
    <3>4. n * BlockSize \in Nat
      BY <1>1, <3>3, Multiples
    <3> DEFINE m == n * BlockSize
    <3> HIDE DEF m
    <3>5. m \in Nat /\ m <= a /\ a < m + BlockSize
      BY <3>3, <3>4 DEF m
    <3>6. m < Buffered(l) + len /\ Buffered(l) + len <= m + BlockSize
      BY <1>1, <3>5 DEF a
    <3> QED BY <1>1, <3>3, <3>4, <3>5, <3>6 DEF m
  <2> QED BY <2>1, <2>2
<1> HIDE DEF n, base
<1>4. base \in Nat
  BY <1>1 DEF base
<1>5. ASSUME NEW i \in 1 .. n
      PROVE  base + i * BlockSize \in Nat
  <2>1. i \in Nat
    BY <1>3
  <2>2. i * BlockSize \in Nat
    BY <1>1, <2>1, Multiples
  <2> DEFINE m == i * BlockSize
  <2> HIDE DEF m
  <2>3. base + m \in Nat
    BY <1>4, <2>2 DEF m
  <2> QED BY <2>3 DEF m
<1>6. x \in Seq(Nat) /\ Len(x) = n
      /\ \A i \in 1 .. n : x[i] = base + i * BlockSize
  BY <1>3, <1>5
<1> HIDE DEF x
<1>7. /\ w \in Seq(Nat) /\ Len(w) = Len(l.cut) + n
      /\ \A b \in 1 .. Len(l.cut) : w[b] = l.cut[b]
      /\ \A b \in Len(l.cut) + 1 .. Len(l.cut) + n :
           w[b] = base + (b - Len(l.cut)) * BlockSize
  <2>1. /\ w \in Seq(Nat) /\ Len(w) = Len(l.cut) + Len(x)
        /\ \A b \in 1 .. Len(l.cut) : w[b] = l.cut[b]
        /\ \A b \in Len(l.cut) + 1 .. Len(l.cut) + Len(x) :
             w[b] = x[b - Len(l.cut)]
    BY <1>1, <1>6, ConcatAt
  <2> HIDE DEF w
  <2>2. ASSUME NEW b \in Len(l.cut) + 1 .. Len(l.cut) + n
        PROVE  w[b] = base + (b - Len(l.cut)) * BlockSize
    <3>1. b - Len(l.cut) \in 1 .. n
      BY <1>1, <1>3, <2>2
    <3> QED BY <1>6, <2>1, <2>2, <3>1
  <2> QED BY <1>6, <2>1, <2>2
<1> HIDE DEF w
<1>8. e \in Nat
  BY <1>1
<1> HIDE DEF e
<1> HIDE DEF g
<1>9. g \in LayoutType /\ g.cut = w /\ g.end = e /\ g.index = l.index
  <2>1. g = [l EXCEPT !.cut = w, !.end = e]
    BY DEF g
  <2>2. w \in Seq(Nat)
    BY <1>7
  <2> QED BY <1>1, <1>8, <2>1, <2>2 DEF LayoutType
<1>10. /\ AppendSplit(l, len) \in LayoutType
       /\ AppendSplit(l, len).cut = w
       /\ AppendSplit(l, len).end = l.end + len
       /\ AppendSplit(l, len).index = l.index
  BY <1>2, <1>9 DEF g, e
<1>11. \A b \in Len(l.cut) + 1 .. Len(l.cut) + n :
         w[b] = LastCut(l) + (b - Len(l.cut)) * BlockSize
  BY <1>7 DEF base
<1>12. /\ Splits(l, len) = n
       /\ Len(w) = Len(l.cut) + n
       /\ \A b \in 1 .. Len(l.cut) : w[b] = l.cut[b]
  BY <1>7 DEF n
<1> QED BY <1>3, <1>10, <1>11, <1>12

(* Appending any number of bytes cuts off whole blocks and leaves at most  *)
(* one in the buffer.                                                      *)
LEMMA AppendSplitFits ==
  ASSUME NEW l, Fits(l), NEW len \in Nat
  PROVE  Fits(AppendSplit(l, len)) /\ AppendSplit(l, len).end = l.end + len
<1>1. /\ l \in LayoutType /\ l.cut \in Seq(Nat) /\ l.end \in Nat
      /\ Len(l.cut) \in Nat /\ LastCut(l) \in Nat /\ BlockSize \in Nat \ {0}
      /\ Buffered(l) \in 0 .. BlockSize /\ Buffered(l) = l.end - LastCut(l)
  BY LayoutParts, SizesAssumption DEF Fits, Buffered
<1> DEFINE n == Splits(l, len)
           base == LastCut(l)
           g == AppendSplit(l, len)
           w == g.cut
           e == l.end + len
<1>2. /\ n \in Nat /\ n * BlockSize \in Nat
      /\ n * BlockSize <= Buffered(l) + len
      /\ Buffered(l) + len <= n * BlockSize + BlockSize
      /\ g \in LayoutType /\ g.end = e
      /\ Len(w) = Len(l.cut) + n
      /\ \A b \in 1 .. Len(l.cut) : w[b] = l.cut[b]
      /\ \A b \in Len(l.cut) + 1 .. Len(l.cut) + n :
           w[b] = base + (b - Len(l.cut)) * BlockSize
  BY AppendSplitParts
<1> HIDE DEF n, base, g
<1>3. /\ n \in Nat /\ n * BlockSize \in Nat
      /\ n * BlockSize <= Buffered(l) + len
      /\ Buffered(l) + len <= n * BlockSize + BlockSize
  BY <1>2
<1>4. base \in Nat
  BY <1>1 DEF base
<1>7. /\ w \in Seq(Nat) /\ Len(w) = Len(l.cut) + n
      /\ \A b \in 1 .. Len(l.cut) : w[b] = l.cut[b]
      /\ \A b \in Len(l.cut) + 1 .. Len(l.cut) + n :
           w[b] = base + (b - Len(l.cut)) * BlockSize
  BY <1>2, LayoutParts
<1>8. e \in Nat
  BY <1>1
<1>9. g \in LayoutType /\ g.cut = w /\ g.end = e
  BY <1>2
<1> HIDE DEF w
<1>10. w = <<>> <=> Len(l.cut) + n = 0
  BY <1>1, <1>3, <1>7, EmptySeq
<1>11. LastCut(g) = base + n * BlockSize
  <2>1. CASE n > 0
    <3>1. Len(w) \in Len(l.cut) + 1 .. Len(l.cut) + n
          /\ Len(w) - Len(l.cut) = n
      BY <1>1, <1>3, <1>7, <2>1
    <3>2. w # <<>>
      BY <1>1, <1>3, <1>10, <2>1
    <3> QED BY <1>7, <1>9, <3>1, <3>2 DEF LastCut
  <2>2. CASE n = 0
    <3>1. n * BlockSize = 0 /\ Len(w) = Len(l.cut)
      BY <1>1, <1>7, <2>2
    <3>2. CASE Len(l.cut) = 0
      <4>1. w = <<>> /\ l.cut = <<>>
        BY <1>1, <1>10, <2>2, <3>2, EmptySeq
      <4> QED BY <1>9, <3>1, <4>1 DEF LastCut, base
    <3>3. CASE Len(l.cut) # 0
      <4>1. Len(l.cut) \in 1 .. Len(l.cut) /\ w # <<>> /\ l.cut # <<>>
        BY <1>1, <1>10, <2>2, <3>3
      <4>2. LastCut(g) = l.cut[Len(l.cut)] /\ base = l.cut[Len(l.cut)]
        BY <1>7, <1>9, <3>1, <4>1 DEF LastCut, base
      <4> QED BY <1>4, <3>1, <4>2
    <3> QED BY <3>2, <3>3
  <2> QED BY <1>3, <2>1, <2>2
<1>12. Buffered(g) \in 0 .. BlockSize
  <2> DEFINE m == n * BlockSize
  <2>1. m \in Nat /\ m <= Buffered(l) + len
        /\ Buffered(l) + len <= m + BlockSize
    BY <1>3
  <2>2. Buffered(g) = (l.end + len) - (base + m)
    BY <1>9, <1>11 DEF Buffered, e
  <2> HIDE DEF m
  <2> QED BY <1>1, <1>4, <2>1, <2>2, SMTT(60) DEF base
<1>13. ASSUME NEW b \in 1 .. Len(g.cut)
       PROVE  g.cut[b] \in Nat /\ g.cut[b] - BlockBegin(g, b) \in 1 .. BlockSize
  <2>0. b \in 1 .. Len(l.cut) + n
    BY <1>7, <1>9
  <2>1. CASE b <= Len(l.cut)
    <3>1. b \in 1 .. Len(l.cut) /\ g.cut[b] = l.cut[b]
      BY <1>1, <1>7, <1>9, <2>1
    <3>2. BlockBegin(g, b) = BlockBegin(l, b)
      <4>1. CASE b = 1
        BY <4>1 DEF BlockBegin
      <4>2. CASE b # 1
        <5>1. b - 1 \in 1 .. Len(l.cut)
          BY <1>1, <3>1, <4>2
        <5> QED BY <1>7, <1>9, <4>2, <5>1 DEF BlockBegin
      <4> QED BY <4>1, <4>2
    <3> QED BY <3>1, <3>2 DEF Fits
  <2>2. CASE b > Len(l.cut)
    <3> DEFINE i == b - Len(l.cut) - 1
    <3>1. i \in Nat /\ b - Len(l.cut) = i + 1
      BY <1>1, <1>3, <2>0, <2>2
    <3> HIDE DEF i
    <3>2. g.cut[b] = base + (b - Len(l.cut)) * BlockSize
      <4>1. b \in Len(l.cut) + 1 .. Len(l.cut) + n
        BY <1>1, <1>3, <2>0, <2>2
      <4> QED BY <1>7, <1>9, <4>1
    <3>3. BlockBegin(g, b) = base + i * BlockSize
      <4>1. CASE i = 0
        <5>1. b = Len(l.cut) + 1 /\ i * BlockSize = 0
          BY <1>1, <2>0, <3>1, <4>1
        <5>2. CASE l.cut = <<>>
          BY <1>1, <5>1, <5>2 DEF BlockBegin, LastCut, base
        <5>3. CASE l.cut # <<>>
          <6>1. b - 1 = Len(l.cut) /\ b # 1
                /\ Len(l.cut) \in 1 .. Len(l.cut)
            BY <1>1, <5>1, <5>3, EmptySeq
          <6>2. BlockBegin(g, b) = l.cut[Len(l.cut)]
            BY <1>7, <1>9, <6>1 DEF BlockBegin
          <6> QED BY <1>4, <5>1, <5>3, <6>2 DEF LastCut, base
        <5> QED BY <5>2, <5>3
      <4>2. CASE i # 0
        <5>0. i >= 1 /\ b = Len(l.cut) + i + 1 /\ b <= Len(l.cut) + n
          BY <1>1, <1>3, <2>0, <3>1, <4>2
        <5>1. b - 1 \in Len(l.cut) + 1 .. Len(l.cut) + n /\ b # 1
              /\ (b - 1) - Len(l.cut) = i
          BY <1>1, <1>3, <3>1, <5>0
        <5> QED BY <1>7, <1>9, <5>1 DEF BlockBegin
      <4> QED BY <4>1, <4>2
    <3>4. i * BlockSize \in Nat /\ (i + 1) * BlockSize = i * BlockSize + BlockSize
      BY <1>1, <3>1, Multiples
    <3> DEFINE m == i * BlockSize
    <3>5. g.cut[b] = base + (m + BlockSize) /\ BlockBegin(g, b) = base + m
          /\ m \in Nat
      BY <3>1, <3>2, <3>3, <3>4
    <3> HIDE DEF m
    <3> QED BY <1>1, <1>4, <3>5
  <2> QED BY <1>1, <2>0, <2>1, <2>2
<1>14. Fits(g)
  BY <1>9, <1>12, <1>13 DEF Fits
<1> QED BY <1>9, <1>14 DEF g

(* Laying out a record keeps the blocks fitting, wherever a failing write  *)
(* stops it.                                                               *)
LEMMA PlaceRecordFits ==
  ASSUME NEW l, Fits(l), NEW n, NEW len \in Nat
  PROVE  Fits(PlaceRecord(l, n, len))
BY OpenGroupFits, MakeRoomFits, AppendSplitFits DEF PlaceRecord, AddRecord

LEMMA FlushPointsFit ==
  ASSUME NEW l, Fits(l), NEW n, NEW len \in Nat,
         NEW p \in FlushPoints(l, n, len)
  PROVE  Fits(p) /\ l.end <= p.end
<1> DEFINE g == OpenGroup(l, n)
           m == MakeRoom(g, len)
<1>4. l.end \in Nat
  BY LayoutParts DEF Fits
<1>1. Fits(g) /\ Fits(m) /\ g.end = l.end /\ m.end = l.end
  BY OpenGroupFits, MakeRoomFits
<1>2. CASE p \in {l, g}
  BY <1>4, <1>1, <1>2
<1>3. ASSUME NEW s \in 1 .. Splits(m, len),
             p = AppendSplit(m, s * BlockSize - Buffered(m))
      PROVE  Fits(p) /\ l.end <= p.end
  <2>1. s \in Nat /\ s >= 1
    <3>1. Splits(m, len) \in Int
      <4>1. Buffered(m) \in Int
        BY <1>1 DEF Fits
      <4> HIDE DEF m
      <4> QED BY <4>1, SizesAssumption DEF Splits
    <3> QED BY <1>3, <3>1
  <2>2. \E k \in Nat : s = k + 1
    BY <2>1
  <2>3. PICK k \in Nat : s = k + 1
    BY <2>2
  <2>4. k * BlockSize \in Nat /\ s * BlockSize = k * BlockSize + BlockSize
    BY <2>3, SizesAssumption, Multiples
  <2>5. Buffered(m) \in 0 .. BlockSize
    BY <1>1 DEF Fits
  <2> HIDE DEF m
  <2>6. s * BlockSize - Buffered(m) \in Nat
    BY <2>4, <2>5, SizesAssumption
  <2>7. Fits(m) /\ m.end = l.end
    BY <1>1 DEF m
  <2> DEFINE x == s * BlockSize - Buffered(m)
  <2>8. Fits(AppendSplit(m, x)) /\ AppendSplit(m, x).end = m.end + x
    BY <2>6, <2>7, AppendSplitFits
  <2>9. x \in Nat /\ p = AppendSplit(m, x)
    BY <1>3, <2>6
  <2> HIDE DEF x
  <2> QED BY <1>4, <2>7, <2>8, <2>9
<1> QED BY <1>2, <1>3 DEF FlushPoints

-----------------------------------------------------------------------------
(* Where the cuts come from.                                               *)

(* The offset at which the block after the first e blocks starts.          *)
CutAt(l, e) == IF e = 0 THEN 0 ELSE l.cut[e]

(* Layout u has the blocks of layout l, and maybe more.                    *)
Extends(u, l) ==
  /\ Len(l.cut) <= Len(u.cut)
  /\ \A b \in 1 .. Len(l.cut) : u.cut[b] = l.cut[b]

LEMMA ExtendsCutAt ==
  ASSUME NEW l \in LayoutType, NEW u \in LayoutType, Extends(u, l),
         NEW e \in 0 .. Len(l.cut)
  PROVE  CutAt(u, e) = CutAt(l, e) /\ e \in 0 .. Len(u.cut)
<1>1. Len(l.cut) \in Nat /\ Len(u.cut) \in Nat
  BY LayoutParts
<1>2. e # 0 => e \in 1 .. Len(l.cut)
  BY <1>1
<1> QED
  BY <1>1, <1>2 DEF CutAt, Extends

LEMMA ExtendsAgain ==
  ASSUME NEW l \in LayoutType, NEW m \in LayoutType, NEW u \in LayoutType,
         Extends(m, l), Extends(u, m)
  PROVE  Extends(u, l)
<1>1. Len(l.cut) \in Nat /\ Len(m.cut) \in Nat /\ Len(u.cut) \in Nat
  BY LayoutParts
<1>2. \A b \in 1 .. Len(l.cut) : b \in 1 .. Len(m.cut)
  BY <1>1 DEF Extends
<1> QED
  BY <1>1, <1>2 DEF Extends

LEMMA LastCutAt ==
  ASSUME NEW l \in LayoutType
  PROVE  CutAt(l, Len(l.cut)) = LastCut(l)
<1>1. l.cut \in Seq(Nat) /\ Len(l.cut) \in Nat
  BY LayoutParts
<1>2. l.cut = <<>> <=> Len(l.cut) = 0
  BY <1>1, EmptySeq
<1> QED
  BY <1>2 DEF CutAt, LastCut

(* A flush cuts where the stream ends, and only there.                     *)
LEMMA FlushCuts ==
  ASSUME NEW l, Fits(l)
  PROVE  LET f == Flush(l)
         IN /\ Extends(f, l) /\ f \in LayoutType
            /\ \A b \in Len(l.cut) + 1 .. Len(f.cut) : f.cut[b] = l.end
            /\ CutAt(f, Len(f.cut)) = l.end
<1> DEFINE f == Flush(l)
<1>1. /\ l \in LayoutType /\ l.cut \in Seq(Nat) /\ l.end \in Nat
      /\ Len(l.cut) \in Nat
  BY LayoutParts DEF Fits
<1>2. /\ f \in LayoutType /\ LastCut(f) \in Nat
      /\ Buffered(f) = 0 /\ f.end = l.end
  BY FlushFits, LayoutParts DEF Fits
<1>3. f.cut = l.cut \/ f.cut = Append(l.cut, l.end)
  BY <1>1 DEF Flush, LayoutType
<1> HIDE DEF f
<1>4. CutAt(f, Len(f.cut)) = l.end
  BY <1>1, <1>2, LastCutAt DEF Buffered
<1>5. /\ Len(f.cut) \in {Len(l.cut), Len(l.cut) + 1}
      /\ \A b \in 1 .. Len(l.cut) : f.cut[b] = l.cut[b]
      /\ Len(f.cut) = Len(l.cut) + 1 => f.cut[Len(l.cut) + 1] = l.end
  BY <1>1, <1>3, AppendProperties
<1>6. \A b \in Len(l.cut) + 1 .. Len(f.cut) : f.cut[b] = l.end
  BY <1>1, <1>5
<1> QED
  BY <1>1, <1>2, <1>4, <1>5, <1>6 DEF Extends, f

(* Opening a group may flush, and records where the group's first record   *)
(* will start.                                                             *)
LEMMA OpenGroupCuts ==
  ASSUME NEW l, Fits(l), NEW n
  PROVE  LET g == OpenGroup(l, n)
         IN /\ Extends(g, l) /\ g \in LayoutType /\ g.end = l.end
            /\ \A b \in Len(l.cut) + 1 .. Len(g.cut) : g.cut[b] = l.end
            /\ IF IsGroupStart(n)
               THEN /\ g.index = Append(l.index, Len(g.cut))
                    /\ CutAt(g, Len(g.cut)) = l.end
               ELSE g.index = l.index
<1>1. l \in LayoutType /\ Len(l.cut) \in Nat
  BY LayoutParts DEF Fits
<1>2. CASE ~IsGroupStart(n)
  BY <1>1, <1>2 DEF OpenGroup, Extends
<1>3. CASE IsGroupStart(n)
  <2> DEFINE f == Flush(l)
             x == Append(f.index, Len(f.cut))
             g == [f EXCEPT !.index = x]
  <2>1. OpenGroup(l, n) = g
    BY <1>3 DEF OpenGroup
  <2>2. /\ Extends(f, l) /\ f \in LayoutType
        /\ \A b \in Len(l.cut) + 1 .. Len(f.cut) : f.cut[b] = l.end
        /\ CutAt(f, Len(f.cut)) = l.end
        /\ f.end = l.end /\ f.index = l.index
    BY FlushCuts, FlushFits
  <2> HIDE DEF f
  <2>3. x \in Seq(Nat)
    BY <2>2, LayoutParts, AppendProperties
  <2> HIDE DEF x
  <2>4. g \in LayoutType /\ g.cut = f.cut /\ g.end = f.end /\ g.index = x
    BY <2>2, <2>3, WithIndex
  <2> HIDE DEF g
  <2>5. Extends(g, l) /\ CutAt(g, Len(g.cut)) = l.end
    BY <2>2, <2>4 DEF Extends, CutAt
  <2>6. x = Append(l.index, Len(g.cut))
    BY <2>2, <2>4 DEF x
  <2>7. \A b \in Len(l.cut) + 1 .. Len(g.cut) : g.cut[b] = l.end
    BY <2>2, <2>4
  <2> QED
    BY <1>3, <2>1, <2>2, <2>4, <2>5, <2>6, <2>7
<1> QED
  BY <1>2, <1>3

(* A record is cut only if it is longer than a block, and then it starts   *)
(* one.                                                                    *)
LEMMA AddRecordCuts ==
  ASSUME NEW l, Fits(l), NEW len \in Nat
  PROVE  LET u == AddRecord(l, len)
         IN /\ Extends(u, l) /\ u \in LayoutType
            /\ u.end = l.end + len /\ u.index = l.index
            /\ \A b \in Len(l.cut) + 1 .. Len(u.cut) :
                 \/ u.cut[b] = l.end
                 \/ /\ l.end < u.cut[b] /\ u.cut[b] < u.end
                    /\ len > BlockSize
                    /\ \E a \in 0 .. b : CutAt(u, a) = l.end
<1> DEFINE m == MakeRoom(l, len)
           u == AppendSplit(m, len)
           n == Splits(m, len)
<1>1. AddRecord(l, len) = u
  BY DEF AddRecord
<1>2. l \in LayoutType /\ Len(l.cut) \in Nat /\ BlockSize \in Nat
      /\ l.end \in Nat
  BY LayoutParts, SizesAssumption DEF Fits
<1>3. /\ Fits(m) /\ m \in LayoutType /\ Extends(m, l)
      /\ m.end = l.end /\ m.index = l.index
      /\ \A b \in Len(l.cut) + 1 .. Len(m.cut) : m.cut[b] = l.end
  <2>1. CASE Overflows(l, len)
    BY <2>1, FlushFits, FlushCuts DEF MakeRoom
  <2>2. CASE ~Overflows(l, len)
    BY <1>2, <2>2 DEF MakeRoom, Extends
  <2> QED
    BY <2>1, <2>2
<1>4. Buffered(m) = 0 \/ Buffered(m) + len <= BlockSize
  <2>1. CASE Overflows(l, len)
    BY <2>1, FlushFits DEF MakeRoom
  <2>2. CASE ~Overflows(l, len)
    <3>1. m = l /\ Buffered(l) \in 0 .. BlockSize
      BY <2>2 DEF MakeRoom, Fits
    <3> QED
      BY <1>2, <2>2, <3>1 DEF Overflows
  <2> QED
    BY <2>1, <2>2
<1> HIDE DEF m
<1>5. /\ Len(m.cut) \in Nat /\ LastCut(m) \in Nat /\ m.end \in Nat
      /\ Buffered(m) \in 0 .. BlockSize /\ Buffered(m) = m.end - LastCut(m)
  BY <1>3, LayoutParts DEF Fits, Buffered
<1>6. /\ n \in Nat /\ n * BlockSize \in Nat
      /\ n > 0 => n * BlockSize < Buffered(m) + len
      /\ u \in LayoutType /\ u.end = m.end + len /\ u.index = m.index
      /\ Len(u.cut) = Len(m.cut) + n
      /\ \A b \in 1 .. Len(m.cut) : u.cut[b] = m.cut[b]
      /\ \A b \in Len(m.cut) + 1 .. Len(m.cut) + n :
           u.cut[b] = LastCut(m) + (b - Len(m.cut)) * BlockSize
  BY <1>3, AppendSplitParts
<1> HIDE DEF u, n
<1>7. Extends(u, m) /\ Extends(u, l)
  <2>1. Extends(u, m)
    BY <1>5, <1>6 DEF Extends
  <2> QED
    BY <1>2, <1>3, <1>6, <2>1, ExtendsAgain
<1>8. ASSUME NEW k \in 1 .. n
      PROVE  /\ k * BlockSize \in Nat /\ BlockSize <= k * BlockSize
             /\ k * BlockSize <= n * BlockSize
  <2>1. k \in Nat /\ k - 1 \in Nat /\ n - k \in Nat
    BY <1>6
  <2>2. (k - 1) * BlockSize \in Nat /\ k * BlockSize = (k - 1) * BlockSize + BlockSize
    BY <1>2, <2>1
  <2>3. (n - k) * BlockSize \in Nat /\ n * BlockSize = k * BlockSize + (n - k) * BlockSize
    BY <1>2, <1>6, <2>1
  <2> DEFINE p == (k - 1) * BlockSize
             q == (n - k) * BlockSize
             r == k * BlockSize
             t == n * BlockSize
  <2>4. p \in Nat /\ r = p + BlockSize /\ q \in Nat /\ t = r + q
    BY <2>2, <2>3
  <2> HIDE DEF p, q, r, t
  <2>5. r \in Nat /\ BlockSize <= r /\ r <= t
    BY <1>2, <2>4
  <2> QED
    BY <2>5 DEF r, t
<1>9. ASSUME NEW b \in Len(l.cut) + 1 .. Len(u.cut)
      PROVE  \/ u.cut[b] = l.end
             \/ /\ l.end < u.cut[b] /\ u.cut[b] < u.end
                /\ len > BlockSize
                /\ \E a \in 0 .. b : CutAt(u, a) = l.end
  <2>1. CASE b <= Len(m.cut)
    <3>1. b \in 1 .. Len(m.cut) /\ b \in Len(l.cut) + 1 .. Len(m.cut)
      BY <1>2, <1>5, <2>1
    <3> QED
      BY <1>3, <1>6, <3>1
  <2>2. CASE b > Len(m.cut)
    <3> DEFINE k == b - Len(m.cut)
               z == k * BlockSize
    <3>1. k \in 1 .. n /\ b \in Len(m.cut) + 1 .. Len(m.cut) + n
      BY <1>2, <1>5, <1>6, <2>2
    <3>2. u.cut[b] = LastCut(m) + z
      BY <1>6, <3>1
    <3>3. z \in Nat /\ BlockSize <= z /\ z < Buffered(m) + len
      <4>1. /\ z \in Nat /\ BlockSize <= z /\ z <= n * BlockSize
            /\ n * BlockSize < Buffered(m) + len /\ n * BlockSize \in Nat
        BY <1>6, <1>8, <3>1
      <4> DEFINE t == n * BlockSize
      <4>2. t \in Nat /\ z <= t /\ t < Buffered(m) + len
        BY <4>1
      <4> HIDE DEF t, z
      <4> QED
        BY <1>2, <1>5, <4>1, <4>2
    <3> HIDE DEF z, k
    <3>4. Buffered(m) = 0 /\ LastCut(m) = l.end
      BY <1>2, <1>3, <1>4, <1>5, <3>3
    <3>5. l.end < u.cut[b] /\ u.cut[b] < u.end /\ len > BlockSize
      BY <1>2, <1>3, <1>6, <3>2, <3>3, <3>4, SizesAssumption
    <3>6. CutAt(u, Len(m.cut)) = l.end
      BY <1>3, <1>5, <1>6, <1>7, <3>4, LastCutAt, ExtendsCutAt
    <3>7. Len(m.cut) \in 0 .. b
      BY <1>2, <1>5, <2>2
    <3> QED
      BY <3>5, <3>6, <3>7
  <2> QED
    BY <1>2, <1>5, <2>1, <2>2
<1> QED
  BY <1>1, <1>3, <1>6, <1>7, <1>9

(* So it is for a record laid out with its group.                          *)
LEMMA PlaceRecordCuts ==
  ASSUME NEW l, Fits(l), NEW n, NEW len \in Nat
  PROVE  LET u == PlaceRecord(l, n, len)
         IN /\ Extends(u, l) /\ u \in LayoutType
            /\ u.end = l.end + len
            /\ \A b \in Len(l.cut) + 1 .. Len(u.cut) :
                 \/ u.cut[b] = l.end
                 \/ /\ l.end < u.cut[b] /\ u.cut[b] < u.end
                    /\ len > BlockSize
                    /\ \E a \in 0 .. b : CutAt(u, a) = l.end
            /\ IF IsGroupStart(n)
               THEN \E a \in 0 .. Len(u.cut) :
                      CutAt(u, a) = l.end /\ u.index = Append(l.index, a)
               ELSE u.index = l.index
<1> DEFINE g == OpenGroup(l, n)
           u == AddRecord(g, len)
<1>1. PlaceRecord(l, n, len) = u
  BY DEF PlaceRecord
<1>2. l \in LayoutType /\ Len(l.cut) \in Nat
  BY LayoutParts DEF Fits
<1>3. /\ Fits(g) /\ Extends(g, l) /\ g \in LayoutType /\ g.end = l.end
      /\ \A b \in Len(l.cut) + 1 .. Len(g.cut) : g.cut[b] = l.end
      /\ IF IsGroupStart(n)
         THEN /\ g.index = Append(l.index, Len(g.cut))
              /\ CutAt(g, Len(g.cut)) = l.end
         ELSE g.index = l.index
  BY OpenGroupFits, OpenGroupCuts
<1> HIDE DEF g
<1>4. /\ Extends(u, g) /\ u \in LayoutType
      /\ u.end = g.end + len /\ u.index = g.index
      /\ \A b \in Len(g.cut) + 1 .. Len(u.cut) :
           \/ u.cut[b] = g.end
           \/ /\ g.end < u.cut[b] /\ u.cut[b] < u.end
              /\ len > BlockSize
              /\ \E a \in 0 .. b : CutAt(u, a) = g.end
  BY <1>3, AddRecordCuts
<1> HIDE DEF u
<1>5. Len(g.cut) \in Nat /\ Len(u.cut) \in Nat
  BY <1>3, <1>4, LayoutParts
<1>6. Extends(u, l)
  BY <1>2, <1>3, <1>4, ExtendsAgain
<1>7. ASSUME NEW b \in Len(l.cut) + 1 .. Len(u.cut)
      PROVE  \/ u.cut[b] = l.end
             \/ /\ l.end < u.cut[b] /\ u.cut[b] < u.end
                /\ len > BlockSize
                /\ \E a \in 0 .. b : CutAt(u, a) = l.end
  <2>1. CASE b <= Len(g.cut)
    <3>1. b \in 1 .. Len(g.cut) /\ b \in Len(l.cut) + 1 .. Len(g.cut)
      BY <1>2, <1>5, <2>1
    <3> QED
      BY <1>3, <1>4, <3>1 DEF Extends
  <2>2. CASE b > Len(g.cut)
    <3>1. b \in Len(g.cut) + 1 .. Len(u.cut)
      BY <1>2, <1>5, <2>2
    <3> QED
      BY <1>3, <1>4, <3>1
  <2> QED
    BY <1>2, <1>5, <2>1, <2>2
<1>8. ASSUME IsGroupStart(n)
      PROVE  /\ Len(g.cut) \in 0 .. Len(u.cut)
             /\ CutAt(u, Len(g.cut)) = l.end
             /\ u.index = Append(l.index, Len(g.cut))
  <2>1. Len(g.cut) \in 0 .. Len(g.cut)
    BY <1>5
  <2> QED
    BY <1>3, <1>4, <1>8, <2>1, ExtendsCutAt
<1> QED
  BY <1>1, <1>3, <1>4, <1>6, <1>7, <1>8
-----------------------------------------------------------------------------
(* Layouts of whole sequences of records.                                  *)

(* Layouts(lens) is defined by itself; that there is such a function has   *)
(* to be shown before anything can be said about it.                       *)
LEMMA LayoutsStep ==
  ASSUME NEW lens \in Seq(Nat)
  PROVE  /\ Layouts(lens)[0] = EmptyLayout
         /\ \A n \in 1 .. Len(lens) :
              Layouts(lens)[n] = PlaceRecord(Layouts(lens)[n - 1], n - 1, lens[n])
<1> DEFINE Value(f, n) == IF n = 0 THEN EmptyLayout
                          ELSE PlaceRecord(f[n - 1], n - 1, lens[n])
           Chain(f, k) == f = [n \in 0 .. k |-> Value(f, n)]
           S == {k \in Nat : \E f : Chain(f, k)}
<1>1. 0 \in S
  <2> DEFINE f == [n \in 0 .. 0 |-> EmptyLayout]
  <2>1. Chain(f, 0)
    OBVIOUS
  <2> HIDE DEF f, Chain
  <2> QED
    BY <2>1
<1>2. ASSUME NEW k \in Nat, k \in S PROVE k + 1 \in S
  <2>1. PICK f : Chain(f, k)
    BY <1>2
  <2> DEFINE g == [n \in 0 .. k + 1 |-> IF n = k + 1 THEN Value(f, k + 1) ELSE f[n]]
  <2>2. ASSUME NEW n \in 0 .. k + 1 PROVE g[n] = Value(g, n)
    <3>1. CASE n = 0
      <4>1. g[n] = f[0] /\ 0 \in 0 .. k
        BY <3>1
      <4> QED BY <2>1, <3>1, <4>1
    <3>2. CASE n # 0
      <4>1. n - 1 \in 0 .. k /\ n - 1 # k + 1 /\ n - 1 \in 0 .. k + 1
        BY <3>2
      <4>2. g[n - 1] = f[n - 1]
        BY <4>1
      <4>3. Value(g, n) = Value(f, n)
        BY <4>2, <3>2
      <4>4. g[n] = Value(f, n)
        <5>1. CASE n = k + 1
          BY <5>1
        <5>2. CASE n # k + 1
          <6>1. n \in 0 .. k /\ g[n] = f[n]
            BY <5>2
          <6> HIDE DEF Value, g
          <6> QED BY <2>1, <6>1
        <5> QED BY <5>1, <5>2
      <4> QED BY <4>3, <4>4
    <3> QED BY <3>1, <3>2
  <2>3. Chain(g, k + 1)
    <3>1. g = [n \in 0 .. k + 1 |-> g[n]]
      OBVIOUS
    <3> HIDE DEF g, Value
    <3> QED BY <2>2, <3>1
  <2> HIDE DEF g, Chain
  <2> QED
    BY <2>3
<1>3. Len(lens) \in Nat
  BY LenProperties
<1>4. Len(lens) \in S
  <2> HIDE DEF S
  <2> QED BY <1>1, <1>2, <1>3, SetInduction
<1>5. Layouts(lens) = CHOOSE f : Chain(f, Len(lens))
  BY DEF Layouts
<1>6. Chain(Layouts(lens), Len(lens))
  <2> HIDE DEF Chain
  <2> QED BY <1>4, <1>5
<1> QED
  BY <1>3, <1>6

-----------------------------------------------------------------------------
(* Laying out a record block by block.                                     *)

LEMMA NextQuotient ==
  ASSUME NEW a \in Nat, NEW b \in Nat \ {0}
  PROVE  (a + b) \div b = (a \div b) + 1
<1> DEFINE p == a \div b
           q == (a + b) \div b
<1>1. /\ p \in Nat /\ p * b <= a /\ a < p * b + b
      /\ q \in Nat /\ q * b <= a + b /\ a + b < q * b + b
  BY DivisionBounds
<1> HIDE DEF p, q
<1>2. CASE q < p + 1
  <2>1. (p - q) \in Nat /\ p * b = q * b + (p - q) * b /\ (p - q) * b \in Nat
        /\ q * b \in Nat /\ p * b \in Nat
    BY <1>1, <1>2
  <2> DEFINE x == q * b
             y == p * b
             z == (p - q) * b
  <2>2. x \in Nat /\ y \in Nat /\ z \in Nat /\ y = x + z /\ a + b < x + b /\ y <= a
    BY <1>1, <2>1
  <2> HIDE DEF x, y, z
  <2> QED BY <2>2
<1>3. CASE q > p + 1
  <2>1. (q - p - 2) \in Nat /\ (q - p - 2) * b \in Nat
        /\ q * b = p * b + 2 * b + (q - p - 2) * b
        /\ q * b \in Nat /\ p * b \in Nat
    BY <1>1, <1>3
  <2> DEFINE x == q * b
             y == p * b
             z == (q - p - 2) * b
  <2>2. x \in Nat /\ y \in Nat /\ z \in Nat /\ x = y + 2 * b + z /\ a < y + b /\ x <= a + b
    BY <1>1, <2>1
  <2> HIDE DEF x, y, z
  <2> QED BY <2>2
<1>4. q = p + 1
  BY <1>1, <1>2, <1>3
<1> QED BY <1>4 DEF p, q

LEMMA SameLayout ==
  ASSUME NEW l \in LayoutType, NEW m \in LayoutType,
         l.cut = m.cut, l.end = m.end, l.index = m.index
  PROVE  l = m
BY DEF LayoutType

(* A record that fits the block being filled only makes it longer.         *)
LEMMA AppendWhole ==
  ASSUME NEW l, Fits(l), NEW len \in Nat, Buffered(l) + len <= BlockSize
  PROVE  /\ AppendSplit(l, len) \in LayoutType
         /\ AppendSplit(l, len).cut = l.cut
         /\ AppendSplit(l, len).end = l.end + len
         /\ AppendSplit(l, len).index = l.index
<1> DEFINE n == Splits(l, len)
           g == AppendSplit(l, len)
<1>1. /\ l \in LayoutType /\ l.cut \in Seq(Nat) /\ Len(l.cut) \in Nat
      /\ Buffered(l) \in Nat /\ BlockSize \in Nat \ {0}
  BY LayoutParts, SizesAssumption DEF Fits
<1>2. /\ n \in Nat /\ n * BlockSize \in Nat
      /\ n > 0 => n * BlockSize < Buffered(l) + len
      /\ g \in LayoutType /\ g.end = l.end + len /\ g.index = l.index
      /\ Len(g.cut) = Len(l.cut) + n
      /\ \A b \in 1 .. Len(l.cut) : g.cut[b] = l.cut[b]
  BY AppendSplitParts
<1> HIDE DEF n, g
<1>3. n = 0
  <2> SUFFICES ASSUME n > 0 PROVE FALSE
    BY <1>2
  <2>1. n - 1 \in Nat /\ (n - 1) * BlockSize \in Nat
        /\ n * BlockSize = (n - 1) * BlockSize + BlockSize
    BY <1>1, <1>2
  <2> DEFINE x == n * BlockSize
             y == (n - 1) * BlockSize
  <2>2. x \in Nat /\ y \in Nat /\ x = y + BlockSize /\ x < Buffered(l) + len
    BY <1>2, <2>1
  <2> HIDE DEF x, y
  <2> QED BY <1>1, <2>2
<1>4. g.cut \in Seq(Nat) /\ Len(g.cut) = Len(l.cut)
  BY <1>1, <1>2, <1>3 DEF LayoutType
<1>5. g.cut = l.cut
  BY <1>1, <1>2, <1>4, SeqEqual
<1> QED BY <1>2, <1>5 DEF g

(* m is l with the block being filled filled up and cut off.               *)
FilledUp(l, m) ==
  /\ m.cut = Append(l.cut, LastCut(l) + BlockSize)
  /\ m.end = LastCut(l) + BlockSize
  /\ m.index = l.index

(* A longer one fills the block, and goes on behind it.                    *)
LEMMA AppendBlock ==
  ASSUME NEW l, Fits(l), NEW len \in Nat, Buffered(l) + len > BlockSize,
         NEW m, Fits(m), FilledUp(l, m)
  PROVE  AppendSplit(l, len) = AppendSplit(m, len - (BlockSize - Buffered(l)))
<1> DEFINE rest == len - (BlockSize - Buffered(l))
           n == Splits(l, len)
           k == Splits(m, rest)
           g == AppendSplit(l, len)
           h == AppendSplit(m, rest)
           lcut == l.cut
           mcut == m.cut
           gcut == g.cut
           hcut == h.cut
           base == LastCut(l)
           top == LastCut(m)
           old == Buffered(l)
<1>1. /\ lcut \in Seq(Nat) /\ Len(lcut) \in Nat
      /\ l.end = base + old /\ base \in Nat
      /\ old \in 0 .. BlockSize /\ BlockSize \in Nat \ {0}
      /\ old + len > BlockSize
  BY LayoutParts, SizesAssumption DEF Fits, Buffered
<1>2. /\ mcut = Append(lcut, base + BlockSize) /\ m.end = base + BlockSize
      /\ m.index = l.index
  BY DEF FilledUp
<1>3. rest = len - (BlockSize - old)
  OBVIOUS
<1> HIDE DEF lcut, base, old, rest
<1>4. /\ rest \in Nat \ {0} /\ len \in Nat \ {0} /\ old + len = rest + BlockSize
      /\ base + BlockSize \in Nat
  BY <1>1, <1>3
<1>5. /\ Len(mcut) = Len(lcut) + 1
      /\ \A b \in 1 .. Len(lcut) : mcut[b] = lcut[b]
      /\ mcut[Len(lcut) + 1] = base + BlockSize
  BY <1>1, <1>2, <1>4, AppendProperties
<1>6. top = base + BlockSize /\ Buffered(m) = 0
  <2>1. mcut # <<>> /\ mcut[Len(mcut)] = base + BlockSize
    BY <1>1, <1>5
  <2>2. top = base + BlockSize
    BY <2>1 DEF LastCut
  <2> QED BY <1>2, <1>4, <2>2 DEF Buffered
<1>7. n = k + 1
  <2> DEFINE a == rest - 1
  <2>1. a \in Nat /\ old + len - 1 = a + BlockSize /\ 0 + rest - 1 = a
    BY <1>1, <1>4
  <2>2. n = (old + len - 1) \div BlockSize
    BY <1>4 DEF Splits, old
  <2>3. k = (0 + rest - 1) \div BlockSize
    BY <1>4, <1>6 DEF Splits
  <2> HIDE DEF a, n, k
  <2> QED BY <1>1, <2>1, <2>2, <2>3, NextQuotient
<1>8. /\ n \in Nat /\ g \in LayoutType /\ g.end = l.end + len
      /\ g.index = l.index /\ Len(gcut) = Len(lcut) + n
      /\ \A b \in 1 .. Len(lcut) : gcut[b] = lcut[b]
      /\ \A b \in Len(lcut) + 1 .. Len(lcut) + n :
           gcut[b] = base + (b - Len(lcut)) * BlockSize
  BY AppendSplitParts DEF lcut, base
<1>9. /\ k \in Nat /\ h \in LayoutType /\ h.end = m.end + rest
      /\ h.index = m.index /\ Len(hcut) = Len(mcut) + k
      /\ \A b \in 1 .. Len(mcut) : hcut[b] = mcut[b]
      /\ \A b \in Len(mcut) + 1 .. Len(mcut) + k :
           hcut[b] = top + (b - Len(mcut)) * BlockSize
  BY <1>4, AppendSplitParts
<1>10. gcut \in Seq(Nat) /\ hcut \in Seq(Nat)
  BY <1>8, <1>9 DEF LayoutType
<1>11. g.end = h.end /\ g.index = h.index
  <2>1. /\ g.end = (base + old) + len
        /\ h.end = (base + BlockSize) + rest
    BY <1>1, <1>2, <1>8, <1>9
  <2> HIDE DEF g, h
  <2>2. g.end = h.end
    BY <1>1, <1>4, <2>1
  <2> QED BY <1>2, <1>8, <1>9, <2>2
<1> HIDE DEF n, k, mcut, gcut, hcut, top
<1>12. ASSUME NEW b \in 1 .. Len(gcut) PROVE gcut[b] = hcut[b]
  <2>1. CASE b \in 1 .. Len(lcut)
    <3>1. b \in 1 .. Len(mcut)
      BY <1>1, <1>5, <2>1
    <3> QED BY <1>5, <1>8, <1>9, <2>1, <3>1
  <2>2. CASE b = Len(lcut) + 1
    <3>1. b \in Len(lcut) + 1 .. Len(lcut) + n /\ b - Len(lcut) = 1
          /\ b \in 1 .. Len(mcut)
      BY <1>1, <1>5, <1>7, <1>8, <1>9, <2>2
    <3>2. gcut[b] = base + 1 * BlockSize
      BY <1>8, <3>1
    <3>3. 1 * BlockSize = BlockSize
      BY <1>1
    <3> QED BY <1>5, <1>9, <2>2, <3>1, <3>2, <3>3
  <2>3. CASE b > Len(lcut) + 1
    <3> DEFINE i == b - Len(mcut)
    <3>1. /\ b \in Len(lcut) + 1 .. Len(lcut) + n
          /\ b \in Len(mcut) + 1 .. Len(mcut) + k
          /\ i \in Nat /\ b - Len(lcut) = i + 1
      BY <1>1, <1>5, <1>7, <1>8, <1>9, <2>3
    <3>2. gcut[b] = base + (i + 1) * BlockSize
      BY <1>8, <3>1
    <3>3. hcut[b] = top + i * BlockSize
      BY <1>9, <3>1
    <3> HIDE DEF i
    <3>4. (i + 1) * BlockSize = i * BlockSize + BlockSize /\ i * BlockSize \in Nat
      BY <1>1, <3>1, Multiples
    <3> DEFINE x == i * BlockSize
               y == (i + 1) * BlockSize
    <3>5. /\ gcut[b] = base + y /\ hcut[b] = (base + BlockSize) + x
          /\ y = x + BlockSize /\ x \in Nat
      BY <1>6, <3>2, <3>3, <3>4
    <3> HIDE DEF x, y
    <3> QED BY <1>1, <3>5
  <2> QED BY <1>1, <1>8, <2>1, <2>2, <2>3
<1>13. Len(gcut) = Len(hcut)
  BY <1>1, <1>5, <1>7, <1>8, <1>9
<1>14. gcut = hcut
  BY <1>10, <1>12, <1>13, SeqEqual
<1>15. g = h
  BY <1>8, <1>9, <1>11, <1>14, SameLayout DEF gcut, hcut
<1> QED BY <1>15 DEF rest, old
=============================================================================
