------------------------- MODULE BatchReaderProofs -------------------------
(***************************************************************************)
(* What is proved of BatchReader and of the E2 decoders it runs on, for    *)
(* every file, request and number of calls.                                *)
(*                                                                         *)
(* 1. Records (E2Record).  decode_record_adaptive is a search with a memo, *)
(*    a bound on the states it examines and a bound of two on what it      *)
(*    looks for.  `Accounts` says what such a search has made of the       *)
(*    framings it was to look through; it holds of the end of a record, of *)
(*    one alternative, of all alternatives and, by induction on the fields *)
(*    left, of the whole search.  RecordVerdictIsRight follows.            *)
(* 2. Blocks (E2Reader).  read_block lands on the next block that is no    *)
(*    index block; one turn of the reader's loop does one of five things   *)
(*    (`Turn`).  `Walks` holds as long as nothing failed, `Delivered`      *)
(*    counts the records handed out and `Spent` what was passed over.      *)
(* 3. Batches (BatchReader).  SomeStep restates Next by what a step does   *)
(*    to the reader, to the rows gathered and to the answers; IInv is the  *)
(*    inductive invariant, each of its parts with a lemma that SomeStep    *)
(*    preserves it.                                                        *)
(***************************************************************************)
EXTENDS BatchReader, NaturalSets, SequenceTheorems, FiniteSetTheorems

-----------------------------------------------------------------------------
(* What reading a field can give.                                          *)
FieldResults == {Failed} \cup {Decoded(v, next) : v \in Value, next \in Nat \ {0}}

(* Reading a field may fail,                                               *)
LEMMA FailedIsResult == Failed \in FieldResults
BY DEF FieldResults

(* ... or give a value and an offset.                                      *)
LEMMA DecodedIsResult ==
  ASSUME NEW v \in Value, NEW next \in Nat \ {0}
  PROVE  Decoded(v, next) \in FieldResults
BY DEF FieldResults

(* What reading a field gives: nothing, or a value and where the next      *)
(* field begins.                                                           *)
LEMMA ResultFacts ==
  ASSUME NEW d \in FieldResults
  PROVE  /\ d.ok \in BOOLEAN
         /\ d.ok => d.v \in Value /\ d.next \in Nat \ {0} /\ d = Decoded(d.v, d.next)
<1>1. CASE d = Failed
  BY <1>1 DEF Failed
<1>2. ASSUME NEW v \in Value, NEW next \in Nat \ {0}, d = Decoded(v, next)
      PROVE  /\ d.ok \in BOOLEAN
             /\ d.ok => d.v \in Value /\ d.next \in Nat \ {0} /\ d = Decoded(d.v, d.next)
  <2>1. d.ok = TRUE /\ d.v = v /\ d.next = next
    BY <1>2 DEF Decoded
  <2> QED BY <1>2, <2>1
<1>3. d = Failed \/ \E v \in Value, next \in Nat \ {0} : d = Decoded(v, next)
  BY DEF FieldResults
<1> QED BY <1>1, <1>2, <1>3

(* The values of each kind of field.                                       *)
LEMMA ValueKinds ==
  /\ NullValue \in Value /\ NotANumber \in Value
  /\ \A s \in Seq(Nat) : <<"number", s>> \in Value /\ <<"bytes", s>> \in Value
  /\ \A b \in BOOLEAN : <<"bool", b>> \in Value
  /\ \A m, n \in Nat : <<"slice", m, n>> \in Value /\ <<"whole", m>> \in Value
  /\ \A s \in Seq(Nat), n \in Nat, b \in BOOLEAN : <<"decimal", s, n, b>> \in Value
BY DEF Value

(* The table of the framings of the numeric types has no negative entry,   *)
(* and what is taken off a length byte is at most the first length that    *)
(* is not null.                                                            *)
LEMMA FormatFacts ==
  ASSUME NEW type \in Numbers, NEW base \in {5, 6}
  PROVE  LET f == NumberFormat(type, base)
         IN f.zero \in Nat /\ f.minus \in Nat /\ f.least \in Nat /\ f.most \in Nat
              /\ f.minus <= f.zero
<1>1. CASE type = "Byte"
  BY <1>1 DEF NumberFormat
<1>2. CASE type = "Int16"
  BY <1>2 DEF NumberFormat
<1>3. CASE type = "Int32"
  BY <1>3 DEF NumberFormat
<1>4. CASE type = "Int64"
  BY <1>4 DEF NumberFormat
<1>5. CASE type = "Float"
  BY <1>5 DEF NumberFormat
<1>6. CASE type = "Date"
  BY <1>6 DEF NumberFormat
<1>7. CASE type = "DateTime"
  BY <1>7 DEF NumberFormat
<1>8. CASE type = "Time"
  BY <1>8 DEF NumberFormat
<1>9. CASE type = "Double"
  BY <1>9 DEF NumberFormat
<1> QED BY <1>1, <1>2, <1>3, <1>4, <1>5, <1>6, <1>7, <1>8, <1>9 DEF Numbers

(* A field's bytes, padded to its width.                                   *)
LEMMA PaddedType ==
  ASSUME NEW data \in Seq(Nat), NEW pos \in Nat, NEW n \in Nat, NEW width \in Nat,
         pos + n <= Len(data)
  PROVE  Padded(data, pos, n, width) \in Seq(Nat)
<1>1. \A k \in 1..width : k <= n => data[pos + k] \in Nat
  <2> SUFFICES ASSUME NEW k \in 1..width, k <= n PROVE data[pos + k] \in Nat
    OBVIOUS
  <2>1. pos + k \in 1..Len(data)
    OBVIOUS
  <2> QED BY <2>1, ElementOfSeq
<1>2. Padded(data, pos, n, width) \in [1..width -> Nat]
  BY <1>1 DEF Padded
<1> QED BY <1>2

(* A length byte that is no null and whose field ends inside the record.   *)
LEMMA LengthByte ==
  \A length, minus, zero, pos, end \in Nat :
    /\ minus <= zero /\ ~(length < zero) /\ ~(pos + (length - minus) > end)
    => /\ length - minus \in Nat /\ pos + (length - minus) <= end
       /\ pos + (length - minus) + 1 \in Nat \ {0}
OBVIOUS

(* Reading a number gives a value or nothing;                              *)
LEMMA NumberIsResult ==
  ASSUME NEW data \in Seq(Nat), NEW pos \in 1..Len(data), NEW type \in Numbers,
         NEW base \in {5, 6}
  PROVE  decode_number(data, pos, type, NumberFormat(type, base)) \in FieldResults
<1> DEFINE f == NumberFormat(type, base)
           n == data[pos] - f.minus
<1>1. /\ f.zero \in Nat /\ f.minus \in Nat /\ f.least \in Nat /\ f.most \in Nat
      /\ f.minus <= f.zero
  BY FormatFacts
<1>2. data[pos] \in Nat /\ Len(data) \in Nat
  BY ElementOfSeq
<1> HIDE DEF f
<1>3. ASSUME NEW s \in Seq(Nat) PROVE NumberValue(type, s) \in Value
  <2>1. NotANumber \in Value /\ <<"number", s>> \in Value
    BY ValueKinds
  <2>2. NumberValue(type, s) = NotANumber \/ NumberValue(type, s) = <<"number", s>>
    BY DEF NumberValue
  <2> QED BY <2>1, <2>2
<1>4. Decoded(NullValue, pos + 1) \in FieldResults
  BY ValueKinds, DecodedIsResult
<1>5. Decoded(NumberValue(type, Padded(data, pos, 0, f.most)), pos + 1) \in FieldResults
  <2>0. pos \in Nat /\ 0 \in Nat /\ pos + 0 <= Len(data)
    BY <1>2
  <2>1. Padded(data, pos, 0, f.most) \in Seq(Nat)
    BY <1>1, <2>0, PaddedType
  <2>2. NumberValue(type, Padded(data, pos, 0, f.most)) \in Value
    BY <1>3, <2>1
  <2> QED BY <2>2, DecodedIsResult
<1>6. ASSUME ~(data[pos] < f.zero), ~(pos + n > Len(data))
      PROVE  Decoded(NumberValue(type, Padded(data, pos, n, f.most)), pos + n + 1)
               \in FieldResults
  <2>1. n \in Nat /\ pos + n <= Len(data) /\ pos + n + 1 \in Nat \ {0}
    <3> DEFINE length == data[pos]
    <3>1. length \in Nat /\ ~(length < f.zero) /\ ~(pos + (length - f.minus) > Len(data))
      BY <1>2, <1>6
    <3>2. pos \in Nat /\ Len(data) \in Nat
      OBVIOUS
    <3> HIDE DEF length
    <3>3. /\ length - f.minus \in Nat /\ pos + (length - f.minus) <= Len(data)
          /\ pos + (length - f.minus) + 1 \in Nat \ {0}
      BY <1>1, <3>1, <3>2, LengthByte
    <3> QED BY <3>3 DEF length
  <2> HIDE DEF n
  <2>2. Padded(data, pos, n, f.most) \in Seq(Nat)
    <3>1. pos \in Nat
      OBVIOUS
    <3> QED BY <1>1, <2>1, <3>1, PaddedType
  <2>3. NumberValue(type, Padded(data, pos, n, f.most)) \in Value
    BY <1>3, <2>2
  <2> QED BY <2>1, <2>3, DecodedIsResult
<1> QED
  BY <1>4, <1>5, <1>6, FailedIsResult DEF decode_number, f

(* ... so does reading a Bool,                                             *)
LEMMA BoolIsResult ==
  ASSUME NEW data \in Seq(Nat), NEW pos \in 1..Len(data)
  PROVE  decode_bool(data, pos) \in FieldResults
<1>1. Decoded(NullValue, pos + 1) \in FieldResults
  BY ValueKinds, DecodedIsResult
<1>2. Decoded(<<"bool", data[pos] = 21>>, pos + 1) \in FieldResults
  <2>1. (data[pos] = 21) \in BOOLEAN
    OBVIOUS
  <2>2. <<"bool", data[pos] = 21>> \in Value
    BY <2>1, ValueKinds
  <2> QED BY <2>2, DecodedIsResult
<1> QED BY <1>1, <1>2, FailedIsResult DEF decode_bool

(* ... bytes that stand in the record,                                     *)
LEMMA InlineIsResult ==
  ASSUME NEW data \in Seq(Nat), NEW from \in Nat \ {0}, NEW n \in Nat
  PROVE  Inline(data, from, n) \in FieldResults
<1>1. ASSUME from + n - 1 <= Len(data)
      PROVE  Decoded(<<"bytes", SubSeq(data, from, from + n - 1)>>, from + n) \in FieldResults
  <2>1. SubSeq(data, from, from + n - 1) \in Seq(Nat)
    BY <1>1, SubSeqProperties
  <2>2. <<"bytes", SubSeq(data, from, from + n - 1)>> \in Value
    BY <2>1, ValueKinds
  <2> QED BY <2>2, DecodedIsResult
<1> QED BY <1>1, FailedIsResult DEF Inline

(* (two bytes make a number)                                               *)
LEMMA WordType ==
  ASSUME NEW data \in Seq(Nat), NEW pos \in Nat \ {0}, pos + 1 <= Len(data)
  PROVE  u16_at(data, pos) \in Nat
<1>1. data[pos] \in Nat /\ data[pos + 1] \in Nat
  BY ElementOfSeq
<1> QED BY <1>1 DEF u16_at

(* ... a string or a blob,                                                 *)
LEMMA BytesIsResult ==
  ASSUME NEW data \in Seq(Nat), NEW pos \in 1..Len(data), NEW type
  PROVE  decode_bytes(data, pos, BytesFormat(type)) \in FieldResults
<1> DEFINE f == BytesFormat(type)
<1> HIDE DEF f
<1>1. data[pos] \in Nat /\ Len(data) \in Nat
  BY ElementOfSeq
<1>2. Decoded(NullValue, pos + 1) \in FieldResults
  BY ValueKinds, DecodedIsResult
<1>3. data[pos] >= 128 => Inline(data, pos + 1, data[pos] - 128) \in FieldResults
  BY <1>1, InlineIsResult
<1>4. pos + 2 <= Len(data) => Inline(data, pos + 3, u16_at(data, pos + 1)) \in FieldResults
  BY <1>1, WordType, InlineIsResult
<1>5. ASSUME pos + 8 <= Len(data)
      PROVE  /\ Decoded(<<"slice", u16_at(data, pos + 1), u16_at(data, pos + 5)>>, pos + 9)
                  \in FieldResults
             /\ Decoded(<<"whole", u16_at(data, pos + 1)>>, pos + 9) \in FieldResults
  <2>1. u16_at(data, pos + 1) \in Nat /\ u16_at(data, pos + 5) \in Nat
    BY <1>5, WordType
  <2>2. /\ <<"slice", u16_at(data, pos + 1), u16_at(data, pos + 5)>> \in Value
        /\ <<"whole", u16_at(data, pos + 1)>> \in Value
    BY <2>1, ValueKinds
  <2> QED BY <2>2, DecodedIsResult
<1> QED
  BY <1>1, <1>2, <1>3, <1>4, <1>5, FailedIsResult DEF decode_bytes, f

(* (halving keeps the order)                                               *)
LEMMA Halves ==
  \A m, n \in Nat : m <= n => m \div 2 \in Nat /\ n \div 2 \in Nat /\ m \div 2 <= n \div 2
OBVIOUS

(* ... and a FixedDecimal.                                                 *)
LEMMA DecimalIsResult ==
  ASSUME NEW data \in Seq(Nat), NEW pos \in 1..Len(data)
  PROVE  decode_fixed_decimal(data, pos) \in FieldResults
<1> DEFINE last == data[pos + 1]
           next == pos + 3 + last \div 2 + 1
<1>1. Decoded(NullValue, pos + 1) \in FieldResults
  BY ValueKinds, DecodedIsResult
<1>2. ASSUME ~(pos + 2 > Len(data)), ~(next - 1 > Len(data))
      PROVE  Decoded(<<"decimal", [i \in 1..last + 1 |-> Nibble(data, pos, i - 1)],
                       data[pos + 2] % 128, data[pos + 2] >= 128>>, next) \in FieldResults
  <2>1. last \in Nat /\ data[pos + 2] \in Nat /\ Len(data) \in Nat
    <3>0. Len(data) \in Nat /\ pos \in Nat /\ ~(pos + 2 > Len(data))
      BY <1>2
    <3>1. Len(data) \in Nat /\ pos + 2 <= Len(data)
      BY ONLY <3>0
    <3>2. pos + 1 \in 1..Len(data) /\ pos + 2 \in 1..Len(data)
      BY <3>1
    <3> QED BY <3>1, <3>2, ElementOfSeq
  <2>2. ASSUME NEW i \in 1..last + 1 PROVE Nibble(data, pos, i - 1) \in Nat
    <3> DEFINE h == (i - 1) \div 2
    <3>1. h \in Nat /\ h <= last \div 2 /\ last \div 2 \in Nat
      <4> HIDE DEF last
      <4>1. i - 1 \in Nat /\ i - 1 <= last /\ last \in Nat
        BY <2>1
      <4> QED BY <4>1, Halves
    <3>2. pos + 3 + h \in 1..Len(data)
      BY <1>2, <2>1, <3>1
    <3>3. data[pos + 3 + h] \in Nat
      BY <3>2, ElementOfSeq
    <3>4. data[pos + 3 + h] \div 16 \in Nat /\ data[pos + 3 + h] % 16 \in Nat
      <4> DEFINE byte == data[pos + 3 + h]
      <4> HIDE DEF byte
      <4>1. byte \in Nat BY <3>3 DEF byte
      <4>2. byte \div 16 \in Nat /\ byte % 16 \in Nat
        BY <4>1
      <4> QED BY <4>2 DEF byte
    <3> QED BY <3>4 DEF Nibble
  <2>3. [i \in 1..last + 1 |-> Nibble(data, pos, i - 1)] \in Seq(Nat)
    <3> DEFINE digits == [i \in 1..last + 1 |-> Nibble(data, pos, i - 1)]
    <3>1. digits \in [1..last + 1 -> Nat]
      BY <2>2
    <3> HIDE DEF digits
    <3> HIDE DEF last
    <3>2. last + 1 \in Nat
      BY <2>1
    <3>3. digits \in Seq(Nat)
      BY <3>1, <3>2
    <3> QED BY <3>3 DEF digits
  <2>4. data[pos + 2] % 128 \in Nat /\ (data[pos + 2] >= 128) \in BOOLEAN
    BY <2>1
  <2>5. <<"decimal", [i \in 1..last + 1 |-> Nibble(data, pos, i - 1)],
          data[pos + 2] % 128, data[pos + 2] >= 128>> \in Value
    BY <2>3, <2>4, ValueKinds
  <2>6. next \in Nat \ {0}
    <3> HIDE DEF last
    <3>1. last \div 2 \in Nat
      BY <2>1
    <3> DEFINE half == last \div 2
    <3> HIDE DEF half
    <3>2. half \in Nat /\ pos \in Nat
      BY <3>1 DEF half
    <3>3. pos + 3 + half + 1 \in Nat \ {0}
      BY <3>2
    <3> QED BY <3>3 DEF half
  <2> HIDE DEF next, last
  <2> QED BY <2>5, <2>6, DecodedIsResult
<1> QED
  BY <1>1, <1>2, FailedIsResult DEF decode_fixed_decimal

(* Every decoder of a field, at whatever offset, gives a result: no read   *)
(* goes past the record.                                                   *)
LEMMA FieldAtType ==
  ASSUME NEW fields \in Seq(FieldTypes), NEW data \in Seq(Nat), NEW flag \in BOOLEAN,
         NEW base \in {5, 6}, NEW i \in 1..Len(fields), NEW off \in Nat \ {0}
  PROVE  FieldAt(fields, data, flag, base, i, off) \in FieldResults
<1> DEFINE type == fields[i]
<1>0. Len(data) \in Nat
  OBVIOUS
<1>1. type \in FieldTypes
  BY ElementOfSeq
<1>2. ASSUME NEW pos \in 1..Len(data) PROVE DecodeAt(data, pos, type, base) \in FieldResults
  <2> HIDE DEF type
  <2>1. CASE type = "Bool"
    BY <1>1, <2>1, BoolIsResult DEF DecodeAt, Numbers
  <2>2. CASE type \in Numbers
    BY <1>1, <2>2, NumberIsResult DEF DecodeAt, Numbers
  <2>3. CASE type = "FixedDecimal"
    BY <1>1, <2>3, DecimalIsResult DEF DecodeAt, Numbers
  <2>4. CASE type \notin Numbers \cup {"Bool", "FixedDecimal"}
    BY <1>1, <2>4, BytesIsResult DEF DecodeAt
  <2> QED BY <2>1, <2>2, <2>3, <2>4
<1>3. ASSUME NEW pos \in {off, off + 1}, ~(pos > Len(data)) PROVE pos \in 1..Len(data)
  BY <1>0, <1>3
<1> QED BY <1>2, <1>3, FailedIsResult DEF FieldAt, decode_field

Offsets == Nat \ {0}

(* The readings of a field in one base are results ...                     *)
LEMMA ReadingsType ==
  ASSUME NEW fields \in Seq(FieldTypes), NEW data \in Seq(Nat), NEW flag \in BOOLEAN,
         NEW b \in {5, 6}, NEW i \in 1..Len(fields), NEW off \in Offsets
  PROVE  Readings(fields, data, flag, b, i, off) \subseteq FieldResults
BY FieldAtType DEF Readings, Offsets

(* ... and what lies behind one of them are lists of values.               *)
LEMMA BehindType ==
  ASSUME NEW d \in FieldResults, NEW shorter \in [Offsets -> SUBSET Seq(Value)]
  PROVE  BehindReading(d, shorter) \subseteq Seq(Value)
<1> SUFFICES ASSUME d.ok, NEW rest \in shorter[d.next] PROVE <<d.v>> \o rest \in Seq(Value)
  BY DEF BehindReading
<1>1. d.v \in Value /\ d.next \in Offsets
  BY ResultFacts DEF Offsets
<1>2. rest \in Seq(Value) /\ <<d.v>> \in Seq(Value)
  BY <1>1
<1> QED BY <1>2, ConcatProperties

(* What FramingsFrom is, field by field from the last.                     *)
LEMMA FramingsSteps ==
  ASSUME NEW fields \in Seq(FieldTypes), NEW data \in Seq(Nat), NEW flag \in BOOLEAN,
         NEW b \in {5, 6}
  PROVE  LET n == Len(fields)
             rests == FramingsFrom(fields, data, flag, b)
         IN /\ \A k \in 0..n : rests[k] \in [Offsets -> SUBSET Seq(Value)]
            /\ \A off \in Offsets :
                 rests[0][off] = IF off = Len(data) + 1 THEN {<<>>} ELSE {}
            /\ \A k \in 1..n, off \in Offsets :
                 rests[k][off] = BehindReadings(Readings(fields, data, flag, b, n + 1 - k, off),
                                                rests[k - 1])
<1> DEFINE n == Len(fields)
           F == FramingsFrom(fields, data, flag, b)
           D == [Offsets -> SUBSET Seq(Value)]
           Base == [off \in Offsets |-> IF off = Len(data) + 1 THEN {<<>>} ELSE {}]
           Step(k, shorter) ==
             [off \in Offsets |->
                BehindReadings(Readings(fields, data, flag, b, n + 1 - k, off), shorter)]
           Eq(f) == f = [k \in 0..n |-> IF k = 0 THEN Base ELSE Step(k, f[k - 1])]
           g == [k \in 1..n |-> [shorter \in D |-> Step(k, shorter)]]
<1>1. n \in Nat
  OBVIOUS
<1>2. Base \in D
  OBVIOUS
<1>3. ASSUME NEW k \in 1..n, NEW shorter \in D PROVE Step(k, shorter) \in D
  <2>1. ASSUME NEW off \in Offsets
        PROVE  BehindReadings(Readings(fields, data, flag, b, n + 1 - k, off), shorter)
                 \subseteq Seq(Value)
    <3>1. n + 1 - k \in 1..n
      BY <1>1
    <3>2. Readings(fields, data, flag, b, n + 1 - k, off) \subseteq FieldResults
      BY <3>1, ReadingsType
    <3>3. \A d \in FieldResults : BehindReading(d, shorter) \subseteq Seq(Value)
      BY BehindType
    <3> QED BY <3>2, <3>3 DEF BehindReadings
  <2> QED BY <2>1
<1>4. g \in Steps(D, n)
  BY <1>3 DEF Steps
<1>5. \A k \in 1..n : \A shorter \in D : g[k][shorter] = Step(k, shorter)
  OBVIOUS
<1> HIDE DEF D, Base, Step, g, n
<1>6. PICK f : Recurs(f, D, n, Base, g)
  BY <1>1, <1>2, <1>4, RecursionExists, Zenon
<1>7. Eq(f)
  <2>1. ASSUME NEW k \in 0..n PROVE f[k] = IF k = 0 THEN Base ELSE Step(k, f[k - 1])
    <3>1. CASE k = 0
      BY <1>6, <3>1 DEF Recurs
    <3>2. CASE k # 0
      <4>1. k \in 1..n /\ k - 1 \in 0..n
        BY <1>1, <3>2
      <4> QED BY <1>5, <1>6, <3>2, <4>1 DEF Recurs
    <3> QED BY <3>1, <3>2
  <2> QED BY <1>6, <2>1 DEF Recurs
<1>8. F = CHOOSE h : Eq(h)
  BY DEF FramingsFrom, Base, Step, n, Offsets
<1>9. Eq(F)
  <2> HIDE DEF Eq, F
  <2> QED BY <1>7, <1>8
<1> HIDE DEF F
<1>10. F[0] = Base /\ \A k \in 1..n : F[k] = Step(k, F[k - 1])
  <2>1. \A k \in 0..n : F[k] = IF k = 0 THEN Base ELSE Step(k, F[k - 1])
    BY <1>9
  <2> QED BY <1>1, <2>1
<1>11. \A k \in 0..n : F[k] \in D
  BY <1>1, <1>2, <1>3, <1>10, RecursionTyped
<1>12. \A k \in 1..n, off \in Offsets :
         F[k][off] = BehindReadings(Readings(fields, data, flag, b, n + 1 - k, off), F[k - 1])
  BY <1>10, ZenonT(60) DEF Step
<1>13. \A off \in Offsets : F[0][off] = IF off = Len(data) + 1 THEN {<<>>} ELSE {}
  BY <1>10 DEF Base
<1> QED
  BY <1>11, <1>12, <1>13 DEF D, n, F

-----------------------------------------------------------------------------
(* A reading of all fields with the Int32s in one base.                    *)

ReadStates ==
  [ok : BOOLEAN, off : Offsets, values : Seq(Value), saw : BOOLEAN]

UptoOf(fields, data, flag, base) ==
  CHOOSE f : f = [i \in 0..Len(fields) |->
    IF i = 0 THEN [ok |-> TRUE, off |-> 1, values |-> <<>>, saw |-> FALSE]
    ELSE FieldRead(fields, data, flag, base, i, f[i - 1])]

(* One field read by the walk that takes one base for all Int32s.          *)
LEMMA FieldReadType ==
  ASSUME NEW fields \in Seq(FieldTypes), NEW data \in Seq(Nat), NEW flag \in BOOLEAN,
         NEW base \in {5, 6}, NEW i \in 1..Len(fields), NEW r \in ReadStates
  PROVE  FieldRead(fields, data, flag, base, i, r) \in ReadStates
<1> DEFINE d == FieldAt(fields, data, flag, base, i, r.off)
<1>1. /\ r.off \in Offsets /\ r.values \in Seq(Value) /\ r.saw \in BOOLEAN
      /\ r.ok \in BOOLEAN
  BY DEF ReadStates
<1>2. d \in FieldResults
  BY <1>1, FieldAtType DEF Offsets
<1> HIDE DEF d
<1>3. [r EXCEPT !.ok = FALSE] \in ReadStates
  BY DEF ReadStates
<1>4. ASSUME d.ok
      PROVE  [ok |-> TRUE, off |-> d.next, values |-> Append(r.values, d.v),
              saw |-> r.saw \/ Ambiguous(fields, data, i, r.off)] \in ReadStates
  <2>1. d.v \in Value /\ d.next \in Offsets
    BY <1>2, <1>4, ResultFacts DEF Offsets
  <2>2. Append(r.values, d.v) \in Seq(Value)
    BY <1>1, <2>1
  <2>3. (r.saw \/ Ambiguous(fields, data, i, r.off)) \in BOOLEAN
    BY <1>1 DEF Ambiguous
  <2> QED BY <2>1, <2>2, <2>3 DEF ReadStates
<1> QED BY <1>3, <1>4 DEF FieldRead, d

(* ReadUniformly is the last step of a walk over the fields.               *)
LEMMA UniformSteps ==
  ASSUME NEW fields \in Seq(FieldTypes), NEW data \in Seq(Nat), NEW flag \in BOOLEAN,
         NEW base \in {5, 6}
  PROVE  LET n == Len(fields)
             F == UptoOf(fields, data, flag, base)
         IN /\ ReadUniformly(fields, data, flag, base) = F[n]
            /\ F[0] = [ok |-> TRUE, off |-> 1, values |-> <<>>, saw |-> FALSE]
            /\ \A i \in 0..n : F[i] \in ReadStates
            /\ \A i \in 1..n : F[i] = FieldRead(fields, data, flag, base, i, F[i - 1])
<1> DEFINE n == Len(fields)
           F == UptoOf(fields, data, flag, base)
           D == ReadStates
           Base == [ok |-> TRUE, off |-> 1, values |-> <<>>, saw |-> FALSE]
           Step(i, r) == FieldRead(fields, data, flag, base, i, r)
           Eq(f) == f = [i \in 0..n |-> IF i = 0 THEN Base ELSE Step(i, f[i - 1])]
           g == [i \in 1..n |-> [r \in D |-> Step(i, r)]]
<1>1. n \in Nat
  OBVIOUS
<1>2. Base \in D
  BY DEF ReadStates, Offsets
<1>3. ASSUME NEW i \in 1..n, NEW r \in D PROVE Step(i, r) \in D
  BY FieldReadType
<1>4. g \in Steps(D, n)
  BY <1>3 DEF Steps
<1>5. \A i \in 1..n : \A r \in D : g[i][r] = Step(i, r)
  OBVIOUS
<1> HIDE DEF D, Base, Step, g, n
<1>6. PICK f : Recurs(f, D, n, Base, g)
  BY <1>1, <1>2, <1>4, RecursionExists, Zenon
<1>7. Eq(f)
  <2>1. ASSUME NEW i \in 0..n PROVE f[i] = IF i = 0 THEN Base ELSE Step(i, f[i - 1])
    <3>1. CASE i = 0
      BY <1>6, <3>1 DEF Recurs
    <3>2. CASE i # 0
      <4>1. i \in 1..n /\ i - 1 \in 0..n
        BY <1>1, <3>2
      <4> QED BY <1>5, <1>6, <3>2, <4>1 DEF Recurs
    <3> QED BY <3>1, <3>2
  <2> QED BY <1>6, <2>1 DEF Recurs
<1>8. F = CHOOSE h : Eq(h)
  BY DEF UptoOf, Base, Step, n
<1>9. Eq(F)
  <2> HIDE DEF Eq, F
  <2> QED BY <1>7, <1>8
<1>10. ReadUniformly(fields, data, flag, base) = F[n]
  BY DEF ReadUniformly, UptoOf, n
<1> HIDE DEF F
<1>11. F[0] = Base /\ \A i \in 1..n : F[i] = Step(i, F[i - 1])
  <2>1. \A i \in 0..n : F[i] = IF i = 0 THEN Base ELSE Step(i, F[i - 1])
    BY <1>9
  <2> QED BY <1>1, <2>1
<1>12. \A i \in 0..n : F[i] \in D
  BY <1>1, <1>2, <1>3, <1>11, RecursionTyped
<1> QED
  BY <1>10, <1>11, <1>12 DEF D, Base, Step, n, F

(* The alternatives of a field are its readings.                           *)
AlternativesOf(a, rs) ==
  /\ a \in Seq(FieldResults) /\ Len(a) \in 0..2
  /\ \A j \in 1..Len(a) : a[j] \in rs /\ a[j] \in FieldResults /\ a[j].ok
  /\ \A d \in rs : d.ok => \E j \in 1..Len(a) : a[j] = d

(* The readings the search tries are the framings of the definition, in    *)
(* the order of the search.                                                *)
LEMMA AlternativesAre ==
  ASSUME NEW fields \in Seq(FieldTypes), NEW data \in Seq(Nat), NEW flag \in BOOLEAN,
         NEW base \in {5, 6}, NEW i \in 1..Len(fields), NEW off \in Offsets
  PROVE  AlternativesOf(Alternatives(fields, data, flag, base, i, off),
                        Readings(fields, data, flag, base, i, off))
<1> DEFINE a == Alternatives(fields, data, flag, base, i, off)
           rs == Readings(fields, data, flag, base, i, off)
           one == FieldAt(fields, data, flag, base, i, off)
           other == FieldAt(fields, data, flag, 11 - base, i, off)
           amb == Ambiguous(fields, data, i, off)
           second == amb /\ other.ok /\ (one.ok => other # one \/ other.v = NotANumber)
<1>1. 11 - base \in {5, 6} /\ {5, 6} = {base, 11 - base}
  OBVIOUS
<1>2. one \in FieldResults /\ other \in FieldResults
  BY <1>1, FieldAtType DEF Offsets
<1>3. rs = IF amb THEN {one, other} ELSE {one}
  <2>1. CASE amb
    <3>1. rs = {FieldAt(fields, data, flag, x, i, off) : x \in {5, 6}}
      BY <2>1 DEF Readings
    <3> QED BY <1>1, <2>1, <3>1
  <2>2. CASE ~amb
    BY <2>2 DEF Readings
  <2> QED BY <2>1, <2>2
<1>4. a = (IF one.ok THEN <<one>> ELSE <<>>) \o (IF second THEN <<other>> ELSE <<>>)
  BY DEF Alternatives
<1>5. one.ok \in BOOLEAN /\ other.ok \in BOOLEAN
  BY <1>2, ResultFacts
<1> HIDE DEF one, other, amb, rs, a
<1>10. /\ <<one>> \o <<other>> = <<one, other>>
       /\ <<one>> \o <<>> = <<one>> /\ <<>> \o <<other>> = <<other>> /\ <<>> \o <<>> = <<>>
  <2>1. /\ <<one>> \in Seq(FieldResults) /\ <<other>> \in Seq(FieldResults)
        /\ <<>> \in Seq(FieldResults)
    BY <1>2
  <2>2. <<one>> \o <<>> = <<one>> /\ <<>> \o <<other>> = <<other>> /\ <<>> \o <<>> = <<>>
    BY <2>1, ConcatEmptySeq
  <2> DEFINE x == <<one>>
             y == <<other>>
             z == <<one, other>>
  <2>3. z \in Seq(FieldResults)
    BY <1>2
  <2>4. /\ Len(x) = 1 /\ Len(y) = 1 /\ Len(z) = 2 /\ x[1] = one /\ y[1] = other
        /\ z[1] = one /\ z[2] = other
    OBVIOUS
  <2> HIDE DEF x, y, z
  <2>5. x \o y \in Seq(FieldResults) /\ Len(x \o y) = 2
        /\ (x \o y)[1] = one /\ (x \o y)[2] = other
    BY <2>1, <2>4, ConcatProperties DEF x, y
  <2>6. x \o y = z
    <3>1. \A j \in 1..Len(z) : j = 1 \/ j = 2
      BY <2>4
    <3>2. \A j \in 1..Len(x \o y) : (x \o y)[j] = z[j]
      BY <2>4, <2>5, <3>1
    <3> QED BY <2>3, <2>4, <2>5, <3>2, SeqEqual
  <2> QED BY <2>2, <2>6 DEF x, y, z
<1>6. CASE one.ok /\ second
  <2>1. a = <<one, other>>
    BY <1>4, <1>6, <1>10
  <2>2. a \in Seq(FieldResults) /\ Len(a) = 2 /\ a[1] = one /\ a[2] = other
    BY <1>2, <2>1
  <2> QED BY <1>2, <1>3, <1>6, <2>2 DEF a, rs, AlternativesOf
<1>7. CASE one.ok /\ ~second
  <2>1. a = <<one>>
    BY <1>4, <1>7, <1>10
  <2>2. a \in Seq(FieldResults) /\ Len(a) = 1 /\ a[1] = one
    BY <1>2, <2>1
  <2>3. \A d \in rs : d.ok => d = one
    BY <1>3, <1>5, <1>7
  <2> QED BY <1>2, <1>3, <1>7, <2>2, <2>3 DEF a, rs, AlternativesOf
<1>8. CASE ~one.ok /\ second
  <2>1. a = <<other>>
    BY <1>4, <1>8, <1>10
  <2>2. a \in Seq(FieldResults) /\ Len(a) = 1 /\ a[1] = other
    BY <1>2, <2>1
  <2>3. \A d \in rs : d.ok => d = other
    BY <1>3, <1>5, <1>8
  <2>4. other \in rs
    BY <1>3, <1>8
  <2> QED BY <1>2, <1>8, <2>2, <2>3, <2>4 DEF a, rs, AlternativesOf
<1>9. CASE ~one.ok /\ ~second
  <2>1. a = <<>>
    BY <1>4, <1>9, <1>10
  <2>2. a \in Seq(FieldResults) /\ Len(a) = 0
    BY <2>1
  <2>3. \A d \in rs : ~d.ok
    BY <1>3, <1>5, <1>9
  <2> QED BY <2>2, <2>3 DEF a, rs, AlternativesOf
<1> QED BY <1>6, <1>7, <1>8, <1>9

-----------------------------------------------------------------------------
(* What the search's calls return.                                         *)

(* The parts of a search's state and of a call.                            *)
LEMMA StateFacts ==
  ASSUME NEW s \in States
  PROVE  /\ s.failed \in SUBSET (Nat \X Nat) /\ s.examined \in Nat
         /\ s.candidates \in Seq(Seq(Value)) /\ s.found \in BOOLEAN /\ s.error \in BOOLEAN
         /\ Len(s.candidates) \in Nat
BY DEF States

(* The parts of a call of the search.                                      *)
LEMMA CallFacts ==
  ASSUME NEW call \in Calls
  PROVE  call.off \in Offsets /\ call.values \in Seq(Value) /\ call.state \in States
BY DEF Calls, Offsets

(* Making a call of the search.                                            *)
LEMMA CallWithType ==
  ASSUME NEW off \in Offsets, NEW values \in Seq(Value), NEW s \in States
  PROVE  LET c == CallWith(off, values, s)
         IN c \in Calls /\ c.off = off /\ c.values = values /\ c.state = s
BY DEF Calls, CallWith, Offsets

(* What trying one alternative does to the search's state.                 *)
LEMMA TryType ==
  ASSUME NEW deeper \in [Calls -> States], NEW call \in Calls, NEW s \in States,
         NEW d \in FieldResults, d.ok
  PROVE  LET c == CallWith(d.next, Append(call.values, d.v), s)
             t == deeper[c]
             r == Try(deeper, call, d, s)
         IN /\ c \in Calls /\ t \in States /\ r \in States
            /\ r.failed = t.failed /\ r.examined = t.examined
            /\ r.candidates = t.candidates /\ r.error = t.error
            /\ r.found = (t.found \/ s.found)
<1> DEFINE c == CallWith(d.next, Append(call.values, d.v), s)
           t == deeper[c]
           r == Try(deeper, call, d, s)
<1>1. d.v \in Value /\ d.next \in Offsets
  BY ResultFacts DEF Offsets
<1>2. Append(call.values, d.v) \in Seq(Value)
  BY <1>1, CallFacts
<1>3. c \in Calls
  BY <1>1, <1>2, CallWithType
<1>4. t \in States
  BY <1>3
<1>5. r = [t EXCEPT !.found = @ \/ s.found]
  BY DEF Try
<1> HIDE DEF c, t, r
<1>6. (t.found \/ s.found) \in BOOLEAN
  OBVIOUS
<1>7. /\ r \in States /\ r.failed = t.failed /\ r.examined = t.examined
      /\ r.candidates = t.candidates /\ r.error = t.error
      /\ r.found = (t.found \/ s.found)
  BY <1>4, <1>5, <1>6 DEF States
<1> QED BY <1>3, <1>4, <1>7 DEF c, t, r

(* All alternatives of a field, of which there are at most two.            *)
LEMMA TryAllType ==
  ASSUME NEW deeper \in [Calls -> States], NEW call \in Calls, NEW s \in States,
         NEW a \in Seq(FieldResults), Len(a) \in 0..2,
         \A j \in 1..Len(a) : a[j] \in FieldResults /\ a[j].ok
  PROVE  TryAll(deeper, call, a, s) \in States
<1> DEFINE first == Try(deeper, call, a[1], s)
<1>1. CASE a = <<>>
  BY <1>1 DEF TryAll
<1>2. CASE a # <<>>
  <2>1. Len(a) \in 1..2
    BY <1>2, EmptySeq
  <2>2. a[1] \in FieldResults /\ a[1].ok
    BY <2>1
  <2>3. first \in States
    BY <2>2, TryType
  <2>4. Len(a) # 1 => Try(deeper, call, a[2], first) \in States
    <3> SUFFICES ASSUME Len(a) # 1 PROVE Try(deeper, call, a[2], first) \in States
      OBVIOUS
    <3>1. a[2] \in FieldResults /\ a[2].ok
      BY <2>1
    <3> HIDE DEF first
    <3> QED BY <2>3, <3>1, TryType
  <2> QED BY <1>2, <2>3, <2>4 DEF TryAll
<1> QED BY <1>1, <1>2

(* What the memo of failed positions keeps.                                *)
LEMMA NotedFacts ==
  ASSUME NEW i \in Nat, NEW call \in Calls, NEW t \in States
  PROVE  LET r == Noted(i, call, t)
         IN /\ r \in States
            /\ r.examined = t.examined /\ r.candidates = t.candidates
            /\ r.error = t.error /\ r.found = t.found
            /\ r.failed = IF ~t.error /\ Remembers(t, call.state.candidates)
                            THEN t.failed \cup {<<i, call.off>>} ELSE t.failed
<1>1. <<i, call.off>> \in Nat \X Nat
  BY CallFacts DEF Offsets
<1>2. t.failed \cup {<<i, call.off>>} \in SUBSET (Nat \X Nat)
  BY <1>1, StateFacts
<1> QED BY <1>2 DEF Noted, States

(* What the end of the record does to the candidates.                      *)
LEMMA ArrivedFacts ==
  ASSUME NEW data, NEW call \in Calls, NEW s \in States
  PROVE  LET r == Arrived(data, call, s)
             whole == call.off = Len(data) + 1
         IN /\ r \in States
            /\ r.examined = s.examined /\ r.failed = s.failed /\ r.error = s.error
            /\ r.found = whole
            /\ r.candidates = IF whole /\ ~HasSame(s.candidates, call.values)
                                THEN Append(s.candidates, call.values) ELSE s.candidates
<1> DEFINE whole == call.off = Len(data) + 1
           more == IF whole /\ ~HasSame(s.candidates, call.values)
                     THEN Append(s.candidates, call.values) ELSE s.candidates
<1>1. whole \in BOOLEAN
  OBVIOUS
<1>2. more \in Seq(Seq(Value))
  BY CallFacts, StateFacts
<1>3. Arrived(data, call, s) = [s EXCEPT !.found = whole, !.candidates = more]
  BY DEF Arrived, States
<1> HIDE DEF whole, more
<1>4. LET r == Arrived(data, call, s)
      IN /\ r \in States
         /\ r.examined = s.examined /\ r.failed = s.failed /\ r.error = s.error
         /\ r.found = whole /\ r.candidates = more
  BY <1>1, <1>2, <1>3 DEF States
<1> QED BY <1>4 DEF whole, more

(* The state in which a call begins its work.                              *)
Begun(call) == [call.state EXCEPT !.examined = @ + 1, !.found = FALSE]

(* Entering the search only counts the state it examines.                  *)
LEMMA BegunFacts ==
  ASSUME NEW call \in Calls
  PROVE  LET s == Begun(call)
         IN /\ s \in States /\ s.examined = call.state.examined + 1 /\ s.found = FALSE
            /\ s.failed = call.state.failed /\ s.error = call.state.error
            /\ s.candidates = call.state.candidates
<1> DEFINE t == call.state
<1>1. t \in States
  BY CallFacts
<1>2. Begun(call) = [t EXCEPT !.examined = @ + 1, !.found = FALSE]
  BY DEF Begun
<1> HIDE DEF t
<1>3. t.examined + 1 \in Nat
  BY <1>1 DEF States
<1>4. LET s == Begun(call)
      IN /\ s \in States /\ s.examined = t.examined + 1 /\ s.found = FALSE
         /\ s.failed = t.failed /\ s.error = t.error /\ s.candidates = t.candidates
  BY <1>1, <1>2, <1>3 DEF States
<1> QED BY <1>4 DEF t

(* One call of the search maps states to states.                           *)
LEMMA SearchedType ==
  ASSUME NEW fields \in Seq(FieldTypes), NEW data \in Seq(Nat), NEW flag \in BOOLEAN,
         NEW base \in {5, 6}, NEW i \in 1..Len(fields) + 1, NEW deeper, NEW call \in Calls,
         i <= Len(fields) => deeper \in [Calls -> States]
  PROVE  Searched(fields, data, flag, base, i, deeper, call) \in States
<1> DEFINE s == Begun(call)
<1>1. /\ s \in States /\ call.state \in States /\ call.off \in Offsets
  BY BegunFacts, CallFacts
<1>2. [call.state EXCEPT !.found = TRUE] \in States /\ [s EXCEPT !.error = TRUE] \in States
  <2> HIDE DEF s
  <2> QED BY <1>1 DEF States
<1>3. Arrived(data, call, s) \in States
  BY <1>1, ArrivedFacts
<1>4. ASSUME i <= Len(fields)
      PROVE  Noted(i, call, TryAll(deeper, call,
               Alternatives(fields, data, flag, base, i, call.off), s)) \in States
  <2>1. i \in 1..Len(fields) /\ i \in Nat
    BY <1>4
  <2> DEFINE a == Alternatives(fields, data, flag, base, i, call.off)
  <2>2. /\ a \in Seq(FieldResults) /\ Len(a) \in 0..2
        /\ \A j \in 1..Len(a) : a[j] \in FieldResults /\ a[j].ok
    BY <1>1, <2>1, AlternativesAre DEF AlternativesOf
  <2> HIDE DEF a, s
  <2>3. TryAll(deeper, call, a, s) \in States
    BY <1>1, <1>4, <2>2, TryAllType
  <2> QED BY <2>1, <2>3, NotedFacts DEF a
<1>5. Searched(fields, data, flag, base, i, deeper, call) =
        IF Len(s.candidates) >= 2 THEN [call.state EXCEPT !.found = TRUE]
        ELSE IF s.examined > MAX_AMBIGUITY_STATES THEN [s EXCEPT !.error = TRUE]
        ELSE IF i > Len(fields) THEN Arrived(data, call, s)
        ELSE IF <<i, call.off>> \in s.failed THEN s
        ELSE Noted(i, call, TryAll(deeper, call,
                              Alternatives(fields, data, flag, base, i, call.off), s))
  BY DEF Searched, Begun
<1> HIDE DEF s
<1>6. i > Len(fields) \/ i <= Len(fields)
  OBVIOUS
<1> QED BY <1>1, <1>2, <1>3, <1>4, <1>5, <1>6

(* decode_record_adaptive_from is defined for every number of fields       *)
(* left: it terminates, and each of its calls is one Searched over the     *)
(* calls with a field less.                                                *)
LEMMA AdaptiveSteps ==
  ASSUME NEW fields \in Seq(FieldTypes), NEW data \in Seq(Nat), NEW flag \in BOOLEAN,
         NEW base \in {5, 6}
  PROVE  LET n == Len(fields)
             left == decode_record_adaptive_from(fields, data, flag, base)
         IN /\ \A k \in 0..n : left[k] \in [Calls -> States]
            /\ \A call \in Calls :
                 left[0][call] = Searched(fields, data, flag, base, n + 1, <<>>, call)
            /\ \A k \in 1..n, call \in Calls :
                 left[k][call] =
                   Searched(fields, data, flag, base, n + 1 - k, left[k - 1], call)
<1> DEFINE n == Len(fields)
           F == decode_record_adaptive_from(fields, data, flag, base)
           D == [Calls -> States]
           Base == [call \in Calls |->
                      Searched(fields, data, flag, base, n + 1, <<>>, call)]
           Step(k, deeper) ==
             [call \in Calls |-> Searched(fields, data, flag, base, n + 1 - k, deeper, call)]
           Eq(f) == f = [k \in 0..n |-> IF k = 0 THEN Base ELSE Step(k, f[k - 1])]
           g == [k \in 1..n |-> [deeper \in D |-> Step(k, deeper)]]
<1>1. n \in Nat
  OBVIOUS
<1>2. Base \in D
  <2>1. n + 1 \in 1..Len(fields) + 1 /\ ~(n + 1 <= Len(fields))
    BY <1>1
  <2>2. \A call \in Calls : Searched(fields, data, flag, base, n + 1, <<>>, call) \in States
    BY <2>1, SearchedType
  <2> QED BY <2>2
<1>3. ASSUME NEW k \in 1..n, NEW deeper \in D PROVE Step(k, deeper) \in D
  <2>1. n + 1 - k \in 1..Len(fields) + 1
    BY <1>1
  <2>2. \A call \in Calls :
          Searched(fields, data, flag, base, n + 1 - k, deeper, call) \in States
    BY <2>1, SearchedType
  <2> QED BY <2>2
<1>4. g \in Steps(D, n)
  BY <1>3 DEF Steps
<1>5. \A k \in 1..n : \A deeper \in D : g[k][deeper] = Step(k, deeper)
  OBVIOUS
<1> HIDE DEF D, Base, Step, g, n
<1>6. PICK f : Recurs(f, D, n, Base, g)
  BY <1>1, <1>2, <1>4, RecursionExists, Zenon
<1>7. Eq(f)
  <2>1. ASSUME NEW k \in 0..n PROVE f[k] = IF k = 0 THEN Base ELSE Step(k, f[k - 1])
    <3>1. CASE k = 0
      BY <1>6, <3>1 DEF Recurs
    <3>2. CASE k # 0
      <4>1. k \in 1..n /\ k - 1 \in 0..n
        BY <1>1, <3>2
      <4> QED BY <1>5, <1>6, <3>2, <4>1 DEF Recurs
    <3> QED BY <3>1, <3>2
  <2> QED BY <1>6, <2>1 DEF Recurs
<1>8. F = CHOOSE h : Eq(h)
  BY DEF decode_record_adaptive_from, Base, Step, n
<1>9. Eq(F)
  <2> HIDE DEF Eq, F
  <2> QED BY <1>7, <1>8
<1> HIDE DEF F
<1>10. F[0] = Base /\ \A k \in 1..n : F[k] = Step(k, F[k - 1])
  <2>1. \A k \in 0..n : F[k] = IF k = 0 THEN Base ELSE Step(k, F[k - 1])
    BY <1>9
  <2> QED BY <1>1, <2>1
<1>11. \A k \in 0..n : F[k] \in D
  BY <1>1, <1>2, <1>3, <1>10, RecursionTyped
<1>12. \A call \in Calls :
         F[0][call] = Searched(fields, data, flag, base, n + 1, <<>>, call)
  BY <1>10 DEF Base
<1>13. \A k \in 1..n, call \in Calls :
         F[k][call] = Searched(fields, data, flag, base, n + 1 - k, F[k - 1], call)
  BY <1>10, ZenonT(60) DEF Step
<1> QED
  BY <1>11, <1>12, <1>13 DEF D, n, F

(* The readings of a record that begin with the values of a call.          *)
Behind(R, k, call) == {call.values \o rest : rest \in R[k][call.off]}

(* What is remembered as failed has no framing.                            *)
MemoSound(R, n, s) ==
  \A j \in 1..n, off \in Offsets : <<j, off>> \in s.failed => R[n + 1 - j][off] = {}

Distinct(candidates) ==
  \A l, m \in 1..Len(candidates) : l < m => ~Same(candidates[l], candidates[m])

HeldIn(c, d) == Len(c) <= Len(d) /\ \A m \in 1..Len(c) : d[m] = c[m]

Ready(R, n, s) ==
  /\ s \in States /\ ~s.error /\ Distinct(s.candidates)
  /\ Len(s.candidates) < 2 => MemoSound(R, n, s)

(* What a search that started in state s and came back in state t has made *)
(* of the framings `full`.                                                 *)
Accounts(R, n, full, s, t) ==
  /\ t \in States
  /\ HeldIn(s.candidates, t.candidates)
  /\ \A m \in 1..Len(t.candidates) : m > Len(s.candidates) => t.candidates[m] \in full
  /\ Distinct(t.candidates)
  /\ ~t.error /\ Len(t.candidates) < 2 =>
       /\ \A v \in full : \E m \in 1..Len(t.candidates) : t.candidates[m] = v
       /\ ~t.found => full = {}
       /\ MemoSound(R, n, t)

(* A search that came back without an error can be gone on with.           *)
LEMMA AccountsReady ==
  ASSUME NEW R, NEW n, NEW full, NEW s, NEW t, Accounts(R, n, full, s, t), ~t.error
  PROVE  Ready(R, n, t)
BY DEF Accounts, Ready

(* A search that is over answers for more than it has looked at.           *)
LEMMA AccountsOver ==
  ASSUME NEW R, NEW n, NEW full, NEW more, NEW s, NEW t, Accounts(R, n, full, s, t),
         t.error \/ Len(t.candidates) >= 2
  PROVE  Accounts(R, n, full \cup more, s, t)
<1>1. Len(t.candidates) \in Nat
  BY StateFacts DEF Accounts
<1>2. ~(~t.error /\ Len(t.candidates) < 2)
  BY <1>1
<1> QED BY <1>2 DEF Accounts

(* One search after another.                                               *)
LEMMA AccountsThen ==
  ASSUME NEW R, NEW n, NEW full, NEW more, NEW s \in States, NEW t, NEW u,
         Accounts(R, n, full, s, t), Accounts(R, n, more, t, u),
         ~t.error, Len(t.candidates) < 2, t.found => u.found
  PROVE  Accounts(R, n, full \cup more, s, u)
<1>1. t \in States /\ u \in States
  BY DEF Accounts
<1>2. /\ Len(s.candidates) \in Nat /\ Len(t.candidates) \in Nat /\ Len(u.candidates) \in Nat
  BY <1>1, StateFacts
<1>3. Len(s.candidates) <= Len(t.candidates) /\ Len(t.candidates) <= Len(u.candidates)
  BY DEF Accounts, HeldIn
<1>4. \A m \in 1..Len(t.candidates) : u.candidates[m] = t.candidates[m]
  BY DEF Accounts, HeldIn
<1>5. HeldIn(s.candidates, u.candidates)
  <2>1. \A m \in 1..Len(s.candidates) :
          t.candidates[m] = s.candidates[m] /\ m \in 1..Len(t.candidates)
    BY <1>2, <1>3 DEF Accounts, HeldIn
  <2> QED BY <1>2, <1>3, <1>4, <2>1 DEF HeldIn
<1>6. ASSUME NEW m \in 1..Len(u.candidates), m > Len(s.candidates)
      PROVE  u.candidates[m] \in full \cup more
  <2>1. CASE m > Len(t.candidates)
    BY <2>1 DEF Accounts
  <2>2. CASE m <= Len(t.candidates)
    <3>1. m \in 1..Len(t.candidates)
      BY <1>2, <2>2
    <3>2. t.candidates[m] \in full
      BY <1>6, <3>1 DEF Accounts
    <3> QED BY <1>4, <3>1, <3>2
  <2> QED BY <1>2, <2>1, <2>2
<1>7. ASSUME ~u.error, Len(u.candidates) < 2
      PROVE  /\ \A v \in full \cup more :
                  \E m \in 1..Len(u.candidates) : u.candidates[m] = v
             /\ ~u.found => full \cup more = {}
             /\ MemoSound(R, n, u)
  <2>1. ASSUME NEW v \in full
        PROVE  \E m \in 1..Len(u.candidates) : u.candidates[m] = v
    <3>1. PICK m \in 1..Len(t.candidates) : t.candidates[m] = v
      BY DEF Accounts
    <3>2. m \in 1..Len(u.candidates) /\ u.candidates[m] = v
      BY <1>2, <1>3, <1>4, <3>1
    <3> QED BY <3>2
  <2>2. /\ \A v \in more : \E m \in 1..Len(u.candidates) : u.candidates[m] = v
        /\ ~u.found => more = {} /\ MemoSound(R, n, u)
    BY <1>7 DEF Accounts
  <2>3. ~t.found => full = {}
    BY DEF Accounts
  <2> QED BY <1>7, <2>1, <2>2, <2>3 DEF Accounts
<1>8. Distinct(u.candidates)
  BY DEF Accounts
<1> QED BY <1>1, <1>5, <1>6, <1>7, <1>8 DEF Accounts

(* Nothing to look for.                                                    *)
LEMMA AccountsNothing ==
  ASSUME NEW R, NEW n, NEW s, Ready(R, n, s)
  PROVE  Accounts(R, n, {}, s, s)
<1>1. s \in States /\ Len(s.candidates) \in Nat
  BY StateFacts DEF Ready
<1> QED BY <1>1 DEF Accounts, Ready, HeldIn

-----------------------------------------------------------------------------
(* How well the calls with fewer fields to read are answered.              *)
Served(R, n, k, deeper) ==
  \A call \in Calls :
    Ready(R, n, call.state) =>
      Accounts(R, n, Behind(R, k, call), call.state, deeper[call])

(* The readings behind one alternative.                                    *)
BehindOne(R, k, call, d) ==
  {Append(call.values, d.v) \o rest : rest \in R[k][d.next]}

(* One alternative accounts for the readings behind it, if the calls with  *)
(* a field less account for theirs.                                        *)
LEMMA TryAnswers ==
  ASSUME NEW R, NEW n, NEW k, NEW deeper \in [Calls -> States], NEW call \in Calls,
         NEW s, NEW d \in FieldResults, d.ok,
         Served(R, n, k, deeper), Ready(R, n, s)
  PROVE  LET r == Try(deeper, call, d, s)
         IN /\ Accounts(R, n, BehindOne(R, k, call, d), s, r)
            /\ s.found => r.found
<1> DEFINE c == CallWith(d.next, Append(call.values, d.v), s)
           t == deeper[c]
           r == Try(deeper, call, d, s)
<1>0. s \in States
  BY DEF Ready
<1>1. /\ c \in Calls /\ t \in States /\ r \in States
      /\ r.failed = t.failed /\ r.examined = t.examined
      /\ r.candidates = t.candidates /\ r.error = t.error
      /\ r.found = (t.found \/ s.found)
  BY <1>0, TryType
<1>2. c.off = d.next /\ c.values = Append(call.values, d.v) /\ c.state = s
  BY DEF CallWith
<1> HIDE DEF c, t, r
<1>3. Behind(R, k, c) = BehindOne(R, k, call, d)
  BY <1>2 DEF Behind, BehindOne
<1>4. Accounts(R, n, BehindOne(R, k, call, d), s, t)
  BY <1>1, <1>2, <1>3 DEF Served, t
<1>5. r.found = FALSE => t.found = FALSE
  BY <1>0, <1>1, StateFacts
<1>6. MemoSound(R, n, t) => MemoSound(R, n, r)
  BY <1>1 DEF MemoSound
<1>7. Accounts(R, n, BehindOne(R, k, call, d), s, r)
  BY <1>1, <1>4, <1>5, <1>6 DEF Accounts
<1>8. s.found => r.found
  BY <1>0, <1>1, StateFacts
<1> QED BY <1>7, <1>8 DEF r

(* The readings behind all of them.                                        *)
BehindAll(R, k, call, a) == UNION {BehindOne(R, k, call, a[j]) : j \in 1..Len(a)}

(* ... and so do all alternatives together, although the second is not     *)
(* tried when the first has found two candidates.                          *)
LEMMA TryAllAnswers ==
  ASSUME NEW R, NEW n, NEW k, NEW deeper \in [Calls -> States], NEW call \in Calls,
         NEW s, NEW a \in Seq(FieldResults), Len(a) \in 0..2,
         \A j \in 1..Len(a) : a[j] \in FieldResults /\ a[j].ok,
         Served(R, n, k, deeper), Ready(R, n, s)
  PROVE  Accounts(R, n, BehindAll(R, k, call, a), s, TryAll(deeper, call, a, s))
<1> DEFINE first == Try(deeper, call, a[1], s)
           second == Try(deeper, call, a[2], first)
           B(j) == BehindOne(R, k, call, a[j])
           U == UNION {B(j) : j \in 1..Len(a)}
           W == BehindAll(R, k, call, a)
           t == TryAll(deeper, call, a, s)
<1>0. s \in States /\ W = U
  BY DEF Ready, BehindAll
<1> HIDE DEF W
<1>1. CASE a = <<>>
  <2>1. t = s
    BY <1>1 DEF TryAll
  <2>2. U = {}
    BY <1>1
  <2> HIDE DEF t, U
  <2>3. Accounts(R, n, W, s, t)
    BY <1>0, <2>1, <2>2, AccountsNothing
  <2> QED BY <2>3 DEF t, W
<1>2. CASE a # <<>>
  <2>1. Len(a) \in 1..2
    BY <1>2, EmptySeq
  <2>2. a[1] \in FieldResults /\ a[1].ok
    BY <2>1
  <2>3. Accounts(R, n, B(1), s, first)
    BY <2>2, TryAnswers
  <2>4. first \in States
    BY <2>3 DEF Accounts
  <2>5. Len(first.candidates) \in Nat
    BY <2>4, StateFacts
  <2>6. CASE Len(a) = 1
    <3>1. t = first
      BY <1>2, <2>6 DEF TryAll
    <3>2. U = B(1)
      <4> HIDE DEF B
      <4>1. 1..Len(a) = {1}
        BY <2>6
      <4> QED BY <4>1
    <3> HIDE DEF t, U, B, first
    <3>3. Accounts(R, n, W, s, t)
      BY <1>0, <2>3, <3>1, <3>2
    <3> QED BY <3>3 DEF t, W
  <2>7. CASE Len(a) = 2
    <3>1. U = B(1) \cup B(2)
      <4> HIDE DEF B
      <4>1. 1..Len(a) = {1, 2}
        BY <2>7
      <4> QED BY <4>1
    <3>2. CASE first.error \/ Len(first.candidates) >= 2
      <4>1. t = first
        BY <1>2, <3>2 DEF TryAll
      <4> HIDE DEF t, U, B, first
      <4>2. Accounts(R, n, B(1) \cup B(2), s, first)
        BY <2>3, <3>2, AccountsOver
      <4>3. Accounts(R, n, W, s, t)
        BY <1>0, <4>1, <4>2, <3>1
      <4> QED BY <4>3 DEF t, W
    <3>3. CASE ~(first.error \/ Len(first.candidates) >= 2)
      <4>1. t = second
        BY <1>2, <2>7, <3>3 DEF TryAll
      <4>2. Ready(R, n, first)
        <5> HIDE DEF first, B
        <5> QED BY <2>3, <3>3, AccountsReady
      <4>3. a[2] \in FieldResults /\ a[2].ok
        BY <2>7
      <4>4. Accounts(R, n, B(2), first, second) /\ (first.found => second.found)
        <5> HIDE DEF first
        <5> QED BY <4>2, <4>3, TryAnswers
      <4> HIDE DEF t, U, B, first, second
      <4>5. Len(first.candidates) < 2 /\ ~first.error
        BY <2>5, <3>3
      <4>6. Accounts(R, n, B(1) \cup B(2), s, second)
        BY <1>0, <2>3, <4>4, <4>5, AccountsThen
      <4>7. Accounts(R, n, W, s, t)
        BY <1>0, <4>1, <4>6, <3>1
      <4> QED BY <4>7 DEF t, W
    <3> QED BY <3>2, <3>3
  <2> QED BY <2>1, <2>6, <2>7
<1> QED BY <1>1, <1>2

(* Framings that agree field by field are equal.                           *)
LEMMA SameIsEqual ==
  \A u, v : Same(u, v) => u = v
BY DEF Same

(* The call that has read all fields.                                      *)
LEMMA ArrivedAnswers ==
  ASSUME NEW R, NEW n, NEW data, NEW call \in Calls, NEW s, Ready(R, n, s),
         Len(s.candidates) < 2,
         R[0][call.off] = IF call.off = Len(data) + 1 THEN {<<>>} ELSE {}
  PROVE  Accounts(R, n, Behind(R, 0, call), s, Arrived(data, call, s))
<1> DEFINE t == Arrived(data, call, s)
           whole == call.off = Len(data) + 1
           full == Behind(R, 0, call)
           c == s.candidates
           v == call.values
<1>1. /\ t \in States /\ t.failed = s.failed /\ t.error = s.error /\ t.found = whole
      /\ t.candidates = IF whole /\ ~HasSame(c, v) THEN Append(c, v) ELSE c
  BY ArrivedFacts DEF Ready
<1>2. v \in Seq(Value) /\ c \in Seq(Seq(Value)) /\ Len(c) \in Nat
  BY CallFacts, StateFacts DEF Ready
<1>3. full = IF whole THEN {v} ELSE {}
  <2> DEFINE N == R[0][call.off]
  <2>1. N = IF whole THEN {<<>>} ELSE {}
    OBVIOUS
  <2>2. full = {v \o rest : rest \in N}
    BY DEF Behind
  <2> HIDE DEF whole, full, v, N
  <2>3. v \o <<>> = v
    BY <1>2, ConcatEmptySeq
  <2>4. CASE whole
    <3>1. N = {<<>>}
      BY <2>1, <2>4
    <3>2. \A u : u \in full <=> u = v
      BY <2>2, <2>3, <3>1
    <3> QED BY <2>4, <3>2
  <2>5. CASE ~whole
    <3>1. N = {}
      BY <2>1, <2>5
    <3> QED BY <2>2, <2>5, <3>1
  <2> QED BY <2>4, <2>5
<1> HIDE DEF t, whole, full, c, v
<1>4. MemoSound(R, n, t)
  BY <1>1 DEF MemoSound, Ready, c
<1>5. Distinct(c) /\ ~s.error
  BY DEF Ready, c
<1>6. HasSame(c, v) <=> \E m \in 1..Len(c) : Same(c[m], v)
  <2>1. DOMAIN c = 1..Len(c)
    BY <1>2
  <2> QED BY <2>1 DEF HasSame
<1>7. CASE whole /\ ~HasSame(c, v)
  <2> DEFINE e == Append(c, v)
  <2>1. /\ t.candidates = e /\ Len(e) = Len(c) + 1 /\ e[Len(c) + 1] = v
        /\ \A m \in 1..Len(c) : e[m] = c[m]
    BY <1>1, <1>2, <1>7, AppendProperties
  <2> HIDE DEF e
  <2>2. HeldIn(c, t.candidates)
    BY <1>2, <2>1 DEF HeldIn
  <2>3. \A m \in 1..Len(t.candidates) : m > Len(c) => t.candidates[m] = v
    <3>1. \A m \in 1..Len(e) : m > Len(c) => m = Len(c) + 1
      BY <1>2, <2>1
    <3> QED BY <2>1, <3>1
  <2>4. Distinct(e)
    <3> SUFFICES ASSUME NEW l \in 1..Len(e), NEW m \in 1..Len(e), l < m
                 PROVE  ~Same(e[l], e[m])
      BY DEF Distinct
    <3>1. l \in 1..Len(c) /\ e[l] = c[l]
      BY <1>2, <2>1
    <3>2. CASE m \in 1..Len(c)
      <4>1. e[m] = c[m]
        BY <2>1, <3>2
      <4> QED BY <1>5, <3>1, <3>2, <4>1 DEF Distinct
    <3>3. CASE m = Len(c) + 1
      BY <1>6, <1>7, <2>1, <3>1, <3>3
    <3> QED BY <1>2, <2>1, <3>2, <3>3
  <2>5. \A u \in full : \E m \in 1..Len(t.candidates) : t.candidates[m] = u
    <3>1. Len(c) + 1 \in 1..Len(t.candidates) /\ t.candidates[Len(c) + 1] = v
      BY <1>2, <2>1
    <3> QED BY <1>3, <1>7, <3>1
  <2>6. t.found
    BY <1>1, <1>7
  <2>7. v \in full
    BY <1>3, <1>7
  <2> QED BY <1>1, <1>4, <2>1, <2>2, <2>3, <2>4, <2>5, <2>6, <2>7 DEF Accounts, full, t, c
<1>8. CASE whole /\ HasSame(c, v)
  <2>1. t.candidates = c /\ t.found
    BY <1>1, <1>8
  <2>2. PICK m \in 1..Len(c) : Same(c[m], v)
    BY <1>6, <1>8
  <2>3. c[m] = v
    BY <2>2, SameIsEqual
  <2>4. \A u \in full : \E l \in 1..Len(t.candidates) : t.candidates[l] = u
    BY <1>3, <1>8, <2>1, <2>3
  <2>5. HeldIn(c, t.candidates) /\ \A l \in 1..Len(c) : ~(l > Len(c))
    BY <1>2, <2>1 DEF HeldIn
  <2> QED BY <1>1, <1>4, <1>5, <2>1, <2>4, <2>5 DEF Accounts, full, t, c
<1>9. CASE ~whole
  <2>1. t.candidates = c /\ full = {}
    BY <1>1, <1>3, <1>9
  <2>2. HeldIn(c, t.candidates) /\ \A l \in 1..Len(c) : ~(l > Len(c))
    BY <1>2, <2>1 DEF HeldIn
  <2> QED BY <1>1, <1>4, <1>5, <2>1, <2>2 DEF Accounts, full, t, c
<1> QED BY <1>7, <1>8, <1>9

(* Concatenating values is associative.                                    *)
LEMMA ConcatValues ==
  ASSUME NEW x \in Seq(Value), NEW y \in Seq(Value), NEW z \in Seq(Value)
  PROVE  (x \o y) \o z = x \o (y \o z)
BY ConcatAssociative

(* The readings from a field are those behind its alternatives.            *)
LEMMA BehindAlternatives ==
  ASSUME NEW fields \in Seq(FieldTypes), NEW data \in Seq(Nat), NEW flag \in BOOLEAN,
         NEW base \in {5, 6}, NEW k \in 1..Len(fields), NEW call \in Calls
  PROVE  LET R == FramingsFrom(fields, data, flag, base)
             a == Alternatives(fields, data, flag, base, Len(fields) + 1 - k, call.off)
         IN Behind(R, k, call) = BehindAll(R, k - 1, call, a)
<1> DEFINE R == FramingsFrom(fields, data, flag, base)
           i == Len(fields) + 1 - k
           off == call.off
           a == Alternatives(fields, data, flag, base, i, off)
           rs == Readings(fields, data, flag, base, i, off)
<1>1. /\ off \in Offsets /\ call.values \in Seq(Value) /\ i \in 1..Len(fields)
      /\ k \in 0..Len(fields) /\ k - 1 \in 0..Len(fields)
  BY CallFacts
<1>3. R[k][off] = BehindReadings(rs, R[k - 1])
  <2> HIDE DEF off
  <2> QED BY <1>1, FramingsSteps
<1>4. \A l \in 0..Len(fields) : R[l] \in [Offsets -> SUBSET Seq(Value)]
  BY FramingsSteps
<1> HIDE DEF R, i, off
<1>2. /\ \A j \in 1..Len(a) : a[j] \in rs /\ a[j] \in FieldResults /\ a[j].ok
      /\ \A d \in rs : d.ok => \E j \in 1..Len(a) : a[j] = d
  <2>1. AlternativesOf(a, rs)
    BY <1>1, AlternativesAre
  <2> HIDE DEF a, rs
  <2> QED BY <2>1 DEF AlternativesOf
<1>5. rs \subseteq FieldResults
  BY <1>1, ReadingsType
<1> HIDE DEF a, rs
<1>6. ASSUME NEW d \in FieldResults, d.ok, NEW rest \in R[k - 1][d.next]
      PROVE  call.values \o (<<d.v>> \o rest) = Append(call.values, d.v) \o rest
  <2>1. d.v \in Value /\ d.next \in Offsets
    BY <1>6, ResultFacts DEF Offsets
  <2>2. rest \in Seq(Value) /\ <<d.v>> \in Seq(Value)
    BY <1>1, <1>4, <1>6, <2>1
  <2>3. Append(call.values, d.v) = call.values \o <<d.v>>
    <3> DEFINE v == d.v
               w == call.values
    <3>1. v \in Value /\ w \in Seq(Value)
      BY <1>1, <2>1
    <3> HIDE DEF v, w
    <3>2. Append(w, v) = w \o <<v>>
      BY <3>1, AppendIsConcat
    <3> QED BY <3>2 DEF v, w
  <2>4. (call.values \o <<d.v>>) \o rest = call.values \o (<<d.v>> \o rest)
    <3> DEFINE v == <<d.v>>
               w == call.values
    <3>1. v \in Seq(Value) /\ w \in Seq(Value)
      BY <1>1, <2>2
    <3> HIDE DEF v, w
    <3>2. (w \o v) \o rest = w \o (v \o rest)
      BY <2>2, <3>1, ConcatValues
    <3> QED BY <3>2 DEF v, w
  <2> QED BY <2>3, <2>4
<1>7. ASSUME NEW v \in Behind(R, k, call)
      PROVE  v \in UNION {BehindOne(R, k - 1, call, a[j]) : j \in 1..Len(a)}
  <2>1. PICK w \in R[k][off] : v = call.values \o w
    BY <1>7 DEF Behind, off
  <2>2. PICK d \in rs : w \in BehindReading(d, R[k - 1])
    BY <1>3, <2>1 DEF BehindReadings
  <2>3. d \in FieldResults
    BY <1>5, <2>2
  <2>4. d.ok
    BY <2>2 DEF BehindReading
  <2>5. PICK rest \in R[k - 1][d.next] : w = <<d.v>> \o rest
    BY <2>2, <2>4 DEF BehindReading
  <2>6. v = Append(call.values, d.v) \o rest
    BY <1>6, <2>1, <2>3, <2>4, <2>5
  <2>7. PICK j \in 1..Len(a) : a[j] = d
    BY <1>2, <2>2, <2>4
  <2>8. v \in BehindOne(R, k - 1, call, a[j])
    BY <2>5, <2>6, <2>7 DEF BehindOne
  <2> QED BY <2>8
<1>8. ASSUME NEW j \in 1..Len(a), NEW v \in BehindOne(R, k - 1, call, a[j])
      PROVE  v \in Behind(R, k, call)
  <2> DEFINE d == a[j]
  <2>1. d \in rs /\ d \in FieldResults /\ d.ok
    BY <1>2
  <2>2. PICK rest \in R[k - 1][d.next] : v = Append(call.values, d.v) \o rest
    BY <1>8 DEF BehindOne
  <2> HIDE DEF d
  <2>3. v = call.values \o (<<d.v>> \o rest)
    BY <1>6, <2>1, <2>2
  <2>4. <<d.v>> \o rest \in BehindReading(d, R[k - 1])
    BY <2>1, <2>2 DEF BehindReading
  <2>5. <<d.v>> \o rest \in R[k][off]
    BY <1>3, <2>1, <2>4 DEF BehindReadings
  <2> QED BY <2>3, <2>5 DEF Behind, off
<1>9. Behind(R, k, call) = UNION {BehindOne(R, k - 1, call, a[j]) : j \in 1..Len(a)}
  BY <1>7, <1>8
<1> QED BY <1>9 DEF R, a, i, off, BehindAll

(* One call answers well if the calls it makes do.                         *)
LEMMA SearchedAnswers ==
  ASSUME NEW fields \in Seq(FieldTypes), NEW data \in Seq(Nat), NEW flag \in BOOLEAN,
         NEW base \in {5, 6}, NEW k \in 0..Len(fields), NEW deeper, NEW call \in Calls,
         k > 0 => /\ deeper \in [Calls -> States]
                  /\ Served(FramingsFrom(fields, data, flag, base), Len(fields), k - 1, deeper),
         Ready(FramingsFrom(fields, data, flag, base), Len(fields), call.state)
  PROVE  LET R == FramingsFrom(fields, data, flag, base)
             n == Len(fields)
         IN Accounts(R, n, Behind(R, k, call), call.state,
                    Searched(fields, data, flag, base, n + 1 - k, deeper, call))
<1> DEFINE R == FramingsFrom(fields, data, flag, base)
           n == Len(fields)
           i == n + 1 - k
           s0 == call.state
           s == Begun(call)
           full == Behind(R, k, call)
           a == Alternatives(fields, data, flag, base, i, call.off)
           t == Searched(fields, data, flag, base, i, deeper, call)
<1>1. /\ s \in States /\ s.examined = s0.examined + 1 /\ s.found = FALSE
      /\ s.failed = s0.failed /\ s.error = s0.error /\ s.candidates = s0.candidates
  BY BegunFacts
<1>2. /\ s0 \in States /\ call.off \in Offsets /\ n \in Nat /\ i \in 1..n + 1 /\ i \in Nat
      /\ Len(s0.candidates) \in Nat
  BY CallFacts, StateFacts
<1>3. t = IF Len(s.candidates) >= 2 THEN [s0 EXCEPT !.found = TRUE]
          ELSE IF s.examined > MAX_AMBIGUITY_STATES THEN [s EXCEPT !.error = TRUE]
          ELSE IF i > n THEN Arrived(data, call, s)
          ELSE IF <<i, call.off>> \in s.failed THEN s
          ELSE Noted(i, call, TryAll(deeper, call, a, s))
  BY DEF Searched, Begun
<1>4. Ready(R, n, s)
  <2>1. Ready(R, n, s0)
    OBVIOUS
  <2> HIDE DEF s, s0, R, n
  <2> QED BY <1>1, <2>1 DEF Ready, MemoSound
<1>5. HeldIn(s0.candidates, s0.candidates)
      /\ \A m \in 1..Len(s0.candidates) : ~(m > Len(s0.candidates))
  BY <1>2 DEF HeldIn
<1>6. Distinct(s0.candidates)
  BY DEF Ready
<1>16. k = 0 => \A off \in Offsets :
         R[0][off] = IF off = Len(data) + 1 THEN {<<>>} ELSE {}
  BY FramingsSteps
<1>17. k > 0 => full = BehindAll(R, k - 1, call, a)
  <2> SUFFICES ASSUME k > 0 PROVE full = BehindAll(R, k - 1, call, a)
    OBVIOUS
  <2>1. k \in 1..Len(fields)
    OBVIOUS
  <2> QED BY <2>1, BehindAlternatives
<1>18. k > 0 => /\ a \in Seq(FieldResults) /\ Len(a) \in 0..2
                /\ \A j \in 1..Len(a) : a[j] \in FieldResults /\ a[j].ok
  <2> SUFFICES ASSUME k > 0 PROVE /\ a \in Seq(FieldResults) /\ Len(a) \in 0..2
                                  /\ \A j \in 1..Len(a) : a[j] \in FieldResults /\ a[j].ok
    OBVIOUS
  <2>1. i \in 1..Len(fields)
    BY <1>2
  <2> DEFINE off == call.off
  <2>2. off \in Offsets
    BY <1>2
  <2> HIDE DEF i, off
  <2>3. AlternativesOf(Alternatives(fields, data, flag, base, i, off),
                       Readings(fields, data, flag, base, i, off))
    BY <2>1, <2>2, AlternativesAre
  <2> QED BY <2>3 DEF AlternativesOf, off
<1>19. k > 0 => deeper \in [Calls -> States] /\ Served(R, n, k - 1, deeper)
  OBVIOUS
<1>20. i > n <=> k = 0
  BY <1>2
<1>21. k > 0 => n + 1 - i = k /\ i \in 1..n
  BY <1>2
<1> HIDE DEF R, n, i, s, a, t
<1>7. CASE Len(s.candidates) >= 2
  <2>1. t = [s0 EXCEPT !.found = TRUE]
    BY <1>3, <1>7
  <2>2. t \in States /\ t.candidates = s0.candidates
    BY <1>2, <2>1 DEF States
  <2>3. ~(Len(t.candidates) < 2)
    BY <1>1, <1>2, <1>7, <2>2
  <2> HIDE DEF full, s0
  <2>4. Accounts(R, n, full, s0, t)
    BY <1>5, <1>6, <2>2, <2>3 DEF Accounts
  <2> QED BY <2>4 DEF R, n, i, t, full, s0
<1>8. CASE ~(Len(s.candidates) >= 2) /\ s.examined > MAX_AMBIGUITY_STATES
  <2>1. t = [s EXCEPT !.error = TRUE]
    BY <1>3, <1>8
  <2>2. t \in States /\ t.candidates = s0.candidates /\ t.error
    BY <1>1, <2>1 DEF States
  <2> HIDE DEF full, s0
  <2>4. Accounts(R, n, full, s0, t)
    BY <1>5, <1>6, <2>2 DEF Accounts
  <2> QED BY <2>4 DEF R, n, i, t, full, s0
<1> DEFINE works == ~(Len(s.candidates) >= 2) /\ ~(s.examined > MAX_AMBIGUITY_STATES)
<1>9. works => Len(s.candidates) < 2
  BY <1>1, <1>2
<1>10. ASSUME NEW u, Accounts(R, n, full, s, u)
       PROVE  Accounts(R, n, full, s0, u)
  <2> HIDE DEF full, s0
  <2> QED BY <1>1, <1>10 DEF Accounts
<1>11. CASE works /\ i > n
  <2>1. t = Arrived(data, call, s)
    BY <1>3, <1>11
  <2>2. Accounts(R, n, Behind(R, 0, call), s, t)
    BY <1>2, <1>4, <1>9, <1>11, <1>16, <1>20, <2>1, ArrivedAnswers
  <2>3. Accounts(R, n, full, s0, t)
    BY <1>10, <1>11, <1>20, <2>2
  <2> QED BY <2>3 DEF R, n, i, t
<1>12. CASE works /\ ~(i > n) /\ <<i, call.off>> \in s.failed
  <2>1. t = s
    BY <1>3, <1>12
  <2>2. k > 0
    BY <1>12, <1>20
  <2>3. R[n + 1 - i][call.off] = {}
    BY <1>2, <1>4, <1>9, <1>12, <1>21, <2>2 DEF Ready, MemoSound
  <2>4. full = {}
    BY <1>21, <2>2, <2>3 DEF Behind
  <2>5. Accounts(R, n, {}, s, s)
    BY <1>4, AccountsNothing
  <2>6. Accounts(R, n, full, s0, t)
    BY <1>10, <2>1, <2>4, <2>5
  <2> QED BY <2>6 DEF R, n, i, t
<1>13. CASE works /\ ~(i > n) /\ <<i, call.off>> \notin s.failed
  <2> DEFINE u == TryAll(deeper, call, a, s)
  <2>1. t = Noted(i, call, u)
    BY <1>3, <1>13
  <2>2. k > 0
    BY <1>13, <1>20
  <2>3. Accounts(R, n, BehindAll(R, k - 1, call, a), s, u)
    BY <1>4, <1>18, <1>19, <2>2, TryAllAnswers
  <2>4. Accounts(R, n, full, s, u)
    BY <1>17, <2>2, <2>3
  <2>5. u \in States
    BY <2>4 DEF Accounts
  <2>6. /\ t \in States /\ t.candidates = u.candidates
        /\ t.error = u.error /\ t.found = u.found
        /\ t.failed = IF ~u.error /\ Remembers(u, s0.candidates)
                        THEN u.failed \cup {<<i, call.off>>} ELSE u.failed
    BY <1>2, <2>1, <2>5, NotedFacts
  <2> HIDE DEF u
  <2>7. ASSUME ~t.error, Len(t.candidates) < 2 PROVE MemoSound(R, n, t)
    <3>1. MemoSound(R, n, u) /\ (~u.found => full = {})
      BY <2>4, <2>6, <2>7 DEF Accounts
    <3>2. CASE Remembers(u, s0.candidates)
      <4>1. full = {}
        BY <3>1, <3>2 DEF Remembers
      <4>2. R[k][call.off] = {}
        BY <4>1 DEF Behind
      <4>3. ASSUME NEW j \in 1..n, NEW off \in Offsets, <<j, off>> \in t.failed
            PROVE  R[n + 1 - j][off] = {}
        <5>1. CASE <<j, off>> \in u.failed
          BY <3>1, <5>1 DEF MemoSound
        <5>2. CASE <<j, off>> = <<i, call.off>>
          <6>1. j = i /\ off = call.off
            BY <5>2
          <6> QED BY <1>21, <2>2, <4>2, <6>1
        <5> QED BY <2>6, <4>3, <5>1, <5>2
      <4> QED BY <4>3 DEF MemoSound
    <3>3. CASE ~Remembers(u, s0.candidates)
      BY <2>6, <3>1, <3>3 DEF MemoSound
    <3> QED BY <3>2, <3>3
  <2>8. Accounts(R, n, full, s, t)
    <3> HIDE DEF full
    <3> QED BY <2>4, <2>6, <2>7 DEF Accounts
  <2>9. Accounts(R, n, full, s0, t)
    BY <1>10, <2>8
  <2> QED BY <2>9 DEF R, n, i, t
<1> QED BY <1>7, <1>8, <1>11, <1>12, <1>13

(* Every call answers well.                                                *)
LEMMA SearchAnswers ==
  ASSUME NEW fields \in Seq(FieldTypes), NEW data \in Seq(Nat), NEW flag \in BOOLEAN,
         NEW base \in {5, 6}
  PROVE  \A k \in 0..Len(fields) :
           Served(FramingsFrom(fields, data, flag, base), Len(fields), k,
                  decode_record_adaptive_from(fields, data, flag, base)[k])
<1> DEFINE R == FramingsFrom(fields, data, flag, base)
           n == Len(fields)
           left == decode_record_adaptive_from(fields, data, flag, base)
           S == {k \in Nat : k <= n => Served(R, n, k, left[k])}
<1>1. n \in Nat
  OBVIOUS
<1>2. /\ \A k \in 0..n : left[k] \in [Calls -> States]
      /\ \A call \in Calls :
           left[0][call] = Searched(fields, data, flag, base, n + 1, <<>>, call)
      /\ \A k \in 1..n, call \in Calls :
           left[k][call] = Searched(fields, data, flag, base, n + 1 - k, left[k - 1], call)
  BY AdaptiveSteps
<1> HIDE DEF left
<1>3. Served(R, n, 0, left[0])
  <2> SUFFICES ASSUME NEW call \in Calls, Ready(R, n, call.state)
               PROVE  Accounts(R, n, Behind(R, 0, call), call.state, left[0][call])
    BY DEF Served
  <2>1. 0 \in 0..Len(fields) /\ n + 1 - 0 = n + 1 /\ ~(0 > 0)
    BY <1>1
  <2>2. Accounts(R, n, Behind(R, 0, call), call.state,
                Searched(fields, data, flag, base, n + 1 - 0, <<>>, call))
    BY <2>1, SearchedAnswers
  <2> QED BY <1>2, <2>1, <2>2
<1>4. ASSUME NEW k \in Nat, k + 1 <= n, Served(R, n, k, left[k])
      PROVE  Served(R, n, k + 1, left[k + 1])
  <2> SUFFICES ASSUME NEW call \in Calls, Ready(R, n, call.state)
               PROVE  Accounts(R, n, Behind(R, k + 1, call), call.state, left[k + 1][call])
    BY DEF Served
  <2>1. k + 1 \in 0..Len(fields) /\ k + 1 \in 1..n /\ (k + 1) - 1 = k /\ k \in 0..n
    BY <1>1, <1>4
  <2>2. left[k] \in [Calls -> States]
    BY <1>2, <2>1
  <2>3. Accounts(R, n, Behind(R, k + 1, call), call.state,
                Searched(fields, data, flag, base, n + 1 - (k + 1), left[k], call))
    BY <1>4, <2>1, <2>2, SearchedAnswers
  <2>4. left[k + 1][call] = Searched(fields, data, flag, base, n + 1 - (k + 1), left[k], call)
    BY <1>2, <2>1
  <2> QED BY <2>3, <2>4
<1> HIDE DEF R, n
<1>5. 0 \in S
  BY <1>3
<1>6. ASSUME NEW k \in Nat, k \in S PROVE k + 1 \in S
  <2>1. k + 1 <= n => k <= n
    BY <1>1
  <2> QED BY <1>4, <1>6, <2>1
<1>7. \A k \in Nat : k \in S
  <2> HIDE DEF S
  <2> QED BY <1>5, <1>6, SetInduction
<1>8. \A k \in 0..n : Served(R, n, k, left[k])
  BY <1>1, <1>7
<1> QED BY <1>8 DEF R, n, left

(* What a search that was not stopped has made of all framings.            *)
Found(full, t) ==
  /\ t.candidates \in Seq(Seq(Value)) /\ t.error \in BOOLEAN
  /\ ~t.error =>
       /\ \A m \in 1..Len(t.candidates) : t.candidates[m] \in full
       /\ Distinct(t.candidates)
       /\ Len(t.candidates) < 2 =>
            \A v \in full : \E m \in 1..Len(t.candidates) : t.candidates[m] = v

(* The search that is not stopped by MAX_AMBIGUITY_STATES finds a framing  *)
(* when there is one and two when there are two.                           *)
LEMMA AdaptiveFinds ==
  ASSUME NEW fields \in Seq(FieldTypes), NEW data \in Seq(Nat), NEW flag \in BOOLEAN,
         NEW base \in {5, 6}
  PROVE  Found(FramingsFrom(fields, data, flag, base)[Len(fields)][1],
               decode_record_adaptive(fields, data, flag, base))
<1> DEFINE start == [failed |-> {}, examined |-> 0, candidates |-> <<>>, found |-> FALSE,
                     error |-> FALSE]
           n == Len(fields)
           R == FramingsFrom(fields, data, flag, base)
           call == CallWith(1, <<>>, start)
           left == decode_record_adaptive_from(fields, data, flag, base)
           t == decode_record_adaptive(fields, data, flag, base)
           full == R[n][1]
<1>1. t = IF n > MAX_AMBIGUITY_FIELDS THEN [start EXCEPT !.error = TRUE] ELSE left[n][call]
  BY DEF decode_record_adaptive
<1>2. CASE n > MAX_AMBIGUITY_FIELDS
  <2>1. t.candidates = <<>> /\ t.error = TRUE
    BY <1>1, <1>2
  <2> HIDE DEF t, full, start
  <2>2. <<>> \in Seq(Seq(Value)) /\ TRUE \in BOOLEAN
    OBVIOUS
  <2>3. Found(full, t)
    BY <2>1, <2>2 DEF Found
  <2> QED BY <2>3 DEF t, full
<1>3. CASE ~(n > MAX_AMBIGUITY_FIELDS)
  <2>1. start \in States /\ start.error = FALSE /\ start.candidates = <<>>
        /\ start.failed = {}
    BY DEF States
  <2>2. call \in Calls /\ call.off = 1 /\ call.values = <<>> /\ call.state = start
    <3> HIDE DEF start
    <3> QED BY <2>1 DEF CallWith, Calls
  <2>3. n \in 0..n
    OBVIOUS
  <2>4. Served(R, n, n, left[n])
    BY <2>3, SearchAnswers
  <2>5. R[n] \in [Offsets -> SUBSET Seq(Value)]
    BY <2>3, FramingsSteps
  <2>6. t = left[n][call]
    BY <1>1, <1>3
  <2> HIDE DEF start, R, n, call, left, t
  <2>7. Ready(R, n, start)
    BY <2>1 DEF Ready, Distinct, MemoSound
  <2>8. Accounts(R, n, Behind(R, n, call), start, t)
    BY <2>2, <2>4, <2>6, <2>7 DEF Served
  <2>9. Behind(R, n, call) = full
    <3>1. \A rest \in R[n][1] : <<>> \o rest = rest
      <4>1. 1 \in Offsets
        BY DEF Offsets
      <4>2. R[n][1] \in SUBSET Seq(Value)
        BY <2>5, <4>1
      <4> QED BY <4>2, ConcatEmptySeq
    <3>2. Behind(R, n, call) = {<<>> \o rest : rest \in R[n][1]}
      BY <2>2 DEF Behind
    <3> QED BY <3>1, <3>2
  <2>10. t \in States
    BY <2>8 DEF Accounts
  <2>11. /\ t.candidates \in Seq(Seq(Value)) /\ t.error \in BOOLEAN
         /\ Len(t.candidates) \in Nat
    BY <2>10, StateFacts
  <2>12. \A m \in 1..Len(t.candidates) : m > Len(start.candidates)
    BY <2>1, <2>11
  <2> HIDE DEF full
  <2>13. Found(full, t)
    BY <2>8, <2>9, <2>11, <2>12 DEF Accounts, Found
  <2> QED BY <2>13 DEF t, full, R, n
<1> QED BY <1>2, <1>3

(* Two searches, and what is made of the two.                              *)
CandidatesRight(verdict, all) ==
  /\ verdict.kind = "ok" => all = {verdict.values}
  /\ verdict.kind = "misfit" => all = {}
  /\ verdict.kind = "ambiguous" => \E u, v \in all : u # v \/ Contains(u, NotANumber)
  /\ verdict.kind \in {"ok", "misfit", "ambiguous", "limit"}

(* Values that Rust's == calls different are different, or contain a NaN.  *)
LEMMA NotSame ==
  \A u, v : ~Same(u, v) => u # v \/ Contains(u, NotANumber)
BY DEF Same

(* The parts of a verdict.                                                 *)
LEMMA VerdictFacts ==
  \A kind, values : Verdict(kind, values).kind = kind /\ Verdict(kind, values).values = values
BY DEF Verdict

(* ... and what agrees with one framing agrees with both.                  *)
LEMMA SameTwice ==
  \A u, v, w : Same(u, v) /\ Same(u, w) => Same(v, w)
BY DEF Same

(* What the candidates of the two bases are made into.                     *)
LEMMA CandidatesAnswer ==
  ASSUME NEW F, NEW G, NEW one, NEW other, Found(F, one), Found(G, other)
  PROVE  CandidatesRight(FromCandidates(one, other), F \cup G)
<1> DEFINE c == one.candidates
           e == other.candidates
           new == {k \in DOMAIN e : ~HasSame(c, e[k])}
           count == Len(c) + Cardinality(new)
           verdict == FromCandidates(one, other)
           all == F \cup G
<1>1. /\ c \in Seq(Seq(Value)) /\ e \in Seq(Seq(Value)) /\ Len(c) \in Nat /\ Len(e) \in Nat
      /\ DOMAIN e = 1..Len(e) /\ DOMAIN c = 1..Len(c)
  BY DEF Found
<1>2. verdict = IF one.error \/ other.error THEN Verdict("limit", <<>>)
                ELSE CASE count = 0 -> Verdict("misfit", <<>>)
                       [] count = 1 -> Verdict("ok", IF new = {} THEN c[1]
                                                     ELSE e[CHOOSE k \in new : TRUE])
                       [] count > 1 -> Verdict("ambiguous", <<>>)
  BY DEF FromCandidates
<1>3. new \subseteq 1..Len(e) /\ IsFiniteSet(new) /\ Cardinality(new) \in Nat
      /\ (Cardinality(new) = 0 <=> new = {})
  <2>1. new \subseteq 1..Len(e)
    BY <1>1
  <2>2. IsFiniteSet(1..Len(e))
    BY <1>1, FS_Interval
  <2> HIDE DEF new
  <2>3. IsFiniteSet(new)
    BY <2>1, <2>2, FS_Subset
  <2> QED BY <2>1, <2>3, FS_CardinalityType, FS_EmptySet
<1>4. CASE one.error \/ other.error
  <2>1. verdict.kind = "limit"
    BY <1>2, <1>4, VerdictFacts
  <2> HIDE DEF verdict, all
  <2>2. CandidatesRight(verdict, all)
    BY <2>1 DEF CandidatesRight
  <2> QED BY <2>2 DEF verdict, all
<1>5. CASE ~(one.error \/ other.error)
  <2>1. /\ \A m \in 1..Len(c) : c[m] \in F
        /\ Distinct(c)
        /\ Len(c) < 2 => \A v \in F : \E m \in 1..Len(c) : c[m] = v
        /\ \A m \in 1..Len(e) : e[m] \in G
        /\ Distinct(e)
        /\ Len(e) < 2 => \A v \in G : \E m \in 1..Len(e) : e[m] = v
    BY <1>5 DEF Found
  <2>2. \A k : k \in new <=> k \in 1..Len(e) /\ ~HasSame(c, e[k])
    BY <1>1
  <2>3. \A v : HasSame(c, v) <=> \E m \in 1..Len(c) : Same(c[m], v)
    BY <1>1 DEF HasSame
  <2>4. verdict = CASE count = 0 -> Verdict("misfit", <<>>)
                    [] count = 1 -> Verdict("ok", IF new = {} THEN c[1]
                                                  ELSE e[CHOOSE k \in new : TRUE])
                    [] count > 1 -> Verdict("ambiguous", <<>>)
    BY <1>2, <1>5
  <2> HIDE DEF c, e, new
  <2>5. ASSUME Len(c) = 0 PROVE new = 1..Len(e) /\ Cardinality(new) = Len(e) /\ F = {}
    <3>1. \A v : ~HasSame(c, v)
      BY <2>3, <2>5
    <3>2. new = 1..Len(e)
      BY <1>3, <2>2, <3>1
    <3>3. Cardinality(new) = Len(e)
      <4> DEFINE m == Len(e)
      <4>1. m \in Nat
        BY <1>1
      <4> HIDE DEF m
      <4>2. Cardinality(1..m) = IF 1 > m THEN 0 ELSE m - 1 + 1
        BY <4>1, FS_Interval
      <4>3. Cardinality(1..m) = m
        BY <4>1, <4>2
      <4> QED BY <3>2, <4>3 DEF m
    <3>4. F = {}
      BY <2>1, <2>5
    <3> QED BY <3>2, <3>3, <3>4
  <2>6. CASE count = 0
    <3>1. verdict = Verdict("misfit", <<>>)
      BY <2>4, <2>6
    <3>2. Len(c) = 0 /\ Cardinality(new) = 0
      BY <1>1, <1>3, <2>6
    <3>3. Len(e) = 0
      BY <2>5, <3>2
    <3>4. F = {} /\ G = {}
      BY <2>1, <2>5, <3>2, <3>3
    <3>5. verdict.kind = "misfit"
      BY <3>1, VerdictFacts
    <3> HIDE DEF verdict, count
    <3> QED BY <3>4, <3>5 DEF CandidatesRight, verdict
  <2>7. CASE count = 1
    <3> DEFINE w == IF new = {} THEN c[1] ELSE e[CHOOSE k \in new : TRUE]
    <3>1. verdict = Verdict("ok", w)
      BY <2>4, <2>7
    <3>2. CASE Len(c) = 1
      <4>1. new = {} /\ w = c[1]
        BY <1>1, <1>3, <2>7, <3>2
      <4>2. \A k \in 1..Len(e) : Same(c[1], e[k])
        <5>1. \A k \in 1..Len(e) : HasSame(c, e[k])
          BY <2>2, <4>1
        <5>2. \A m \in 1..Len(c) : m = 1
          BY <3>2
        <5> QED BY <2>3, <5>1, <5>2
      <4>3. Len(e) < 2
        <5> SUFFICES ASSUME ~(Len(e) < 2) PROVE FALSE
          OBVIOUS
        <5>1. 1 \in 1..Len(e) /\ 2 \in 1..Len(e)
          BY <1>1
        <5>2. Same(e[1], e[2])
          BY <4>2, <5>1, SameTwice
        <5> QED BY <2>1, <5>1, <5>2 DEF Distinct
      <4>4. \A v \in G : v = c[1]
        BY <2>1, <4>2, <4>3, SameIsEqual
      <4>5. \A v \in F : v = c[1]
        <5>1. \A m \in 1..Len(c) : m = 1
          BY <3>2
        <5> QED BY <2>1, <3>2, <5>1
      <4>6. c[1] \in F
        BY <2>1, <3>2
      <4> HIDE DEF w
      <4>7. all = {w}
        BY <4>1, <4>4, <4>5, <4>6
      <4>8. verdict.kind = "ok" /\ verdict.values = w
        BY <3>1, VerdictFacts
      <4> HIDE DEF verdict, all, count
      <4>9. CandidatesRight(verdict, all)
        BY <4>7, <4>8 DEF CandidatesRight
      <4> QED BY <4>9 DEF verdict, all
    <3>3. CASE Len(c) = 0
      <4>1. new = 1..Len(e) /\ Len(e) = 1 /\ F = {}
        BY <1>1, <1>3, <2>5, <2>7, <3>3
      <4>2. new = {1}
        BY <4>1
      <4>3. (CHOOSE k \in new : TRUE) = 1
        BY <4>2
      <4>4. w = e[1]
        BY <4>2, <4>3
      <4>5. \A v \in G : v = e[1]
        <5>1. \A m \in 1..Len(e) : m = 1
          BY <4>1
        <5> QED BY <2>1, <4>1, <5>1
      <4>6. e[1] \in G
        BY <2>1, <4>1
      <4> HIDE DEF w
      <4>7. all = {w}
        BY <4>1, <4>4, <4>5, <4>6
      <4>8. verdict.kind = "ok" /\ verdict.values = w
        BY <3>1, VerdictFacts
      <4> HIDE DEF verdict, all, count
      <4>9. CandidatesRight(verdict, all)
        BY <4>7, <4>8 DEF CandidatesRight
      <4> QED BY <4>9 DEF verdict, all
    <3> QED BY <1>1, <1>3, <2>7, <3>2, <3>3
  <2>8. CASE count > 1
    <3>1. verdict = Verdict("ambiguous", <<>>)
      BY <2>4, <2>8
    <3>2. \E u, v \in all : ~Same(u, v)
      <4>1. CASE Len(c) >= 2
        <5>1. 1 \in 1..Len(c) /\ 2 \in 1..Len(c)
          BY <1>1, <4>1
        <5>2. ~Same(c[1], c[2])
          BY <2>1, <5>1 DEF Distinct
        <5> QED BY <2>1, <5>1, <5>2
      <4>2. CASE Len(c) = 1
        <5>1. new # {}
          BY <1>1, <1>3, <2>8, <4>2
        <5>2. PICK k \in new : TRUE
          BY <5>1
        <5>3. k \in 1..Len(e) /\ ~HasSame(c, e[k]) /\ 1 \in 1..Len(c)
          BY <2>2, <4>2
        <5>4. ~Same(c[1], e[k])
          BY <2>3, <5>3
        <5>5. c[1] \in all /\ e[k] \in all
          BY <2>1, <5>3
        <5> QED BY <5>4, <5>5
      <4>3. CASE Len(c) = 0
        <5>1. Len(e) > 1
          BY <1>1, <1>3, <2>5, <2>8, <4>3
        <5>2. 1 \in 1..Len(e) /\ 2 \in 1..Len(e)
          BY <1>1, <5>1
        <5>3. ~Same(e[1], e[2])
          BY <2>1, <5>2 DEF Distinct
        <5> QED BY <2>1, <5>2, <5>3
      <4> QED BY <1>1, <4>1, <4>2, <4>3
    <3>3. verdict.kind = "ambiguous"
      BY <3>1, VerdictFacts
    <3> HIDE DEF verdict, all, count
    <3>4. CandidatesRight(verdict, all)
      BY <3>2, <3>3, NotSame DEF CandidatesRight
    <3> QED BY <3>4 DEF verdict, all
  <2> QED BY <1>1, <1>3, <2>6, <2>7, <2>8
<1> QED BY <1>4, <1>5

Prefixed(values, rests) == {values \o rest : rest \in rests}

(* A field of which there is one reading.                                  *)
LEMMA OneReading ==
  ASSUME NEW fields, NEW data, NEW flag, NEW b, NEW i, NEW off,
         ~Ambiguous(fields, data, i, off)
  PROVE  Readings(fields, data, flag, b, i, off) = {FieldAt(fields, data, flag, b, i, off)}
BY DEF Readings

(* Reading one more field of which there is one reading.                   *)
LEMMA PrefixedStep ==
  ASSUME NEW values \in Seq(Value), NEW shorter \in [Offsets -> SUBSET Seq(Value)],
         NEW d \in FieldResults
  PROVE  Prefixed(values, BehindReadings({d}, shorter)) =
           IF d.ok THEN Prefixed(Append(values, d.v), shorter[d.next]) ELSE {}
<1>1. BehindReadings({d}, shorter) = BehindReading(d, shorter)
  BY DEF BehindReadings
<1>2. CASE ~d.ok
  <2>1. BehindReading(d, shorter) = {}
    BY <1>2 DEF BehindReading
  <2> QED BY <1>1, <1>2, <2>1 DEF Prefixed
<1>3. CASE d.ok
  <2> DEFINE v == d.v
             N == shorter[d.next]
             tails == {<<v>> \o rest : rest \in N}
             app == Append(values, v)
  <2>1. v \in Value /\ N \subseteq Seq(Value)
    BY <1>3, ResultFacts DEF Offsets
  <2>2. BehindReading(d, shorter) = tails
    BY <1>3 DEF BehindReading
  <2>3. app = values \o <<v>> /\ <<v>> \in Seq(Value)
    <3> HIDE DEF v
    <3> QED BY <2>1, AppendIsConcat
  <2>4. ASSUME NEW rest \in N PROVE values \o (<<v>> \o rest) = app \o rest
    <3> DEFINE one == <<v>>
    <3>1. rest \in Seq(Value) /\ one \in Seq(Value)
      BY <2>1, <2>3
    <3> HIDE DEF v, N, app, one
    <3>2. (values \o one) \o rest = values \o (one \o rest)
      BY <3>1, ConcatValues
    <3> QED BY <2>3, <3>2 DEF one
  <2> HIDE DEF v, N, app
  <2>5. \A u : u \in Prefixed(values, tails) <=> u \in Prefixed(app, N)
    <3>1. ASSUME NEW u \in Prefixed(values, tails) PROVE u \in Prefixed(app, N)
      <4>1. PICK tail \in tails : u = values \o tail
        BY <3>1 DEF Prefixed
      <4>2. PICK rest \in N : tail = <<v>> \o rest
        BY <4>1
      <4>3. u = app \o rest
        BY <2>4, <4>1, <4>2
      <4> QED BY <4>2, <4>3 DEF Prefixed
    <3>2. ASSUME NEW u \in Prefixed(app, N) PROVE u \in Prefixed(values, tails)
      <4>1. PICK rest \in N : u = app \o rest
        BY <3>2 DEF Prefixed
      <4>2. u = values \o (<<v>> \o rest)
        BY <2>4, <4>1
      <4>3. <<v>> \o rest \in tails
        BY <4>1
      <4> QED BY <4>2, <4>3 DEF Prefixed
    <3> QED BY <3>1, <3>2
  <2>6. Prefixed(values, tails) = Prefixed(app, N)
    BY <2>5 DEF Prefixed
  <2> QED BY <1>1, <1>3, <2>2, <2>6 DEF v, N, app
<1> QED BY <1>2, <1>3

(* As long as the walk saw no Int32 whose width could be either, it is     *)
(* the only reading there is.                                              *)
LEMMA UniformReads ==
  ASSUME NEW fields \in Seq(FieldTypes), NEW data \in Seq(Nat), NEW flag \in BOOLEAN,
         NEW base \in {5, 6}
  PROVE  LET n == Len(fields)
             F == UptoOf(fields, data, flag, base)
             R == FramingsFrom(fields, data, flag, base)
         IN \A i \in 0..n :
              /\ "Int32" \notin ToSet(fields) => ~F[i].saw
              /\ ~F[i].saw =>
                   /\ F[i].ok => R[n][1] = Prefixed(F[i].values, R[n - i][F[i].off])
                   /\ ~F[i].ok /\ "Int32" \notin ToSet(fields) => R[n][1] = {}
<1> DEFINE n == Len(fields)
           F == UptoOf(fields, data, flag, base)
           R == FramingsFrom(fields, data, flag, base)
           none == "Int32" \notin ToSet(fields)
           P(i) == /\ none => ~F[i].saw
                   /\ ~F[i].saw =>
                        /\ F[i].ok => R[n][1] = Prefixed(F[i].values, R[n - i][F[i].off])
                        /\ ~F[i].ok /\ none => R[n][1] = {}
           S == {i \in Nat : i <= n => P(i)}
<1>1. n \in Nat
  OBVIOUS
<1>2. /\ F[0] = [ok |-> TRUE, off |-> 1, values |-> <<>>, saw |-> FALSE]
      /\ \A i \in 0..n : F[i] \in ReadStates
      /\ \A i \in 1..n : F[i] = FieldRead(fields, data, flag, base, i, F[i - 1])
  BY UniformSteps
<1>3. /\ \A k \in 0..n : R[k] \in [Offsets -> SUBSET Seq(Value)]
      /\ \A k \in 1..n, off \in Offsets :
           R[k][off] = BehindReadings(Readings(fields, data, flag, base, n + 1 - k, off), R[k - 1])
  <2>1. fields \in Seq(FieldTypes) /\ data \in Seq(Nat) /\ flag \in BOOLEAN /\ base \in {5, 6}
    OBVIOUS
  <2> HIDE DEF F, none, P, S
  <2> QED BY ONLY <2>1, FramingsSteps
<1>4. \A i \in 1..n, off \in Offsets : none => ~Ambiguous(fields, data, i, off)
  BY DEF Ambiguous, ToSet
<1>5. \A i \in 1..n, off \in Offsets : FieldAt(fields, data, flag, base, i, off) \in FieldResults
  BY FieldAtType DEF Offsets
<1> HIDE DEF n, F, R, none
<1>6. P(0)
  <2>1. /\ F[0].ok = TRUE /\ F[0].saw = FALSE /\ F[0].values = <<>> /\ F[0].off = 1
        /\ n - 0 = n
    BY <1>1, <1>2
  <2>2. R[n][1] \subseteq Seq(Value)
    <3>1. n \in 0..n /\ 1 \in Offsets
      BY <1>1 DEF Offsets
    <3>2. R[n] \in [Offsets -> SUBSET Seq(Value)]
      BY <1>3, <3>1
    <3> QED BY <3>1, <3>2
  <2>3. \A rest \in R[n][1] : <<>> \o rest = rest
    BY <2>2, ConcatEmptySeq
  <2>4. Prefixed(<<>>, R[n][1]) = R[n][1]
    BY <2>3 DEF Prefixed
  <2> QED BY <2>1, <2>4
<1>7. ASSUME NEW i \in Nat, i + 1 <= n, P(i) PROVE P(i + 1)
  <2> DEFINE r == F[i]
             w == F[i + 1]
             off == r.off
             d == FieldAt(fields, data, flag, base, i + 1, off)
             amb == Ambiguous(fields, data, i + 1, off)
             shorter == R[n - (i + 1)]
  <2>1. /\ i + 1 \in 1..n /\ (i + 1) - 1 = i /\ i \in 0..n /\ n - i \in 1..n
        /\ n + 1 - (n - i) = i + 1 /\ (n - i) - 1 = n - (i + 1) /\ n - (i + 1) \in 0..n
    BY <1>1, <1>7
  <2>2. r \in ReadStates /\ w = FieldRead(fields, data, flag, base, i + 1, r)
    BY <1>2, <2>1
  <2>3. /\ off \in Offsets /\ r.values \in Seq(Value) /\ r.ok \in BOOLEAN /\ r.saw \in BOOLEAN
    BY <2>2 DEF ReadStates
  <2>4. d \in FieldResults /\ (none => ~amb)
    BY <1>4, <1>5, <2>1, <2>3
  <2>5. shorter \in [Offsets -> SUBSET Seq(Value)]
    BY <1>3, <2>1
  <2>6. R[n - i][off] = BehindReadings(Readings(fields, data, flag, base, i + 1, off), shorter)
    <3> HIDE DEF off
    <3>1. R[n - i][off] = BehindReadings(Readings(fields, data, flag, base, n + 1 - (n - i), off),
                                         R[(n - i) - 1])
      BY <1>3, <2>1, <2>3
    <3> QED BY <2>1, <3>1
  <2>7. w = IF ~r.ok THEN r
            ELSE IF ~d.ok THEN [r EXCEPT !.ok = FALSE]
            ELSE [ok |-> TRUE, off |-> d.next, values |-> Append(r.values, d.v),
                  saw |-> r.saw \/ amb]
    BY <2>2 DEF FieldRead
  <2>8. /\ none => ~r.saw
        /\ ~r.saw => /\ r.ok => R[n][1] = Prefixed(r.values, R[n - i][off])
                     /\ ~r.ok /\ none => R[n][1] = {}
    BY <1>7
  <2>9. ~amb => R[n - i][off] = BehindReadings({d}, shorter)
    <3> SUFFICES ASSUME ~amb PROVE R[n - i][off] = BehindReadings({d}, shorter)
      OBVIOUS
    <3>1. Readings(fields, data, flag, base, i + 1, off) = {d}
      <4> HIDE DEF off
      <4> QED BY OneReading
    <3> HIDE DEF d, off, shorter
    <3> QED BY <2>6, <3>1
  <2>10. Prefixed(r.values, BehindReadings({d}, shorter)) =
           IF d.ok THEN Prefixed(Append(r.values, d.v), shorter[d.next]) ELSE {}
    BY <2>3, <2>4, <2>5, PrefixedStep
  <2> HIDE DEF r, w, off, d, amb, shorter
  <2>11. /\ none => ~w.saw
         /\ ~w.saw => /\ w.ok => R[n][1] = Prefixed(w.values, shorter[w.off])
                      /\ ~w.ok /\ none => R[n][1] = {}
    <3>1. CASE ~r.ok
      <4>1. w = r
        BY <2>7, <3>1
      <4> QED BY <2>8, <3>1, <4>1
    <3>2. CASE r.ok /\ ~d.ok
      <4>1. w.ok = FALSE /\ w.saw = r.saw
        BY <2>2, <2>7, <3>2 DEF ReadStates
      <4> QED BY <2>4, <2>8, <2>9, <2>10, <3>2, <4>1
    <3>3. CASE r.ok /\ d.ok
      <4>1. /\ w.ok = TRUE /\ w.saw = (r.saw \/ amb) /\ w.values = Append(r.values, d.v)
            /\ w.off = d.next
        BY <2>7, <3>3
      <4> QED BY <2>4, <2>8, <2>9, <2>10, <3>3, <4>1
    <3> QED BY <3>1, <3>2, <3>3
  <2> QED BY <2>11 DEF w, shorter
<1> HIDE DEF P
<1>8. 0 \in S
  BY <1>6
<1>9. ASSUME NEW i \in Nat, i \in S PROVE i + 1 \in S
  <2>1. i + 1 <= n => i <= n
    BY <1>1
  <2> QED BY <1>7, <1>9, <2>1
<1>10. \A i \in Nat : i \in S
  <2> HIDE DEF S
  <2> QED BY <1>8, <1>9, SetInduction
<1>11. \A i \in 0..n : P(i)
  BY <1>1, <1>10
<1> QED BY <1>11 DEF P, n, F, R, none

(* Reading all fields in one base, when no prefix had two meanings.        *)
ReadsAll(r, full, none) ==
  /\ r.ok /\ ~r.saw => full = {r.values}
  /\ none => full = IF r.ok THEN {r.values} ELSE {}

(* What decode_record_with_base answers is then right for all framings in  *)
(* that base.                                                              *)
LEMMA UniformAnswers ==
  ASSUME NEW fields \in Seq(FieldTypes), NEW data \in Seq(Nat), NEW flag \in BOOLEAN,
         NEW base \in {5, 6}
  PROVE  ReadsAll(decode_record_with_base(fields, data, flag, base),
                  FramingsFrom(fields, data, flag, base)[Len(fields)][1],
                  "Int32" \notin ToSet(fields))
<1> DEFINE n == Len(fields)
           F == UptoOf(fields, data, flag, base)
           R == FramingsFrom(fields, data, flag, base)
           w == F[n]
           none == "Int32" \notin ToSet(fields)
           r == decode_record_with_base(fields, data, flag, base)
           full == R[n][1]
<1>1. n \in 0..n /\ n - n = 0
  OBVIOUS
<1>2. w \in ReadStates /\ ReadUniformly(fields, data, flag, base) = w
  BY <1>1, UniformSteps
<1>3. /\ none => ~w.saw
      /\ ~w.saw => /\ w.ok => full = Prefixed(w.values, R[0][w.off])
                   /\ ~w.ok /\ none => full = {}
  BY <1>1, UniformReads
<1>4. w.ok \in BOOLEAN /\ w.values \in Seq(Value) /\ w.off \in Offsets /\ w.saw \in BOOLEAN
  BY <1>2 DEF ReadStates
<1>5. R[0][w.off] = IF w.off = Len(data) + 1 THEN {<<>>} ELSE {}
  <2> DEFINE off == w.off
  <2> HIDE DEF off
  <2>1. off \in Offsets
    BY <1>4 DEF off
  <2>2. R[0][off] = IF off = Len(data) + 1 THEN {<<>>} ELSE {}
    BY <2>1, FramingsSteps
  <2> QED BY <2>2 DEF off
<1>6. r = [w EXCEPT !.ok = @ /\ w.off = Len(data) + 1]
  BY <1>2 DEF decode_record_with_base
<1> HIDE DEF n, F, R, w, none, r, full
<1>7. r.ok = (w.ok /\ w.off = Len(data) + 1) /\ r.saw = w.saw /\ r.values = w.values
  BY <1>2, <1>6 DEF ReadStates
<1>8. Prefixed(w.values, {<<>>}) = {w.values} /\ Prefixed(w.values, {}) = {}
  <2>1. w.values \o <<>> = w.values
    BY <1>4, ConcatEmptySeq
  <2> QED BY <2>1 DEF Prefixed
<1>9. r.ok /\ ~r.saw => full = {r.values}
  BY <1>3, <1>5, <1>7, <1>8
<1>10. none => full = IF r.ok THEN {r.values} ELSE {}
  BY <1>3, <1>4, <1>5, <1>7, <1>8
<1>11. ReadsAll(r, full, none)
  BY <1>9, <1>10 DEF ReadsAll
<1> QED BY <1>11 DEF r, full, R, n, none

(* Without an Int32 there is nothing that the base decides.                *)
LEMMA BaseFreeField ==
  ASSUME NEW fields \in Seq(FieldTypes), NEW data, NEW flag,
         NEW i \in 1..Len(fields), NEW off, fields[i] # "Int32"
  PROVE  FieldAt(fields, data, flag, 5, i, off) = FieldAt(fields, data, flag, 6, i, off)
<1> DEFINE type == fields[i]
<1>1. \A x \in Numbers : x # "Int32" => NumberFormat(x, 5) = NumberFormat(x, 6)
  BY DEF Numbers, NumberFormat
<1>2. \A pos : DecodeAt(data, pos, type, 5) = DecodeAt(data, pos, type, 6)
  <2>1. CASE type = "Bool"
    BY <2>1 DEF DecodeAt
  <2>2. CASE type # "Bool" /\ type \in Numbers
    BY <1>1, <2>2 DEF DecodeAt
  <2>3. CASE type # "Bool" /\ type \notin Numbers
    BY <2>3 DEF DecodeAt
  <2> QED BY <2>1, <2>2, <2>3
<1> HIDE DEF type
<1> QED BY <1>2 DEF FieldAt, decode_field, type

(* ... so that the second base need not be tried.                          *)
LEMMA BaseFreeReading ==
  ASSUME NEW fields \in Seq(FieldTypes), NEW data \in Seq(Nat), NEW flag \in BOOLEAN,
         "Int32" \notin ToSet(fields)
  PROVE  ReadUniformly(fields, data, flag, 5) = ReadUniformly(fields, data, flag, 6)
<1> DEFINE n == Len(fields)
           F == UptoOf(fields, data, flag, 5)
           G == UptoOf(fields, data, flag, 6)
           S == {i \in Nat : i <= n => F[i] = G[i]}
<1>1. n \in Nat
  OBVIOUS
<1>2. /\ ReadUniformly(fields, data, flag, 5) = F[n]
      /\ F[0] = [ok |-> TRUE, off |-> 1, values |-> <<>>, saw |-> FALSE]
      /\ \A i \in 1..n : F[i] = FieldRead(fields, data, flag, 5, i, F[i - 1])
  BY UniformSteps
<1>3. /\ ReadUniformly(fields, data, flag, 6) = G[n]
      /\ G[0] = [ok |-> TRUE, off |-> 1, values |-> <<>>, saw |-> FALSE]
      /\ \A i \in 1..n : G[i] = FieldRead(fields, data, flag, 6, i, G[i - 1])
  BY UniformSteps
<1>4. \A i \in 1..n : fields[i] # "Int32"
  BY DEF ToSet
<1>5. \A i \in 1..n : \A r :
        FieldRead(fields, data, flag, 5, i, r) = FieldRead(fields, data, flag, 6, i, r)
  BY <1>4, BaseFreeField, ZenonT(60) DEF FieldRead
<1> HIDE DEF n, F, G
<1>6. 0 \in S
  BY <1>2, <1>3
<1>7. ASSUME NEW i \in Nat, i \in S PROVE i + 1 \in S
  <2> SUFFICES ASSUME i + 1 <= n PROVE F[i + 1] = G[i + 1]
    OBVIOUS
  <2>1. i + 1 \in 1..n /\ (i + 1) - 1 = i /\ i <= n
    BY <1>1
  <2>2. F[i] = G[i]
    BY <1>7, <2>1
  <2> QED BY <1>2, <1>3, <1>5, <2>1, <2>2
<1>8. \A i \in Nat : i \in S
  <2> HIDE DEF S
  <2> QED BY <1>6, <1>7, SetInduction
<1> QED BY <1>1, <1>2, <1>3, <1>8

(* Without an Int32 there is one reading, and nothing to compare it with.  *)
LEMMA AmbiguousNeedsInt32 ==
  ASSUME NEW fields, NEW data, NEW flag, NEW base, "Int32" \notin ToSet(fields)
  PROVE  decode_record_values(fields, data, flag, base).kind # "ambiguous"
<1> DEFINE p == decode_record_with_base(fields, data, flag, base)
           verdict == decode_record_values(fields, data, flag, base)
<1>1. verdict = IF p.ok THEN Verdict("ok", p.values) ELSE Verdict("misfit", <<>>)
  BY DEF decode_record_values, FromUniform
<1> HIDE DEF p, verdict
<1>2. verdict.kind # "ambiguous"
  BY <1>1, VerdictFacts
<1> QED BY <1>2 DEF verdict

(* decode_record_values, by its three ways to an answer.                   *)
LEMMA UniformRight ==
  ASSUME NEW fields \in Seq(FieldTypes), NEW data \in Seq(Nat), NEW flag \in BOOLEAN,
         NEW base \in {5, 6}
  PROVE  CandidatesRight(decode_record_values(fields, data, flag, base),
                         Framings(fields, data, flag))
<1> DEFINE p == decode_record_with_base(fields, data, flag, base)
           q == decode_record_with_base(fields, data, flag, 11 - base)
           one == decode_record_adaptive(fields, data, flag, base)
           other == decode_record_adaptive(fields, data, flag, 11 - base)
           F == FramingsFrom(fields, data, flag, base)[Len(fields)][1]
           G == FramingsFrom(fields, data, flag, 11 - base)[Len(fields)][1]
           all == Framings(fields, data, flag)
           none == "Int32" \notin ToSet(fields)
           verdict == decode_record_values(fields, data, flag, base)
<1>1. 11 - base \in {5, 6} /\ {5, 6} = {base, 11 - base}
  OBVIOUS
<1>2. all = F \cup G
  BY <1>1 DEF Framings
<1>3. CandidatesRight(FromCandidates(one, other), F \cup G)
  <2>1. Found(F, one)
    BY AdaptiveFinds
  <2> DEFINE base2 == 11 - base
  <2>2. base2 \in {5, 6}
    BY <1>1
  <2> HIDE DEF base2
  <2>3. Found(FramingsFrom(fields, data, flag, base2)[Len(fields)][1],
              decode_record_adaptive(fields, data, flag, base2))
    BY <2>2, AdaptiveFinds
  <2>4. Found(G, other)
    BY <2>3 DEF base2
  <2> HIDE DEF F, G, one, other
  <2> QED BY <2>1, <2>4, CandidatesAnswer
<1>4. ReadsAll(p, F, none)
  BY UniformAnswers
<1>5. ReadsAll(q, G, none)
  <2> DEFINE base2 == 11 - base
  <2>1. base2 \in {5, 6}
    BY <1>1
  <2> HIDE DEF base2
  <2>2. ReadsAll(decode_record_with_base(fields, data, flag, base2),
                 FramingsFrom(fields, data, flag, base2)[Len(fields)][1], none)
    BY <2>1, UniformAnswers
  <2> QED BY <2>2 DEF base2
<1>6. none => p = q
  <2> SUFFICES ASSUME none PROVE p = q
    OBVIOUS
  <2>1. ReadUniformly(fields, data, flag, base) = ReadUniformly(fields, data, flag, 11 - base)
    <3>1. ReadUniformly(fields, data, flag, 5) = ReadUniformly(fields, data, flag, 6)
      BY BaseFreeReading
    <3>2. CASE base = 5
      <4>1. 11 - base = 6
        BY <3>2
      <4> QED BY <3>1, <3>2, <4>1
    <3>3. CASE base = 6
      <4>1. 11 - base = 5
        BY <3>3
      <4> QED BY <3>1, <3>3, <4>1
    <3> QED BY <3>2, <3>3
  <2> QED BY <2>1 DEF decode_record_with_base
<1>7. verdict =
        IF none
          THEN IF p.ok THEN Verdict("ok", p.values) ELSE Verdict("misfit", <<>>)
        ELSE IF p.ok /\ q.ok /\ ~p.saw /\ ~q.saw
          THEN IF Same(p.values, q.values)
                 THEN Verdict("ok", p.values) ELSE Verdict("ambiguous", <<>>)
        ELSE FromCandidates(one, other)
  BY DEF decode_record_values, FromUniform
<1> HIDE DEF p, q, one, other, F, G, all, none, verdict
<1>8. CASE none
  <2>1. all = IF p.ok THEN {p.values} ELSE {}
    BY <1>2, <1>4, <1>5, <1>6, <1>8 DEF ReadsAll
  <2>2. /\ verdict.kind = (IF p.ok THEN "ok" ELSE "misfit")
        /\ p.ok => verdict.values = p.values
    BY <1>7, <1>8, VerdictFacts
  <2>3. CandidatesRight(verdict, all)
    BY <2>1, <2>2 DEF CandidatesRight
  <2> QED BY <2>3 DEF verdict, all
<1>9. CASE ~none /\ p.ok /\ q.ok /\ ~p.saw /\ ~q.saw
  <2>1. all = {p.values, q.values}
    BY <1>2, <1>4, <1>5, <1>9 DEF ReadsAll
  <2>2. CASE Same(p.values, q.values)
    <3>1. all = {p.values}
      BY <2>1, <2>2, SameIsEqual
    <3>2. verdict.kind = "ok" /\ verdict.values = p.values
      BY <1>7, <1>9, <2>2, VerdictFacts
    <3>3. CandidatesRight(verdict, all)
      BY <3>1, <3>2 DEF CandidatesRight
    <3> QED BY <3>3 DEF verdict, all
  <2>3. CASE ~Same(p.values, q.values)
    <3>1. verdict.kind = "ambiguous"
      BY <1>7, <1>9, <2>3, VerdictFacts
    <3>2. p.values # q.values \/ Contains(p.values, NotANumber)
      BY <2>3, NotSame
    <3>3. CandidatesRight(verdict, all)
      BY <2>1, <3>1, <3>2 DEF CandidatesRight
    <3> QED BY <3>3 DEF verdict, all
  <2> QED BY <2>2, <2>3
<1>10. CASE ~none /\ ~(p.ok /\ q.ok /\ ~p.saw /\ ~q.saw)
  BY <1>2, <1>3, <1>7, <1>10 DEF verdict, all
<1> QED BY <1>8, <1>9, <1>10

(* Whatever base the file is taken to prefer, a record gets the verdict it *)
(* deserves: values only if it reads in one way, "ambiguous" only if it    *)
(* has an Int32 and reads in two, or in one that holds a NaN (Float or     *)
(* Double), "misfit" only if in none.                                      *)
THEOREM RecordVerdictIsRight ==
  ASSUME NEW fields \in Seq(FieldTypes), NEW data \in Seq(Nat), NEW flag \in BOOLEAN,
         NEW base \in {5, 6}
  PROVE  VerdictIsRight(decode_record_values(fields, data, flag, base), fields, data, flag)
<1> DEFINE verdict == decode_record_values(fields, data, flag, base)
<1>1. CandidatesRight(verdict, Framings(fields, data, flag))
  BY UniformRight
<1>2. verdict.kind = "ambiguous" => "Int32" \in ToSet(fields)
  BY AmbiguousNeedsInt32
<1> HIDE DEF verdict
<1>3. VerdictIsRight(verdict, fields, data, flag)
  BY <1>1, <1>2 DEF CandidatesRight, VerdictIsRight
<1> QED BY <1>3 DEF verdict

(* ... and values that are values.                                         *)
LEMMA VerdictValues ==
  ASSUME NEW fields \in Seq(FieldTypes), NEW data \in Seq(Nat), NEW flag \in BOOLEAN,
         NEW base \in {5, 6},
         decode_record_values(fields, data, flag, base).kind = "ok"
  PROVE  decode_record_values(fields, data, flag, base).values \in Framings(fields, data, flag)
<1> DEFINE verdict == decode_record_values(fields, data, flag, base)
<1>1. CandidatesRight(verdict, Framings(fields, data, flag))
  BY UniformRight
<1> HIDE DEF verdict
<1>2. verdict.values \in Framings(fields, data, flag)
  BY <1>1 DEF CandidatesRight, verdict
<1> QED BY <1>2 DEF verdict

(* The framings of a record are lists of values.                           *)
LEMMA FramingsType ==
  ASSUME NEW fields \in Seq(FieldTypes), NEW data \in Seq(Nat), NEW flag \in BOOLEAN
  PROVE  Framings(fields, data, flag) \subseteq Seq(Value)
<1>1. ASSUME NEW b \in {5, 6}
      PROVE  FramingsFrom(fields, data, flag, b)[Len(fields)][1] \subseteq Seq(Value)
  <2> DEFINE R == FramingsFrom(fields, data, flag, b)
  <2>1. Len(fields) \in 0..Len(fields) /\ 1 \in Offsets
    BY DEF Offsets
  <2>2. R[Len(fields)] \in [Offsets -> SUBSET Seq(Value)]
    BY <2>1, FramingsSteps
  <2> HIDE DEF R
  <2>3. R[Len(fields)][1] \subseteq Seq(Value)
    BY <2>1, <2>2
  <2> QED BY <2>3 DEF R
<1> QED BY <1>1 DEF Framings

-----------------------------------------------------------------------------
(* Sums, least and greatest elements.                                      *)

(* Sums is what its recursion says, for every sequence of counts.          *)
LEMMA SumsSteps ==
  ASSUME NEW counts \in Seq(Nat)
  PROVE  /\ Sums(counts)[0] = 0
         /\ \A n \in 0..Len(counts) : Sums(counts)[n] \in Nat
         /\ \A n \in 1..Len(counts) : Sums(counts)[n] = Sums(counts)[n - 1] + counts[n]
<1> DEFINE m == Len(counts)
           F == Sums(counts)
           Step(n, x) == x + counts[n]
           Eq(f) == f = [n \in 0..m |-> IF n = 0 THEN 0 ELSE Step(n, f[n - 1])]
           g == [n \in 1..m |-> [x \in Nat |-> Step(n, x)]]
<1>1. m \in Nat /\ 0 \in Nat
  OBVIOUS
<1>2. ASSUME NEW n \in 1..m, NEW x \in Nat PROVE Step(n, x) \in Nat
  BY ElementOfSeq
<1>3. g \in Steps(Nat, m)
  BY <1>2 DEF Steps
<1>4. \A n \in 1..m : \A x \in Nat : g[n][x] = Step(n, x)
  OBVIOUS
<1> HIDE DEF Step, g, m
<1>5. PICK f : Recurs(f, Nat, m, 0, g)
  BY <1>1, <1>3, RecursionExists, Zenon
<1>6. Eq(f)
  <2>1. ASSUME NEW n \in 0..m PROVE f[n] = IF n = 0 THEN 0 ELSE Step(n, f[n - 1])
    <3>1. CASE n = 0
      BY <1>5, <3>1 DEF Recurs
    <3>2. CASE n # 0
      <4>1. n \in 1..m /\ n - 1 \in 0..m
        BY <1>1, <3>2
      <4>2. f[n - 1] \in Nat
        BY <1>5, <4>1 DEF Recurs
      <4> QED BY <1>4, <1>5, <3>2, <4>1, <4>2 DEF Recurs
    <3> QED BY <3>1, <3>2
  <2> QED BY <1>5, <2>1 DEF Recurs
<1>7. F = CHOOSE h : Eq(h)
  BY DEF Sums, Step, m
<1>8. Eq(F)
  <2> HIDE DEF Eq, F
  <2> QED BY <1>6, <1>7
<1> HIDE DEF F
<1>9. F[0] = 0 /\ \A n \in 1..m : F[n] = Step(n, F[n - 1])
  <2>1. \A n \in 0..m : F[n] = IF n = 0 THEN 0 ELSE Step(n, F[n - 1])
    BY <1>8
  <2> QED BY <1>1, <2>1
<1>10. \A n \in 0..m : F[n] \in Nat
  <2>1. F[0] \in Nat
    BY <1>9
  <2>2. \A n \in 1..m : F[n - 1] \in Nat => F[n] \in Nat
    BY <1>2, <1>9
  <2> QED BY <1>1, <2>1, <2>2, RecursionTyped
<1> QED BY <1>9, <1>10 DEF Step, F, m

(* The sums of natural numbers do not decrease.                            *)
LEMMA SumsGrow ==
  ASSUME NEW counts \in Seq(Nat), NEW i \in 0..Len(counts), NEW j \in i..Len(counts)
  PROVE  /\ Sums(counts)[i] <= Sums(counts)[j]
         /\ (\A p \in (i + 1)..j : counts[p] = 0) => Sums(counts)[j] = Sums(counts)[i]
<1> DEFINE F == Sums(counts)
           m == Len(counts)
           P(k) == /\ F[i] <= F[i + k]
                   /\ (\A p \in (i + 1)..(i + k) : counts[p] = 0) => F[i + k] = F[i]
           S == {k \in Nat : i + k <= m => P(k)}
<1>1. m \in Nat /\ i \in Nat /\ j \in Nat /\ i <= j /\ j <= m
  OBVIOUS
<1>2. /\ \A n \in 0..m : F[n] \in Nat
      /\ \A n \in 1..m : F[n] = F[n - 1] + counts[n]
  BY SumsSteps
<1>3. \A n \in 1..m : counts[n] \in Nat
  BY ElementOfSeq
<1> HIDE DEF F, m
<1>4. P(0)
  <2>1. i + 0 = i /\ F[i] \in Nat
    BY <1>1, <1>2
  <2> QED BY <2>1
<1>5. ASSUME NEW k \in Nat, i + (k + 1) <= m, P(k) PROVE P(k + 1)
  <2>1. /\ i + k + 1 \in 1..m /\ (i + k + 1) - 1 = i + k /\ i + k \in 0..m /\ i \in 0..m
        /\ i + (k + 1) = i + k + 1
    BY <1>1, <1>5
  <2> DEFINE a == F[i + k]
             b == F[i + k + 1]
             c == counts[i + k + 1]
  <2>2. b = a + c /\ a \in Nat /\ b \in Nat /\ c \in Nat /\ F[i] \in Nat
    BY <1>2, <1>3, <2>1
  <2>3. F[i] <= a /\ ((\A p \in (i + 1)..(i + k) : counts[p] = 0) => a = F[i])
    BY <1>5
  <2>4. (\A p \in (i + 1)..(i + k + 1) : counts[p] = 0) =>
          c = 0 /\ \A p \in (i + 1)..(i + k) : counts[p] = 0
    BY <1>1
  <2> HIDE DEF a, b, c
  <2>5. F[i] <= b /\ ((\A p \in (i + 1)..(i + k + 1) : counts[p] = 0) => b = F[i])
    BY <2>2, <2>3, <2>4, SMTT(60)
  <2> QED BY <2>1, <2>5 DEF b
<1> HIDE DEF P
<1>6. 0 \in S
  BY <1>4
<1>7. ASSUME NEW k \in Nat, k \in S PROVE k + 1 \in S
  <2>1. i + (k + 1) <= m => i + k <= m
    BY <1>1
  <2> QED BY <1>5, <1>7, <2>1
<1>8. \A k \in Nat : k \in S
  <2> HIDE DEF S
  <2> QED BY <1>6, <1>7, SetInduction
<1>9. P(j - i)
  BY <1>1, <1>8
<1>10. i + (j - i) = j
  BY <1>1
<1> QED BY <1>9, <1>10 DEF P, F

(* A non-empty set of numbers has a least element, which Min is.           *)
LEMMA MinIs ==
  ASSUME NEW T, T \subseteq Nat, T # {}
  PROVE  Min(T) \in T /\ \A y \in T : Min(T) <= y
BY LeastElement DEF Min

(* The greatest element of a set, where one is known.                      *)
LEMMA MaxIs ==
  ASSUME NEW T, T \subseteq Nat, NEW m \in T, \A y \in T : y <= m
  PROVE  Max(T) = m
<1>1. \E x \in T : \A y \in T : x >= y
  OBVIOUS
<1>2. Max(T) \in T /\ \A y \in T : Max(T) >= y
  BY <1>1 DEF Max
<1>3. m \in Nat /\ Max(T) \in Nat /\ Max(T) >= m /\ Max(T) <= m
  BY <1>2
<1> QED BY <1>3

-----------------------------------------------------------------------------
(* The block stream.                                                       *)

(* The end marker, or the end of the file.                                 *)
LEMMA StreamEndIs ==
  ASSUME NEW f, f.blocks \in Seq(BlockType)
  PROVE  LET n == Len(f.blocks)
             e == StreamEnd(f)
         IN /\ n \in Nat /\ e \in 1..n + 1
            /\ e <= n => f.blocks[e].kind = "end"
            /\ \A p \in 1..e - 1 : p \in 1..n /\ f.blocks[p].kind # "end"
<1> DEFINE b == f.blocks
           n == Len(b)
           T == {p \in DOMAIN b : b[p].kind = "end"} \cup {n + 1}
           e == StreamEnd(f)
<1>1. n \in Nat /\ DOMAIN b = 1..n
  OBVIOUS
<1>2. e = Min(T)
  BY DEF StreamEnd
<1> HIDE DEF b, n, e
<1>3. T \subseteq Nat /\ T # {} /\ T \subseteq 1..n + 1
  BY <1>1
<1>4. \A p \in 1..n : b[p].kind = "end" => p \in T
  BY <1>1
<1>5. \A p \in T : p <= n => b[p].kind = "end"
  BY <1>1
<1> HIDE DEF T
<1>6. e \in T /\ \A y \in T : e <= y
  BY <1>2, <1>3, MinIs
<1>7. e \in 1..n + 1
  BY <1>3, <1>6
<1>8. \A p \in 1..e - 1 : p \in 1..n /\ b[p].kind # "end"
  <2> TAKE p \in 1..e - 1
  <2>1. p \in 1..n /\ ~(e <= p)
    BY <1>1, <1>7
  <2> QED BY <1>4, <1>6, <2>1
<1> QED BY <1>1, <1>5, <1>6, <1>7, <1>8 DEF b, n, e

(* The records of a file, and where in their sequence those of a block     *)
(* are.                                                                    *)
Places == [at : Nat, n : Nat]

Piece(f, p) ==
  IF f.blocks[p].kind = "record"
    THEN [n \in 1..f.blocks[p].count |-> [at |-> p, n |-> n]] ELSE <<>>

Pieces(f, m) == [p \in 1..m |-> Piece(f, p)]

(* The parts of a block.                                                   *)
LEMMA BlockFacts ==
  ASSUME NEW f, f.blocks \in Seq(BlockType), NEW p \in 1..Len(f.blocks)
  PROVE  LET b == f.blocks[p]
         IN /\ b.kind \in {"record", "blob", "index", "end", "unknown"}
            /\ b.fault \in {"none", "bad", "huge", "cut"}
            /\ b.recs \in Seq(Seq(Nat)) /\ b.count \in Nat /\ b.data \in Seq(Nat)
            /\ Len(b.recs) \in Nat
<1> DEFINE b == f.blocks[p]
<1>1. b \in BlockType
  BY ElementOfSeq
<1> HIDE DEF b
<1>2. /\ b.kind \in {"record", "blob", "index", "end", "unknown"}
      /\ b.fault \in {"none", "bad", "huge", "cut"}
      /\ b.recs \in Seq(Seq(Nat)) /\ b.count \in Nat /\ b.data \in Seq(Nat)
  BY <1>1 DEF BlockType
<1>3. Len(b.recs) \in Nat
  BY <1>2
<1> QED BY <1>2, <1>3 DEF b

(* The counts that the headers of the record blocks declare.               *)
LEMMA DeclaredIs ==
  ASSUME NEW f, f.blocks \in Seq(BlockType)
  PROVE  /\ Declared(f) \in Seq(Nat) /\ Len(Declared(f)) = StreamEnd(f) - 1
         /\ \A p \in 1..StreamEnd(f) - 1 :
              Declared(f)[p] = IF f.blocks[p].kind = "record" THEN f.blocks[p].count ELSE 0
<1> DEFINE e == StreamEnd(f)
           D == Declared(f)
<1>1. e - 1 \in Nat /\ \A p \in 1..e - 1 : p \in 1..Len(f.blocks)
  BY StreamEndIs
<1>2. \A p \in 1..e - 1 : p \in RecordBlocks(f) <=> f.blocks[p].kind = "record"
  BY DEF RecordBlocks
<1>3. D = [p \in 1..e - 1 |-> IF p \in RecordBlocks(f) THEN f.blocks[p].count ELSE 0]
  BY DEF Declared
<1> HIDE DEF e, D
<1>4. \A p \in 1..e - 1 : D[p] = IF f.blocks[p].kind = "record" THEN f.blocks[p].count ELSE 0
  BY <1>2, <1>3
<1>5. \A p \in 1..e - 1 : f.blocks[p].count \in Nat
  BY <1>1, BlockFacts
<1>6. D \in [1..e - 1 -> Nat]
  BY <1>3, <1>4, <1>5
<1>7. D \in Seq(Nat) /\ Len(D) = e - 1
  BY <1>1, <1>6
<1> QED BY <1>4, <1>7 DEF e, D

(* A sequence with one element more that agrees with another below is      *)
(* that one appended to.                                                   *)
LEMMA IsAppend ==
  ASSUME NEW Q, NEW s \in Seq(Q), NEW e \in Q, NEW t \in Seq(Q), Len(t) = Len(s) + 1,
         t[Len(s) + 1] = e, \A i \in 1..Len(s) : t[i] = s[i]
  PROVE  t = Append(s, e)
<1> DEFINE a == Append(s, e)
           m == Len(s)
<1>1. /\ a \in Seq(Q) /\ m \in Nat /\ Len(a) = m + 1 /\ a[m + 1] = e
      /\ \A i \in 1..m : a[i] = s[i]
  BY AppendProperties
<1>2. /\ Len(t) = m + 1 /\ t[m + 1] = e /\ \A i \in 1..m : t[i] = s[i]
  OBVIOUS
<1> HIDE DEF a, m
<1>3. ASSUME NEW i \in 1..Len(t) PROVE t[i] = a[i]
  <2>1. CASE i = m + 1
    BY <1>1, <1>2, <2>1
  <2>2. CASE i # m + 1
    <3>1. i \in 1..m
      BY <1>1, <1>2, <2>2
    <3> QED BY <1>1, <1>2, <3>1
  <2> QED BY <2>1, <2>2
<1>4. t = a
  BY <1>1, <1>2, <1>3, SeqEqual
<1> QED BY <1>4 DEF a

(* The elements of a concatenation.                                        *)
LEMMA ConcatAt ==
  ASSUME NEW Q, NEW x \in Seq(Q), NEW y \in Seq(Q)
  PROVE  /\ x \o y \in Seq(Q) /\ Len(x) \in Nat /\ Len(y) \in Nat
         /\ Len(x \o y) = Len(x) + Len(y)
         /\ \A i \in 1..Len(x) : (x \o y)[i] = x[i]
         /\ \A i \in 1..Len(y) : (x \o y)[Len(x) + i] = y[i]
<1> DEFINE z == x \o y
           l == Len(x)
           m == Len(y)
<1>1. /\ z \in Seq(Q) /\ l \in Nat /\ m \in Nat /\ Len(z) = l + m
      /\ \A i \in 1..l + m : z[i] = IF i <= l THEN x[i] ELSE y[i - l]
  BY ConcatProperties, LenProperties
<1> HIDE DEF z, l, m
<1>2. ASSUME NEW i \in 1..l PROVE z[i] = x[i]
  <2>1. i \in 1..l + m /\ i <= l
    BY <1>1
  <2> QED BY <1>1, <2>1
<1>3. ASSUME NEW i \in 1..m PROVE z[l + i] = y[i]
  <2>1. l + i \in 1..l + m /\ ~(l + i <= l) /\ (l + i) - l = i
    BY <1>1
  <2> QED BY <1>1, <2>1
<1> QED BY <1>1, <1>2, <1>3 DEF z, l, m

(* The records of one block among those of the file ...                    *)
LEMMA PieceIs ==
  ASSUME NEW f, f.blocks \in Seq(BlockType), NEW p \in 1..StreamEnd(f) - 1
  PROVE  /\ Piece(f, p) \in Seq(Places)
         /\ Len(Piece(f, p)) = Declared(f)[p]
         /\ f.blocks[p].kind = "record" =>
              \A n \in 1..f.blocks[p].count : Piece(f, p)[n] = [at |-> p, n |-> n]
<1> DEFINE c == f.blocks[p].count
           g == [n \in 1..c |-> [at |-> p, n |-> n]]
<1>1. p \in 1..Len(f.blocks) /\ p \in Nat
  BY StreamEndIs
<1>2. c \in Nat
  BY <1>1, BlockFacts
<1>3. Declared(f)[p] = IF f.blocks[p].kind = "record" THEN c ELSE 0
  BY DeclaredIs
<1>4. Piece(f, p) = IF f.blocks[p].kind = "record" THEN g ELSE <<>>
  BY DEF Piece
<1> HIDE DEF c
<1>5. g \in [1..c -> Places]
  BY <1>1, <1>2 DEF Places
<1>6. \A n \in 1..c : g[n] = [at |-> p, n |-> n]
  OBVIOUS
<1> HIDE DEF g
<1>7. g \in Seq(Places) /\ Len(g) = c
  BY <1>2, <1>5
<1> QED BY <1>3, <1>4, <1>6, <1>7 DEF c

(* ... and the n-th record of block p is at place Sums[p - 1] + n.         *)
LEMMA RecordsOfIs ==
  ASSUME NEW f, f.blocks \in Seq(BlockType)
  PROVE  LET e == StreamEnd(f)
             sums == Sums(Declared(f))
         IN /\ RecordsOf(f) \in Seq(Places)
            /\ Len(RecordsOf(f)) = sums[e - 1]
            /\ \A p \in 1..e - 1 : f.blocks[p].kind = "record" =>
                 \A n \in 1..f.blocks[p].count :
                   RecordsOf(f)[sums[p - 1] + n] = [at |-> p, n |-> n]
<1> DEFINE e == StreamEnd(f)
           D == Declared(f)
           sums == Sums(D)
           flat(m) == FlattenSeq(Pieces(f, m))
           Here(m) == /\ Pieces(f, m) \in Seq(Seq(Places))
                      /\ flat(m) \in Seq(Places)
                      /\ Len(flat(m)) = sums[m]
                      /\ \A p \in 1..m : f.blocks[p].kind = "record" =>
                           \A n \in 1..f.blocks[p].count :
                             flat(m)[sums[p - 1] + n] = [at |-> p, n |-> n]
           S == {m \in Nat : m <= e - 1 => Here(m)}
<1>1. e - 1 \in Nat
  BY StreamEndIs
<1>2. D \in Seq(Nat) /\ Len(D) = e - 1
  BY DeclaredIs
<1>3. /\ sums[0] = 0 /\ \A m \in 0..e - 1 : sums[m] \in Nat
      /\ \A m \in 1..e - 1 : sums[m] = sums[m - 1] + D[m]
  BY <1>2, SumsSteps
<1>4. \A p \in 1..e - 1 :
        /\ Piece(f, p) \in Seq(Places) /\ Len(Piece(f, p)) = D[p]
        /\ f.blocks[p].kind = "record" =>
             \A n \in 1..f.blocks[p].count : Piece(f, p)[n] = [at |-> p, n |-> n]
  BY PieceIs
<1>5. \A p \in 1..e - 1 : f.blocks[p].kind = "record" =>
        D[p] = f.blocks[p].count /\ f.blocks[p].count \in Nat
  <2>1. \A p \in 1..e - 1 : p \in 1..Len(f.blocks)
    BY StreamEndIs
  <2> QED BY <2>1, DeclaredIs, BlockFacts
<1>6. RecordsOf(f) = flat(e - 1)
  BY DEF RecordsOf, Pieces, Piece
<1> HIDE DEF e, D, sums
<1>7. Here(0)
  <2>1. Pieces(f, 0) = <<>>
    BY DEF Pieces
  <2>2. flat(0) = <<>>
    BY <2>1, FlattenEmpty
  <2> HIDE DEF flat
  <2>3. <<>> \in Seq(Seq(Places)) /\ <<>> \in Seq(Places) /\ Len(<<>>) = 0 /\ 1..0 = {}
    OBVIOUS
  <2>4. Pieces(f, 0) \in Seq(Seq(Places)) /\ flat(0) \in Seq(Places) /\ Len(flat(0)) = sums[0]
    BY <1>3, <2>1, <2>2, <2>3
  <2> QED BY <2>3, <2>4
<1>8. ASSUME NEW m \in Nat, m + 1 <= e - 1, Here(m) PROVE Here(m + 1)
  <2> DEFINE pc == Piece(f, m + 1)
             ps == Pieces(f, m)
             qs == Pieces(f, m + 1)
  <2>1. m + 1 \in 1..e - 1 /\ (m + 1) - 1 = m /\ m \in 0..e - 1
    BY <1>1, <1>8
  <2>2. /\ pc \in Seq(Places) /\ Len(pc) = D[m + 1]
        /\ f.blocks[m + 1].kind = "record" =>
             \A n \in 1..f.blocks[m + 1].count : pc[n] = [at |-> m + 1, n |-> n]
    BY <1>4, <2>1
  <2>3. ps \in Seq(Seq(Places)) /\ Len(ps) = m /\ \A p \in 1..m : ps[p] = Piece(f, p)
    BY <1>8 DEF Pieces
  <2>4. Len(qs) = m + 1 /\ \A p \in 1..m + 1 : qs[p] = Piece(f, p)
    BY DEF Pieces
  <2>5. qs \in Seq(Seq(Places))
    <3>1. \A p \in 1..m + 1 : Piece(f, p) \in Seq(Places)
      BY <1>1, <1>4, <1>8
    <3> QED BY <3>1 DEF Pieces
  <2>6. flat(m) = FlattenSeq(ps) /\ flat(m + 1) = FlattenSeq(qs)
    OBVIOUS
  <2> HIDE DEF ps, qs, pc, flat
  <2>8. qs = Append(ps, pc)
    <3>1. Len(qs) = Len(ps) + 1 /\ qs[Len(ps) + 1] = pc
      BY <2>3, <2>4 DEF pc
    <3>2. ASSUME NEW p \in 1..Len(ps) PROVE qs[p] = ps[p]
      <4>1. p \in 1..m /\ p \in 1..m + 1
        BY <2>3
      <4> QED BY <2>3, <2>4, <4>1
    <3> QED BY <2>2, <2>3, <2>5, <3>1, <3>2, IsAppend
  <2>9. FlattenSeq(ps) \in Seq(Places) /\ FlattenSeq(qs) = FlattenSeq(ps) \o pc
    BY <2>2, <2>3, <2>8, FlattenAppend
  <2> DEFINE x == flat(m)
             y == flat(m + 1)
  <2>10. x \in Seq(Places) /\ y = x \o pc /\ Len(x) = sums[m]
    BY <1>8, <2>6, <2>9
  <2>11. /\ y \in Seq(Places) /\ Len(y) = Len(x) + Len(pc)
         /\ \A i \in 1..Len(x) : y[i] = x[i]
         /\ \A i \in 1..Len(pc) : y[Len(x) + i] = pc[i]
    <3> HIDE DEF x, y
    <3>1. x \in Seq(Places) /\ pc \in Seq(Places) /\ y = x \o pc
      BY <2>2, <2>10
    <3>2. /\ x \o pc \in Seq(Places) /\ Len(x \o pc) = Len(x) + Len(pc)
          /\ \A i \in 1..Len(x) : (x \o pc)[i] = x[i]
          /\ \A i \in 1..Len(pc) : (x \o pc)[Len(x) + i] = pc[i]
      BY <3>1, ConcatAt
    <3> QED BY <3>1, <3>2
  <2>12. sums[m + 1] = sums[m] + D[m + 1] /\ sums[m] \in Nat
    BY <1>3, <2>1
  <2>13. Len(y) = sums[m + 1]
    BY <2>2, <2>10, <2>11, <2>12
  <2>14. ASSUME NEW p \in 1..m + 1, f.blocks[p].kind = "record", NEW n \in 1..f.blocks[p].count
         PROVE  y[sums[p - 1] + n] = [at |-> p, n |-> n]
    <3>1. p \in 1..e - 1 /\ p - 1 \in 0..e - 1 /\ p \in 0..e - 1
      BY <1>1, <1>8
    <3>2. D[p] = f.blocks[p].count /\ D[p] \in Nat /\ sums[p] = sums[p - 1] + D[p]
          /\ sums[p - 1] \in Nat
      BY <1>3, <1>5, <2>14, <3>1
    <3>3. CASE p = m + 1
      <4>1. y[Len(x) + n] = pc[n]
        BY <2>2, <2>11, <3>2, <3>3
      <4> QED BY <2>1, <2>2, <2>10, <2>14, <3>3, <4>1
    <3>4. CASE p \in 1..m
      <4>1. sums[p] <= sums[m]
        <5>1. p \in 0..Len(D) /\ m \in p..Len(D)
          BY <1>1, <1>2, <2>1, <3>1, <3>4
        <5> QED BY <1>2, <5>1, SumsGrow DEF sums
      <4>2. sums[p - 1] + n \in 1..Len(x)
        <5> DEFINE a == sums[p - 1]
                   b == sums[m]
                   c == f.blocks[p].count
        <5>1. /\ n \in 1..c /\ a \in Nat /\ c \in Nat /\ b \in Nat /\ a + c <= b
              /\ Len(x) = b
          BY <2>10, <2>12, <3>2, <4>1
        <5> HIDE DEF a, b, c, x
        <5>2. a + n \in 1..Len(x)
          BY <5>1
        <5> QED BY <5>2 DEF a
      <4>3. x[sums[p - 1] + n] = [at |-> p, n |-> n]
        BY <1>8, <2>14, <3>4
      <4> QED BY <2>11, <4>2, <4>3
    <3> QED BY <3>3, <3>4
  <2> QED BY <2>5, <2>11, <2>13, <2>14 DEF qs
<1> HIDE DEF Here, flat
<1>9. 0 \in S
  BY <1>7
<1>10. ASSUME NEW m \in Nat, m \in S PROVE m + 1 \in S
  <2>1. m + 1 <= e - 1 => m <= e - 1
    BY <1>1
  <2> QED BY <1>8, <1>10, <2>1
<1>11. \A m \in Nat : m \in S
  <2> HIDE DEF S
  <2> QED BY <1>9, <1>10, SetInduction
<1>12. Here(e - 1)
  BY <1>1, <1>11
<1> QED BY <1>6, <1>12, ZenonT(60) DEF Here, e, D, sums

-----------------------------------------------------------------------------
(* What read_block finds.                                                  *)

(* read_block passes over whole spatial index blocks, and over nothing     *)
(* else.                                                                   *)
LEMMA LandingIs ==
  ASSUME NEW f, f.blocks \in Seq(BlockType), NEW from \in 1..Len(f.blocks) + 1
  PROVE  LET p == Landing(f, from)
             n == Len(f.blocks)
         IN /\ p \in from..n + 1
            /\ p <= n => ~Skipped(f.blocks[p])
            /\ \A q \in from..p - 1 : q \in 1..n /\ Skipped(f.blocks[q])
<1> DEFINE n == Len(f.blocks)
           T == {q \in from..n + 1 : q <= n => ~Skipped(f.blocks[q])}
           p == Landing(f, from)
<1>1. n \in Nat /\ p = Min(T)
  BY DEF Landing
<1> HIDE DEF n, p
<1>2. from \in 1..n + 1
  BY DEF n
<1>3. n + 1 \in T /\ T \subseteq Nat
  BY <1>1, <1>2
<1>4. \A q \in T : q \in from..n + 1 /\ (q <= n => ~Skipped(f.blocks[q]))
  OBVIOUS
<1>5. \A q \in from..n + 1 : q \notin T => Skipped(f.blocks[q])
  OBVIOUS
<1> HIDE DEF T
<1>6. p \in T /\ \A y \in T : p <= y
  BY <1>1, <1>3, MinIs
<1>7. p \in from..n + 1 /\ (p <= n => ~Skipped(f.blocks[p]))
  BY <1>4, <1>6
<1>8. \A q \in from..p - 1 : q \in 1..n /\ Skipped(f.blocks[q])
  <2> TAKE q \in from..p - 1
  <2>1. q \in 1..n /\ q \in from..n + 1 /\ ~(p <= q)
    BY <1>1, <1>2, <1>7
  <2> QED BY <1>5, <1>6, <2>1
<1> QED BY <1>7, <1>8 DEF n, p

Outcome(f, p, o) ==
  /\ o.at = p
  /\ \/ o.got = "none" /\ p = Len(f.blocks) + 1 /\ o.next = p
     \/ o.got = "none" /\ p <= Len(f.blocks) /\ f.blocks[p].kind = "end" /\ o.next = p + 1
     \/ o.got = "error" /\ p <= Len(f.blocks) /\ o.next \in p + 1..Len(f.blocks) + 1
     \/ /\ o.got \in {"record", "blob"} /\ p <= Len(f.blocks) /\ f.blocks[p].kind = o.got
        /\ f.blocks[p].fault = "none" /\ o.next = p + 1

(* What it can find there.                                                 *)
LEMMA OutcomeIs ==
  ASSUME NEW f, f.blocks \in Seq(BlockType), NEW from \in 1..Len(f.blocks) + 1,
         NEW o \in read_block(f, from)
  PROVE  Outcome(f, Landing(f, from), o)
<1> DEFINE p == Landing(f, from)
           b == f.blocks[p]
           n == Len(f.blocks)
           end == n + 1
           To(got_, next) == [got |-> got_, at |-> p, next |-> next]
<1>1. o \in IF p = end THEN {To("none", p)}
            ELSE IF b.kind = "end" THEN {To("none", p + 1)}
            ELSE IF b.kind = "unknown" \/ b.fault = "huge"
               THEN {To("error", q) : q \in (p + 1)..end}
            ELSE IF b.fault = "cut" THEN {To("error", end)}
            ELSE IF b.fault = "bad" THEN {To("error", p + 1)}
            ELSE {To(b.kind, p + 1)}
  BY DEF read_block
<1>2. n \in Nat /\ p \in from..n + 1 /\ (p <= n => ~Skipped(b)) /\ from \in 1..n + 1
  BY LandingIs
<1>3. p <= n => /\ b.kind \in {"record", "blob", "index", "end", "unknown"}
                /\ b.fault \in {"none", "bad", "huge", "cut"}
  <2> SUFFICES ASSUME p <= n PROVE /\ b.kind \in {"record", "blob", "index", "end", "unknown"}
                                   /\ b.fault \in {"none", "bad", "huge", "cut"}
    OBVIOUS
  <2> HIDE DEF p
  <2>1. p \in 1..Len(f.blocks)
    BY <1>2
  <2> QED BY <2>1, BlockFacts
<1>4. p = end \/ p <= n
  BY <1>2
<1>5. ~(p = end) => p <= n /\ p + 1 \in (p + 1)..end /\ end \in (p + 1)..end
  BY <1>2
<1>6. Skipped(b) <=> b.kind = "index" /\ b.fault \notin {"huge", "cut"}
  BY DEF Skipped
<1> HIDE DEF p, b, n, end
<1>7. CASE p = end
  <2>1. o.got = "none" /\ o.at = p /\ o.next = p
    BY <1>1, <1>7
  <2> QED BY <1>7, <2>1 DEF Outcome, p, n, end
<1>8. CASE p # end /\ b.kind = "end"
  <2>1. o.got = "none" /\ o.at = p /\ o.next = p + 1 /\ p <= n
    BY <1>1, <1>5, <1>8
  <2> QED BY <1>8, <2>1 DEF Outcome, p, n, end, b
<1>9. CASE p # end /\ b.kind # "end" /\ (b.kind = "unknown" \/ b.fault = "huge")
  <2>1. PICK q \in (p + 1)..end : o = To("error", q)
    BY <1>1, <1>9
  <2>2. o.got = "error" /\ o.at = p /\ o.next \in (p + 1)..end /\ p <= n
    BY <1>5, <1>9, <2>1
  <2> QED BY <2>2 DEF Outcome, p, n, end
<1>10. CASE p # end /\ b.kind # "end" /\ ~(b.kind = "unknown" \/ b.fault = "huge")
              /\ b.fault \in {"cut", "bad"}
  <2>1. \E q \in {p + 1, end} : o = To("error", q)
    BY <1>1, <1>10
  <2>2. o.got = "error" /\ o.at = p /\ o.next \in (p + 1)..end /\ p <= n
    BY <1>5, <1>10, <2>1
  <2> QED BY <2>2 DEF Outcome, p, n, end
<1>11. CASE p # end /\ b.kind # "end" /\ ~(b.kind = "unknown" \/ b.fault = "huge")
              /\ b.fault \notin {"cut", "bad"}
  <2>1. o = To(b.kind, p + 1)
    BY <1>1, <1>11
  <2>2. o.got = b.kind /\ o.at = p /\ o.next = p + 1 /\ p <= n
    BY <1>5, <1>11, <2>1
  <2>3. b.fault = "none" /\ b.kind \in {"record", "blob"}
    BY <1>2, <1>3, <1>6, <1>11, <2>2
  <2> QED BY <2>2, <2>3 DEF Outcome, p, n, end, b
<1> QED BY <1>7, <1>8, <1>9, <1>10, <1>11

(* From where the walk stands to where read_block lands there is nothing.  *)
LEMMA WalkIs ==
  ASSUME NEW f, f.blocks \in Seq(BlockType), NEW from \in 1..StreamEnd(f)
  PROVE  LET p == Landing(f, from)
             e == StreamEnd(f)
         IN /\ from \in 1..Len(f.blocks) + 1 /\ p \in from..e
            /\ \A q \in from..p - 1 : Readable(f, q)
            /\ Sums(Declared(f))[p - 1] = Sums(Declared(f))[from - 1]
            /\ BlobBefore(f, p) = BlobBefore(f, from)
<1> DEFINE p == Landing(f, from)
           e == StreamEnd(f)
           n == Len(f.blocks)
           D == Declared(f)
           B(q) == f.blocks[q]
<1>1. /\ n \in Nat /\ e \in 1..n + 1 /\ (e <= n => B(e).kind = "end")
      /\ \A q \in 1..e - 1 : q \in 1..n /\ B(q).kind # "end"
  BY StreamEndIs
<1>2. from \in 1..n + 1
  BY <1>1
<1>3. /\ p \in from..n + 1
      /\ \A q \in from..p - 1 : q \in 1..n /\ Skipped(B(q))
  BY <1>2, LandingIs
<1>4. \A q : Skipped(B(q)) => /\ B(q).kind = "index" /\ B(q).fault \notin {"huge", "cut"}
  BY DEF Skipped
<1>5. D \in Seq(Nat) /\ Len(D) = e - 1
      /\ \A q \in 1..e - 1 : B(q).kind # "record" => D[q] = 0
  BY DeclaredIs
<1> HIDE DEF p, e, n, D
<1>6. \A q \in from..p - 1 : B(q).kind = "index" /\ B(q).fault \notin {"huge", "cut"}
  BY <1>3, <1>4
<1>7. p <= e
  <2> SUFFICES ASSUME ~(p <= e) PROVE FALSE
    OBVIOUS
  <2>1. e \in from..p - 1 /\ e <= n
    BY <1>1, <1>2, <1>3 DEF e
  <2> QED BY <1>1, <1>6, <2>1
<1>8. p \in from..e
  BY <1>3, <1>7
<1>9. \A q \in from..p - 1 : Readable(f, q)
  BY <1>6 DEF Readable
<1>10. Sums(D)[p - 1] = Sums(D)[from - 1]
  <2>1. from - 1 \in 0..Len(D) /\ p - 1 \in from - 1..Len(D)
    BY <1>1, <1>2, <1>5, <1>8
  <2>2. \A q \in (from - 1) + 1..p - 1 : D[q] = 0
    <3> TAKE q \in (from - 1) + 1..p - 1
    <3>1. q \in from..p - 1 /\ q \in 1..e - 1
      BY <1>1, <1>2, <1>8
    <3> QED BY <1>5, <1>6, <3>1
  <2> QED BY <1>5, <2>1, <2>2, SumsGrow
<1>11. BlobBefore(f, p) = BlobBefore(f, from)
  <2>1. BlobBefore(f, p) = {q \in 1..p - 1 : B(q).kind = "blob"}
        /\ BlobBefore(f, from) = {q \in 1..from - 1 : B(q).kind = "blob"}
    BY DEF BlobBefore
  <2>2. \A q \in 1..p - 1 : q \in 1..from - 1 \/ q \in from..p - 1
    BY <1>2, <1>8
  <2>3. \A q \in 1..from - 1 : q \in 1..p - 1
    BY <1>2, <1>8
  <2> HIDE DEF B
  <2> QED BY <1>6, <2>1, <2>2, <2>3
<1> QED BY <1>2, <1>8, <1>9, <1>10, <1>11 DEF p, e, n, D

-----------------------------------------------------------------------------
(* What has been returned.                                                 *)
Row == [at : Nat, n : Nat, v : Seq(Value)]
Results == [kind : {"none", "error", "frame"}, rows : Seq(Row)]

RowLists(o) == [k \in DOMAIN o |-> o[k].rows]

(* The rows of each answer.                                                *)
LEMMA RowListsType ==
  ASSUME NEW o \in Seq(Results)
  PROVE  RowLists(o) \in Seq(Seq(Row)) /\ Len(RowLists(o)) = Len(o)
         /\ \A k \in 1..Len(o) : RowLists(o)[k] = o[k].rows
<1> DEFINE n == Len(o)
           g == RowLists(o)
<1>1. n \in Nat /\ DOMAIN o = 1..n /\ \A k \in 1..n : o[k] \in Results
  BY ElementOfSeq
<1>2. \A k \in 1..n : o[k].rows \in Seq(Row)
  BY <1>1 DEF Results
<1>3. g = [k \in 1..n |-> o[k].rows]
  BY <1>1 DEF RowLists
<1> HIDE DEF n, g
<1>4. g \in [1..n -> Seq(Row)]
  BY <1>2, <1>3
<1>5. g \in Seq(Seq(Row)) /\ Len(g) = n
  BY <1>1, <1>4
<1>6. \A k \in 1..n : g[k] = o[k].rows
  BY <1>3
<1> QED BY <1>5, <1>6 DEF n, g

(* One more answer adds its rows.                                          *)
LEMMA RowsAppend ==
  ASSUME NEW o \in Seq(Results), NEW r \in Results
  PROVE  /\ Rows(o) \in Seq(Row) /\ r.rows \in Seq(Row)
         /\ Append(o, r) \in Seq(Results)
         /\ Rows(Append(o, r)) = Rows(o) \o r.rows
<1> DEFINE a == Append(o, r)
           s == RowLists(o)
           t == RowLists(a)
           x == r.rows
<1>1. /\ a \in Seq(Results) /\ Len(o) \in Nat /\ Len(a) = Len(o) + 1 /\ a[Len(o) + 1] = r
      /\ \A k \in 1..Len(o) : a[k] = o[k]
  BY AppendProperties
<1>2. x \in Seq(Row)
  BY DEF Results
<1> HIDE DEF a, x
<1>3. s \in Seq(Seq(Row)) /\ Len(s) = Len(o) /\ \A k \in 1..Len(o) : s[k] = o[k].rows
  BY RowListsType
<1>4. t \in Seq(Seq(Row)) /\ Len(t) = Len(a) /\ \A k \in 1..Len(a) : t[k] = a[k].rows
  BY <1>1, RowListsType
<1> HIDE DEF s, t
<1>5. t = Append(s, x)
  <2>1. Len(t) = Len(s) + 1 /\ t[Len(s) + 1] = x
    BY <1>1, <1>3, <1>4 DEF x
  <2>2. ASSUME NEW k \in 1..Len(s) PROVE t[k] = s[k]
    <3>1. k \in 1..Len(o) /\ k \in 1..Len(a)
      BY <1>1, <1>3
    <3> QED BY <1>1, <1>3, <1>4, <3>1
  <2> QED BY <1>2, <1>3, <1>4, <2>1, <2>2, IsAppend
<1>6. FlattenSeq(s) \in Seq(Row) /\ FlattenSeq(t) = FlattenSeq(s) \o x
  BY <1>2, <1>3, <1>5, FlattenAppend
<1>7. Rows(o) = FlattenSeq(s) /\ Rows(a) = FlattenSeq(t)
  BY DEF Rows, RowLists, s, t
<1> QED BY <1>1, <1>2, <1>6, <1>7 DEF a, x

(* No answer, no rows.                                                     *)
LEMMA RowsEmpty == Rows(<<>>) = <<>>
<1>1. RowLists(<<>>) = <<>>
  BY DEF RowLists
<1> QED BY <1>1, FlattenEmpty DEF Rows, RowLists

(* The rows before the first error.                                        *)
ErrorsIn(o) == {k \in DOMAIN o : o[k].kind = "error"}
FirstErrorIn(o) == IF ErrorsIn(o) = {} THEN Len(o) + 1 ELSE Min(ErrorsIn(o))
SureIn(o) == Rows(SubSeq(o, 1, FirstErrorIn(o) - 1))

(* ... and adds them to the sure rows only as long as nothing failed.      *)
LEMMA SureAppend ==
  ASSUME NEW o \in Seq(Results), NEW r \in Results
  PROVE  LET a == Append(o, r)
         IN /\ ErrorsIn(o) = {} => SureIn(o) = Rows(o)
            /\ ErrorsIn(a) = {} <=> ErrorsIn(o) = {} /\ r.kind # "error"
            /\ ErrorsIn(o) = {} /\ r.kind = "error" => SureIn(a) = Rows(o)
            /\ ErrorsIn(o) # {} => SureIn(a) = SureIn(o)
<1> DEFINE a == Append(o, r)
           n == Len(o)
           E == ErrorsIn(o)
           G == ErrorsIn(a)
<1>1. /\ a \in Seq(Results) /\ n \in Nat /\ Len(a) = n + 1 /\ a[n + 1] = r
      /\ \A k \in 1..n : a[k] = o[k]
  BY AppendProperties
<1>2. SubSeq(a, 1, n) = o /\ SubSeq(o, 1, n) = o
  <2>1. SubSeq(o, 1, n) = o
    BY SubSeqFull
  <2> DEFINE c == SubSeq(a, 1, n)
  <2> HIDE DEF a
  <2>2. \A k \in 1..n : a[k] \in Results /\ k \in 1..n + 1
    BY <1>1, ElementOfSeq
  <2>3. c \in Seq(Results) /\ Len(c) = (IF 1 <= n THEN n - 1 + 1 ELSE 0)
        /\ \A k \in 1..n - 1 + 1 : c[k] = a[1 + k - 1]
    BY <1>1, <2>2, SubSeqProperties
  <2> HIDE DEF c
  <2>4. Len(c) = n
    BY <1>1, <2>3
  <2>6. ASSUME NEW k \in 1..n PROVE c[k] = a[k]
    <3>1. k \in 1..n - 1 + 1 /\ 1 + k - 1 = k
      BY <1>1
    <3> QED BY <2>3, <3>1
  <2>5. c = o
    BY <1>1, <2>3, <2>4, <2>6, SeqEqual
  <2> QED BY <2>1, <2>5 DEF c
<1>3. /\ \A k : k \in E <=> k \in 1..n /\ o[k].kind = "error"
      /\ \A k : k \in G <=> k \in 1..n + 1 /\ a[k].kind = "error"
  <2>1. DOMAIN o = 1..n /\ DOMAIN a = 1..n + 1
    BY <1>1
  <2> QED BY <2>1 DEF ErrorsIn
<1> HIDE DEF a, n, E, G
<1>4. \A k : k \in G <=> k \in E \/ (k = n + 1 /\ r.kind = "error")
  <2> TAKE k
  <2>1. k \in 1..n + 1 <=> k \in 1..n \/ k = n + 1
    BY <1>1
  <2>2. k \in 1..n => k # n + 1
    BY <1>1
  <2> QED BY <1>1, <1>3, <2>1, <2>2
<1>5. E = {} => SureIn(o) = Rows(o)
  <2> SUFFICES ASSUME E = {} PROVE SureIn(o) = Rows(o)
    OBVIOUS
  <2>1. FirstErrorIn(o) = n + 1 /\ (n + 1) - 1 = n
    BY <1>1 DEF FirstErrorIn, E, n
  <2> QED BY <1>2, <2>1 DEF SureIn
<1>6. G = {} <=> E = {} /\ r.kind # "error"
  BY <1>4
<1>7. E = {} /\ r.kind = "error" => SureIn(a) = Rows(o)
  <2> SUFFICES ASSUME E = {}, r.kind = "error" PROVE SureIn(a) = Rows(o)
    OBVIOUS
  <2>1. G = {n + 1}
    BY <1>4
  <2>2. Min({n + 1}) = n + 1
    <3>2. {n + 1} \subseteq Nat /\ {n + 1} # {}
      BY <1>1
    <3>1. Min({n + 1}) \in {n + 1}
      BY <3>2, MinIs
    <3> QED BY <3>1
  <2>3. FirstErrorIn(a) = n + 1 /\ (n + 1) - 1 = n
    BY <1>1, <2>1, <2>2 DEF FirstErrorIn, G
  <2> QED BY <1>2, <2>3 DEF SureIn
<1>8. E # {} => SureIn(a) = SureIn(o)
  <2> SUFFICES ASSUME E # {} PROVE SureIn(a) = SureIn(o)
    OBVIOUS
  <2> DEFINE m == Min(E)
             l == Min(G)
  <2>1. E \subseteq 1..n /\ E \subseteq Nat /\ G \subseteq Nat /\ G # {}
    BY <1>1, <1>3, <1>4
  <2>2. m \in E /\ \A k \in E : m <= k
    BY <2>1, MinIs
  <2>3. l \in G /\ \A k \in G : l <= k
    BY <2>1, MinIs
  <2> HIDE DEF m, l
  <2>4. l = m
    <3>1. m \in G /\ l <= m /\ m \in 1..n /\ l \in Nat
      BY <1>4, <2>1, <2>2, <2>3
    <3>2. l \in E
      <4>1. l # n + 1
        BY <1>1, <3>1
      <4> QED BY <1>4, <2>3, <4>1
    <3>3. m <= l
      BY <2>2, <3>2
    <3> QED BY <3>1, <3>3
  <2>5. m \in 1..n
    BY <2>1, <2>2
  <2>6. FirstErrorIn(o) = m /\ FirstErrorIn(a) = m
    <3>1. FirstErrorIn(o) = m
      BY DEF FirstErrorIn, E, m
    <3>2. FirstErrorIn(a) = l
      BY <2>1 DEF FirstErrorIn, G, l
    <3> QED BY <2>4, <3>1, <3>2
  <2>7. SubSeq(a, 1, m - 1) = SubSeq(o, 1, m - 1)
    <3> DEFINE c == SubSeq(a, 1, m - 1)
               d == SubSeq(o, 1, m - 1)
               w == m - 1
    <3>1. w \in Nat /\ w <= n /\ 1 \in Int /\ w \in Int
      BY <1>1, <2>5
    <3> HIDE DEF w
    <3>2. \A k \in 1..w : a[k] = o[k] /\ a[k] \in Results /\ o[k] \in Results
      <4>1. \A k \in 1..w : k \in 1..n /\ k \in 1..n + 1
        BY <1>1, <3>1
      <4>2. \A k \in 1..n : o[k] \in Results
        BY ElementOfSeq DEF n
      <4> QED BY <1>1, <4>1, <4>2
    <3>3. /\ SubSeq(a, 1, w) \in Seq(Results)
          /\ Len(SubSeq(a, 1, w)) = (IF 1 <= w THEN w - 1 + 1 ELSE 0)
          /\ \A k \in 1..w - 1 + 1 : SubSeq(a, 1, w)[k] = a[1 + k - 1]
      BY <3>1, <3>2, SubSeqProperties
    <3>4. /\ SubSeq(o, 1, w) \in Seq(Results)
          /\ Len(SubSeq(o, 1, w)) = (IF 1 <= w THEN w - 1 + 1 ELSE 0)
          /\ \A k \in 1..w - 1 + 1 : SubSeq(o, 1, w)[k] = o[1 + k - 1]
      BY <3>1, <3>2, SubSeqProperties
    <3>5. c = SubSeq(a, 1, w) /\ d = SubSeq(o, 1, w)
      BY DEF w
    <3> HIDE DEF c, d
    <3>6. Len(c) = w /\ Len(d) = w
      BY <3>1, <3>3, <3>4, <3>5
    <3>7. \A k \in 1..w : c[k] = d[k]
      <4> TAKE k \in 1..w
      <4>1. k \in 1..w - 1 + 1 /\ 1 + k - 1 = k
        BY <3>1
      <4>2. c[k] = a[k] /\ d[k] = o[k]
        BY <3>3, <3>4, <3>5, <4>1
      <4> QED BY <3>2, <4>2
    <3> QED BY <3>3, <3>4, <3>5, <3>6, <3>7, SeqEqual DEF c, d
  <2> QED BY <2>6, <2>7 DEF SureIn
<1> QED BY <1>5, <1>6, <1>7, <1>8 DEF a, E, G

(* The definitions above are those of the properties.                      *)
LEMMA ErrorsAre ==
  Errors = ErrorsIn(out) /\ FirstError = FirstErrorIn(out)
BY DEF Errors, ErrorsIn, FirstError, FirstErrorIn

(* How many answers were not None.                                         *)
Answered(o) == Cardinality({k \in DOMAIN o : o[k].kind # "none"})

(* One more answer counts, unless it is None.                              *)
LEMMA AnsweredAppend ==
  ASSUME NEW o \in Seq(Results), NEW r \in Results
  PROVE  /\ Answered(o) \in Nat
         /\ Answered(Append(o, r)) = Answered(o) + (IF r.kind = "none" THEN 0 ELSE 1)
<1> DEFINE a == Append(o, r)
           n == Len(o)
           A == {k \in DOMAIN o : o[k].kind # "none"}
           B == {k \in DOMAIN a : a[k].kind # "none"}
<1>1. /\ a \in Seq(Results) /\ n \in Nat /\ Len(a) = n + 1 /\ a[n + 1] = r
      /\ \A k \in 1..n : a[k] = o[k]
  BY AppendProperties
<1>2. /\ \A k : k \in A <=> k \in 1..n /\ o[k].kind # "none"
      /\ \A k : k \in B <=> k \in 1..n + 1 /\ a[k].kind # "none"
  <2>1. DOMAIN o = 1..n /\ DOMAIN a = 1..n + 1
    BY <1>1
  <2> QED BY <2>1
<1>3. Answered(o) = Cardinality(A) /\ Answered(a) = Cardinality(B)
  BY DEF Answered
<1> HIDE DEF a, n, A, B
<1>4. \A k : k \in B <=> k \in A \/ (k = n + 1 /\ r.kind # "none")
  <2> TAKE k
  <2>1. (k \in 1..n + 1 <=> k \in 1..n \/ k = n + 1) /\ (k \in 1..n => k # n + 1)
    BY <1>1
  <2> QED BY <1>1, <1>2, <2>1
<1>5. IsFiniteSet(A) /\ Cardinality(A) \in Nat /\ n + 1 \notin A
  <2>1. A \subseteq 1..n /\ IsFiniteSet(1..n) /\ n + 1 \notin 1..n
    BY <1>1, <1>2, FS_Interval
  <2>2. IsFiniteSet(A)
    BY <2>1, FS_Subset
  <2> QED BY <2>1, <2>2, FS_CardinalityType
<1>6. Cardinality(B) = Cardinality(A) + (IF r.kind = "none" THEN 0 ELSE 1)
  <2>1. CASE r.kind = "none"
    <3>1. B = A
      BY <1>4, <2>1
    <3> QED BY <1>5, <2>1, <3>1
  <2>2. CASE r.kind # "none"
    <3>1. B = A \cup {n + 1}
      BY <1>4, <2>2
    <3>2. Cardinality(A \cup {n + 1}) = Cardinality(A) + 1
      BY <1>5, FS_AddElement
    <3> QED BY <2>2, <3>1, <3>2
  <2> QED BY <2>1, <2>2
<1> QED BY <1>3, <1>5, <1>6 DEF a

-----------------------------------------------------------------------------
(* What an E2 reader has done, and one turn of its loop.                   *)
Readers ==
  [pos : Nat \ {0}, blobs : SUBSET (Nat \ {0}), last_blob : Nat, at : Nat, spans : Seq(Seq(Nat)),
   idx : Nat, flag : BOOLEAN, base : {5, 6}, detected : BOOLEAN, exhausted : BOOLEAN]

FileOK(f) == f.fields \in Seq(FieldTypes) /\ f.blocks \in Seq(BlockType)

(* Where a reader can stand.                                               *)
Stands(f, r) ==
  /\ r.pos <= Len(f.blocks) + 1 /\ r.at < r.pos
  /\ r.idx <= Len(r.spans)
  /\ \A q \in r.blobs : q < r.pos
  /\ r.last_blob < r.pos
  /\ r.idx < Len(r.spans) => r.pos = r.at + 1 /\ ~r.exhausted
  /\ r.spans # <<>> =>
       /\ r.detected
       /\ r.at \in 1..Len(f.blocks)
       /\ f.blocks[r.at].kind = "record" /\ CanFrame(f.blocks[r.at])
       /\ r.spans = frame_record_spans(f.blocks[r.at])

(* A block that can be framed has as many spans as it declares records.    *)
LEMMA SpansAre ==
  ASSUME NEW f, FileOK(f), NEW p \in 1..Len(f.blocks), CanFrame(f.blocks[p])
  PROVE  LET b == f.blocks[p]
             s == frame_record_spans(b)
         IN /\ s \in Seq(Seq(Nat)) /\ Len(s) = b.count /\ b.count \in Nat
            /\ b.count <= Len(b.recs) /\ Len(b.recs) \in Nat
            /\ \A k \in 1..b.count : s[k] = b.recs[k] /\ s[k] \in Seq(Nat)
<1> DEFINE b == f.blocks[p]
           s == frame_record_spans(b)
           c == b.count
           recs == b.recs
<1>1. recs \in Seq(Seq(Nat)) /\ c \in Nat /\ Len(recs) \in Nat
  BY BlockFacts DEF FileOK
<1>2. c <= Len(recs)
  BY DEF CanFrame
<1>3. s = SubSeq(recs, 1, c)
  BY DEF frame_record_spans
<1> HIDE DEF b, c, recs, s
<1>4. \A k \in 1..c : recs[k] \in Seq(Nat)
  <2>1. \A k \in 1..c : k \in 1..Len(recs)
    BY <1>1, <1>2
  <2>2. \A k \in 1..Len(recs) : recs[k] \in Seq(Nat)
    BY <1>1, ElementOfSeq
  <2> QED BY <2>1, <2>2
<1>5. /\ SubSeq(recs, 1, c) \in Seq(Seq(Nat))
      /\ Len(SubSeq(recs, 1, c)) = (IF 1 <= c THEN c - 1 + 1 ELSE 0)
      /\ \A k \in 1..c - 1 + 1 : SubSeq(recs, 1, c)[k] = recs[1 + k - 1]
  <2>1. 1 \in Int /\ c \in Int
    BY <1>1
  <2> QED BY <1>1, <1>4, <2>1, SubSeqProperties
<1>6. s \in Seq(Seq(Nat)) /\ Len(s) = c
  BY <1>1, <1>3, <1>5
<1>7. ASSUME NEW k \in 1..c PROVE s[k] = recs[k] /\ s[k] \in Seq(Nat)
  <2>1. k \in 1..c - 1 + 1 /\ 1 + k - 1 = k
    BY <1>1
  <2> QED BY <1>3, <1>4, <1>5, <2>1
<1> QED BY <1>1, <1>2, <1>6, <1>7 DEF b, c, recs, s

(* The probe changes nothing but what it is there to find, and that once.  *)
LEMMA ProbedIs ==
  ASSUME NEW r \in Readers, NEW fields, NEW spans
  PROVE  LET t == Probed(fields, spans, r)
         IN /\ t \in Readers /\ t.detected
            /\ r.detected => t = r
            /\ t.pos = r.pos /\ t.blobs = r.blobs /\ t.last_blob = r.last_blob
            /\ t.exhausted = r.exhausted
<1> DEFINE Flag(b) == spans # <<>> /\ detect_date_flag(fields, spans[1], b)
           base == detect_integer_base(fields, spans, Flag(6))
           flag == Flag(base)
           t == Probed(fields, spans, r)
<1>1. base \in {5, 6}
  BY DEF detect_integer_base
<1>2. flag \in BOOLEAN
  BY DEF detect_date_flag
<1>3. t = IF r.detected THEN r ELSE [r EXCEPT !.detected = TRUE, !.base = base, !.flag = flag]
  BY DEF Probed
<1> HIDE DEF base, flag, t
<1>4. CASE r.detected
  BY <1>3, <1>4 DEF t
<1>5. CASE ~r.detected
  <2>1. t = [r EXCEPT !.detected = TRUE, !.base = base, !.flag = flag]
    BY <1>3, <1>5
  <2>2. /\ t \in Readers /\ t.detected /\ t.pos = r.pos /\ t.blobs = r.blobs
        /\ t.last_blob = r.last_blob /\ t.exhausted = r.exhausted
    BY <1>1, <1>2, <2>1 DEF Readers
  <2> QED BY <1>5, <2>2 DEF t
<1> QED BY <1>4, <1>5

(* The five things one turn of the loop can do to a reader r; t is the     *)
(* reader after it, p where read_block found something.                    *)
SameRecords(r, t) ==
  t.at = r.at /\ t.spans = r.spans /\ t.idx = r.idx /\ t.detected = r.detected

TurnEnds(f, r, p, ok, t) ==
  /\ ok /\ t.exhausted /\ SameRecords(r, t) /\ t.blobs = r.blobs /\ t.last_blob = r.last_blob
  /\ \/ p = Len(f.blocks) + 1 /\ t.pos = p
     \/ p <= Len(f.blocks) /\ f.blocks[p].kind = "end" /\ t.pos = p + 1

TurnFails(f, r, p, ok, t) ==
  /\ ~ok /\ ~t.exhausted /\ SameRecords(r, t) /\ t.blobs = r.blobs /\ t.last_blob = r.last_blob
  /\ p <= Len(f.blocks) /\ t.pos >= p + 1

TurnBlob(f, r, p, ok, t) ==
  /\ ok /\ ~t.exhausted /\ SameRecords(r, t) /\ t.blobs = r.blobs \cup {p} /\ t.last_blob = p
  /\ p <= Len(f.blocks) /\ f.blocks[p].kind = "blob" /\ f.blocks[p].fault = "none"
  /\ t.pos = p + 1

TurnRecords(f, r, p, ok, t) ==
  /\ ok /\ ~t.exhausted /\ t.detected /\ t.blobs = r.blobs /\ t.last_blob = r.last_blob
  /\ p <= Len(f.blocks) /\ f.blocks[p].kind = "record" /\ f.blocks[p].fault = "none"
  /\ CanFrame(f.blocks[p])
  /\ t.at = p /\ t.spans = frame_record_spans(f.blocks[p]) /\ t.idx = 0
  /\ t.pos = p + 1

Turn(f, r, p, ok, t) ==
  /\ t \in Readers
  /\ p \in r.pos..Len(f.blocks) + 1 /\ t.pos \in r.pos..Len(f.blocks) + 1
  /\ r.detected => t.detected /\ t.flag = r.flag
  /\ \/ TurnEnds(f, r, p, ok, t)
     \/ TurnFails(f, r, p, ok, t)
     \/ TurnBlob(f, r, p, ok, t)
     \/ TurnRecords(f, r, p, ok, t)

(* Every outcome of read_block leads to one of the five.                   *)
LEMMA TurnIs ==
  ASSUME NEW f, FileOK(f), NEW r \in Readers, r.pos <= Len(f.blocks) + 1, ~r.exhausted,
         NEW o \in read_block(f, r.pos)
  PROVE  LET a == advance_to_record_block(f, r, o)
         IN Turn(f, r, Landing(f, r.pos), a.ok, a.r)
<1> DEFINE n == Len(f.blocks)
           from == r.pos
           p == Landing(f, from)
           moved == [r EXCEPT !.pos = o.next]
           a == advance_to_record_block(f, r, o)
<1>1. n \in Nat /\ from \in 1..n + 1 /\ f.blocks \in Seq(BlockType)
  BY DEF Readers, FileOK
<1> HIDE DEF from
<1>2. Outcome(f, p, o) /\ p \in from..n + 1
  <2>1. o \in read_block(f, from)
    BY DEF from
  <2> QED BY <1>1, <2>1, OutcomeIs, LandingIs
<1>3. a = CASE o.got = "none"  -> [ok |-> TRUE, r |-> [moved EXCEPT !.exhausted = TRUE]]
       [] o.got = "error" -> [ok |-> FALSE, r |-> moved]
       [] o.got = "blob"  -> [ok |-> TRUE, r |-> TakeBlob(moved, o.at)]
       [] o.got = "record" ->
            IF CanFrame(f.blocks[o.at])
              THEN [ok |-> TRUE, r |-> TakeRecords(f, moved, o.at,
                                                   frame_record_spans(f.blocks[o.at]))]
              ELSE [ok |-> FALSE, r |-> moved]
  BY DEF advance_to_record_block
<1> HIDE DEF p, a, moved, n
<1>4. /\ o.at = p
      /\ \/ o.got = "none" /\ p = n + 1 /\ o.next = p
         \/ o.got = "none" /\ p <= n /\ f.blocks[p].kind = "end" /\ o.next = p + 1
         \/ o.got = "error" /\ p <= n /\ o.next \in p + 1..n + 1
         \/ /\ o.got \in {"record", "blob"} /\ p <= n /\ f.blocks[p].kind = o.got
            /\ f.blocks[p].fault = "none" /\ o.next = p + 1
  BY <1>2 DEF Outcome, n
<1>5. o.next \in from..n + 1 /\ o.next \in Nat \ {0} /\ p \in Nat \ {0}
  BY <1>1, <1>2, <1>4
<1>6. /\ moved \in Readers /\ moved.pos = o.next /\ SameRecords(r, moved) /\ moved.blobs = r.blobs
      /\ moved.last_blob = r.last_blob /\ ~moved.exhausted /\ moved.flag = r.flag
  BY <1>5 DEF moved, Readers, SameRecords
<1> SUFFICES Turn(f, r, p, a.ok, a.r)
  BY DEF a, p, from
<1>7. CASE o.got = "none"
  <2> DEFINE t == [moved EXCEPT !.exhausted = TRUE]
  <2>1. a = [ok |-> TRUE, r |-> t]
    BY <1>3, <1>7
  <2>2. /\ t \in Readers /\ t.pos = o.next /\ SameRecords(r, t) /\ t.blobs = r.blobs
        /\ t.last_blob = r.last_blob /\ t.exhausted /\ t.flag = r.flag
    BY <1>6 DEF Readers, SameRecords
  <2> HIDE DEF t
  <2>3. a.ok = TRUE /\ a.r = t
    BY <2>1
  <2>4. TurnEnds(f, r, p, TRUE, t)
    BY <1>4, <1>7, <2>2 DEF TurnEnds, n
  <2>5. Turn(f, r, p, TRUE, t)
    BY <1>2, <1>5, <2>2, <2>4 DEF Turn, n, from, SameRecords
  <2> QED BY <2>3, <2>5
<1>8. CASE o.got = "error"
  <2>1. a = [ok |-> FALSE, r |-> moved]
    BY <1>3, <1>8
  <2>2. a.ok = FALSE /\ a.r = moved
    BY <2>1
  <2>3. TurnFails(f, r, p, FALSE, moved)
    BY <1>4, <1>6, <1>8 DEF TurnFails, n
  <2>4. Turn(f, r, p, FALSE, moved)
    BY <1>2, <1>5, <1>6, <2>3 DEF Turn, n, from, SameRecords
  <2> QED BY <2>2, <2>4
<1>9. CASE o.got = "blob"
  <2> DEFINE t == TakeBlob(moved, p)
  <2>1. a = [ok |-> TRUE, r |-> t]
    BY <1>3, <1>4, <1>9
  <2>2. t = [moved EXCEPT !.blobs = moved.blobs \cup {p}, !.last_blob = p]
    BY DEF TakeBlob
  <2> HIDE DEF t
  <2>3. /\ t \in Readers /\ t.pos = o.next /\ SameRecords(r, t) /\ t.blobs = r.blobs \cup {p}
        /\ t.last_blob = p /\ ~t.exhausted /\ t.flag = r.flag
    BY <1>5, <1>6, <2>2 DEF Readers, SameRecords
  <2>4. a.ok = TRUE /\ a.r = t
    BY <2>1
  <2>5. TurnBlob(f, r, p, TRUE, t)
    BY <1>4, <1>9, <2>3 DEF TurnBlob, n
  <2>6. Turn(f, r, p, TRUE, t)
    BY <1>2, <1>5, <2>3, <2>5 DEF Turn, n, from, SameRecords
  <2> QED BY <2>4, <2>6
<1>10. CASE o.got = "record" /\ CanFrame(f.blocks[p])
  <2> DEFINE s == frame_record_spans(f.blocks[p])
             u == Probed(f.fields, s, moved)
             t == TakeRecords(f, moved, p, s)
  <2>1. a = [ok |-> TRUE, r |-> t]
    BY <1>3, <1>4, <1>10
  <2>2. t = [u EXCEPT !.at = p, !.spans = s, !.idx = 0]
    BY DEF TakeRecords
  <2>3. p \in 1..Len(f.blocks)
    BY <1>4, <1>5, <1>10 DEF n
  <2>4. s \in Seq(Seq(Nat))
    BY <1>10, <2>3, SpansAre
  <2> HIDE DEF s
  <2>5. /\ u \in Readers /\ u.detected /\ (moved.detected => u = moved)
        /\ u.pos = moved.pos /\ u.blobs = moved.blobs /\ u.last_blob = moved.last_blob
        /\ u.exhausted = moved.exhausted
    BY <1>6, ProbedIs
  <2> HIDE DEF u, t
  <2>6. /\ t \in Readers /\ t.detected /\ t.pos = u.pos /\ t.blobs = u.blobs
        /\ t.last_blob = u.last_blob /\ t.exhausted = u.exhausted /\ t.flag = u.flag
        /\ t.at = p /\ t.spans = s /\ t.idx = 0
    BY <1>5, <2>2, <2>4, <2>5 DEF Readers
  <2>7. a.ok = TRUE /\ a.r = t
    BY <2>1
  <2>8. r.detected => t.flag = r.flag
    BY <1>6, <2>5, <2>6 DEF SameRecords
  <2>9. TurnRecords(f, r, p, TRUE, t)
    BY <1>4, <1>6, <1>10, <2>5, <2>6 DEF TurnRecords, n, s
  <2>10. Turn(f, r, p, TRUE, t)
    BY <1>2, <1>5, <1>6, <2>5, <2>6, <2>8, <2>9 DEF Turn, n, from
  <2> QED BY <2>7, <2>10
<1>11. CASE o.got = "record" /\ ~CanFrame(f.blocks[p])
  <2>1. a = [ok |-> FALSE, r |-> moved]
    BY <1>3, <1>4, <1>11
  <2>2. a.ok = FALSE /\ a.r = moved
    BY <2>1
  <2>3. TurnFails(f, r, p, FALSE, moved)
    BY <1>4, <1>5, <1>6, <1>11 DEF TurnFails, n
  <2>4. Turn(f, r, p, FALSE, moved)
    BY <1>2, <1>5, <1>6, <2>3 DEF Turn, n, from, SameRecords
  <2> QED BY <2>2, <2>4
<1> QED BY <1>4, <1>7, <1>8, <1>9, <1>10, <1>11

(* A turn leaves the reader where a reader can stand, and later.           *)
LEMMA TurnStands ==
  ASSUME NEW f, FileOK(f), NEW r \in Readers, Stands(f, r), r.idx = Len(r.spans),
         NEW p, NEW ok, NEW t, Turn(f, r, p, ok, t)
  PROVE  /\ Stands(f, t) /\ t \in Readers
         /\ r.detected => t.detected /\ t.flag = r.flag
         /\ \/ t.at = r.at /\ t.idx = r.idx
            \/ t.at > r.at /\ t.idx = 0
<1> DEFINE n == Len(f.blocks)
<1>1. n \in Nat /\ f.blocks \in Seq(BlockType)
  BY DEF FileOK
<1>2. /\ t \in Readers /\ p \in r.pos..n + 1 /\ t.pos \in r.pos..n + 1
      /\ r.detected => t.detected /\ t.flag = r.flag
      /\ \/ TurnEnds(f, r, p, ok, t)
         \/ TurnFails(f, r, p, ok, t)
         \/ TurnBlob(f, r, p, ok, t)
         \/ TurnRecords(f, r, p, ok, t)
  BY DEF Turn
<1>3. /\ r.pos \in Nat /\ t.pos \in Nat /\ r.at \in Nat /\ r.idx \in Nat /\ t.idx \in Nat
      /\ r.blobs \subseteq Nat /\ t.blobs \subseteq Nat /\ r.last_blob \in Nat
      /\ r.spans \in Seq(Seq(Nat)) /\ t.spans \in Seq(Seq(Nat)) /\ Len(r.spans) \in Nat
  BY <1>2 DEF Readers
<1>4. /\ r.pos <= n + 1 /\ r.at < r.pos
      /\ \A q \in r.blobs : q < r.pos
      /\ r.last_blob < r.pos
      /\ r.spans # <<>> =>
           /\ r.detected
           /\ r.at \in 1..n
           /\ f.blocks[r.at].kind = "record" /\ CanFrame(f.blocks[r.at])
           /\ r.spans = frame_record_spans(f.blocks[r.at])
  BY DEF Stands
<1>5. CASE t.at = r.at /\ t.spans = r.spans /\ t.idx = r.idx /\ t.detected = r.detected
           /\ (\A q \in t.blobs : q < t.pos) /\ t.last_blob < t.pos
  <2>1. Stands(f, t)
    BY <1>1, <1>2, <1>3, <1>4, <1>5 DEF Stands
  <2> QED BY <1>2, <1>5, <2>1
<1>6. CASE TurnEnds(f, r, p, ok, t) \/ TurnFails(f, r, p, ok, t)
  <2>1. SameRecords(r, t) /\ t.blobs = r.blobs /\ t.last_blob = r.last_blob
    BY <1>6 DEF TurnEnds, TurnFails
  <2>2. (\A q \in t.blobs : q < t.pos) /\ t.last_blob < t.pos
    BY <1>2, <1>3, <1>4, <2>1
  <2> QED BY <1>5, <2>1, <2>2 DEF SameRecords
<1>7. CASE TurnBlob(f, r, p, ok, t)
  <2>1. SameRecords(r, t) /\ t.blobs = r.blobs \cup {p} /\ t.last_blob = p /\ t.pos = p + 1
    BY <1>7 DEF TurnBlob
  <2>2. (\A q \in t.blobs : q < t.pos) /\ t.last_blob < t.pos
    BY <1>1, <1>2, <1>3, <1>4, <2>1
  <2> QED BY <1>5, <2>1, <2>2 DEF SameRecords
<1>8. CASE TurnRecords(f, r, p, ok, t)
  <2>1. /\ ~t.exhausted /\ t.detected /\ t.blobs = r.blobs /\ t.last_blob = r.last_blob
        /\ p <= n /\ f.blocks[p].kind = "record" /\ CanFrame(f.blocks[p])
        /\ t.at = p /\ t.spans = frame_record_spans(f.blocks[p]) /\ t.idx = 0
        /\ t.pos = p + 1
    BY <1>8 DEF TurnRecords
  <2>2. p \in 1..n /\ p > r.at /\ t.at < t.pos
    BY <1>1, <1>2, <1>3, <1>4, <2>1
  <2>3. (\A q \in t.blobs : q < t.pos) /\ t.last_blob < t.pos
    <3>1. t.pos >= r.pos
      BY <1>2
    <3>2. t.last_blob < t.pos
      BY <1>3, <1>4, <2>1, <3>1
    <3>3. ASSUME NEW q \in t.blobs PROVE q < t.pos
      <4>1. q \in Nat /\ q < r.pos
        BY <1>3, <1>4, <2>1
      <4> QED BY <1>3, <3>1, <4>1
    <3> QED BY <3>2, <3>3
  <2>4. Len(t.spans) \in Nat
    BY <1>3
  <2>5. Stands(f, t)
    BY <1>1, <1>2, <1>3, <2>1, <2>2, <2>3, <2>4 DEF Stands
  <2> QED BY <1>2, <2>1, <2>2, <2>5
<1> QED BY <1>2, <1>6, <1>7, <1>8

-----------------------------------------------------------------------------
(* What a caller is owed: the blocks and the records passed over.          *)
Spent(f, r) == (r.pos - 1) + Sums(Held(f))[r.pos - 1] - (Len(r.spans) - r.idx)

(* How many records the blocks hold.                                       *)
LEMMA HeldIs ==
  ASSUME NEW f, FileOK(f)
  PROVE  /\ Held(f) \in Seq(Nat) /\ Len(Held(f)) = Len(f.blocks) /\ Len(f.blocks) \in Nat
         /\ \A p \in 1..Len(f.blocks) : Held(f)[p] = Len(f.blocks[p].recs)
<1> DEFINE n == Len(f.blocks)
           h == Held(f)
<1>1. n \in Nat /\ DOMAIN f.blocks = 1..n
  BY DEF FileOK
<1>2. \A p \in 1..n : Len(f.blocks[p].recs) \in Nat
  BY BlockFacts DEF FileOK
<1>3. h = [p \in 1..n |-> Len(f.blocks[p].recs)]
  BY <1>1 DEF Held
<1> HIDE DEF n, h
<1>4. h \in [1..n -> Nat]
  BY <1>2, <1>3
<1>5. h \in Seq(Nat) /\ Len(h) = n
  BY <1>1, <1>4
<1>6. \A p \in 1..n : h[p] = Len(f.blocks[p].recs)
  BY <1>3
<1> QED BY <1>1, <1>5, <1>6 DEF n, h

(* A turn that fails has passed a block that nobody paid for yet.          *)
LEMMA TurnSpends ==
  ASSUME NEW f, FileOK(f), NEW r \in Readers, Stands(f, r), r.idx = Len(r.spans),
         NEW p, NEW ok, NEW t, Turn(f, r, p, ok, t)
  PROVE  Spent(f, t) >= Spent(f, r) + (IF ok THEN 0 ELSE 1)
         /\ Spent(f, r) \in Nat /\ Spent(f, t) \in Int
<1> DEFINE n == Len(f.blocks)
           F == Sums(Held(f))
<1>1. Held(f) \in Seq(Nat) /\ Len(Held(f)) = n /\ n \in Nat
  BY HeldIs
<1>2. /\ t \in Readers /\ p \in r.pos..n + 1 /\ t.pos \in r.pos..n + 1
      /\ \/ TurnEnds(f, r, p, ok, t)
         \/ TurnFails(f, r, p, ok, t)
         \/ TurnBlob(f, r, p, ok, t)
         \/ TurnRecords(f, r, p, ok, t)
  BY DEF Turn
<1>3. /\ r.pos \in Nat \ {0} /\ t.pos \in Nat \ {0} /\ r.idx \in Nat /\ t.idx \in Nat
      /\ r.spans \in Seq(Seq(Nat)) /\ t.spans \in Seq(Seq(Nat))
      /\ Len(r.spans) \in Nat /\ Len(t.spans) \in Nat
  BY <1>2 DEF Readers
<1>4. r.pos <= n + 1
  BY DEF Stands
<1>5. /\ \A k \in 0..n : F[k] \in Nat
      /\ \A k \in 1..n : F[k] = F[k - 1] + Held(f)[k]
  BY <1>1, SumsSteps
<1>6. ASSUME NEW i \in 0..n, NEW j \in i..n PROVE F[i] <= F[j]
  <2>1. i \in 0..Len(Held(f)) /\ j \in i..Len(Held(f))
    BY <1>1
  <2> QED BY <1>1, <2>1, SumsGrow
<1> DEFINE x == r.pos - 1
           y == t.pos - 1
<1>7. x \in 0..n /\ y \in x..n
  BY <1>1, <1>2, <1>3, <1>4, SMTT(60)
<1>8. F[x] \in Nat /\ F[y] \in Nat /\ F[x] <= F[y]
  <2> HIDE DEF F, n, x, y
  <2> QED BY <1>1, <1>5, <1>6, <1>7
<1>9. Spent(f, r) = x + F[x] - (Len(r.spans) - r.idx)
      /\ Spent(f, t) = y + F[y] - (Len(t.spans) - t.idx)
  BY DEF Spent
<1> HIDE DEF F, x, y
<1>10. Spent(f, r) = x + F[x] /\ Spent(f, r) \in Nat /\ Spent(f, t) \in Int
  <2> DEFINE a == F[x]
             b == F[y]
             c == Len(t.spans)
  <2>1. x \in Nat /\ y \in Nat /\ a \in Nat /\ b \in Nat /\ c \in Nat /\ t.idx \in Nat
    BY <1>1, <1>3, <1>7, <1>8
  <2>2. Len(r.spans) - r.idx = 0
    BY <1>3
  <2>3. Spent(f, r) = x + a - 0 /\ Spent(f, t) = y + b - (c - t.idx)
    BY <1>9, <2>2
  <2> HIDE DEF a, b, c
  <2> QED BY <2>1, <2>3, SMTT(60) DEF a
<1>11. CASE SameRecords(r, t) /\ (ok \/ t.pos >= p + 1)
  <2>1. Spent(f, t) = y + F[y]
    BY <1>3, <1>7, <1>8, <1>9, <1>11 DEF SameRecords
  <2>2. y >= x /\ (~ok => y >= x + 1)
    BY <1>2, <1>3, <1>7, <1>11 DEF x, y
  <2> QED BY <1>7, <1>8, <1>10, <2>1, <2>2
<1>12. CASE TurnRecords(f, r, p, ok, t)
  <2>1. /\ ok /\ p <= n /\ CanFrame(f.blocks[p]) /\ t.spans = frame_record_spans(f.blocks[p])
        /\ t.idx = 0 /\ t.pos = p + 1
    BY <1>12 DEF TurnRecords
  <2>2. p \in 1..n /\ y = p /\ x <= p - 1 /\ p - 1 \in x..n
    BY <1>1, <1>2, <1>3, <2>1, SMTT(60) DEF x, y
  <2>3. Len(t.spans) <= Held(f)[p] /\ Held(f)[p] \in Nat
    <3>1. Held(f)[p] = Len(f.blocks[p].recs)
      BY <2>2, HeldIs
    <3> QED BY <2>1, <2>2, <3>1, SpansAre, SMTT(60)
  <2>4. F[p] = F[p - 1] + Held(f)[p] /\ F[p - 1] \in Nat /\ F[x] <= F[p - 1]
    <3>1. p - 1 \in 0..n
      BY <1>1, <2>2
    <3> QED BY <1>5, <1>6, <1>7, <2>2, <3>1
  <2> DEFINE h == Held(f)[p]
             l == Len(t.spans)
             a == F[p - 1]
             b == F[x]
  <2>5. Spent(f, t) = p + (a + h) - l /\ p >= x
    BY <1>3, <1>7, <1>9, <2>1, <2>2, <2>4
  <2> HIDE DEF h, l, a, b
  <2>6. /\ h \in Nat /\ l \in Nat /\ l <= h
        /\ a \in Nat /\ b \in Nat /\ b <= a /\ x \in Nat /\ p \in Nat
    BY <1>3, <1>7, <1>8, <2>2, <2>3, <2>4 DEF h, l, a, b
  <2>7. Spent(f, t) >= x + b
    BY <2>5, <2>6
  <2> QED BY <1>10, <2>1, <2>7 DEF b
<1>13. CASE TurnEnds(f, r, p, ok, t)
  BY <1>11, <1>13 DEF TurnEnds
<1>14. CASE TurnFails(f, r, p, ok, t)
  BY <1>11, <1>14 DEF TurnFails
<1>15. CASE TurnBlob(f, r, p, ok, t)
  BY <1>11, <1>15 DEF TurnBlob
<1> QED BY <1>2, <1>12, <1>13, <1>14, <1>15

-----------------------------------------------------------------------------
(* As long as nothing went wrong: every block passed over was readable,    *)
(* and the blob block seen last is the last there is before the reader.    *)
PassedTo(f, p) == IF p <= StreamEnd(f) THEN p - 1 ELSE StreamEnd(f) - 1

Walks(f, r) ==
  /\ IF r.exhausted THEN r.pos >= StreamEnd(f) ELSE r.pos <= StreamEnd(f)
  /\ \A p \in 1..PassedTo(f, r.pos) : Readable(f, p)
  /\ IF r.last_blob = 0 THEN BlobBefore(f, r.pos) = {}
     ELSE /\ r.last_blob \in BlobBefore(f, r.pos)
          /\ \A q \in BlobBefore(f, r.pos) : q <= r.last_blob

(* The records of the blocks passed over that were handed out.             *)
Delivered(f, r) == Sums(Declared(f))[PassedTo(f, r.pos)] - (Len(r.spans) - r.idx)

(* The blob blocks before a block and before the next.                     *)
LEMMA BlobBeforeNext ==
  ASSUME NEW f, NEW p \in Nat \ {0}
  PROVE  BlobBefore(f, p + 1) =
           IF f.blocks[p].kind = "blob" THEN BlobBefore(f, p) \cup {p} ELSE BlobBefore(f, p)
<1>1. (p + 1) - 1 = p /\ 1..p = (1..p - 1) \cup {p}
  OBVIOUS
<1> QED BY <1>1 DEF BlobBefore

(* A turn that does not fail delivers nothing, and passes readable         *)
(* blocks.                                                                 *)
LEMMA TurnWalks ==
  ASSUME NEW f, FileOK(f), NEW r \in Readers, Stands(f, r), r.idx = Len(r.spans), ~r.exhausted,
         Walks(f, r),
         NEW t, Turn(f, r, Landing(f, r.pos), TRUE, t)
  PROVE  Walks(f, t) /\ Delivered(f, t) = Delivered(f, r)
<1> DEFINE n == Len(f.blocks)
           e == StreamEnd(f)
           from == r.pos
           p == Landing(f, from)
           D == Declared(f)
           F == Sums(D)
<1>1. f.blocks \in Seq(BlockType)
  BY DEF FileOK
<1>2. /\ n \in Nat /\ e \in 1..n + 1 /\ (e <= n => f.blocks[e].kind = "end")
      /\ \A q \in 1..e - 1 : q \in 1..n /\ f.blocks[q].kind # "end"
  BY <1>1, StreamEndIs
<1>3. from \in 1..e
  BY <1>2 DEF Walks, Readers
<1>4. /\ p \in from..e
      /\ \A q \in from..p - 1 : Readable(f, q)
      /\ F[p - 1] = F[from - 1]
      /\ BlobBefore(f, p) = BlobBefore(f, from)
  <2> HIDE DEF from
  <2> QED BY <1>1, <1>3, WalkIs
<1>5. /\ t \in Readers /\ t.pos \in from..n + 1
      /\ \/ TurnEnds(f, r, p, TRUE, t)
         \/ TurnBlob(f, r, p, TRUE, t)
         \/ TurnRecords(f, r, p, TRUE, t)
  BY DEF Turn, TurnFails
<1>6. /\ r.idx \in Nat /\ Len(r.spans) \in Nat /\ t.idx \in Nat /\ Len(t.spans) \in Nat
      /\ t.pos \in Nat \ {0} /\ r.last_blob \in Nat
  BY <1>5 DEF Readers
<1>7. /\ \A q \in 1..from - 1 : Readable(f, q)
      /\ IF r.last_blob = 0 THEN BlobBefore(f, p) = {}
         ELSE /\ r.last_blob \in BlobBefore(f, p)
              /\ \A q \in BlobBefore(f, p) : q <= r.last_blob
  <2>1. PassedTo(f, r.pos) = from - 1
    BY <1>3 DEF PassedTo
  <2> QED BY <1>4, <2>1 DEF Walks
<1>8. D \in Seq(Nat) /\ Len(D) = e - 1
      /\ \A q \in 1..e - 1 : D[q] = IF f.blocks[q].kind = "record" THEN f.blocks[q].count ELSE 0
  BY <1>1, DeclaredIs
<1>9. /\ \A k \in 0..e - 1 : F[k] \in Nat
      /\ \A k \in 1..e - 1 : F[k] = F[k - 1] + D[k]
  BY <1>8, SumsSteps
<1>10. Delivered(f, r) = F[from - 1] /\ Delivered(f, r) = F[p - 1] /\ F[p - 1] \in Nat
  <2>1. PassedTo(f, r.pos) = from - 1 /\ from - 1 \in 0..e - 1
    BY <1>2, <1>3 DEF PassedTo
  <2>2. F[from - 1] \in Nat
    BY <1>9, <2>1
  <2>3. Delivered(f, r) = F[from - 1] - (Len(r.spans) - r.idx)
    BY <2>1 DEF Delivered
  <2> QED BY <1>4, <1>6, <2>2, <2>3
<1> HIDE DEF from, p, e, n, D, F
<1>11. \A q \in 1..p - 1 : Readable(f, q)
  <2> TAKE q \in 1..p - 1
  <2>1. q \in 1..from - 1 \/ q \in from..p - 1
    BY <1>2, <1>3, <1>4
  <2> QED BY <1>4, <1>7, <2>1
<1>12. p \in Nat \ {0}
  BY <1>2, <1>3, <1>4
<1>13. CASE TurnEnds(f, r, p, TRUE, t)
  <2>1. /\ t.exhausted /\ SameRecords(r, t) /\ t.last_blob = r.last_blob
        /\ \/ p = n + 1 /\ t.pos = p
           \/ p <= n /\ f.blocks[p].kind = "end" /\ t.pos = p + 1
    BY <1>13 DEF TurnEnds, n
  <2>2. p = e
    BY <1>2, <1>3, <1>4, <2>1
  <2>3. BlobBefore(f, t.pos) = BlobBefore(f, p)
    BY <1>12, <2>1, BlobBeforeNext
  <2>4. PassedTo(f, t.pos) = e - 1 /\ t.pos >= e
    BY <1>2, <1>12, <2>1, <2>2 DEF PassedTo, e
  <2>5. Walks(f, t)
    BY <1>7, <1>11, <2>1, <2>2, <2>3, <2>4 DEF Walks, e
  <2>6. Delivered(f, t) = F[p - 1] - (Len(r.spans) - r.idx)
    BY <2>1, <2>2, <2>4 DEF Delivered, SameRecords, F, D
  <2>7. Delivered(f, t) = F[p - 1]
    BY <1>6, <1>10, <2>6
  <2> QED BY <1>10, <2>5, <2>7
<1>14. CASE ~t.exhausted /\ p <= n /\ f.blocks[p].kind \in {"blob", "record"}
            /\ f.blocks[p].fault = "none" /\ t.pos = p + 1
  <2>1. p # e /\ p \in 1..e - 1
    BY <1>2, <1>3, <1>4, <1>14
  <2>2. PassedTo(f, t.pos) = p /\ t.pos <= e
    BY <1>2, <1>14, <2>1 DEF PassedTo, e
  <2>3. Readable(f, p)
    BY <1>14 DEF Readable
  <2>4. \A q \in 1..p : Readable(f, q)
    <3> TAKE q \in 1..p
    <3>1. q = p \/ q \in 1..p - 1
      BY <1>12
    <3> QED BY <1>11, <2>3, <3>1
  <2>5. Delivered(f, t) = F[p] - (Len(t.spans) - t.idx)
    BY <2>2 DEF Delivered, F, D
  <2>6. F[p] = F[p - 1] + D[p]
    BY <1>9, <2>1
  <2>7. D[p] = IF f.blocks[p].kind = "record" THEN f.blocks[p].count ELSE 0
    BY <1>8, <2>1
  <2>8. CASE TurnBlob(f, r, p, TRUE, t)
    <3>1. f.blocks[p].kind = "blob" /\ t.last_blob = p /\ SameRecords(r, t)
      BY <2>8 DEF TurnBlob
    <3>2. BlobBefore(f, t.pos) = BlobBefore(f, p) \cup {p}
      BY <1>12, <1>14, <3>1, BlobBeforeNext
    <3>3. \A q \in BlobBefore(f, t.pos) : q <= p
      BY <1>12, <3>2 DEF BlobBefore
    <3>4. p \in BlobBefore(f, t.pos) /\ p # 0
      BY <1>12, <3>2
    <3>5. Walks(f, t)
      BY <1>14, <2>2, <2>4, <3>1, <3>3, <3>4 DEF Walks, e
    <3>6. Delivered(f, t) = F[p - 1]
      <4>1. t.spans = r.spans /\ t.idx = r.idx /\ D[p] = 0
        BY <2>7, <3>1 DEF SameRecords
      <4> QED BY <1>6, <1>10, <2>5, <2>6, <4>1
    <3> QED BY <1>10, <3>5, <3>6
  <2>9. CASE TurnRecords(f, r, p, TRUE, t)
    <3>1. /\ f.blocks[p].kind = "record" /\ t.last_blob = r.last_blob
          /\ CanFrame(f.blocks[p]) /\ t.spans = frame_record_spans(f.blocks[p]) /\ t.idx = 0
      BY <2>9 DEF TurnRecords
    <3>2. BlobBefore(f, t.pos) = BlobBefore(f, p)
      BY <1>12, <1>14, <3>1, BlobBeforeNext
    <3>3. Walks(f, t)
      BY <1>7, <1>14, <2>2, <2>4, <3>1, <3>2 DEF Walks, e
    <3>4. Len(t.spans) = D[p]
      <4>1. p \in 1..Len(f.blocks)
        BY <1>2, <2>1 DEF n
      <4>2. Len(frame_record_spans(f.blocks[p])) = f.blocks[p].count
        BY <3>1, <4>1, SpansAre
      <4> QED BY <2>7, <3>1, <4>2
    <3>5. Delivered(f, t) = F[p - 1]
      <4> DEFINE d == D[p]
                 a == F[p - 1]
      <4>1. Delivered(f, t) = (a + d) - (d - 0) /\ a \in Nat /\ d \in Nat
        BY <1>6, <1>10, <2>5, <2>6, <3>1, <3>4
      <4> HIDE DEF d, a
      <4>2. Delivered(f, t) = a
        BY <4>1
      <4> QED BY <4>2 DEF a
    <3> QED BY <1>10, <3>3, <3>5
  <2> QED BY <1>5, <1>14, <2>8, <2>9 DEF TurnEnds
<1>15. CASE TurnBlob(f, r, p, TRUE, t)
  BY <1>14, <1>15 DEF TurnBlob, n
<1>16. CASE TurnRecords(f, r, p, TRUE, t)
  BY <1>14, <1>16 DEF TurnRecords, n
<1> QED BY <1>5, <1>13, <1>15, <1>16 DEF p, from

-----------------------------------------------------------------------------
(* What decode_record hands out.                                           *)

(* A reference has numbers in it.                                          *)
LEMMA ValueIs ==
  ASSUME NEW v \in Value
  PROVE  /\ v[1] = "slice" => v[2] \in Nat /\ v[3] \in Nat
         /\ v[1] = "whole" => v[2] \in Nat
<1>1. CASE v \in {NullValue, NotANumber}
  BY <1>1 DEF NullValue, NotANumber
<1>2. CASE v \in {"number", "bytes"} \X Seq(Nat)
  BY <1>2
<1>3. CASE v \in {"bool"} \X BOOLEAN
  BY <1>3
<1>4. CASE v \in {"slice"} \X Nat \X Nat
  BY <1>4
<1>5. CASE v \in {"whole"} \X Nat
  BY <1>5
<1>6. CASE v \in {"decimal"} \X Seq(Nat) \X Nat \X BOOLEAN
  BY <1>6
<1> QED BY <1>1, <1>2, <1>3, <1>4, <1>5, <1>6 DEF Value

(* Bytes are a value.                                                      *)
LEMMA BytesValue ==
  ASSUME NEW s \in Seq(Nat)
  PROVE  <<"bytes", s>> \in Value
<1>1. <<"bytes", s>> \in {"number", "bytes"} \X Seq(Nat)
  OBVIOUS
<1> QED BY <1>1 DEF Value

(* The blob block seen last is the one a record's slices are relative to.  *)
LEMMA ResolvedIs ==
  ASSUME NEW f, FileOK(f), NEW r \in Readers, Stands(f, r), r.idx < Len(r.spans),
         NEW v \in Value, Resolved(f, r, v).ok
  PROVE  /\ Resolved(f, r, v).v \in Value
         /\ Walks(f, r) => Resolved(f, r, v).v = Meant(f, r.at, v)
<1> DEFINE b == r.last_blob
           d == f.blocks[b].data
           n == Len(f.blocks)
           x == Resolved(f, r, v)
           slice == SubSeq(d, v[2] + 1, v[2] + v[3])
<1>1. /\ r.pos \in Nat \ {0} /\ b \in Nat /\ r.at \in Nat /\ r.blobs \subseteq Nat \ {0}
      /\ r.spans \in Seq(Seq(Nat)) /\ r.idx \in Nat /\ n \in Nat /\ f.blocks \in Seq(BlockType)
  BY DEF Readers, FileOK
<1>2. /\ r.pos <= n + 1 /\ b < r.pos /\ r.pos = r.at + 1 /\ \A q \in r.blobs : q < r.pos
  BY DEF Stands
<1>3. r.at \in 1..n /\ f.blocks[r.at].kind = "record"
  <2>1. r.spans # <<>>
    BY <1>1
  <2> QED BY <2>1 DEF Stands
<1>4. \A q \in 1..n : f.blocks[q].data \in Seq(Nat)
  BY <1>1, BlockFacts
<1>5. x = CASE v[1] = "slice" -> IF b # 0 /\ v[2] + v[3] <= Len(d)
                                   THEN Decoded(<<"bytes", slice>>, 0) ELSE Failed
            [] v[1] = "whole" -> IF v[2] \in r.blobs
                                   THEN Decoded(<<"bytes", f.blocks[v[2]].data>>, 0) ELSE Failed
            [] OTHER -> Decoded(v, 0)
  BY DEF Resolved
<1>6. ~Failed.ok
  BY DEF Failed
<1>7. \A w : Decoded(w, 0).v = w
  BY DEF Decoded
<1>8. x.ok
  OBVIOUS
<1>9. /\ v[1] = "slice" => v[2] \in Nat /\ v[3] \in Nat
      /\ v[1] = "whole" => v[2] \in Nat
  BY ValueIs
<1>10. Walks(f, r) => IF b = 0 THEN BlobBefore(f, r.at) = {}
                      ELSE b \in BlobBefore(f, r.at) /\ \A q \in BlobBefore(f, r.at) : q <= b
  <2>1. BlobBefore(f, r.at + 1) = BlobBefore(f, r.at)
    <3> DEFINE at == r.at
    <3>1. at \in Nat \ {0} /\ f.blocks[at].kind # "blob"
      BY <1>1, <1>3
    <3> HIDE DEF at
    <3>2. BlobBefore(f, at + 1) = BlobBefore(f, at)
      BY <3>1, BlobBeforeNext
    <3> QED BY <3>2 DEF at
  <2> QED BY <1>2, <2>1 DEF Walks
<1>11. BlobBefore(f, r.at) \subseteq Nat
  BY <1>1 DEF BlobBefore
<1> HIDE DEF x, slice, d, b, n
<1>12. CASE v[1] = "slice"
  <2>1. b # 0 /\ v[2] + v[3] <= Len(d) /\ x = Decoded(<<"bytes", slice>>, 0)
    BY <1>5, <1>6, <1>8, <1>12
  <2>2. x.v = <<"bytes", slice>>
    BY <1>7, <2>1
  <2>3. d \in Seq(Nat)
    <3>1. b \in 1..n
      BY <1>1, <1>2, <2>1
    <3> QED BY <1>4, <3>1 DEF d
  <2>4. slice \in Seq(Nat)
    <3> DEFINE i == v[2] + 1
               j == v[2] + v[3]
    <3>1. i \in Int /\ j \in Int /\ i >= 1 /\ j <= Len(d) /\ Len(d) \in Nat
      BY <1>9, <1>12, <2>1, <2>3
    <3>2. slice = SubSeq(d, i, j)
      BY DEF slice
    <3> HIDE DEF i, j
    <3>3. \A k \in i..j : d[k] \in Nat
      <4> TAKE k \in i..j
      <4>1. k \in 1..Len(d)
        BY <3>1
      <4> QED BY <2>3, <4>1, ElementOfSeq
    <3>4. SubSeq(d, i, j) \in Seq(Nat)
      BY <2>3, <3>1, <3>3, SubSeqProperties
    <3> QED BY <3>2, <3>4
  <2>5. x.v \in Value
    BY <2>2, <2>4, BytesValue
  <2>6. Walks(f, r) => x.v = Meant(f, r.at, v)
    <3> SUFFICES ASSUME Walks(f, r) PROVE x.v = Meant(f, r.at, v)
      OBVIOUS
    <3> DEFINE B == BlobBefore(f, r.at)
    <3>1. b \in B /\ B \subseteq Nat /\ \A q \in B : q <= b
      BY <1>10, <1>11, <2>1
    <3>2. Max(B) = b
      <4> HIDE DEF B
      <4> QED BY <3>1, MaxIs
    <3>3. Meant(f, r.at, v) = <<"bytes", SubSeq(f.blocks[Max(B)].data, v[2] + 1, v[2] + v[3])>>
      BY <1>12 DEF Meant
    <3> HIDE DEF B
    <3> QED BY <2>2, <3>2, <3>3 DEF slice, d
  <2> QED BY <2>5, <2>6 DEF x
<1>13. CASE v[1] = "whole"
  <2>1. v[2] \in r.blobs /\ x = Decoded(<<"bytes", f.blocks[v[2]].data>>, 0)
    BY <1>5, <1>6, <1>8, <1>13
  <2>2. x.v = <<"bytes", f.blocks[v[2]].data>>
    BY <1>7, <2>1
  <2>3. v[2] \in 1..n
    BY <1>1, <1>2, <2>1
  <2>4. x.v \in Value
    BY <1>4, <2>2, <2>3, BytesValue
  <2>5. x.v = Meant(f, r.at, v)
    BY <1>13, <2>2 DEF Meant
  <2> QED BY <2>4, <2>5 DEF x
<1>14. CASE v[1] # "slice" /\ v[1] # "whole"
  <2>1. x = Decoded(v, 0)
    BY <1>5, <1>14
  <2>2. x.v = v
    BY <1>7, <2>1
  <2>3. Meant(f, r.at, v) = v
    BY <1>14 DEF Meant
  <2> QED BY <2>2, <2>3 DEF x
<1> QED BY <1>12, <1>13, <1>14

(* The record under the reader.                                            *)
LEMMA RecordIs ==
  ASSUME NEW f, FileOK(f), NEW r \in Readers, Stands(f, r), r.idx < Len(r.spans)
  PROVE  /\ r.at \in 1..Len(f.blocks) /\ f.blocks[r.at].kind = "record"
         /\ Len(r.spans) = f.blocks[r.at].count
         /\ r.idx + 1 \in 1..Len(r.spans) /\ r.pos = r.at + 1
         /\ r.spans[r.idx + 1] = f.blocks[r.at].recs[r.idx + 1]
         /\ r.spans[r.idx + 1] \in Seq(Nat)
<1>1. r.spans \in Seq(Seq(Nat)) /\ r.idx \in Nat /\ Len(r.spans) \in Nat
  BY DEF Readers
<1>2. r.spans # <<>>
  BY <1>1
<1>3. /\ r.at \in 1..Len(f.blocks) /\ f.blocks[r.at].kind = "record" /\ CanFrame(f.blocks[r.at])
      /\ r.spans = frame_record_spans(f.blocks[r.at]) /\ r.pos = r.at + 1
  BY <1>2 DEF Stands
<1> DEFINE p == r.at
           k == r.idx + 1
<1>4. k \in 1..Len(r.spans)
  BY <1>1
<1>5. p \in 1..Len(f.blocks) /\ CanFrame(f.blocks[p]) /\ r.spans = frame_record_spans(f.blocks[p])
  BY <1>3
<1> HIDE DEF p, k
<1>6. Len(r.spans) = f.blocks[p].count
      /\ \A i \in 1..f.blocks[p].count : r.spans[i] = f.blocks[p].recs[i] /\ r.spans[i] \in Seq(Nat)
  <2> DEFINE s == frame_record_spans(f.blocks[p])
  <2>1. Len(s) = f.blocks[p].count
        /\ \A i \in 1..f.blocks[p].count : s[i] = f.blocks[p].recs[i] /\ s[i] \in Seq(Nat)
    BY <1>5, SpansAre
  <2>2. r.spans = s
    BY <1>5
  <2> HIDE DEF s
  <2> QED BY <2>1, <2>2
<1>7. r.spans[k] = f.blocks[p].recs[k] /\ r.spans[k] \in Seq(Nat)
  BY <1>4, <1>6
<1> QED BY <1>3, <1>4, <1>6, <1>7 DEF p, k

(* A record that decodes has values, and while nothing went wrong they     *)
(* are its bytes.                                                          *)
LEMMA DecodedIs ==
  ASSUME NEW f, FileOK(f), NEW r \in Readers, Stands(f, r), r.idx < Len(r.spans),
         decode_record(f, r, r.spans[r.idx + 1]).kind = "ok"
  PROVE  LET values == decode_record(f, r, r.spans[r.idx + 1]).values
         IN /\ values \in Seq(Value)
            /\ Walks(f, r) =>
                 ReadsAs(f, [at |-> r.at, n |-> r.idx + 1, v |-> values], r.flag)
<1> DEFINE rec == r.spans[r.idx + 1]
           verdict == decode_record_values(f.fields, rec, r.flag, r.base)
           u == verdict.values
           x == decode_record(f, r, rec)
           n == Len(u)
           w == [i \in 1..n |-> Resolved(f, r, u[i])]
<1>1. rec \in Seq(Nat) /\ rec = f.blocks[r.at].recs[r.idx + 1]
  BY RecordIs, SMTT(60)
<1>2. x = IF verdict.kind # "ok" THEN verdict
          ELSE LET values == [i \in DOMAIN u |-> Resolved(f, r, u[i])]
               IN IF \E i \in DOMAIN values : ~values[i].ok THEN Verdict("unresolved", <<>>)
                  ELSE Verdict("ok", [i \in DOMAIN values |-> values[i].v])
  BY DEF decode_record, WithBlobs
<1>3. f.fields \in Seq(FieldTypes) /\ r.flag \in BOOLEAN /\ r.base \in {5, 6}
  BY DEF FileOK, Readers
<1>4. verdict.kind = "ok"
  <2> HIDE DEF verdict
  <2> QED BY <1>2
<1>5. u \in Framings(f.fields, rec, r.flag) /\ Framings(f.fields, rec, r.flag) \subseteq Seq(Value)
  <2> DEFINE fields == f.fields
             flag == r.flag
             base == r.base
  <2>1. fields \in Seq(FieldTypes) /\ flag \in BOOLEAN /\ base \in {5, 6} /\ rec \in Seq(Nat)
    BY <1>1, <1>3
  <2>2. decode_record_values(fields, rec, flag, base).kind = "ok"
    BY <1>4
  <2> HIDE DEF fields, flag, base, rec
  <2>3. decode_record_values(fields, rec, flag, base).values \in Framings(fields, rec, flag)
    BY <2>1, <2>2, VerdictValues
  <2>4. Framings(fields, rec, flag) \subseteq Seq(Value)
    BY <2>1, FramingsType
  <2> QED BY <2>3, <2>4 DEF fields, flag, base, rec
<1>6. u \in Seq(Value) /\ n \in Nat /\ DOMAIN u = 1..n
  BY <1>5
<1> HIDE DEF u, n
<1>7. \A i \in 1..n : u[i] \in Value
  BY <1>6, ElementOfSeq DEF n
<1> HIDE DEF verdict, x
<1>8. x = IF \E i \in 1..n : ~w[i].ok THEN Verdict("unresolved", <<>>)
          ELSE Verdict("ok", [i \in 1..n |-> w[i].v])
  BY <1>2, <1>4, <1>6
<1>9. x.kind = "ok"
  BY DEF x
<1>10. Verdict("unresolved", <<>>).kind # "ok"
       /\ \A z : Verdict("ok", z).values = z
  BY DEF Verdict
<1>11. (\A i \in 1..n : w[i].ok) /\ x.values = [i \in 1..n |-> w[i].v]
  <2> HIDE DEF w
  <2> QED BY <1>8, <1>9, <1>10
<1>12. \A i \in 1..n : w[i] = Resolved(f, r, u[i])
  OBVIOUS
<1> HIDE DEF w
<1>13. \A i \in 1..n : /\ w[i].v \in Value
                       /\ Walks(f, r) => w[i].v = Meant(f, r.at, u[i])
  BY <1>7, <1>11, <1>12, ResolvedIs
<1>14. x.values \in Seq(Value)
  <2>1. x.values \in [1..n -> Value]
    BY <1>11, <1>13
  <2> QED BY <1>6, <2>1
<1>15. Walks(f, r) => ReadsAs(f, [at |-> r.at, n |-> r.idx + 1, v |-> x.values], r.flag)
  <2> SUFFICES ASSUME Walks(f, r)
               PROVE  ReadsAs(f, [at |-> r.at, n |-> r.idx + 1, v |-> x.values], r.flag)
    OBVIOUS
  <2> DEFINE row == [at |-> r.at, n |-> r.idx + 1, v |-> x.values]
  <2>1. row.at = r.at /\ row.n = r.idx + 1 /\ row.v = x.values
    OBVIOUS
  <2>2. x.values = [i \in 1..n |-> Meant(f, r.at, u[i])]
    BY <1>11, <1>13
  <2> HIDE DEF row, rec
  <2>3. u \in Framings(f.fields, f.blocks[row.at].recs[row.n], r.flag)
    BY <1>1, <1>5, <2>1
  <2>4. row.v = [i \in DOMAIN u |-> Meant(f, row.at, u[i])]
    BY <1>6, <2>1, <2>2
  <2>5. ReadsAs(f, row, r.flag)
    BY <2>3, <2>4 DEF ReadsAs
  <2> QED BY <2>5 DEF row
<1> QED BY <1>14, <1>15 DEF x, rec

-----------------------------------------------------------------------------
(* The inductive invariant, first part: types, and where the reader stands *)
RequestOK(s, o) ==
  /\ o \in [batch_size : Nat \ {0}, n_rows : Nat \cup {-1},
            columns : {"all", "none", "unknown"}]
  /\ \/ s.format = "E1" /\ s.file.recs \in Seq({"ok", "cut"})
     \/ s.format = "E2" /\ FileOK(s.file)

Typed ==
  /\ RequestOK(source, options)
  /\ state \in {"idle", "reading", "done"}
  /\ want \in Nat /\ rows_read \in Nat
  /\ got \in Seq(Row) /\ out \in Seq(Results)
  /\ IF E1 THEN reader \in Nat ELSE reader \in Readers

Standing == ~E1 => Stands(file, reader)

Answer(kind, rows) == [kind |-> kind, rows |-> rows]

(* The steps of the reader, with what a step finds in the file.            *)
Idles ==
  /\ UNCHANGED <<reader, rows_read, want, got, out>>
  /\ state' = state \/ (state = "idle" /\ state' = "done")

Starts ==
  /\ state = "idle" /\ ~AtEnd /\ ~Refused
  /\ state' = "reading"
  /\ want' = IF E1 THEN Min({EffectiveBatch, Len(file.recs) - reader}) ELSE EffectiveBatch
  /\ UNCHANGED <<reader, rows_read, got, out>>

Ends == state = "idle" /\ AtEnd /\ Return("none", <<>>) /\ UNCHANGED <<reader, rows_read>>

Refuses == state = "idle" /\ Refused /\ Return("error", <<>>) /\ UNCHANGED <<reader, rows_read>>

Busy == state = "reading" /\ Len(got) < want /\ rows_read' = rows_read

TakesE1 ==
  /\ Busy /\ E1 /\ reader' = reader + 1
  /\ got' = Append(got, [at |-> 0, n |-> reader + 1, v |-> <<>>])
  /\ UNCHANGED <<state, want, out>>

FailsE1 == Busy /\ E1 /\ reader' = reader + 1 /\ Return("error", <<>>)

AtBlock(ok) ==
  /\ Busy /\ ~E1 /\ reader.idx = Len(reader.spans) /\ ~reader.exhausted
  /\ Turn(file, reader, Landing(file, reader.pos), ok, reader')

Turns == AtBlock(TRUE) /\ UNCHANGED <<state, want, got, out>>

Stumbles == AtBlock(FALSE) /\ Return("error", <<>>)

AtRow == Busy /\ ~E1 /\ reader.idx < Len(reader.spans)
         /\ reader' = [reader EXCEPT !.idx = @ + 1]

TakesE2 ==
  /\ AtRow /\ UNCHANGED <<state, want, out>>
  /\ \E row \in Row :
       /\ got' = Append(got, row)
       /\ row.at = reader.at /\ row.n = reader.idx + 1
       /\ Walks(file, reader) => ReadsAs(file, row, reader.flag)

FailsE2 == AtRow /\ Return("error", <<>>)

SomeStep ==
  Idles \/ Starts \/ Ends \/ Refuses \/ Finish \/ TakesE1 \/ FailsE1 \/ Turns \/ Stumbles
    \/ TakesE2 \/ FailsE2

(* What the types say of a file and a request.                             *)
LEMMA Sources ==
  ASSUME Typed
  PROVE  /\ E1 => file.recs \in Seq({"ok", "cut"}) /\ reader \in Nat
         /\ ~E1 => FileOK(file) /\ reader \in Readers
         /\ options.batch_size \in Nat \ {0} /\ options.n_rows \in Nat \cup {-1}
         /\ options.columns \in {"all", "none", "unknown"}
         /\ Len(got) \in Nat /\ got \in Seq(Row) /\ out \in Seq(Results)
BY DEF Typed, RequestOK, E1, file

(* Every step of the specification is one of these.                        *)
LEMMA NextSteps ==
  ASSUME Typed, Standing, [Next]_vars
  PROVE  source' = source /\ options' = options /\ SomeStep
<1> USE DEF SomeStep
<1>1. CASE Call
  <2>1. source' = source /\ options' = options /\ reader' = reader /\ rows_read' = rows_read
        /\ state = "idle"
    BY <1>1 DEF Call
  <2>2. \/ AtEnd /\ Return("none", <<>>)
        \/ ~AtEnd /\ Refused /\ Return("error", <<>>)
        \/ /\ ~AtEnd /\ ~Refused
           /\ state' = "reading"
           /\ want' = IF E1 THEN Min({EffectiveBatch, Len(file.recs) - reader})
                      ELSE EffectiveBatch
           /\ UNCHANGED <<got, out>>
    BY <1>1 DEF Call
  <2>3. Ends \/ Refuses \/ Starts
    BY <2>1, <2>2 DEF Ends, Refuses, Starts
  <2> QED BY <2>1, <2>3
<1>2. CASE E1Record
  <2>1. Busy /\ E1 /\ reader' = reader + 1 /\ source' = source /\ options' = options
    BY <1>2 DEF E1Record, Busy
  <2>2. \/ /\ got' = Append(got, [at |-> 0, n |-> reader + 1, v |-> <<>>])
           /\ UNCHANGED <<state, want, out>>
        \/ Return("error", <<>>)
    BY <1>2 DEF E1Record
  <2>3. TakesE1 \/ FailsE1
    BY <2>1, <2>2 DEF TakesE1, FailsE1
  <2> QED BY <2>1, <2>3
<1>3. CASE E2Block
  <2>1. Busy /\ ~E1 /\ reader.idx = Len(reader.spans) /\ ~reader.exhausted
        /\ source' = source /\ options' = options
    BY <1>3 DEF E2Block, Busy
  <2>2. PICK o \in read_block(file, reader.pos) :
          /\ reader' = advance_to_record_block(file, reader, o).r
          /\ \/ /\ advance_to_record_block(file, reader, o).ok
                /\ UNCHANGED <<state, want, got, out>>
             \/ /\ ~advance_to_record_block(file, reader, o).ok
                /\ Return("error", <<>>)
    BY <1>3 DEF E2Block
  <2> DEFINE a == advance_to_record_block(file, reader, o)
             p == Landing(file, reader.pos)
  <2>3. Turn(file, reader, p, a.ok, a.r)
    <3> DEFINE f == file
               r == reader
    <3>1. FileOK(f) /\ r \in Readers /\ Stands(f, r) /\ ~r.exhausted
      BY <2>1, Sources DEF Standing
    <3>2. r.pos <= Len(f.blocks) + 1 /\ o \in read_block(f, r.pos)
      BY <2>2, <3>1 DEF Stands
    <3> HIDE DEF f, r
    <3>3. Turn(f, r, Landing(f, r.pos), advance_to_record_block(f, r, o).ok,
               advance_to_record_block(f, r, o).r)
      BY <3>1, <3>2, TurnIs
    <3> QED BY <3>3 DEF f, r
  <2>4. /\ reader' = a.r
        /\ \/ a.ok /\ UNCHANGED <<state, want, got, out>>
           \/ ~a.ok /\ Return("error", <<>>)
    BY <2>2
  <2> HIDE DEF a, p
  <2>5. \/ Turn(file, reader, p, TRUE, reader') /\ UNCHANGED <<state, want, got, out>>
        \/ Turn(file, reader, p, FALSE, reader') /\ Return("error", <<>>)
    <3>1. a.ok => Turn(file, reader, p, TRUE, reader')
      BY <2>3, <2>4 DEF Turn, TurnEnds, TurnFails, TurnBlob, TurnRecords
    <3>2. ~a.ok => Turn(file, reader, p, FALSE, reader')
      BY <2>3, <2>4 DEF Turn, TurnEnds, TurnFails, TurnBlob, TurnRecords
    <3> QED BY <2>4, <3>1, <3>2
  <2>6. Turns \/ Stumbles
    BY <2>1, <2>5 DEF Turns, Stumbles, AtBlock, p
  <2> QED BY <2>1, <2>6
<1>4. CASE E2Decode
  <2> DEFINE verdict == decode_record(file, reader, reader.spans[reader.idx + 1])
             row == [at |-> reader.at, n |-> reader.idx + 1, v |-> verdict.values]
  <2>1. /\ state = "reading" /\ Len(got) < want /\ rows_read' = rows_read
        /\ ~E1 /\ reader.idx < Len(reader.spans)
        /\ source' = source /\ options' = options
        /\ reader' = Passed(reader, verdict)
        /\ \/ verdict.kind = "ok" /\ got' = Append(got, row) /\ UNCHANGED <<state, want, out>>
           \/ Return("error", <<>>)
    BY <1>4 DEF E2Decode
  <2>2. AtRow
    BY <2>1 DEF AtRow, Busy, Passed
  <2>3. CASE verdict.kind = "ok" /\ got' = Append(got, row) /\ UNCHANGED <<state, want, out>>
    <3> DEFINE f == file
               r == reader
    <3>1. FileOK(f) /\ r \in Readers /\ Stands(f, r) /\ r.idx < Len(r.spans)
      BY <2>1, Sources DEF Standing
    <3>2. decode_record(f, r, r.spans[r.idx + 1]).kind = "ok"
      BY <2>3
    <3> HIDE DEF f, r
    <3>3. LET values == decode_record(f, r, r.spans[r.idx + 1]).values
          IN /\ values \in Seq(Value)
             /\ Walks(f, r) =>
                  ReadsAs(f, [at |-> r.at, n |-> r.idx + 1, v |-> values], r.flag)
      BY <3>1, <3>2, DecodedIs
    <3>4. verdict.values \in Seq(Value) /\ (Walks(file, reader) => ReadsAs(file, row, reader.flag))
      BY <3>3 DEF f, r
    <3>5. reader.at \in Nat /\ reader.idx + 1 \in Nat
      BY <3>1 DEF Readers, r
    <3> HIDE DEF verdict
    <3>6. row \in Row /\ row.at = reader.at /\ row.n = reader.idx + 1
      BY <3>4, <3>5 DEF Row
    <3> HIDE DEF row
    <3>7. TakesE2
      BY <2>2, <2>3, <3>4, <3>6 DEF TakesE2
    <3> QED BY <2>1, <3>7
  <2>4. CASE Return("error", <<>>)
    BY <2>1, <2>2, <2>4 DEF FailsE2
  <2> HIDE DEF verdict, row
  <2> QED BY <2>1, <2>3, <2>4
<1>5. CASE Finish
  BY <1>5 DEF Finish
<1>6. CASE GiveUp
  BY <1>6 DEF GiveUp, Idles
<1>7. CASE Terminated \/ UNCHANGED vars
  BY <1>7 DEF Terminated, vars, Idles
<1> QED BY <1>1, <1>2, <1>3, <1>4, <1>5, <1>6, <1>7 DEF Next

(* The operators that n_rows is kept with.                                 *)
LEMMA MinOfTwo ==
  ASSUME NEW a \in Nat, NEW b \in Nat
  PROVE  LET m == Min({a, b}) IN m \in {a, b} /\ m \in Nat /\ m <= a /\ m <= b
<1>1. {a, b} \subseteq Nat /\ {a, b} # {}
  OBVIOUS
<1>2. Min({a, b}) \in {a, b} /\ \A y \in {a, b} : Min({a, b}) <= y
  BY <1>1, MinIs
<1> QED BY <1>2

(* A number that is not let fall below zero.                               *)
LEMMA MaxWithZero ==
  ASSUME NEW x \in Int
  PROVE  Max({0, x}) = IF x > 0 THEN x ELSE 0
<1> DEFINE T == {0, x}
           m == IF x > 0 THEN x ELSE 0
<1>1. m \in T /\ \A y \in T : m >= y
  OBVIOUS
<1>2. \A z \in T : (\A y \in T : z >= y) => z = m
  OBVIOUS
<1>3. Max(T) = CHOOSE z \in T : \A y \in T : z >= y
  BY DEF Max
<1> HIDE DEF T, m
<1>4. Max(T) = m
  BY <1>1, <1>2, <1>3
<1> QED BY <1>4 DEF T, m

(* The effective batch never goes past n_rows, and is 0 only at it.        *)
LEMMA BatchIs ==
  ASSUME Typed
  PROVE  /\ EffectiveBatch \in Nat
         /\ options.n_rows # -1 =>
               EffectiveBatch + rows_read <= options.n_rows \/ EffectiveBatch = 0
         /\ EffectiveBatch = 0 => options.n_rows # -1 /\ rows_read >= options.n_rows
<1> DEFINE b == options.batch_size
           l == options.n_rows
           m == Remaining
<1>1. b \in Nat \ {0} /\ l \in Nat \cup {-1} /\ rows_read \in Nat
  BY Sources DEF Typed
<1>2. m = IF l = -1 THEN b ELSE Max({0, l - rows_read})
  BY DEF Remaining
<1>3. EffectiveBatch = Min({b, m})
  BY DEF EffectiveBatch
<1> HIDE DEF b, l, m
<1>4. l - rows_read \in Int
  BY <1>1
<1>5. m = IF l = -1 THEN b ELSE IF l - rows_read > 0 THEN l - rows_read ELSE 0
  BY <1>2, <1>4, MaxWithZero
<1>6. m \in Nat /\ b \in Nat
  BY <1>1, <1>5
<1>7. /\ EffectiveBatch \in {b, m} /\ EffectiveBatch \in Nat
      /\ EffectiveBatch <= b /\ EffectiveBatch <= m
  BY <1>3, <1>6, MinOfTwo
<1> QED BY <1>1, <1>5, <1>6, <1>7 DEF l

Calling ==
  /\ state = "reading" => ~Refused /\ want >= 1 /\ Len(got) <= want
  /\ state # "reading" => got = <<>>
  /\ E1 => reader + (IF state = "reading" THEN want - Len(got) ELSE 0) <= Len(file.recs)

(* What a call answers.                                                    *)
Answers(kind, rows) ==
  /\ out' = Append(out, Answer(kind, rows)) /\ got' = <<>> /\ want' = 0
  /\ state' = (IF kind = "none" THEN "done" ELSE "idle")

(* Returning from next_batch is one more answer.                           *)
LEMMA ReturnAnswers ==
  ASSUME NEW kind, NEW rows, Return(kind, rows)
  PROVE  Answers(kind, rows)
BY DEF Return, Answers, Answer

(* An answer is one of the results,                                        *)
LEMMA AnswerType ==
  ASSUME NEW kind \in {"none", "error", "frame"}, NEW rows \in Seq(Row)
  PROVE  LET r == Answer(kind, rows) IN r \in Results /\ r.kind = kind /\ r.rows = rows
BY DEF Results, Answer

NoRows == <<>>

(* ... and an answer without rows has none.                                *)
LEMMA NoRowsType == NoRows \in Seq(Row) /\ <<>> = NoRows /\ Len(NoRows) = 0
BY DEF NoRows

(* The end of a batch.                                                     *)
Frame == IF options.columns = "none" THEN NoRows ELSE got

FinishesWith(kind, rows) ==
  /\ Answers(kind, rows) /\ UNCHANGED reader /\ rows_read' = rows_read + Height
  /\ \/ kind = "none" /\ rows = NoRows /\ got = <<>>
     \/ kind = "frame" /\ rows = Frame /\ got # <<>>

(* Finish returns a frame or None.                                         *)
LEMMA FinishIs ==
  ASSUME Finish
  PROVE  /\ state = "reading"
         /\ Len(got) = want \/ (~E1 /\ reader.exhausted /\ reader.idx = Len(reader.spans))
         /\ FinishesWith("none", NoRows) \/ FinishesWith("frame", Frame)
<1>1. /\ state = "reading" /\ UNCHANGED reader /\ rows_read' = rows_read + Height
      /\ Len(got) = want \/ (~E1 /\ reader.exhausted /\ reader.idx = Len(reader.spans))
      /\ IF got = <<>> THEN Return("none", <<>>)
         ELSE Return("frame", IF options.columns = "none" THEN <<>> ELSE got)
  BY DEF Finish
<1>2. CASE got = <<>>
  <2>1. Answers("none", NoRows)
    BY <1>1, <1>2, ReturnAnswers DEF NoRows
  <2> QED BY <1>1, <1>2, <2>1 DEF FinishesWith
<1>3. CASE got # <<>>
  <2>1. Return("frame", Frame)
    BY <1>1, <1>3 DEF Frame, NoRows
  <2>2. Answers("frame", Frame)
    BY <2>1, ReturnAnswers
  <2> QED BY <1>1, <1>3, <2>2 DEF FinishesWith
<1> QED BY <1>1, <1>2, <1>3

-----------------------------------------------------------------------------
(* Each step does one of a few things to what was returned and what is     *)
(* being gathered.                                                         *)
Untouched == out' = out /\ got' = got
Gathers == out' = out /\ \E row \in Row : got' = Append(got, row)
AnswersSome ==
  \E kind \in {"none", "error", "frame"}, rows \in {NoRows, got} :
    /\ Answers(kind, rows)
    /\ kind = "error" => rows = NoRows
    /\ rows_read' = rows_read + (IF kind = "error" THEN 0 ELSE Height)
    /\ kind # "error" => rows = Frame
    /\ kind = "none" => got = <<>>
    /\ kind = "frame" => got # <<>>

(* Every step leaves, gathers or answers.                                  *)
LEMMA StepsAnswer ==
  ASSUME Typed, Calling, SomeStep
  PROVE  /\ Untouched \/ Gathers \/ AnswersSome
         /\ Untouched \/ Gathers => rows_read' = rows_read
<1> USE NoRowsType DEF Answers
<1>0. got \in Seq(Row) /\ rows_read \in Nat
  BY DEF Typed
<1>1. ASSUME Idles \/ Starts \/ Turns PROVE Untouched /\ rows_read' = rows_read
  BY <1>1 DEF Idles, Starts, Turns, AtBlock, Busy, Untouched
<1>2. ASSUME TakesE1 PROVE Gathers /\ rows_read' = rows_read
  <2> DEFINE row == [at |-> 0, n |-> reader + 1, v |-> <<>>]
  <2>1. reader \in Nat
    BY <1>2, Sources DEF TakesE1
  <2>2. row \in Row
    BY <2>1 DEF Row
  <2>3. out' = out /\ got' = Append(got, row) /\ rows_read' = rows_read
    BY <1>2 DEF TakesE1, Busy
  <2> HIDE DEF row
  <2> QED BY <2>2, <2>3 DEF Gathers
<1>3. ASSUME TakesE2 PROVE Gathers /\ rows_read' = rows_read
  BY <1>3 DEF TakesE2, AtRow, Busy, Gathers
<1>4. ASSUME Refuses \/ FailsE1 \/ Stumbles \/ FailsE2 PROVE AnswersSome
  <2>1. Return("error", <<>>) /\ rows_read' = rows_read
    BY <1>4 DEF Refuses, FailsE1, Stumbles, FailsE2, AtBlock, AtRow, Busy
  <2>2. Answers("error", NoRows)
    BY <2>1, ReturnAnswers DEF NoRows
  <2>3. rows_read' = rows_read + (IF "error" = "error" THEN 0 ELSE Height)
    BY <1>0, <2>1
  <2> HIDE DEF Answers
  <2> QED BY <2>2, <2>3 DEF AnswersSome
<1>5. ASSUME Ends PROVE AnswersSome
  <2>1. state = "idle" /\ Return("none", <<>>) /\ rows_read' = rows_read
    BY <1>5 DEF Ends
  <2>2. Answers("none", NoRows) /\ got = NoRows /\ got = <<>>
    BY <2>1, ReturnAnswers DEF NoRows, Calling
  <2>3. Height = 0
    BY <2>2 DEF Height
  <2>4. rows_read' = rows_read + (IF "none" = "error" THEN 0 ELSE Height)
    BY <1>0, <2>1, <2>3
  <2>5. Frame = NoRows
    BY <2>2 DEF Frame
  <2> HIDE DEF Answers
  <2> QED BY <2>2, <2>4, <2>5 DEF AnswersSome
<1>6. ASSUME Finish PROVE AnswersSome
  <2>1. CASE FinishesWith("none", NoRows)
    <3>1. Answers("none", NoRows) /\ rows_read' = rows_read + Height /\ got = NoRows /\ got = <<>>
      BY <2>1 DEF FinishesWith, NoRows
    <3>2. Frame = NoRows
      BY <3>1 DEF Frame
    <3> HIDE DEF Answers
    <3> QED BY <3>1, <3>2 DEF AnswersSome
  <2>2. CASE FinishesWith("frame", Frame)
    <3>1. Answers("frame", Frame) /\ rows_read' = rows_read + Height /\ got # <<>>
      BY <2>2 DEF FinishesWith
    <3>2. Frame \in {NoRows, got}
      BY DEF Frame
    <3> HIDE DEF Answers
    <3> QED BY <3>1, <3>2 DEF AnswersSome
  <2> QED BY <1>6, <2>1, <2>2, FinishIs
<1>7. AnswersSome => ~Untouched /\ ~Gathers
  <2> SUFFICES ASSUME AnswersSome PROVE out' # out
    BY DEF Untouched, Gathers
  <2>1. PICK kind, rows : out' = Append(out, Answer(kind, rows))
    BY DEF AnswersSome
  <2>2. out \in Seq(Results) /\ Len(out) \in Nat
    BY DEF Typed
  <2> DEFINE r == Answer(kind, rows)
  <2> HIDE DEF r
  <2>3. Len(Append(out, r)) = Len(out) + 1
    BY <2>2
  <2> QED BY <2>1, <2>2, <2>3 DEF r
<1> QED BY <1>1, <1>2, <1>3, <1>4, <1>5, <1>6, <1>7 DEF SomeStep

(* A frame without columns has no height.                                  *)
LEMMA HeightIs ==
  ASSUME Typed
  PROVE  Height \in Nat /\ Height <= Len(got)
         /\ (options.columns # "none" => Height = Len(got))
         /\ (options.columns = "none" => Height = 0)
BY Sources DEF Height

(* Nothing about the file or the request ever changes.                     *)
LEMMA Unmoved ==
  ASSUME source' = source, options' = options
  PROVE  /\ E1' = E1 /\ file' = file /\ AllRecords' = AllRecords /\ Refused' = Refused
         /\ RequestOK(source, options)' = RequestOK(source, options)
BY DEF E1, file, AllRecords, Refused, RequestOK

(* Passing over a record.                                                  *)
LEMMA RowPassed ==
  ASSUME NEW f, NEW r \in Readers, Stands(f, r), r.idx < Len(r.spans),
         NEW t, t = [r EXCEPT !.idx = r.idx + 1]
  PROVE  /\ t \in Readers /\ Stands(f, t)
         /\ t.idx = r.idx + 1 /\ t.at = r.at /\ t.pos = r.pos /\ t.spans = r.spans
         /\ t.flag = r.flag /\ t.detected = r.detected /\ t.exhausted = r.exhausted
         /\ t.last_blob = r.last_blob
<1>1. r.idx \in Nat /\ Len(r.spans) \in Nat /\ r.spans \in Seq(Seq(Nat))
  BY DEF Readers
<1> DEFINE k == r.idx + 1
<1>5. k \in Nat /\ t = [r EXCEPT !.idx = k]
  BY <1>1
<1> HIDE DEF k
<1>6. t \in Readers /\ t.idx = k
  BY <1>5 DEF Readers
<1>2. /\ t \in Readers
      /\ t.idx = r.idx + 1 /\ t.at = r.at /\ t.pos = r.pos /\ t.spans = r.spans
      /\ t.flag = r.flag /\ t.detected = r.detected /\ t.exhausted = r.exhausted
      /\ t.last_blob = r.last_blob /\ t.blobs = r.blobs
  BY <1>5, <1>6 DEF Readers, k
<1>3. t.idx <= Len(t.spans) /\ r.idx < Len(r.spans)
  BY <1>1, <1>2
<1>4. Stands(f, t)
  BY <1>2, <1>3 DEF Stands
<1> QED BY <1>2, <1>4

(* Types, and where the reader stands.                                     *)
LEMMA TypedNext ==
  ASSUME Typed, Standing, Calling, SomeStep, source' = source, options' = options
  PROVE  Typed' /\ Standing'
<1>1. E1' = E1 /\ file' = file /\ RequestOK(source, options)'
  BY Unmoved DEF Typed
<1>2. got \in Seq(Row) /\ out \in Seq(Results) /\ rows_read \in Nat /\ want \in Nat
      /\ state \in {"idle", "reading", "done"}
  BY DEF Typed
<1>3. Height \in Nat
  BY HeightIs
<1>4. out' \in Seq(Results) /\ got' \in Seq(Row) /\ rows_read' \in Nat
  <2>1. CASE Untouched
    BY <1>2, <2>1, StepsAnswer DEF Untouched
  <2>2. CASE Gathers
    BY <1>2, <2>2, StepsAnswer, AppendProperties DEF Gathers
  <2>3. CASE AnswersSome
    <3>1. PICK kind \in {"none", "error", "frame"}, rows \in {NoRows, got} :
            /\ Answers(kind, rows)
            /\ rows_read' = rows_read + (IF kind = "error" THEN 0 ELSE Height)
      BY <2>3 DEF AnswersSome
    <3>2. rows \in Seq(Row)
      BY <1>2, <3>1, NoRowsType
    <3> DEFINE r == Answer(kind, rows)
    <3>3. r \in Results
      BY <3>2, AnswerType
    <3>4. out' = Append(out, r) /\ got' = NoRows
      BY <3>1 DEF Answers, NoRows
    <3> HIDE DEF r
    <3>5. out' \in Seq(Results)
      BY <1>2, <3>3, <3>4, AppendProperties
    <3>6. rows_read' \in Nat
      BY <1>2, <1>3, <3>1
    <3> QED BY <3>4, <3>5, <3>6, NoRowsType
  <2> QED BY <2>1, <2>2, <2>3, StepsAnswer
<1>5. state' \in {"idle", "reading", "done"} /\ want' \in Nat
  <2>1. CASE Starts
    <3>1. state' = "reading" /\ ~AtEnd
          /\ want' = IF E1 THEN Min({EffectiveBatch, Len(file.recs) - reader}) ELSE EffectiveBatch
      BY <2>1 DEF Starts
    <3>2. EffectiveBatch \in Nat
      BY BatchIs
    <3>3. CASE E1
      <4> DEFINE l == Len(file.recs) - reader
      <4>1. l \in Nat
        <5>1. reader \in Nat /\ Len(file.recs) \in Nat /\ ~(reader >= Len(file.recs))
          BY <3>1, <3>3, Sources DEF AtEnd
        <5> QED BY <5>1
      <4> HIDE DEF l
      <4>2. Min({EffectiveBatch, l}) \in Nat
        BY <3>2, <4>1, MinOfTwo
      <4> QED BY <3>1, <3>3, <4>2 DEF l
    <3>4. CASE ~E1
      BY <3>1, <3>2, <3>4
    <3> QED BY <3>1, <3>3, <3>4
  <2>2. CASE Idles \/ TakesE1 \/ Turns \/ TakesE2
    BY <1>2, <2>2 DEF Idles, TakesE1, Turns, TakesE2
  <2>3. CASE Ends \/ Refuses \/ FailsE1 \/ Stumbles \/ FailsE2
    <3>1. Return("none", <<>>) \/ Return("error", <<>>)
      BY <2>3 DEF Ends, Refuses, FailsE1, Stumbles, FailsE2
    <3> QED BY <3>1 DEF Return
  <2>4. CASE Finish
    <3>1. \E kind, rows : Answers(kind, rows)
      BY <2>4, FinishIs DEF FinishesWith
    <3> QED BY <3>1 DEF Answers
  <2> QED BY <2>1, <2>2, <2>3, <2>4 DEF SomeStep
<1>6. /\ IF E1 THEN reader' \in Nat ELSE reader' \in Readers
      /\ ~E1 => Stands(file, reader')
  <2>1. CASE reader' = reader
    BY <2>1 DEF Typed, Standing
  <2>2. CASE E1 /\ reader' = reader + 1
    BY <2>2, Sources
  <2>3. ASSUME NEW ok, AtBlock(ok) PROVE ~E1 /\ reader' \in Readers /\ Stands(file, reader')
    <3> DEFINE f == file
               r == reader
    <3>1. FileOK(f) /\ r \in Readers /\ Stands(f, r) /\ r.idx = Len(r.spans)
      BY <2>3, Sources DEF Standing, AtBlock
    <3>2. ~E1 /\ Turn(f, r, Landing(f, r.pos), ok, reader')
      BY <2>3 DEF AtBlock
    <3> HIDE DEF f, r
    <3>3. reader' \in Readers /\ Stands(f, reader')
      BY <3>1, <3>2, TurnStands
    <3> QED BY <3>2, <3>3 DEF f
  <2>4. ASSUME AtRow PROVE ~E1 /\ reader' \in Readers /\ Stands(file, reader')
    <3> DEFINE f == file
               r == reader
    <3>1. r \in Readers /\ Stands(f, r) /\ r.idx < Len(r.spans)
          /\ reader' = [r EXCEPT !.idx = r.idx + 1] /\ ~E1
      BY <2>4, Sources DEF Standing, AtRow
    <3> HIDE DEF f, r
    <3>2. reader' \in Readers /\ Stands(f, reader')
      BY <3>1, RowPassed
    <3> QED BY <3>1, <3>2 DEF f
  <2>5. CASE Idles \/ Starts \/ Ends \/ Refuses \/ Finish
    BY <2>1, <2>5 DEF Idles, Starts, Ends, Refuses, Finish
  <2>6. CASE TakesE1 \/ FailsE1
    BY <2>2, <2>6 DEF TakesE1, FailsE1
  <2>7. CASE Turns \/ Stumbles
    BY <2>3, <2>7 DEF Turns, Stumbles
  <2>8. CASE TakesE2 \/ FailsE2
    BY <2>4, <2>8 DEF TakesE2, FailsE2
  <2> QED BY <2>5, <2>6, <2>7, <2>8 DEF SomeStep
<1>7. Typed'
  BY <1>1, <1>4, <1>5, <1>6 DEF Typed
<1>8. Standing'
  BY <1>1, <1>6 DEF Standing
<1> QED BY <1>7, <1>8

(* A call under way wants a record, and no more than there are.            *)
LEMMA CallingNext ==
  ASSUME Typed, Standing, Calling, SomeStep, source' = source, options' = options
  PROVE  Calling'
<1>1. E1' = E1 /\ file' = file /\ Refused' = Refused
  BY Unmoved
<1>2. got \in Seq(Row) /\ Len(got) \in Nat /\ want \in Nat /\ state \in {"idle", "reading", "done"}
      /\ (E1 => reader \in Nat /\ Len(file.recs) \in Nat)
  BY Sources DEF Typed
<1>3. /\ state = "reading" => ~Refused /\ want >= 1 /\ Len(got) <= want
      /\ state # "reading" => got = <<>>
      /\ E1 => reader + (IF state = "reading" THEN want - Len(got) ELSE 0) <= Len(file.recs)
  BY DEF Calling
<1>4. SUFFICES
        /\ state' = "reading" => ~Refused /\ want' >= 1 /\ Len(got') <= want'
        /\ state' # "reading" => got' = <<>>
        /\ E1 => reader' + (IF state' = "reading" THEN want' - Len(got') ELSE 0) <= Len(file.recs)
  BY <1>1 DEF Calling
<1>5. CASE Idles
  BY <1>2, <1>3, <1>5 DEF Idles
<1>6. CASE Starts
  <2>1. /\ ~AtEnd /\ ~Refused /\ state' = "reading" /\ got' = <<>> /\ reader' = reader
        /\ want' = IF E1 THEN Min({EffectiveBatch, Len(file.recs) - reader}) ELSE EffectiveBatch
    BY <1>3, <1>6 DEF Starts
  <2>2. EffectiveBatch \in Nat /\ EffectiveBatch # 0 /\ (E1 => ~(reader >= Len(file.recs)))
    BY <2>1, BatchIs DEF AtEnd
  <2> DEFINE l == Len(file.recs) - reader
  <2>3. Len(got') = 0
    BY <2>1
  <2>4. CASE E1
    <3>1. l \in Nat /\ l # 0 /\ reader + l = Len(file.recs)
      BY <1>2, <2>2, <2>4
    <3> HIDE DEF l
    <3>2. Min({EffectiveBatch, l}) \in {EffectiveBatch, l} /\ Min({EffectiveBatch, l}) <= l
      BY <2>2, <3>1, MinOfTwo
    <3>3. want' \in Nat /\ want' >= 1 /\ want' <= l
      BY <2>1, <2>2, <2>4, <3>1, <3>2 DEF l
    <3> QED BY <1>2, <2>1, <2>3, <3>1, <3>3, <2>4
  <2>5. CASE ~E1
    BY <2>1, <2>2, <2>3, <2>5
  <2> QED BY <2>4, <2>5
<1>7. CASE Ends \/ Refuses \/ FailsE1 \/ Stumbles \/ FailsE2
  <2>1. state' # "reading" /\ got' = <<>>
    <3>1. Return("none", <<>>) \/ Return("error", <<>>)
      BY <1>7 DEF Ends, Refuses, FailsE1, Stumbles, FailsE2
    <3> QED BY <3>1 DEF Return
  <2>2. E1 => reader' <= Len(file.recs)
    <3> SUFFICES ASSUME E1 PROVE reader' <= Len(file.recs)
      OBVIOUS
    <3>1. CASE Ends \/ Refuses
      <4>1. state = "idle" /\ reader' = reader
        BY <3>1 DEF Ends, Refuses
      <4> QED BY <1>2, <1>3, <4>1
    <3>2. CASE FailsE1
      <4>1. state = "reading" /\ Len(got) < want /\ reader' = reader + 1
        BY <3>2 DEF FailsE1, Busy
      <4> QED BY <1>2, <1>3, <4>1
    <3> QED BY <1>7, <3>1, <3>2 DEF Stumbles, FailsE2, AtBlock, AtRow
  <2>3. E1 => reader' + 0 = reader'
    <3> SUFFICES ASSUME E1 PROVE reader' \in Nat
      OBVIOUS
    <3> QED BY <1>1, <1>7, TypedNext DEF Typed
  <2> QED BY <2>1, <2>2, <2>3
<1>8. CASE Finish
  <2>1. state = "reading" /\ reader' = reader
    BY <1>8 DEF Finish
  <2>2. \E kind, rows : Answers(kind, rows) /\ kind # "reading"
    BY <1>8, FinishIs DEF FinishesWith
  <2>3. state' # "reading" /\ got' = <<>>
    BY <2>2 DEF Answers
  <2> QED BY <1>2, <1>3, <2>1, <2>3
<1>9. CASE TakesE1
  <2>1. /\ state = "reading" /\ Len(got) < want /\ state' = state /\ want' = want
        /\ reader' = reader + 1
        /\ got' = Append(got, [at |-> 0, n |-> reader + 1, v |-> <<>>])
    BY <1>9 DEF TakesE1, Busy
  <2> DEFINE row == [at |-> 0, n |-> reader + 1, v |-> <<>>]
  <2> HIDE DEF row
  <2>2. Len(Append(got, row)) = Len(got) + 1
    BY <1>2
  <2>3. Len(got') = Len(got) + 1
    BY <2>1, <2>2 DEF row
  <2> QED BY <1>2, <1>3, <2>1, <2>3
<1>10. CASE TakesE2
  <2>1. /\ state = "reading" /\ Len(got) < want /\ state' = state /\ want' = want /\ ~E1
    BY <1>10 DEF TakesE2, AtRow, Busy
  <2>2. PICK row : got' = Append(got, row)
    BY <1>10 DEF TakesE2
  <2>3. Len(got') = Len(got) + 1
    BY <1>2, <2>2
  <2> QED BY <1>2, <1>3, <2>1, <2>3
<1>11. CASE Turns
  BY <1>2, <1>3, <1>11 DEF Turns, AtBlock
<1> QED BY <1>5, <1>6, <1>7, <1>8, <1>9, <1>10, <1>11 DEF SomeStep

-----------------------------------------------------------------------------
(* What has been handed out, and what is being gathered.                   *)
TakenOf(o, g) == Rows(o) \o g

Begins(t, s) == Len(t) <= Len(s) /\ \A k \in 1..Len(t) : t[k] = s[k]

Extends(t, s, x) ==
  Len(t) = Len(s) + 1 /\ t[Len(t)] = x /\ \A k \in 1..Len(s) : t[k] = s[k]

(* What was taken is what was returned, then what is being gathered.       *)
LEMMA TakenType ==
  ASSUME NEW o \in Seq(Results), NEW g \in Seq(Row)
  PROVE  /\ TakenOf(o, g) \in Seq(Row) /\ Rows(o) \in Seq(Row)
         /\ Len(TakenOf(o, g)) = Len(Rows(o)) + Len(g)
         /\ Len(Rows(o)) \in Nat /\ Len(g) \in Nat
         /\ Begins(Rows(o), TakenOf(o, g))
<1> DEFINE x == Rows(o)
<1>1. x \in Seq(Row)
  <2> DEFINE r == Answer("none", NoRows)
  <2>1. r \in Results
    BY AnswerType, NoRowsType
  <2> HIDE DEF r
  <2> QED BY <2>1, RowsAppend
<1>2. TakenOf(o, g) = x \o g
  BY DEF TakenOf
<1> HIDE DEF x
<1>3. /\ x \o g \in Seq(Row) /\ Len(x) \in Nat /\ Len(g) \in Nat
      /\ Len(x \o g) = Len(x) + Len(g)
      /\ \A i \in 1..Len(x) : (x \o g)[i] = x[i]
  BY <1>1, ConcatAt
<1>4. Begins(x, x \o g)
  BY <1>3 DEF Begins
<1> QED BY <1>1, <1>2, <1>3, <1>4 DEF x

(* A row that is gathered comes last ...                                   *)
LEMMA TakenGathers ==
  ASSUME NEW o \in Seq(Results), NEW g \in Seq(Row), NEW x \in Row
  PROVE  Extends(TakenOf(o, Append(g, x)), TakenOf(o, g), x)
<1> DEFINE a == Rows(o)
           b == Append(g, x)
           s == TakenOf(o, g)
           t == TakenOf(o, b)
<1>1. a \in Seq(Row) /\ b \in Seq(Row) /\ Len(b) = Len(g) + 1 /\ b[Len(g) + 1] = x
      /\ Len(g) \in Nat /\ \A k \in 1..Len(g) : b[k] = g[k]
  BY TakenType, AppendProperties
<1>2. s = a \o g /\ t = a \o b
  BY DEF TakenOf
<1> HIDE DEF a, b, s, t
<1>3. /\ s \in Seq(Row) /\ Len(a) \in Nat /\ Len(s) = Len(a) + Len(g)
      /\ \A i \in 1..Len(a) : s[i] = a[i]
      /\ \A i \in 1..Len(g) : s[Len(a) + i] = g[i]
  <2>1. /\ a \o g \in Seq(Row) /\ Len(a) \in Nat /\ Len(a \o g) = Len(a) + Len(g)
        /\ \A i \in 1..Len(a) : (a \o g)[i] = a[i]
        /\ \A i \in 1..Len(g) : (a \o g)[Len(a) + i] = g[i]
    BY <1>1, ConcatAt
  <2> QED BY <1>2, <2>1
<1>4. /\ t \in Seq(Row) /\ Len(t) = Len(a) + Len(b)
      /\ \A i \in 1..Len(a) : t[i] = a[i]
      /\ \A i \in 1..Len(b) : t[Len(a) + i] = b[i]
  <2>1. /\ a \o b \in Seq(Row) /\ Len(a \o b) = Len(a) + Len(b)
        /\ \A i \in 1..Len(a) : (a \o b)[i] = a[i]
        /\ \A i \in 1..Len(b) : (a \o b)[Len(a) + i] = b[i]
    <3>1. a \in Seq(Row) /\ b \in Seq(Row)
      BY <1>1
    <3> QED BY <3>1, ConcatAt
  <2> QED BY <1>2, <2>1
<1>5. Len(t) = Len(s) + 1 /\ Len(t) = Len(a) + (Len(g) + 1) /\ Len(g) + 1 \in 1..Len(b)
  BY <1>1, <1>3, <1>4
<1>6. t[Len(t)] = x
  BY <1>1, <1>4, <1>5
<1>7. ASSUME NEW k \in 1..Len(s) PROVE t[k] = s[k]
  <2>1. CASE k \in 1..Len(a)
    BY <1>3, <1>4, <2>1
  <2>2. CASE k \notin 1..Len(a)
    <3> DEFINE i == k - Len(a)
    <3>1. i \in 1..Len(g) /\ i \in 1..Len(b) /\ k = Len(a) + i
      BY <1>1, <1>3, <1>4, <2>2
    <3> HIDE DEF i
    <3> QED BY <1>1, <1>3, <1>4, <3>1
  <2> QED BY <2>1, <2>2
<1> QED BY <1>5, <1>6, <1>7 DEF Extends, s, t, b

(* ... and an answer drops rows at the end, or none.                       *)
LEMMA TakenAnswers ==
  ASSUME NEW o \in Seq(Results), NEW g \in Seq(Row),
         NEW kind \in {"none", "error", "frame"}, NEW rows \in {NoRows, g}
  PROVE  LET t == TakenOf(Append(o, Answer(kind, rows)), <<>>)
         IN /\ t = TakenOf(o, rows) /\ t = Rows(Append(o, Answer(kind, rows)))
            /\ Len(t) = Len(Rows(o)) + Len(rows)
            /\ Begins(t, TakenOf(o, g))
<1> DEFINE r == Answer(kind, rows)
           a == Rows(o)
           u == Append(o, r)
           t == TakenOf(u, <<>>)
<1>1. rows \in Seq(Row)
  BY NoRowsType
<1>2. r \in Results /\ r.rows = rows
  BY <1>1, AnswerType
<1> HIDE DEF r
<1>3. a \in Seq(Row) /\ Rows(u) = a \o rows
  BY <1>2, RowsAppend
<1> HIDE DEF a, u
<1>4. a \o rows \in Seq(Row) /\ Len(a \o rows) = Len(a) + Len(rows)
  BY <1>1, <1>3, ConcatAt
<1>5. t = Rows(u)
  <2>1. t = Rows(u) \o <<>>
    BY DEF TakenOf
  <2> DEFINE z == Rows(u)
  <2>2. z \in Seq(Row)
    BY <1>3, <1>4
  <2> HIDE DEF z
  <2>3. z \o <<>> = z
    BY <2>2
  <2> QED BY <2>1, <2>3 DEF z
<1>6. t = TakenOf(o, rows)
  BY <1>3, <1>5 DEF TakenOf, a
<1> HIDE DEF t
<1>7. Begins(t, TakenOf(o, g))
  <2>1. CASE rows = g
    <3>1. t = TakenOf(o, g) /\ Len(t) \in Nat
      BY <1>3, <1>4, <1>5, <1>6, <2>1
    <3> QED BY <3>1 DEF Begins
  <2>2. CASE rows = NoRows
    <3>1. t = a
      <4>1. t = a \o <<>>
        BY <1>3, <1>5, <2>2 DEF NoRows
      <4>2. a \o <<>> = a
        BY <1>3
      <4> QED BY <4>1, <4>2
    <3>2. Begins(a, TakenOf(o, g))
      BY TakenType DEF a
    <3> QED BY <3>1, <3>2
  <2> QED BY <2>1, <2>2
<1>8. t = Rows(u) /\ t = TakenOf(o, rows) /\ Len(t) = Len(a) + Len(rows)
  BY <1>3, <1>4, <1>5, <1>6
<1> QED BY <1>7, <1>8 DEF a, u, r, t

(* Rows in file order, none behind the place `here`.                       *)
InOrder(rows, here) ==
  /\ \A k \in 1..(Len(rows) - 1) : Before(rows[k], rows[k + 1])
  /\ \A k \in 1..Len(rows) : ~Before(here, rows[k])

(* The parts of gathered rows.                                             *)
LEMMA RowFacts ==
  ASSUME NEW rows \in Seq(Row)
  PROVE  /\ Len(rows) \in Nat
         /\ \A k \in 1..Len(rows) : rows[k] \in Row /\ rows[k].at \in Nat /\ rows[k].n \in Nat
<1>1. \A k \in 1..Len(rows) : rows[k] \in Row
  BY ElementOfSeq
<1>2. \A x \in Row : x.at \in Nat /\ x.n \in Nat
  BY DEF Row
<1> QED BY <1>1, <1>2

(* Rows dropped at the end, a reader that moved on, and a row that         *)
(* follows.                                                                *)
LEMMA InOrderBegins ==
  ASSUME NEW s \in Seq(Row), NEW t \in Seq(Row), NEW here, Begins(t, s), InOrder(s, here)
  PROVE  InOrder(t, here)
<1>1. Len(t) \in Nat /\ Len(s) \in Nat /\ Len(t) <= Len(s) /\ \A k \in 1..Len(t) : t[k] = s[k]
  BY DEF Begins
<1>2. ASSUME NEW k \in 1..(Len(t) - 1) PROVE Before(t[k], t[k + 1])
  <2>1. k \in 1..Len(t) /\ k + 1 \in 1..Len(t) /\ k \in 1..(Len(s) - 1)
    BY <1>1
  <2> QED BY <1>1, <2>1 DEF InOrder
<1>3. ASSUME NEW k \in 1..Len(t) PROVE ~Before(here, t[k])
  <2>1. k \in 1..Len(s)
    BY <1>1
  <2> QED BY <1>1, <2>1 DEF InOrder
<1> QED BY <1>2, <1>3 DEF InOrder

(* Rows in order before one place are in order before every later one.     *)
LEMMA InOrderLater ==
  ASSUME NEW s \in Seq(Row), NEW here \in Places, NEW there \in Places, InOrder(s, here),
         ~Before(there, here)
  PROVE  InOrder(s, there)
<1>1. here.at \in Nat /\ here.n \in Nat /\ there.at \in Nat /\ there.n \in Nat
  BY DEF Places
<1>2. ASSUME NEW k \in 1..Len(s) PROVE ~Before(there, s[k])
  <2>1. s[k].at \in Nat /\ s[k].n \in Nat
    BY RowFacts
  <2>2. ~Before(here, s[k])
    BY DEF InOrder
  <2> QED BY <1>1, <2>1, <2>2 DEF Before
<1> QED BY <1>2 DEF InOrder

(* Rows stay in order when the next one is behind them all.                *)
LEMMA InOrderExtends ==
  ASSUME NEW s \in Seq(Row), NEW t \in Seq(Row), NEW x \in Row, NEW here \in Places,
         NEW there \in Places, there.at = x.at, there.n = x.n,
         Extends(t, s, x), InOrder(s, here), Before(here, x)
  PROVE  InOrder(t, there)
<1> DEFINE m == Len(s)
<1>1. /\ here.at \in Nat /\ here.n \in Nat /\ there.at \in Nat /\ there.n \in Nat
      /\ x.at \in Nat /\ x.n \in Nat
  BY DEF Places, Row
<1>2. m \in Nat /\ Len(t) = m + 1 /\ t[m + 1] = x /\ \A k \in 1..m : t[k] = s[k]
  BY DEF Extends
<1>3. \A k \in 1..m : s[k].at \in Nat /\ s[k].n \in Nat
  BY RowFacts
<1>4. (\A k \in 1..(m - 1) : Before(s[k], s[k + 1])) /\ \A k \in 1..m : ~Before(here, s[k])
  BY DEF InOrder
<1> HIDE DEF m
<1>5. \A k \in 1..m : Before(s[k], x)
  BY <1>1, <1>3, <1>4 DEF Before
<1>6. \A k \in 1..m : ~Before(there, s[k])
  BY <1>1, <1>3, <1>5 DEF Before
<1>7. ~Before(there, x)
  BY <1>1 DEF Before
<1>8. ASSUME NEW k \in 1..(Len(t) - 1) PROVE Before(t[k], t[k + 1])
  <2>1. k \in 1..m
    BY <1>2
  <2>2. CASE k = m
    BY <1>2, <1>5, <2>1, <2>2
  <2>3. CASE k # m
    <3>1. k + 1 \in 1..m /\ k \in 1..(m - 1)
      BY <1>2, <2>1, <2>3
    <3> QED BY <1>2, <1>4, <2>1, <3>1
  <2> QED BY <2>2, <2>3
<1>9. ASSUME NEW k \in 1..Len(t) PROVE ~Before(there, t[k])
  <2>1. k \in 1..m \/ k = m + 1
    BY <1>2
  <2> QED BY <1>2, <1>6, <1>7, <2>1
<1> QED BY <1>8, <1>9 DEF InOrder

(* Rows that are the first ones of a list of places.                       *)
Matches(rows, all) ==
  /\ Len(rows) <= Len(all)
  /\ \A k \in 1..Len(rows) : all[k] = [at |-> rows[k].at, n |-> rows[k].n]

(* Rows dropped at the end, and a row that follows.                        *)
LEMMA MatchesBegins ==
  ASSUME NEW s \in Seq(Row), NEW t \in Seq(Row), NEW all \in Seq(Places), Begins(t, s),
         Matches(s, all)
  PROVE  Matches(t, all)
<1>1. Len(t) \in Nat /\ Len(s) \in Nat /\ Len(all) \in Nat
      /\ Len(t) <= Len(s) /\ \A k \in 1..Len(t) : t[k] = s[k]
  BY DEF Begins
<1>2. Len(s) <= Len(all) /\ \A k \in 1..Len(s) : all[k] = [at |-> s[k].at, n |-> s[k].n]
  BY DEF Matches
<1>3. Len(t) <= Len(all)
  BY <1>1, <1>2
<1>4. ASSUME NEW k \in 1..Len(t) PROVE all[k] = [at |-> t[k].at, n |-> t[k].n]
  <2>1. k \in 1..Len(s)
    BY <1>1
  <2> QED BY <1>1, <1>2, <2>1
<1> QED BY <1>3, <1>4 DEF Matches

(* Rows match the records of the file one by one, the next row the next    *)
(* record.                                                                 *)
LEMMA MatchesExtends ==
  ASSUME NEW s \in Seq(Row), NEW t \in Seq(Row), NEW x \in Row, NEW all \in Seq(Places),
         Extends(t, s, x), Matches(s, all), Len(s) + 1 <= Len(all),
         all[Len(s) + 1] = [at |-> x.at, n |-> x.n]
  PROVE  Matches(t, all)
<1> DEFINE m == Len(s)
<1>1. m \in Nat /\ Len(t) = m + 1 /\ t[m + 1] = x /\ \A k \in 1..m : t[k] = s[k]
  BY DEF Extends
<1>2. \A k \in 1..m : all[k] = [at |-> s[k].at, n |-> s[k].n]
  BY DEF Matches
<1>3. Len(t) <= Len(all) /\ all[m + 1] = [at |-> x.at, n |-> x.n]
  BY <1>1
<1> HIDE DEF m
<1>4. ASSUME NEW k \in 1..Len(t) PROVE all[k] = [at |-> t[k].at, n |-> t[k].n]
  <2>1. k \in 1..m \/ k = m + 1
    BY <1>1
  <2> QED BY <1>1, <1>2, <1>3, <2>1
<1> QED BY <1>3, <1>4 DEF Matches

(* ... which is what RowsAreExact says of the sure rows.                   *)
LEMMA MatchesIs ==
  ASSUME NEW rows \in Seq(Row), NEW all \in Seq(Places), Matches(rows, all)
  PROVE  Positions(rows) = SubSeq(all, 1, Len(rows))
<1> DEFINE m == Len(rows)
           c == SubSeq(all, 1, m)
           p == Positions(rows)
<1>1. m \in Nat /\ m <= Len(all) /\ Len(all) \in Nat /\ DOMAIN rows = 1..m
      /\ \A k \in 1..m : all[k] = [at |-> rows[k].at, n |-> rows[k].n]
  BY DEF Matches
<1>2. p = [k \in 1..m |-> [at |-> rows[k].at, n |-> rows[k].n]]
  BY <1>1 DEF Positions
<1>3. \A k \in 1..m : [at |-> rows[k].at, n |-> rows[k].n] \in Places
  BY RowFacts DEF Places
<1> HIDE DEF m, p
<1>4. p \in [1..m -> Places]
  BY <1>2, <1>3
<1>5. p \in Seq(Places) /\ Len(p) = m
  BY <1>1, <1>4
<1>6. \A k \in 1..m : p[k] = all[k]
  BY <1>1, <1>2
<1>7. c \in Seq(Places) /\ Len(c) = (IF 1 <= m THEN m - 1 + 1 ELSE 0)
      /\ \A k \in 1..m - 1 + 1 : c[k] = all[1 + k - 1]
  <2>1. \A k \in 1..m : all[k] \in Places
    BY <1>1, <1>3
  <2>2. 1 \in Int /\ m \in Int
    BY <1>1
  <2> QED BY <2>1, <2>2, SubSeqProperties
<1> HIDE DEF c
<1>8. Len(c) = m
  BY <1>1, <1>7
<1>9. ASSUME NEW k \in 1..m PROVE p[k] = c[k]
  <2>1. k \in 1..m - 1 + 1 /\ 1 + k - 1 = k
    BY <1>1
  <2> QED BY <1>6, <1>7, <2>1
<1>10. p = c
  BY <1>5, <1>7, <1>8, <1>9, SeqEqual
<1> QED BY <1>10 DEF p, c, m

AllRead(f, rows, flag) == \A k \in 1..Len(rows) : ReadsAs(f, rows[k], flag)

(* The same for the values of the rows.                                    *)
LEMMA AllReadBegins ==
  ASSUME NEW s \in Seq(Row), NEW t \in Seq(Row), NEW f, NEW flag, Begins(t, s),
         AllRead(f, s, flag)
  PROVE  AllRead(f, t, flag)
<1>1. Len(t) \in Nat /\ Len(s) \in Nat /\ Len(t) <= Len(s) /\ \A k \in 1..Len(t) : t[k] = s[k]
  BY DEF Begins
<1>2. ASSUME NEW k \in 1..Len(t) PROVE ReadsAs(f, t[k], flag)
  <2>1. k \in 1..Len(s) /\ t[k] = s[k]
    BY <1>1
  <2>2. ReadsAs(f, s[k], flag)
    BY <2>1 DEF AllRead
  <2> QED BY <2>1, <2>2
<1> QED BY <1>2 DEF AllRead

(* What every row is, every row and the next one is.                       *)
LEMMA AllReadExtends ==
  ASSUME NEW s \in Seq(Row), NEW t \in Seq(Row), NEW x, NEW f, NEW flag,
         Extends(t, s, x), AllRead(f, s, flag), ReadsAs(f, x, flag)
  PROVE  AllRead(f, t, flag)
<1>1. Len(s) \in Nat /\ Len(t) = Len(s) + 1 /\ t[Len(s) + 1] = x
      /\ \A k \in 1..Len(s) : t[k] = s[k]
  BY DEF Extends
<1>2. ASSUME NEW k \in 1..Len(t) PROVE ReadsAs(f, t[k], flag)
  <2>1. CASE k \in 1..Len(s)
    <3>1. t[k] = s[k] /\ ReadsAs(f, s[k], flag)
      BY <1>1, <2>1 DEF AllRead
    <3> QED BY <3>1
  <2>2. CASE k \notin 1..Len(s)
    <3>1. k = Len(s) + 1
      BY <1>1, <2>2
    <3>2. t[k] = x
      BY <1>1, <3>1
    <3> QED BY <3>2
  <2> QED BY <2>1, <2>2
<1> QED BY <1>2 DEF AllRead

-----------------------------------------------------------------------------
(* The inductive invariant, second part: how many rows, and in what order. *)
Taken == TakenOf(out, got)

Limits ==
  IF options.columns = "all"
    THEN /\ rows_read = Len(Rows(out))
         /\ options.n_rows # -1 =>
              rows_read + (IF state = "reading" THEN want ELSE 0) <= options.n_rows
    ELSE Rows(out) = <<>>

Here == IF E1 THEN [at |-> 0, n |-> reader] ELSE [at |-> reader.at, n |-> reader.idx]

Ordered ==
  options.columns = "all" =>
    /\ InOrder(Taken, Here)
    /\ ~E1 /\ ~reader.detected => Taken = <<>>

(* An answer hands out what was gathered, or nothing.                      *)
LEMMA AnswerIs ==
  ASSUME Typed, Calling, AnswersSome, options' = options
  PROVE  \E kind \in {"none", "error", "frame"}, rows \in {NoRows, got} :
           /\ out' = Append(out, Answer(kind, rows)) /\ got' = <<>> /\ state' # "reading"
           /\ Answer(kind, rows) \in Results /\ rows \in Seq(Row)
           /\ Rows(out') = TakenOf(out, rows) /\ Taken' = Rows(out')
           /\ Len(Rows(out')) = Len(Rows(out)) + Len(rows)
           /\ Begins(Taken', Taken)
           /\ options.columns # "all" => rows = NoRows
           /\ options.columns = "all" =>
                /\ kind # "error" => rows = got /\ Len(Taken') = Len(Taken)
                /\ rows_read' = rows_read + Len(rows)
           /\ kind = "none" => got = <<>>
           /\ kind = "frame" => got # <<>>
           /\ kind = "error" => rows = NoRows
<1>1. PICK kind \in {"none", "error", "frame"}, rows \in {NoRows, got} :
        /\ Answers(kind, rows)
        /\ kind = "error" => rows = NoRows
        /\ rows_read' = rows_read + (IF kind = "error" THEN 0 ELSE Height)
        /\ kind # "error" => rows = Frame
        /\ kind = "none" => got = <<>>
        /\ kind = "frame" => got # <<>>
  BY DEF AnswersSome
<1>2. out \in Seq(Results) /\ got \in Seq(Row) /\ rows_read \in Nat
      /\ state \in {"idle", "reading", "done"}
  BY DEF Typed
<1>3. rows \in Seq(Row) /\ Answer(kind, rows) \in Results
  BY <1>1, <1>2, NoRowsType, AnswerType, ZenonT(60)
<1>4. out' = Append(out, Answer(kind, rows)) /\ got' = <<>> /\ state' # "reading"
  BY <1>1 DEF Answers
<1>5. /\ TakenOf(Append(out, Answer(kind, rows)), <<>>) = TakenOf(out, rows)
      /\ TakenOf(Append(out, Answer(kind, rows)), <<>>) = Rows(Append(out, Answer(kind, rows)))
      /\ Len(TakenOf(Append(out, Answer(kind, rows)), <<>>)) = Len(Rows(out)) + Len(rows)
      /\ Begins(TakenOf(Append(out, Answer(kind, rows)), <<>>), TakenOf(out, got))
  BY <1>1, <1>2, TakenAnswers
<1>6. /\ Rows(out') = TakenOf(out, rows) /\ Taken' = Rows(out')
      /\ Len(Rows(out')) = Len(Rows(out)) + Len(rows)
      /\ Begins(Taken', Taken)
  BY <1>4, <1>5 DEF Taken
<1>7. Len(Taken) = Len(Rows(out)) + Len(got)
  BY <1>2, TakenType DEF Taken
<1>8. options.columns # "all" => rows = NoRows
  <2> SUFFICES ASSUME options.columns # "all" PROVE rows = NoRows
    OBVIOUS
  <2>1. CASE options.columns = "none"
    BY <1>1, <2>1 DEF Frame
  <2>2. CASE options.columns = "unknown"
    <3>1. Refused
      BY <2>2 DEF Refused
    <3>2. got = NoRows
      BY <3>1 DEF Calling, NoRows
    <3> QED BY <1>1, <3>2
  <2> QED BY <2>1, <2>2, Sources
<1>9. ASSUME options.columns = "all"
      PROVE  /\ kind # "error" => rows = got /\ Len(Taken') = Len(Taken)
             /\ rows_read' = rows_read + Len(rows)
  <2>1. kind # "error" => rows = got
    BY <1>1, <1>9 DEF Frame
  <2>2. Height = Len(got)
    BY <1>9, HeightIs
  <2>3. kind = "error" => Len(rows) = 0
    BY <1>1, NoRowsType
  <2> QED BY <1>1, <1>6, <1>7, <2>1, <2>2, <2>3
<1> QED BY <1>1, <1>3, <1>4, <1>6, <1>8, <1>9

Answering == Ends \/ Refuses \/ Finish \/ FailsE1 \/ Stumbles \/ FailsE2

(* The steps that answer.                                                  *)
LEMMA AnsweringAnswers ==
  ASSUME Typed, Calling, Answering
  PROVE  AnswersSome
<1>1. \E kind, rows : out' = Append(out, Answer(kind, rows))
  <2>1. CASE Finish
    BY <2>1, FinishIs DEF FinishesWith, Answers
  <2>2. CASE Ends \/ Refuses \/ FailsE1 \/ Stumbles \/ FailsE2
    <3>1. Return("none", <<>>) \/ Return("error", <<>>)
      BY <2>2 DEF Ends, Refuses, FailsE1, Stumbles, FailsE2
    <3> QED BY <3>1, ReturnAnswers DEF Answers
  <2> QED BY <2>1, <2>2 DEF Answering
<1>2. PICK kind, rows : out' = Append(out, Answer(kind, rows))
  BY <1>1
<1>3. out' # out
  <2> DEFINE r == Answer(kind, rows)
  <2> HIDE DEF r
  <2>1. Len(Append(out, r)) = Len(out) + 1 /\ Len(out) \in Nat
    BY Sources
  <2> QED BY <1>2, <2>1 DEF r
<1> QED BY <1>3, StepsAnswer DEF Untouched, Gathers, Answering, SomeStep

(* rows_read counts the rows returned and, with what the call under way    *)
(* still wants, does not go past n_rows.                                   *)
LEMMA LimitsNext ==
  ASSUME Typed, Standing, Calling, Limits, SomeStep, source' = source, options' = options
  PROVE  Limits'
<1>1. out \in Seq(Results) /\ got \in Seq(Row) /\ rows_read \in Nat /\ want \in Nat
      /\ state \in {"idle", "reading", "done"} /\ options.n_rows \in Nat \cup {-1}
      /\ Len(got) \in Nat
  BY Sources DEF Typed
<1>2. CASE AnswersSome
  <2>1. PICK kind \in {"none", "error", "frame"}, rows \in {NoRows, got} :
          /\ state' # "reading" /\ rows \in Seq(Row)
          /\ Rows(out') = TakenOf(out, rows)
          /\ Len(Rows(out')) = Len(Rows(out)) + Len(rows)
          /\ options.columns # "all" => rows = NoRows
          /\ options.columns = "all" => rows_read' = rows_read + Len(rows)
    BY <1>2, AnswerIs
  <2>2. CASE options.columns = "all"
    <3>1. rows_read = Len(Rows(out)) /\ rows_read' = rows_read + Len(rows)
      BY <2>1, <2>2 DEF Limits
    <3>2. Len(rows) \in Nat /\ Len(rows) <= Len(got)
      BY <1>1, <2>1, NoRowsType
    <3>3. options.n_rows # -1 => rows_read + Len(got) <= options.n_rows
      <4>1. state = "reading" => Len(got) <= want
        BY DEF Calling
      <4>2. state # "reading" => Len(got) = 0
        BY DEF Calling
      <4> QED BY <1>1, <2>2, <4>1, <4>2 DEF Limits
    <3>4. options.n_rows # -1 => rows_read' + 0 <= options.n_rows
      BY <1>1, <3>1, <3>2, <3>3
    <3> QED BY <2>1, <2>2, <3>1, <3>4 DEF Limits
  <2>3. CASE options.columns # "all"
    <3>1. Rows(out) = <<>> /\ rows = <<>>
      BY <2>1, <2>3 DEF Limits, NoRows
    <3>2. Rows(out') = <<>>
      BY <2>1, <3>1 DEF TakenOf
    <3> QED BY <2>3, <3>2 DEF Limits
  <2> QED BY <2>2, <2>3
<1>3. CASE Starts
  <2>1. /\ state = "idle" /\ ~AtEnd /\ state' = "reading" /\ rows_read' = rows_read /\ out' = out
        /\ want' = IF E1 THEN Min({EffectiveBatch, Len(file.recs) - reader}) ELSE EffectiveBatch
    BY <1>3 DEF Starts
  <2>2. EffectiveBatch \in Nat /\ EffectiveBatch # 0
        /\ (options.n_rows # -1 => EffectiveBatch + rows_read <= options.n_rows)
    BY <2>1, BatchIs DEF AtEnd
  <2>3. want' <= EffectiveBatch /\ want' \in Nat
    <3>1. CASE E1
      <4> DEFINE l == Len(file.recs) - reader
      <4>1. l \in Nat
        <5>1. reader \in Nat /\ Len(file.recs) \in Nat /\ ~(reader >= Len(file.recs))
          BY <2>1, <3>1, Sources DEF AtEnd
        <5> QED BY <5>1
      <4> HIDE DEF l
      <4>2. Min({EffectiveBatch, l}) \in Nat /\ Min({EffectiveBatch, l}) <= EffectiveBatch
        BY <2>2, <4>1, MinOfTwo
      <4> QED BY <2>1, <3>1, <4>2 DEF l
    <3>2. CASE ~E1
      BY <2>1, <2>2, <3>2
    <3> QED BY <3>1, <3>2
  <2>4. options.n_rows # -1 => rows_read + want' <= options.n_rows
    BY <1>1, <2>2, <2>3
  <2> QED BY <2>1, <2>4 DEF Limits
<1>4. CASE Idles \/ Turns \/ TakesE1 \/ TakesE2
  <2>1. /\ out' = out /\ rows_read' = rows_read /\ want' = want
        /\ state' = state \/ (state = "idle" /\ state' = "done")
    BY <1>4 DEF Idles, Turns, TakesE1, TakesE2, AtBlock, AtRow, Busy
  <2>2. Rows(out') = Rows(out)
    BY <2>1
  <2> QED BY <1>1, <2>1, <2>2 DEF Limits
<1>5. CASE Answering
  BY <1>2, <1>5, AnsweringAnswers
<1> QED BY <1>3, <1>4, <1>5 DEF SomeStep, Answering

(* The reader never moves back.                                            *)
LEMMA HereNext ==
  ASSUME Typed, Standing, SomeStep, source' = source, options' = options
  PROVE  /\ Here \in Places /\ Here' \in Places /\ ~Before(Here', Here)
         /\ ~E1 /\ reader.detected => reader'.detected /\ reader'.flag = reader.flag
<1>1. E1' = E1 /\ file' = file
  BY Unmoved
<1>2. CASE E1
  <2>1. reader \in Nat /\ (reader' = reader \/ reader' = reader + 1)
    BY <1>2, Sources DEF SomeStep, Idles, Starts, Ends, Refuses, Finish, TakesE1, FailsE1, Turns,
                         Stumbles, TakesE2, FailsE2, AtBlock, AtRow
  <2>2. Here = [at |-> 0, n |-> reader] /\ Here' = [at |-> 0, n |-> reader']
    BY <1>1, <1>2 DEF Here
  <2>3. reader' \in Nat /\ ~(reader' < reader)
    BY <2>1
  <2> QED BY <1>2, <2>1, <2>2, <2>3 DEF Places, Before
<1>3. CASE ~E1
  <2>1. reader \in Readers /\ Stands(file, reader) /\ FileOK(file)
    BY <1>3, Sources DEF Standing
  <2>2. reader.at \in Nat /\ reader.idx \in Nat
    BY <2>1 DEF Readers
  <2>3. /\ Here = [at |-> reader.at, n |-> reader.idx]
        /\ Here' = [at |-> reader'.at, n |-> reader'.idx]
    BY <1>1, <1>3 DEF Here
  <2>4. SUFFICES /\ reader' \in Readers
                 /\ reader.detected => reader'.detected /\ reader'.flag = reader.flag
                 /\ \/ reader'.at = reader.at /\ reader'.idx >= reader.idx
                    \/ reader'.at > reader.at
    <3>1. reader' \in Readers => reader'.at \in Nat /\ reader'.idx \in Nat
      BY DEF Readers
    <3> QED BY <2>2, <2>3, <2>4, <3>1 DEF Places, Before
  <2>5. CASE reader' = reader
    BY <2>1, <2>2, <2>5
  <2>6. ASSUME NEW ok, AtBlock(ok)
        PROVE  /\ reader' \in Readers
               /\ reader.detected => reader'.detected /\ reader'.flag = reader.flag
               /\ \/ reader'.at = reader.at /\ reader'.idx >= reader.idx
                  \/ reader'.at > reader.at
    <3> DEFINE f == file
               r == reader
               t == reader'
    <3>1. FileOK(f) /\ r \in Readers /\ Stands(f, r) /\ r.idx = Len(r.spans)
          /\ Turn(f, r, Landing(f, r.pos), ok, t)
      BY <2>1, <2>6 DEF AtBlock
    <3> HIDE DEF f, r, t
    <3>2. /\ t \in Readers
          /\ r.detected => t.detected /\ t.flag = r.flag
          /\ \/ t.at = r.at /\ t.idx = r.idx
             \/ t.at > r.at /\ t.idx = 0
      BY <3>1, TurnStands
    <3> QED BY <2>2, <3>2 DEF r, t
  <2>7. CASE AtRow
    <3>1. reader' = [reader EXCEPT !.idx = reader.idx + 1] /\ reader.idx < Len(reader.spans)
      BY <2>7 DEF AtRow
    <3> DEFINE f == file
               r == reader
               t == reader'
    <3>2. r \in Readers /\ Stands(f, r) /\ r.idx < Len(r.spans) /\ t = [r EXCEPT !.idx = r.idx + 1]
      BY <2>1, <3>1
    <3> HIDE DEF f, r, t
    <3>3. /\ t \in Readers /\ t.idx = r.idx + 1 /\ t.at = r.at /\ t.flag = r.flag
          /\ t.detected = r.detected
      BY <3>2, RowPassed
    <3> QED BY <2>2, <3>3 DEF r, t
  <2>8. CASE Idles \/ Starts \/ Ends \/ Refuses \/ Finish
    BY <2>5, <2>8 DEF Idles, Starts, Ends, Refuses, Finish
  <2>9. CASE Turns \/ Stumbles
    BY <2>6, <2>9 DEF Turns, Stumbles
  <2>10. CASE TakesE2 \/ FailsE2
    BY <2>7, <2>10 DEF TakesE2, FailsE2
  <2>11. CASE TakesE1 \/ FailsE1
    BY <1>3, <2>11 DEF TakesE1, FailsE1
  <2> QED BY <2>8, <2>9, <2>10, <2>11 DEF SomeStep
<1> QED BY <1>2, <1>3

(* A row that is gathered is the one after the last record passed.         *)
LEMMA GathersIs ==
  ASSUME Typed, Standing, TakesE1 \/ TakesE2, source' = source, options' = options
  PROVE  \E row \in Row :
           /\ Extends(Taken', Taken, row) /\ out' = out /\ rows_read' = rows_read
           /\ Before(Here, row) /\ Here' = [at |-> row.at, n |-> row.n]
           /\ row.at = Here.at /\ row.n = Here.n + 1
           /\ ~E1 => /\ reader.idx < Len(reader.spans) /\ reader.detected
                     /\ reader' = [reader EXCEPT !.idx = reader.idx + 1]
                     /\ Walks(file, reader) => ReadsAs(file, row, reader.flag)
           /\ E1 => reader' = reader + 1
<1>1. E1' = E1 /\ file' = file
  BY Unmoved
<1>2. out \in Seq(Results) /\ got \in Seq(Row)
  BY DEF Typed
<1>3. ASSUME NEW row \in Row, out' = out, got' = Append(got, row)
      PROVE  Extends(Taken', Taken, row)
  <2>1. Extends(TakenOf(out, Append(got, row)), TakenOf(out, got), row)
    BY <1>2, TakenGathers
  <2> QED BY <1>3, <2>1 DEF Taken
<1>4. CASE TakesE1
  <2> DEFINE row == [at |-> 0, n |-> reader + 1, v |-> <<>>]
  <2>1. reader \in Nat /\ E1 /\ reader' = reader + 1 /\ out' = out /\ got' = Append(got, row)
        /\ rows_read' = rows_read
    BY <1>4, Sources DEF TakesE1, Busy
  <2>2. row \in Row /\ row.at = 0 /\ row.n = reader + 1
    BY <2>1 DEF Row
  <2> HIDE DEF row
  <2>3. Here = [at |-> 0, n |-> reader] /\ Here' = [at |-> 0, n |-> reader + 1]
    BY <1>1, <2>1 DEF Here
  <2>4. Here.at = 0 /\ Here.n = reader
    BY <2>3
  <2>5. Before(Here, row)
    BY <2>1, <2>2, <2>4 DEF Before
  <2> QED BY <1>3, <2>1, <2>2, <2>3, <2>4, <2>5
<1>5. CASE TakesE2
  <2>1. PICK row \in Row :
          /\ got' = Append(got, row)
          /\ row.at = reader.at /\ row.n = reader.idx + 1
          /\ Walks(file, reader) => ReadsAs(file, row, reader.flag)
    BY <1>5 DEF TakesE2
  <2>2. /\ ~E1 /\ out' = out /\ reader.idx < Len(reader.spans) /\ rows_read' = rows_read
        /\ reader' = [reader EXCEPT !.idx = reader.idx + 1]
    BY <1>5 DEF TakesE2, AtRow, Busy
  <2>3. reader \in Readers /\ Stands(file, reader)
    BY <2>2, Sources DEF Standing
  <2>4. reader.at \in Nat /\ reader.idx \in Nat /\ reader.spans \in Seq(Seq(Nat))
    BY <2>3 DEF Readers
  <2>5. reader.detected
    <3>1. reader.spans # <<>>
      BY <2>2, <2>4
    <3> QED BY <2>3, <3>1 DEF Stands
  <2>6. reader'.at = reader.at /\ reader'.idx = reader.idx + 1
    BY <2>2, <2>3 DEF Readers
  <2>7. /\ Here = [at |-> reader.at, n |-> reader.idx]
        /\ Here' = [at |-> reader.at, n |-> reader.idx + 1]
    BY <1>1, <2>2, <2>6 DEF Here
  <2>8. Here.at = reader.at /\ Here.n = reader.idx
    BY <2>7
  <2>9. Before(Here, row)
    BY <2>1, <2>4, <2>8 DEF Before
  <2>10. Extends(Taken', Taken, row)
    BY <1>3, <2>1, <2>2
  <2>11. Here' = [at |-> row.at, n |-> row.n] /\ row.at = Here.at /\ row.n = Here.n + 1
    BY <2>1, <2>7, <2>8
  <2> QED BY <2>1, <2>2, <2>5, <2>9, <2>10, <2>11
<1> QED BY <1>4, <1>5

(* The type of what was taken.                                             *)
LEMMA TakenTypes ==
  ASSUME Typed
  PROVE  Taken \in Seq(Row) /\ Len(Taken) \in Nat /\ Rows(out) \in Seq(Row)
         /\ Begins(Rows(out), Taken) /\ Len(Taken) = Len(Rows(out)) + Len(got)
         /\ Len(Rows(out)) \in Nat /\ Len(got) \in Nat
<1>1. out \in Seq(Results) /\ got \in Seq(Row)
  BY DEF Typed
<1>2. TakenOf(out, got) \in Seq(Row) /\ Rows(out) \in Seq(Row)
      /\ Begins(Rows(out), TakenOf(out, got))
      /\ Len(TakenOf(out, got)) = Len(Rows(out)) + Len(got)
      /\ Len(Rows(out)) \in Nat /\ Len(got) \in Nat
  BY <1>1, TakenType
<1> QED BY <1>2 DEF Taken

(* Rows come in file order, also after errors.                             *)
LEMMA OrderedNext ==
  ASSUME Typed, Standing, Calling, Ordered, SomeStep, source' = source, options' = options
  PROVE  Ordered'
<1> SUFFICES ASSUME options.columns = "all"
             PROVE  /\ InOrder(Taken', Here')
                    /\ ~E1 /\ ~reader'.detected => Taken' = <<>>
  BY Unmoved DEF Ordered
<1>1. InOrder(Taken, Here) /\ (~E1 /\ ~reader.detected => Taken = <<>>)
  BY DEF Ordered
<1>2. Typed'
  BY TypedNext
<1>3. Taken \in Seq(Row) /\ Taken' \in Seq(Row)
  <2>1. out' \in Seq(Results) /\ got' \in Seq(Row)
    BY <1>2 DEF Typed
  <2>2. TakenOf(out', got') \in Seq(Row)
    BY <2>1, TakenType
  <2> QED BY <2>2, TakenTypes DEF Taken
<1>4. Here \in Places /\ Here' \in Places /\ ~Before(Here', Here)
      /\ (~E1 /\ reader.detected => reader'.detected)
  BY HereNext
<1>5. CASE Begins(Taken', Taken)
  <2> DEFINE s == Taken
             t == Taken'
             h == Here
             g == Here'
  <2>1. s \in Seq(Row) /\ t \in Seq(Row) /\ h \in Places /\ g \in Places /\ ~Before(g, h)
        /\ InOrder(s, h) /\ Begins(t, s)
    BY <1>1, <1>3, <1>4, <1>5
  <2> HIDE DEF s, t, h, g
  <2>2. InOrder(t, h)
    BY <2>1, InOrderBegins
  <2>3. InOrder(t, g)
    BY <2>1, <2>2, InOrderLater
  <2>4. s = <<>> => t = <<>>
    <3> SUFFICES ASSUME s = <<>> PROVE t = <<>>
      OBVIOUS
    <3>1. Len(t) <= 0 /\ Len(t) \in Nat
      BY <2>1 DEF Begins
    <3>2. Len(t) = 0
      BY <3>1
    <3> QED BY <2>1, <3>2
  <2> QED BY <1>1, <1>4, <2>3, <2>4 DEF s, t, g
<1>6. CASE Idles \/ Starts \/ Turns
  <2>1. Taken' = Taken
    BY <1>6 DEF Idles, Starts, Turns, Taken
  <2>2. Begins(Taken', Taken)
    BY <1>3, <2>1 DEF Begins
  <2> QED BY <1>5, <2>2
<1>7. CASE Answering
  <2>1. Begins(Taken', Taken)
    BY <1>7, AnsweringAnswers, AnswerIs
  <2> QED BY <1>5, <2>1
<1>8. CASE TakesE1 \/ TakesE2
  <2>1. PICK row \in Row :
           /\ Extends(Taken', Taken, row)
           /\ Before(Here, row) /\ Here' = [at |-> row.at, n |-> row.n]
           /\ ~E1 => reader.detected
    BY <1>8, GathersIs
  <2> DEFINE s == Taken
             t == Taken'
             h == Here
             g == Here'
  <2>2. s \in Seq(Row) /\ t \in Seq(Row) /\ h \in Places /\ g \in Places
        /\ InOrder(s, h) /\ Extends(t, s, row) /\ Before(h, row) /\ g.at = row.at /\ g.n = row.n
    BY <1>1, <1>3, <1>4, <2>1
  <2> HIDE DEF s, t, h, g
  <2>3. InOrder(t, g)
    BY <2>2, InOrderExtends
  <2> QED BY <1>4, <2>1, <2>3 DEF t, g
<1> QED BY <1>6, <1>7, <1>8 DEF SomeStep, Answering

-----------------------------------------------------------------------------
(* The inductive invariant, third part: as long as no call failed, what    *)
(* was taken is what the blocks passed over hold.                          *)
Walked == ~E1 /\ ErrorsIn(out) = {} => Walks(file, reader)

Exact ==
  ErrorsIn(out) = {} /\ options.columns = "all" =>
    /\ Matches(Taken, AllRecords)
    /\ IF E1 THEN Len(Taken) = reader
       ELSE Len(Taken) = Delivered(file, reader) /\ AllRead(file, Taken, reader.flag)

Failing == Refuses \/ FailsE1 \/ Stumbles \/ FailsE2

(* An error is never forgotten, and a failing step leaves one.             *)
LEMMA ErrorsNext ==
  ASSUME Typed, Calling, SomeStep
  PROVE  /\ ErrorsIn(out') = {} => ErrorsIn(out) = {}
         /\ Failing => ErrorsIn(out') # {}
<1>1. out \in Seq(Results)
  BY DEF Typed
<1>2. CASE Untouched \/ Gathers
  <2>1. out' = out /\ ~Failing
    <3>1. out' = out
      BY <1>2 DEF Untouched, Gathers
    <3>2. ASSUME Failing PROVE FALSE
      <4>1. Return("error", <<>>)
        BY <3>2 DEF Failing, Refuses, FailsE1, Stumbles, FailsE2
      <4> DEFINE r == Answer("error", <<>>)
      <4>2. out' = Append(out, r)
        BY <4>1 DEF Return, Answer
      <4> HIDE DEF r
      <4>3. Len(Append(out, r)) = Len(out) + 1 /\ Len(out) \in Nat
        BY <1>1
      <4> QED BY <3>1, <4>2, <4>3
    <3> QED BY <3>1, <3>2
  <2> QED BY <2>1
<1>3. CASE AnswersSome
  <2>1. PICK kind \in {"none", "error", "frame"}, rows \in {NoRows, got} :
          Answers(kind, rows)
    BY <1>3 DEF AnswersSome
  <2> DEFINE r == Answer(kind, rows)
  <2>2. r \in Results /\ r.kind = kind
    <3>1. rows \in Seq(Row)
      BY <2>1, NoRowsType DEF Typed
    <3> QED BY <3>1, AnswerType
  <2>3. out' = Append(out, r) /\ state' = (IF kind = "none" THEN "done" ELSE "idle")
    BY <2>1 DEF Answers
  <2> HIDE DEF r
  <2>4. ErrorsIn(Append(out, r)) = {} <=> ErrorsIn(out) = {} /\ r.kind # "error"
    BY <1>1, <2>2, SureAppend
  <2>5. Failing => r.kind = "error"
    <3> SUFFICES ASSUME Failing PROVE r.kind = "error"
      OBVIOUS
    <3>1. Return("error", <<>>)
      BY DEF Failing, Refuses, FailsE1, Stumbles, FailsE2
    <3> DEFINE q == Answer("error", NoRows)
    <3>2. out' = Append(out, q)
      BY <3>1 DEF Return, Answer, NoRows
    <3>3. q \in Results /\ q.kind = "error"
      BY NoRowsType, AnswerType
    <3> HIDE DEF q
    <3>4. Append(out, q)[Len(out) + 1] = q /\ Append(out, r)[Len(out) + 1] = r
      BY <1>1, <2>2, <3>3, AppendProperties
    <3> QED BY <2>3, <3>2, <3>3, <3>4
  <2> QED BY <2>3, <2>4, <2>5
<1> QED BY <1>2, <1>3, StepsAnswer

(* While nothing failed, the reader walked over readable blocks.           *)
LEMMA WalkedNext ==
  ASSUME Typed, Standing, Calling, Walked, SomeStep, source' = source, options' = options
  PROVE  Walked'
<1> SUFFICES ASSUME ~E1, ErrorsIn(out') = {} PROVE Walks(file, reader')
  BY Unmoved DEF Walked
<1>1. Walks(file, reader) /\ ~Failing
  BY ErrorsNext DEF Walked
<1>2. FileOK(file) /\ reader \in Readers /\ Stands(file, reader)
  BY Sources DEF Standing
<1>3. CASE Idles \/ Starts \/ Ends \/ Finish
  BY <1>1, <1>3 DEF Idles, Starts, Ends, Finish
<1>4. CASE Turns
  <2> DEFINE f == file
             r == reader
             t == reader'
  <2>1. FileOK(f) /\ r \in Readers /\ Stands(f, r) /\ r.idx = Len(r.spans) /\ ~r.exhausted
        /\ Walks(f, r) /\ Turn(f, r, Landing(f, r.pos), TRUE, t)
    BY <1>1, <1>2, <1>4 DEF Turns, AtBlock
  <2> HIDE DEF f, r, t
  <2>2. Walks(f, t)
    BY <2>1, TurnWalks
  <2> QED BY <2>2 DEF f, t
<1>5. CASE TakesE2
  <2> DEFINE f == file
             r == reader
             t == reader'
  <2>1. r \in Readers /\ Stands(f, r) /\ r.idx < Len(r.spans) /\ t = [r EXCEPT !.idx = r.idx + 1]
    BY <1>2, <1>5 DEF TakesE2, AtRow
  <2> HIDE DEF f, r, t
  <2>2. t.pos = r.pos /\ t.exhausted = r.exhausted /\ t.last_blob = r.last_blob
    BY <2>1, RowPassed
  <2>3. Walks(f, r)
    BY <1>1 DEF f, r
  <2>4. Walks(f, t)
    BY <2>2, <2>3 DEF Walks
  <2> QED BY <2>4 DEF f, t
<1>6. ~TakesE1
  BY DEF TakesE1
<1> QED BY <1>1, <1>3, <1>4, <1>5, <1>6 DEF SomeStep, Failing

(* The records of the file, E1 or E2.                                      *)
LEMMA AllRecordsIs ==
  ASSUME Typed
  PROVE  /\ AllRecords \in Seq(Places)
         /\ E1 => /\ Len(AllRecords) = Len(file.recs)
                  /\ \A n \in 1..Len(file.recs) : AllRecords[n] = [at |-> 0, n |-> n]
         /\ ~E1 => AllRecords = RecordsOf(file)
<1>1. CASE E1
  <2> DEFINE m == Len(file.recs)
             g == [n \in 1..m |-> [at |-> 0, n |-> n]]
  <2>1. m \in Nat /\ DOMAIN file.recs = 1..m
    BY <1>1, Sources
  <2>2. AllRecords = g
    BY <1>1, <2>1 DEF AllRecords
  <2> HIDE DEF m
  <2>3. g \in [1..m -> Places] /\ \A n \in 1..m : g[n] = [at |-> 0, n |-> n]
    BY DEF Places
  <2> HIDE DEF g
  <2>4. g \in Seq(Places) /\ Len(g) = m
    BY <2>1, <2>3
  <2> QED BY <1>1, <2>2, <2>3, <2>4 DEF m
<1>2. CASE ~E1
  <2> DEFINE f == file
  <2>1. f.blocks \in Seq(BlockType)
    BY <1>2, Sources DEF FileOK
  <2> HIDE DEF f
  <2>2. RecordsOf(f) \in Seq(Places)
    BY <2>1, RecordsOfIs
  <2>3. AllRecords = RecordsOf(f)
    BY <1>2 DEF AllRecords, f
  <2> QED BY <1>2, <2>2, <2>3 DEF f
<1> QED BY <1>1, <1>2

(* The record about to be decoded is the next of the file.                 *)
LEMMA DeliveredPlace ==
  ASSUME NEW f, FileOK(f), NEW r \in Readers, Stands(f, r), r.idx < Len(r.spans), Walks(f, r)
  PROVE  /\ Delivered(f, r) \in Nat
         /\ Delivered(f, r) + 1 <= Len(RecordsOf(f))
         /\ RecordsOf(f)[Delivered(f, r) + 1] = [at |-> r.at, n |-> r.idx + 1]
<1> DEFINE e == StreamEnd(f)
           D == Declared(f)
           F == Sums(D)
           p == r.at
           k == r.idx
           c == f.blocks[p].count
           R == RecordsOf(f)
<1>1. f.blocks \in Seq(BlockType) /\ k \in Nat /\ r.spans \in Seq(Seq(Nat)) /\ r.pos \in Nat
  BY DEF FileOK, Readers
<1>2. /\ p \in 1..Len(f.blocks) /\ f.blocks[p].kind = "record" /\ Len(r.spans) = c
      /\ r.pos = p + 1 /\ ~r.exhausted
  BY RecordIs DEF Stands
<1>3. e \in Nat /\ r.pos <= e
  <2>1. e \in Nat
    BY <1>1, StreamEndIs
  <2> QED BY <1>2, <2>1 DEF Walks
<1>4. p \in 1..e - 1 /\ p \in 0..e - 1 /\ p - 1 \in 0..e - 1
  BY <1>2, <1>3
<1>5. PassedTo(f, r.pos) = p
  BY <1>2, <1>3, <1>4 DEF PassedTo
<1>6. D \in Seq(Nat) /\ Len(D) = e - 1 /\ D[p] = c
  <2>1. D \in Seq(Nat) /\ Len(D) = e - 1
        /\ \A q \in 1..e - 1 : D[q] = IF f.blocks[q].kind = "record" THEN f.blocks[q].count ELSE 0
    BY <1>1, DeclaredIs
  <2> QED BY <1>2, <1>4, <2>1
<1>7. Delivered(f, r) = F[p] - (c - k)
  BY <1>2, <1>5 DEF Delivered
<1>8. /\ R \in Seq(Places) /\ Len(R) = F[e - 1]
      /\ \A q \in 1..e - 1 : f.blocks[q].kind = "record" =>
           \A n \in 1..f.blocks[q].count : R[F[q - 1] + n] = [at |-> q, n |-> n]
  BY <1>1, RecordsOfIs
<1> HIDE DEF e, D, F, R
<1>9. F[p] = F[p - 1] + c /\ F[p - 1] \in Nat /\ F[p] \in Nat
  <2>1. /\ \A n \in 0..Len(D) : F[n] \in Nat
        /\ \A n \in 1..Len(D) : F[n] = F[n - 1] + D[n]
    BY <1>6, SumsSteps DEF F
  <2> QED BY <1>4, <1>6, <2>1
<1>10. c \in Nat /\ k < c
  <2>1. c \in Nat
    BY <1>1, <1>2
  <2> QED BY <1>1, <1>2, <2>1
<1>11. F[p] <= F[e - 1] /\ F[e - 1] \in Nat
  <2>1. p \in 0..Len(D) /\ e - 1 \in p..Len(D) /\ e - 1 \in 0..Len(D)
    BY <1>3, <1>4, <1>6
  <2>2. Sums(D)[p] <= Sums(D)[e - 1]
    BY <1>6, <2>1, SumsGrow
  <2>3. Sums(D)[e - 1] \in Nat
    BY <1>6, <2>1, SumsSteps
  <2> QED BY <2>2, <2>3 DEF F
<1>12. R[F[p - 1] + (k + 1)] = [at |-> p, n |-> k + 1]
  <2>1. k + 1 \in 1..c
    BY <1>1, <1>10
  <2> QED BY <1>2, <1>4, <1>8, <2>1
<1> DEFINE a == F[p - 1]
           b == F[p]
           l == F[e - 1]
           d == Delivered(f, r)
<1>13. /\ a \in Nat /\ c \in Nat /\ k \in Nat /\ k < c /\ b = a + c /\ b <= l /\ l \in Nat
       /\ d = b - (c - k)
  BY <1>1, <1>7, <1>9, <1>10, <1>11
<1> HIDE DEF a, b, c, k, l, d, p
<1>14. d \in Nat /\ d + 1 <= l /\ d + 1 = a + (k + 1)
  BY <1>13
<1>15. R[d + 1] = [at |-> p, n |-> k + 1]
  BY <1>12, <1>14 DEF a
<1> QED BY <1>8, <1>14, <1>15 DEF d, l, R, p, k

(* While nothing failed, the rows taken are the first records of the       *)
(* file, as many as the reader has handed out.                             *)
LEMMA ExactNext ==
  ASSUME Typed, Standing, Calling, Ordered, Walked, Exact, SomeStep, source' = source,
         options' = options
  PROVE  Exact'
<1> SUFFICES ASSUME ErrorsIn(out') = {}, options.columns = "all"
             PROVE  /\ Matches(Taken', AllRecords)
                    /\ IF E1 THEN Len(Taken') = reader'
                       ELSE /\ Len(Taken') = Delivered(file, reader')
                            /\ AllRead(file, Taken', reader'.flag)
  BY Unmoved DEF Exact
<1>1. ErrorsIn(out) = {} /\ ~Failing
  BY ErrorsNext
<1>2. /\ Matches(Taken, AllRecords)
      /\ IF E1 THEN Len(Taken) = reader
         ELSE Len(Taken) = Delivered(file, reader) /\ AllRead(file, Taken, reader.flag)
  BY <1>1 DEF Exact
<1>3. Typed'
  BY TypedNext
<1>4. Taken \in Seq(Row) /\ Taken' \in Seq(Row) /\ AllRecords \in Seq(Places)
  <2>1. out' \in Seq(Results) /\ got' \in Seq(Row)
    BY <1>3 DEF Typed
  <2>2. TakenOf(out', got') \in Seq(Row)
    BY <2>1, TakenType
  <2> QED BY <2>2, TakenTypes, AllRecordsIs DEF Taken
<1>5. ~E1 => Walks(file, reader) /\ FileOK(file) /\ reader \in Readers /\ Stands(file, reader)
  BY <1>1, Sources DEF Walked, Standing
<1> DEFINE s == Taken
           t == Taken'
           all == AllRecords
           f == file
           r == reader
           q == reader'
<1>6. CASE Idles \/ Starts
  BY <1>2, <1>6 DEF Idles, Starts, Taken
<1>7. CASE Ends \/ Finish
  <2>1. reader' = reader
    BY <1>7 DEF Ends, Finish
  <2>2. PICK kind \in {"none", "error", "frame"}, rows \in {NoRows, got} :
          /\ out' = Append(out, Answer(kind, rows)) /\ Answer(kind, rows) \in Results
          /\ rows \in Seq(Row)
          /\ Begins(Taken', Taken)
          /\ kind # "error" => Len(Taken') = Len(Taken)
    BY <1>7, AnsweringAnswers, AnswerIs DEF Answering
  <2>3. kind # "error"
    <3> DEFINE a == Answer(kind, rows)
    <3>1. a \in Results /\ a.kind = kind
      BY <2>2, AnswerType
    <3> HIDE DEF a
    <3>2. ErrorsIn(Append(out, a)) = {} => a.kind # "error"
      BY <3>1, Sources, SureAppend
    <3> QED BY <2>2, <3>1, <3>2 DEF a
  <2>4. s \in Seq(Row) /\ t \in Seq(Row) /\ all \in Seq(Places) /\ Begins(t, s)
        /\ Matches(s, all) /\ Len(t) = Len(s) /\ q = r /\ (~E1 => AllRead(f, s, r.flag))
    BY <1>2, <1>4, <2>1, <2>2, <2>3
  <2> HIDE DEF s, t, all, f, r, q
  <2>5. Matches(t, all)
    BY <2>4, MatchesBegins
  <2>6. ~E1 => AllRead(f, t, r.flag)
    BY <2>4, AllReadBegins
  <2> QED BY <1>2, <2>4, <2>5, <2>6 DEF s, t, all, f, r, q
<1>8. CASE Turns
  <2>1. Taken' = Taken /\ ~E1
    BY <1>8 DEF Turns, AtBlock, Taken
  <2>2. FileOK(f) /\ r \in Readers /\ Stands(f, r) /\ r.idx = Len(r.spans) /\ ~r.exhausted
        /\ Walks(f, r) /\ Turn(f, r, Landing(f, r.pos), TRUE, q)
    BY <1>5, <1>8 DEF Turns, AtBlock
  <2>3. r.detected \/ s = <<>>
    BY <2>1 DEF Ordered
  <2>4. Len(s) = Delivered(f, r) /\ AllRead(f, s, r.flag)
    BY <1>2, <2>1
  <2> HIDE DEF f, r, q, s
  <2>5. Delivered(f, q) = Delivered(f, r)
    BY <2>2, TurnWalks
  <2>6. r.detected => q.flag = r.flag
    BY <2>2 DEF Turn
  <2>7. AllRead(f, s, q.flag)
    <3>1. CASE r.detected
      BY <2>4, <2>6, <3>1
    <3>2. CASE s = <<>>
      BY <3>2 DEF AllRead
    <3> QED BY <2>3, <3>1, <3>2
  <2> QED BY <1>2, <2>1, <2>4, <2>5, <2>7 DEF f, q, s
<1>9. CASE TakesE1 \/ TakesE2
  <2>1. PICK row \in Row :
           /\ Extends(Taken', Taken, row)
           /\ row.at = Here.at /\ row.n = Here.n + 1
           /\ ~E1 => /\ reader.idx < Len(reader.spans)
                     /\ reader' = [reader EXCEPT !.idx = reader.idx + 1]
                     /\ Walks(file, reader) => ReadsAs(file, row, reader.flag)
           /\ E1 => reader' = reader + 1
    BY <1>9, GathersIs
  <2>2. /\ Len(s) + 1 <= Len(all) /\ all[Len(s) + 1] = [at |-> row.at, n |-> row.n]
        /\ IF E1 THEN Len(s) + 1 = reader'
           ELSE Len(s) + 1 = Delivered(file, reader') /\ reader'.flag = reader.flag
    <3>1. CASE E1
      <4>1. /\ reader \in Nat /\ Len(file.recs) \in Nat
            /\ Len(AllRecords) = Len(file.recs)
            /\ \A n \in 1..Len(file.recs) : AllRecords[n] = [at |-> 0, n |-> n]
        BY <3>1, Sources, AllRecordsIs
      <4>2. Here = [at |-> 0, n |-> reader]
        BY <3>1 DEF Here
      <4>3. row.at = 0 /\ row.n = reader + 1
        BY <2>1, <4>2
      <4>4. Len(Taken) = reader
        BY <1>2, <3>1
      <4>5. reader + 1 <= Len(file.recs)
        <5>1. state = "reading" /\ Len(got) < want
          BY <1>9 DEF TakesE1, TakesE2, AtRow, Busy
        <5>2. reader + (want - Len(got)) <= Len(file.recs) /\ Len(got) \in Nat /\ want \in Nat
          BY <3>1, <5>1, Sources DEF Calling, Typed
        <5> QED BY <4>1, <5>1, <5>2
      <4>6. AllRecords[reader + 1] = [at |-> 0, n |-> reader + 1]
        BY <4>1, <4>5
      <4> QED BY <2>1, <3>1, <4>1, <4>3, <4>4, <4>5, <4>6
    <3>2. CASE ~E1
      <4>1. FileOK(f) /\ r \in Readers /\ Stands(f, r) /\ r.idx < Len(r.spans) /\ Walks(f, r)
            /\ q = [r EXCEPT !.idx = r.idx + 1]
        BY <1>5, <2>1, <3>2
      <4>2. all = RecordsOf(f) /\ Len(s) = Delivered(f, r)
        BY <1>2, <3>2, AllRecordsIs
      <4>3. Here = [at |-> r.at, n |-> r.idx]
        BY <3>2 DEF Here
      <4>4. row.at = r.at /\ row.n = r.idx + 1
        BY <2>1, <4>3
      <4> HIDE DEF f, r, q, s, all
      <4>5. /\ Delivered(f, r) \in Nat
            /\ Delivered(f, r) + 1 <= Len(RecordsOf(f))
            /\ RecordsOf(f)[Delivered(f, r) + 1] = [at |-> r.at, n |-> r.idx + 1]
        BY <4>1, DeliveredPlace
      <4>6. q.idx = r.idx + 1 /\ q.spans = r.spans /\ q.pos = r.pos /\ q.flag = r.flag
        BY <4>1, RowPassed
      <4>7. Delivered(f, q) = Delivered(f, r) + 1
        <5> DEFINE a == Sums(Declared(f))[PassedTo(f, r.pos)]
                   l == Len(r.spans)
                   i == r.idx
        <5>1. Delivered(f, r) = a - (l - i) /\ Delivered(f, q) = a - (l - (i + 1))
          BY <4>6 DEF Delivered
        <5>2. a \in Int /\ l \in Nat /\ i \in Nat
          <6>1. l \in Nat /\ i \in Nat
            BY <4>1 DEF Readers
          <6>2. a \in Int
            <7> DEFINE p == PassedTo(f, r.pos)
                       D == Declared(f)
            <7>1. f.blocks \in Seq(BlockType) /\ r.pos \in Nat \ {0}
              BY <4>1 DEF FileOK, Readers
            <7>2. StreamEnd(f) \in Nat \ {0} /\ D \in Seq(Nat) /\ Len(D) = StreamEnd(f) - 1
              BY <7>1, StreamEndIs, DeclaredIs
            <7>3. p \in 0..Len(D)
              BY <7>1, <7>2 DEF PassedTo
            <7> HIDE DEF p, D
            <7>4. Sums(D)[p] \in Nat
              BY <7>2, <7>3, SumsSteps
            <7> QED BY <7>4 DEF p, D
          <6> QED BY <6>1, <6>2
        <5> HIDE DEF a, l, i
        <5> QED BY <5>1, <5>2
      <4> QED BY <3>2, <4>2, <4>4, <4>5, <4>6, <4>7 DEF f, r, q
    <3> QED BY <3>1, <3>2
  <2>3. s \in Seq(Row) /\ t \in Seq(Row) /\ all \in Seq(Places) /\ Extends(t, s, row)
        /\ Matches(s, all) /\ (~E1 => AllRead(f, s, r.flag) /\ ReadsAs(f, row, r.flag))
    BY <1>2, <1>4, <1>5, <2>1
  <2> HIDE DEF s, t, all, f, r, q
  <2>4. Matches(t, all)
    BY <2>2, <2>3, MatchesExtends
  <2>5. ~E1 => AllRead(f, t, r.flag)
    BY <2>3, AllReadExtends
  <2>6. Len(t) = Len(s) + 1
    BY <2>3 DEF Extends
  <2> QED BY <2>2, <2>4, <2>5, <2>6 DEF s, t, all, f, r, q
<1> QED BY <1>1, <1>6, <1>7, <1>8, <1>9 DEF SomeStep, Failing

-----------------------------------------------------------------------------
(* The inductive invariant, fourth part: the rows before the first error.  *)
SureKept ==
  /\ options.columns # "all" => SureIn(out) = <<>>
  /\ ~E1 /\ ~reader.detected => SureIn(out) = <<>>
  /\ Matches(SureIn(out), AllRecords)
  /\ ~E1 => AllRead(file, SureIn(out), reader.flag)

(* Nothing but nothing begins nothing.                                     *)
LEMMA NothingBegins ==
  ASSUME NEW t \in Seq(Row), Begins(t, <<>>)
  PROVE  t = <<>>
<1>1. Len(t) <= 0 /\ Len(t) \in Nat
  BY DEF Begins
<1>2. Len(t) = 0
  BY <1>1
<1> QED BY <1>2

(* The sure rows change only at an answer that is the first error or has   *)
(* none before it.                                                         *)
LEMMA SureNext ==
  ASSUME Typed, Calling, Limits, SomeStep, options' = options
  PROVE  \/ SureIn(out') = SureIn(out)
         \/ /\ ErrorsIn(out) = {} /\ SureIn(out') \in Seq(Row)
            /\ Begins(SureIn(out'), Taken)
            /\ options.columns # "all" => SureIn(out') = <<>>
<1>1. out \in Seq(Results) /\ got \in Seq(Row)
  BY DEF Typed
<1>2. CASE Untouched \/ Gathers
  BY <1>2 DEF Untouched, Gathers
<1>3. CASE AnswersSome
  <2>1. PICK kind \in {"none", "error", "frame"}, rows \in {NoRows, got} :
           /\ out' = Append(out, Answer(kind, rows)) /\ got' = <<>>
           /\ Answer(kind, rows) \in Results /\ rows \in Seq(Row)
           /\ Rows(out') = TakenOf(out, rows) /\ Taken' = Rows(out')
           /\ Begins(Taken', Taken)
           /\ options.columns # "all" => rows = NoRows
    BY <1>3, AnswerIs
  <2> DEFINE r == Answer(kind, rows)
             o == Append(out, r)
  <2>2. r \in Results /\ r.kind = kind
    BY <2>1, AnswerType
  <2> HIDE DEF r
  <2>3. /\ ErrorsIn(out) = {} => SureIn(out) = Rows(out)
        /\ ErrorsIn(o) = {} <=> ErrorsIn(out) = {} /\ r.kind # "error"
        /\ ErrorsIn(out) = {} /\ r.kind = "error" => SureIn(o) = Rows(out)
        /\ ErrorsIn(out) # {} => SureIn(o) = SureIn(out)
    BY <1>1, <2>2, SureAppend
  <2>4. out' = o
    BY <2>1 DEF r
  <2>5. o \in Seq(Results)
    BY <1>1, <2>2, AppendProperties
  <2> HIDE DEF o
  <2>6. ErrorsIn(o) = {} => SureIn(o) = Rows(o)
    BY <2>2, <2>5, SureAppend
  <2>7. CASE ErrorsIn(out) # {}
    BY <2>3, <2>4, <2>7
  <2>8. CASE ErrorsIn(out) = {} /\ kind = "error"
    <3>1. SureIn(out') = SureIn(out)
      BY <2>2, <2>3, <2>4, <2>8
    <3> QED BY <3>1
  <2>9. CASE ErrorsIn(out) = {} /\ kind # "error"
    <3>1. SureIn(out') = Rows(out')
      BY <2>2, <2>3, <2>4, <2>6, <2>9
    <3>2. Begins(SureIn(out'), Taken) /\ SureIn(out') = TakenOf(out, rows)
      BY <2>1, <3>1
    <3>3. TakenOf(out, rows) \in Seq(Row)
      BY <1>1, <2>1, TakenType
    <3>4. options.columns # "all" => SureIn(out') = <<>>
      <4> SUFFICES ASSUME options.columns # "all" PROVE SureIn(out') = <<>>
        OBVIOUS
      <4>1. Rows(out) = <<>> /\ rows = <<>>
        BY <2>1 DEF Limits, NoRows
      <4>2. TakenOf(out, rows) = <<>>
        BY <4>1 DEF TakenOf
      <4> QED BY <3>2, <4>2
    <3> QED BY <2>9, <3>2, <3>3, <3>4
  <2> QED BY <2>7, <2>8, <2>9
<1> QED BY <1>2, <1>3, StepsAnswer

(* The sure rows are the first records of the file, and read its bytes.    *)
LEMMA SureKeptNext ==
  ASSUME Typed, Standing, Calling, Limits, Ordered, Exact, SureKept, SomeStep,
         source' = source, options' = options
  PROVE  SureKept'
<1> DEFINE s == Taken
           u == SureIn(out)
           t == SureIn(out')
           all == AllRecords
           f == file
           r == reader
           q == reader'
<1> SUFFICES /\ options.columns # "all" => t = <<>>
             /\ ~E1 /\ ~q.detected => t = <<>>
             /\ Matches(t, all)
             /\ ~E1 => AllRead(f, t, q.flag)
  BY Unmoved DEF SureKept
<1>1. ~E1 /\ r.detected => q.detected /\ q.flag = r.flag
  BY HereNext
<1>2. /\ options.columns # "all" => u = <<>>
      /\ ~E1 /\ ~r.detected => u = <<>>
      /\ Matches(u, all)
      /\ ~E1 => AllRead(f, u, r.flag)
  BY DEF SureKept
<1>3. s \in Seq(Row) /\ all \in Seq(Places)
  BY TakenTypes, AllRecordsIs
<1>4. AllRead(f, <<>>, q.flag) /\ Matches(<<>>, all)
  <2>1. Len(all) \in Nat /\ Len(<<>>) = 0 /\ 1..0 = {}
    BY <1>3
  <2> QED BY <2>1 DEF AllRead, Matches
<1>5. CASE t = u
  <2>1. ~E1 => AllRead(f, t, q.flag)
    <3>1. CASE r.detected
      BY <1>1, <1>2, <1>5, <3>1
    <3>2. CASE ~r.detected
      BY <1>2, <1>4, <1>5, <3>2
    <3> QED BY <3>1, <3>2
  <2> QED BY <1>1, <1>2, <1>5, <2>1
<1>6. CASE /\ ErrorsIn(out) = {} /\ t \in Seq(Row)
           /\ Begins(t, s)
           /\ options.columns # "all" => t = <<>>
  <2>1. CASE options.columns # "all"
    BY <1>4, <1>6, <2>1
  <2>2. CASE options.columns = "all"
    <3>1. /\ Matches(s, all)
          /\ ~E1 => AllRead(f, s, r.flag)
          /\ ~E1 /\ ~r.detected => s = <<>>
      BY <1>6, <2>2 DEF Exact, Ordered
    <3> HIDE DEF s, t, all, f, r, q
    <3>2. Matches(t, all)
      BY <1>3, <1>6, <3>1, MatchesBegins
    <3>3. ~E1 => AllRead(f, t, r.flag)
      BY <1>3, <1>6, <3>1, AllReadBegins
    <3>4. ~E1 /\ ~r.detected => t = <<>>
      BY <1>6, <3>1, NothingBegins
    <3>5. ~E1 => AllRead(f, t, q.flag)
      <4>1. CASE r.detected
        BY <1>1, <3>3, <4>1
      <4>2. CASE ~r.detected
        BY <1>4, <3>4, <4>2
      <4> QED BY <4>1, <4>2
    <3> QED BY <1>1, <2>2, <3>2, <3>4, <3>5
  <2> QED BY <2>1, <2>2
<1>7. t = u \/ (/\ ErrorsIn(out) = {} /\ t \in Seq(Row)
                /\ Begins(t, s)
                /\ options.columns # "all" => t = <<>>)
  BY SureNext
<1> QED BY <1>5, <1>6, <1>7

-----------------------------------------------------------------------------
(* None means that everything was handed out.                              *)
LEMMA EndsExactly ==
  ASSUME Typed, Standing, Calling, Limits, Walked, Exact, Ends \/ Finish, got = <<>>,
         ErrorsIn(out) = {}, options.columns = "all"
  PROVE  \/ Len(Rows(out)) = options.n_rows
         \/ IF E1 THEN Len(Rows(out)) = Len(file.recs)
            ELSE count_records(file) = [ok |-> TRUE, total |-> Len(Rows(out))]
<1>1. Len(Taken) = Len(Rows(out)) /\ Len(Rows(out)) \in Nat
  <2>1. Len(got) = 0
    OBVIOUS
  <2> QED BY <2>1, TakenTypes
<1>2. /\ E1 => Len(Taken) = reader
      /\ ~E1 => Len(Taken) = Delivered(file, reader) /\ Walks(file, reader)
  BY DEF Exact, Walked
<1>3. CASE Ends
  <2>1. AtEnd /\ state = "idle"
    BY <1>3 DEF Ends
  <2>2. CASE EffectiveBatch = 0
    <3>1. options.n_rows # -1 /\ rows_read >= options.n_rows
      BY <2>2, BatchIs
    <3>2. rows_read = Len(Rows(out)) /\ rows_read + 0 <= options.n_rows
      BY <2>1, <3>1 DEF Limits
    <3>3. options.n_rows \in Nat \cup {-1} /\ rows_read \in Nat
      BY Sources DEF Typed
    <3> QED BY <3>1, <3>2, <3>3
  <2>3. CASE E1 /\ reader >= Len(file.recs)
    <3>1. reader + 0 <= Len(file.recs) /\ reader \in Nat /\ Len(file.recs) \in Nat
      BY <2>1, <2>3, Sources DEF Calling
    <3> QED BY <1>1, <1>2, <2>3, <3>1
  <2> QED BY <2>1, <2>2, <2>3 DEF AtEnd
<1>4. CASE Finish
  <2>1. state = "reading" /\ want >= 1 /\ Len(got) = 0 /\ want \in Nat
    BY <1>4 DEF Finish, Calling, Typed
  <2>2. ~E1 /\ reader.exhausted /\ reader.idx = Len(reader.spans)
    BY <1>4, <2>1 DEF Finish
  <2> DEFINE f == file
             r == reader
             e == StreamEnd(f)
             D == Declared(f)
  <2>3. FileOK(f) /\ r \in Readers /\ Walks(f, r) /\ r.exhausted /\ r.idx = Len(r.spans)
    BY <1>2, <2>2, Sources
  <2>4. Len(Rows(out)) = Delivered(f, r)
    BY <1>1, <1>2, <2>2
  <2> HIDE DEF f, r
  <2>5. f.blocks \in Seq(BlockType) /\ r.pos \in Nat /\ r.idx \in Nat
    BY <2>3 DEF FileOK, Readers
  <2>6. e \in Nat \ {0} /\ D \in Seq(Nat) /\ Len(D) = e - 1
    BY <2>5, StreamEndIs, DeclaredIs
  <2>7. PassedTo(f, r.pos) = e - 1
    <3>1. r.pos >= e
      BY <2>3 DEF Walks
    <3>2. CASE r.pos = e
      BY <3>2 DEF PassedTo
    <3>3. CASE r.pos # e
      <4>1. ~(r.pos <= e)
        BY <2>5, <2>6, <3>1, <3>3
      <4> QED BY <4>1 DEF PassedTo
    <3> QED BY <3>2, <3>3
  <2>8. Sums(D)[e - 1] \in Nat
    <3>1. e - 1 \in 0..Len(D)
      BY <2>6
    <3> QED BY <2>6, <3>1, SumsSteps
  <2>9. Delivered(f, r) = Sums(D)[e - 1]
    <3>1. Delivered(f, r) = Sums(D)[e - 1] - (Len(r.spans) - r.idx)
      BY <2>7 DEF Delivered
    <3>2. Len(r.spans) - r.idx = 0
      BY <2>3, <2>5
    <3> QED BY <2>8, <3>1, <3>2
  <2>10. Total(D) = Sums(D)[e - 1]
    BY <2>6 DEF Total
  <2>11. \A p \in 1..e - 1 : Readable(f, p)
    BY <2>3, <2>7 DEF Walks
  <2>12. count_records(f) = [ok |-> TRUE, total |-> Total(D)]
    BY <2>11 DEF count_records
  <2> QED BY <2>2, <2>4, <2>9, <2>10, <2>12 DEF f
<1> QED BY <1>3, <1>4

(* EndMeansAll is kept.                                                    *)
LEMMA EndingNext ==
  ASSUME Typed, Standing, Calling, Limits, Walked, Exact, EndMeansAll, SomeStep,
         source' = source, options' = options
  PROVE  EndMeansAll'
<1>1. E1' = E1 /\ file' = file
  BY Unmoved
<1>2. Errors = ErrorsIn(out) /\ Errors' = ErrorsIn(out')
  BY DEF Errors, ErrorsIn
<1>3. CASE out' = out
  BY <1>1, <1>3 DEF EndMeansAll, Errors
<1>4. CASE AnswersSome
  <2>1. PICK kind \in {"none", "error", "frame"}, rows \in {NoRows, got} :
           /\ out' = Append(out, Answer(kind, rows))
           /\ Answer(kind, rows) \in Results /\ rows \in Seq(Row)
           /\ Len(Rows(out')) = Len(Rows(out)) + Len(rows)
           /\ kind = "none" => got = <<>>
    BY <1>4, AnswerIs
  <2> DEFINE r == Answer(kind, rows)
             o == Append(out, r)
  <2>2. r \in Results /\ r.kind = kind
    BY <2>1, AnswerType
  <2>3. out \in Seq(Results)
    BY DEF Typed
  <2>4. out' = o
    BY <2>1
  <2> HIDE DEF r
  <2>5. Last(o) = r /\ o # <<>>
    <3>1. o \in Seq(Results) /\ Len(o) = Len(out) + 1 /\ o[Len(out) + 1] = r /\ Len(out) \in Nat
      BY <2>2, <2>3, AppendProperties
    <3> QED BY <3>1 DEF Last
  <2> HIDE DEF o
  <2>6. SUFFICES ASSUME kind = "none", ErrorsIn(out') = {}, options.columns = "all"
                 PROVE  \/ Len(Rows(out')) = options.n_rows
                        \/ IF E1 THEN Len(Rows(out')) = Len(file.recs)
                           ELSE count_records(file) = [ok |-> TRUE, total |-> Len(Rows(out'))]
    BY <1>1, <1>2, <2>2, <2>4, <2>5 DEF EndMeansAll
  <2>7. ErrorsIn(out) = {} /\ ~Failing
    BY <2>6, ErrorsNext
  <2>8. got = <<>> /\ Len(rows) = 0
    BY <2>1, <2>6, NoRowsType
  <2>9. Ends \/ Finish
    <3>1. out' # out
      <4>1. Len(out) \in Nat /\ Len(Append(out, r)) = Len(out) + 1
        BY <2>3
      <4> QED BY <2>4, <4>1 DEF o
    <3> QED BY <2>7, <3>1 DEF SomeStep, Failing, Idles, Starts, TakesE1, Turns, TakesE2
  <2>10. Len(Rows(out')) = Len(Rows(out))
    BY <2>1, <2>8, TakenTypes
  <2>11. \/ Len(Rows(out)) = options.n_rows
         \/ IF E1 THEN Len(Rows(out)) = Len(file.recs)
            ELSE count_records(file) = [ok |-> TRUE, total |-> Len(Rows(out))]
    BY <2>6, <2>7, <2>8, <2>9, EndsExactly
  <2> QED BY <2>10, <2>11
<1> QED BY <1>3, <1>4, StepsAnswer DEF Untouched, Gathers

-----------------------------------------------------------------------------
(* The inductive invariant, last part: every answer but None was paid for  *)
(* with a record or a block, and a batch being gathered has been paid for. *)
Budget == IF E1 THEN reader ELSE Spent(file, reader)

Gathering == IF got = <<>> THEN 0 ELSE 1

Counted == Refused \/ Answered(out) + Gathering <= Budget

(* Passing over a record pays for one answer.                              *)
LEMMA RowSpends ==
  ASSUME NEW f, FileOK(f), NEW r \in Readers, Stands(f, r), r.idx < Len(r.spans),
         NEW t, t = [r EXCEPT !.idx = r.idx + 1]
  PROVE  Spent(f, r) \in Int /\ Spent(f, t) = Spent(f, r) + 1
<1> DEFINE x == r.pos - 1
           a == Sums(Held(f))[x]
           l == Len(r.spans)
           i == r.idx
<1>1. r.pos \in Nat \ {0} /\ l \in Nat /\ i \in Nat
  BY DEF Readers
<1>2. a \in Nat
  <2>1. r.pos <= Len(f.blocks) + 1
    BY DEF Stands
  <2>2. Held(f) \in Seq(Nat) /\ Len(Held(f)) = Len(f.blocks) /\ Len(f.blocks) \in Nat
    BY HeldIs
  <2>3. x \in 0..Len(Held(f))
    BY <1>1, <2>1, <2>2
  <2> HIDE DEF x
  <2> QED BY <2>2, <2>3, SumsSteps
<1>3. t.idx = r.idx + 1 /\ t.spans = r.spans /\ t.pos = r.pos
  BY RowPassed
<1>4. Spent(f, r) = x + a - (l - i) /\ Spent(f, t) = x + a - (l - (i + 1)) /\ x \in Int
  BY <1>1, <1>3 DEF Spent
<1> HIDE DEF x, a, l, i
<1> QED BY <1>1, <1>2, <1>4

(* There is no more to pay with than the file has of blocks and records.   *)
LEMMA SpentType ==
  ASSUME NEW f, FileOK(f), NEW r \in Readers, Stands(f, r)
  PROVE  Spent(f, r) \in Int /\ Spent(f, r) <= Len(f.blocks) + Total(Held(f))
         /\ Total(Held(f)) \in Nat /\ Len(f.blocks) \in Nat
<1> DEFINE n == Len(f.blocks)
           H == Held(f)
           x == r.pos - 1
           a == Sums(H)[x]
           b == Sums(H)[n]
           l == Len(r.spans)
           i == r.idx
<1>1. r.pos \in Nat \ {0} /\ l \in Nat /\ i \in Nat
  BY DEF Readers
<1>2. r.pos <= n + 1 /\ i <= l
  BY DEF Stands
<1>3. H \in Seq(Nat) /\ Len(H) = n /\ n \in Nat
  BY HeldIs
<1>4. Spent(f, r) = x + a - (l - i)
  BY DEF Spent
<1>5. Total(H) = b
  BY <1>3 DEF Total
<1> HIDE DEF n, H, l, i
<1>6. x \in 0..Len(H) /\ n \in x..Len(H) /\ n \in 0..Len(H)
  BY <1>1, <1>2, <1>3
<1> HIDE DEF x
<1>7. a \in Nat /\ b \in Nat
  BY <1>3, <1>6, SumsSteps
<1>8. a <= b
  BY <1>3, <1>6, SumsGrow
<1> HIDE DEF a, b
<1>9. x \in Nat /\ x <= n
  BY <1>3, <1>6
<1>10. Spent(f, r) \in Int /\ Spent(f, r) <= n + b
  BY <1>1, <1>2, <1>3, <1>4, <1>7, <1>8, <1>9
<1> QED BY <1>3, <1>5, <1>7, <1>10 DEF n, H

(* The same for both formats.                                              *)
LEMMA BudgetType ==
  ASSUME Typed, Standing, Calling
  PROVE  Budget \in Int /\ Budget <= Work /\ Work \in Nat
<1>1. CASE E1
  <2>1. reader \in Nat /\ Len(file.recs) \in Nat
        /\ reader + (IF state = "reading" THEN want - Len(got) ELSE 0) <= Len(file.recs)
    BY <1>1, Sources DEF Calling
  <2>2. state = "reading" => want - Len(got) \in Nat
    BY Sources DEF Calling, Typed
  <2>3. reader <= Len(file.recs)
    BY <2>1, <2>2
  <2> QED BY <1>1, <2>1, <2>3 DEF Budget, Work
<1>2. CASE ~E1
  <2> DEFINE f == file
             r == reader
  <2>1. FileOK(f) /\ r \in Readers /\ Stands(f, r)
    BY <1>2, Sources DEF Standing
  <2> HIDE DEF f, r
  <2>2. /\ Spent(f, r) \in Int /\ Spent(f, r) <= Len(f.blocks) + Total(Held(f))
        /\ Total(Held(f)) \in Nat /\ Len(f.blocks) \in Nat
    BY <2>1, SpentType
  <2> QED BY <1>2, <2>2 DEF Budget, Work, f, r
<1> QED BY <1>1, <1>2

(* What a step costs.                                                      *)
LEMMA BudgetNext ==
  ASSUME Typed, Standing, Calling, SomeStep, source' = source, options' = options
  PROVE  /\ Budget' \in Int /\ Budget' >= Budget
         /\ TakesE1 \/ TakesE2 \/ FailsE1 \/ FailsE2 \/ Stumbles => Budget' >= Budget + 1
<1>1. E1' = E1 /\ file' = file
  BY Unmoved
<1>2. Budget \in Int
  BY BudgetType
<1>3. CASE Idles \/ Starts \/ Ends \/ Refuses \/ Finish
  <2>1. reader' = reader
    BY <1>3 DEF Idles, Starts, Ends, Refuses, Finish
  <2>2. Budget' = Budget
    BY <1>1, <2>1 DEF Budget
  <2>3. ~(TakesE1 \/ TakesE2 \/ FailsE1 \/ FailsE2 \/ Stumbles)
    <3> SUFFICES ASSUME TakesE1 \/ TakesE2 \/ FailsE1 \/ FailsE2 \/ Stumbles PROVE FALSE
      OBVIOUS
    <3>2. CASE TakesE1 \/ FailsE1
      <4>1. reader' = reader + 1 /\ reader \in Nat
        BY <3>2, Sources DEF TakesE1, FailsE1
      <4> QED BY <2>1, <4>1
    <3>3. CASE TakesE2 \/ FailsE2
      <4> DEFINE r == reader
                 t == reader'
      <4>1. ~E1 /\ r.idx < Len(r.spans) /\ t = [r EXCEPT !.idx = r.idx + 1]
        BY <3>3 DEF TakesE2, FailsE2, AtRow
      <4>2. r \in Readers
        BY <4>1, Sources
      <4>3. t = r
        BY <2>1
      <4> HIDE DEF r, t
      <4>4. t.idx = r.idx + 1 /\ r.idx \in Nat
        BY <4>1, <4>2 DEF Readers
      <4> QED BY <4>3, <4>4
    <3>4. CASE Stumbles
      <4> DEFINE r == reader
                 t == reader'
                 f == file
      <4>1. ~E1 /\ r.idx = Len(r.spans) /\ Turn(f, r, Landing(f, r.pos), FALSE, t)
        BY <3>4 DEF Stumbles, AtBlock
      <4>2. FileOK(f) /\ r \in Readers /\ Stands(f, r) /\ t = r
        BY <2>1, <4>1, Sources DEF Standing
      <4> HIDE DEF r, t, f
      <4>3. Spent(f, t) >= Spent(f, r) + 1 /\ Spent(f, r) \in Nat
        BY <4>1, <4>2, TurnSpends
      <4> QED BY <4>2, <4>3
    <3> QED BY <3>2, <3>3, <3>4
  <2> QED BY <1>2, <2>2, <2>3
<1>4. CASE TakesE1 \/ FailsE1
  <2>1. reader' = reader + 1 /\ E1
    BY <1>4 DEF TakesE1, FailsE1
  <2>2. Budget' = Budget + 1
    BY <1>1, <2>1 DEF Budget
  <2> QED BY <1>2, <2>2
<1>5. CASE TakesE2 \/ FailsE2
  <2> DEFINE f == file
             r == reader
             t == reader'
  <2>1. ~E1 /\ r.idx < Len(r.spans) /\ t = [r EXCEPT !.idx = r.idx + 1]
    BY <1>5 DEF TakesE2, FailsE2, AtRow
  <2>2. FileOK(f) /\ r \in Readers /\ Stands(f, r)
    BY <2>1, Sources DEF Standing
  <2>3. Budget = Spent(f, r) /\ Budget' = Spent(f, t)
    BY <1>1, <2>1 DEF Budget
  <2> HIDE DEF f, r, t
  <2>4. Spent(f, t) = Spent(f, r) + 1
    BY <2>1, <2>2, RowSpends
  <2> QED BY <1>2, <2>3, <2>4
<1>6. ASSUME NEW ok \in BOOLEAN, AtBlock(ok)
      PROVE  Budget' \in Int /\ Budget' >= Budget + (IF ok THEN 0 ELSE 1)
  <2> DEFINE f == file
             r == reader
             t == reader'
  <2>1. ~E1 /\ r.idx = Len(r.spans) /\ Turn(f, r, Landing(f, r.pos), ok, t)
    BY <1>6 DEF AtBlock
  <2>2. FileOK(f) /\ r \in Readers /\ Stands(f, r)
    BY <2>1, Sources DEF Standing
  <2>3. Budget = Spent(f, r) /\ Budget' = Spent(f, t)
    BY <1>1, <2>1 DEF Budget
  <2> HIDE DEF f, r, t
  <2>4. Spent(f, t) >= Spent(f, r) + (IF ok THEN 0 ELSE 1) /\ Spent(f, t) \in Int
    BY <2>1, <2>2, TurnSpends
  <2> QED BY <2>3, <2>4
<1>7. CASE Turns
  <2>1. Budget' \in Int /\ Budget' >= Budget + 0
    <3>1. AtBlock(TRUE) /\ TRUE \in BOOLEAN
      BY <1>7 DEF Turns
    <3> QED BY <1>6, <3>1
  <2>2. ~(TakesE1 \/ TakesE2 \/ FailsE1 \/ FailsE2 \/ Stumbles)
    <3>1. ~(FailsE1 \/ FailsE2 \/ Stumbles)
      <4>1. Turns => Untouched
        BY DEF Turns, Untouched
      <4> SUFFICES ASSUME FailsE1 \/ FailsE2 \/ Stumbles PROVE FALSE
        OBVIOUS
      <4>2. Return("error", <<>>)
        BY DEF FailsE1, FailsE2, Stumbles
      <4>3. out' = Append(out, Answer("error", <<>>)) /\ out' = out
        BY <1>7, <4>1, <4>2 DEF Return, Answer, Untouched
      <4>4. Len(Append(out, Answer("error", <<>>))) = Len(out) + 1 /\ Len(out) \in Nat
        BY Sources
      <4> QED BY <4>3, <4>4
    <3>2. ~TakesE1
      BY <1>7 DEF TakesE1, Turns, AtBlock
    <3>3. ~TakesE2
      <4> SUFFICES ASSUME TakesE2 PROVE FALSE
        OBVIOUS
      <4>1. reader.idx < Len(reader.spans) /\ reader.idx = Len(reader.spans) /\ ~E1
        BY <1>7 DEF TakesE2, AtRow, Turns, AtBlock
      <4>2. reader.idx \in Nat
        BY <4>1, Sources DEF Readers
      <4> QED BY <4>1, <4>2
    <3> QED BY <3>1, <3>2, <3>3
  <2> QED BY <1>2, <2>1, <2>2
<1>8. CASE Stumbles
  <2>1. Budget' \in Int /\ Budget' >= Budget + 1
    <3>1. AtBlock(FALSE) /\ FALSE \in BOOLEAN
      BY <1>8 DEF Stumbles
    <3> QED BY <1>6, <3>1
  <2> QED BY <1>2, <2>1
<1> QED BY <1>3, <1>4, <1>5, <1>7, <1>8 DEF SomeStep

(* No answer but None without a record or a block passed over.             *)
LEMMA CountedNext ==
  ASSUME Typed, Standing, Calling, Counted, SomeStep, source' = source, options' = options
  PROVE  Counted'
<1> SUFFICES ASSUME ~Refused
             PROVE  Answered(out') + (IF got' = <<>> THEN 0 ELSE 1) <= Budget'
  BY Unmoved DEF Counted, Gathering
<1>1. Answered(out) + (IF got = <<>> THEN 0 ELSE 1) <= Budget
  BY DEF Counted, Gathering
<1>2. Budget \in Int /\ Budget' \in Int /\ Budget' >= Budget
      /\ (TakesE1 \/ TakesE2 \/ FailsE1 \/ FailsE2 \/ Stumbles => Budget' >= Budget + 1)
  BY BudgetType, BudgetNext
<1>3. out \in Seq(Results) /\ Answered(out) \in Nat
  <2>1. out \in Seq(Results)
    BY DEF Typed
  <2> DEFINE r == Answer("none", NoRows)
  <2>2. r \in Results
    BY AnswerType, NoRowsType
  <2> HIDE DEF r
  <2> QED BY <2>1, <2>2, AnsweredAppend
<1>4. CASE Idles \/ Starts \/ Turns
  <2>1. out' = out /\ got' = got
    BY <1>4 DEF Idles, Starts, Turns
  <2> QED BY <1>1, <1>2, <1>3, <2>1
<1>5. CASE TakesE1 \/ TakesE2
  <2>1. out' = out
    BY <1>5 DEF TakesE1, TakesE2
  <2> QED BY <1>1, <1>2, <1>3, <1>5, <2>1
<1>6. CASE Answering
  <2>1. PICK kind \in {"none", "error", "frame"}, rows \in {NoRows, got} :
           /\ out' = Append(out, Answer(kind, rows)) /\ got' = <<>>
           /\ Answer(kind, rows) \in Results /\ rows \in Seq(Row)
           /\ kind = "none" => got = <<>>
           /\ kind = "frame" => got # <<>>
    BY <1>6, AnsweringAnswers, AnswerIs
  <2> DEFINE r == Answer(kind, rows)
  <2>2. r \in Results /\ r.kind = kind
    BY <2>1, AnswerType
  <2>3. out' = Append(out, r)
    BY <2>1
  <2> HIDE DEF r
  <2>4. Answered(out') = Answered(out) + (IF kind = "none" THEN 0 ELSE 1)
    BY <1>3, <2>2, <2>3, AnsweredAppend
  <2>5. CASE kind = "error"
    <3>1. FailsE1 \/ FailsE2 \/ Stumbles
      <4>1. ~Refuses
        BY DEF Refuses
      <4>2. ~Ends
        <5> SUFFICES ASSUME Ends PROVE FALSE
          OBVIOUS
        <5>1. state' = "done" /\ out' = Append(out, Answer("none", NoRows))
          BY DEF Ends, Return, Answer, NoRows
        <5> DEFINE q == Answer("none", NoRows)
        <5>2. q \in Results /\ q.kind = "none"
          BY NoRowsType, AnswerType
        <5> HIDE DEF q
        <5>3. Append(out, q)[Len(out) + 1] = q /\ Append(out, r)[Len(out) + 1] = r
          BY <1>3, <2>2, <5>2, AppendProperties
        <5> QED BY <2>2, <2>3, <2>5, <5>1, <5>2, <5>3 DEF q
      <4>3. ~Finish
        <5> SUFFICES ASSUME Finish PROVE FALSE
          OBVIOUS
        <5>1. FinishesWith("none", NoRows) \/ FinishesWith("frame", Frame)
          BY FinishIs
        <5> DEFINE q == IF FinishesWith("none", NoRows) THEN Answer("none", NoRows)
                        ELSE Answer("frame", Frame)
        <5>2. out' = Append(out, q)
          BY <5>1 DEF FinishesWith, Answers
        <5>3. q \in Results /\ q.kind # "error"
          <6>1. Frame \in Seq(Row)
            BY NoRowsType, Sources DEF Frame
          <6>2. /\ Answer("none", NoRows) \in Results /\ Answer("none", NoRows).kind = "none"
                /\ Answer("frame", Frame) \in Results /\ Answer("frame", Frame).kind = "frame"
            BY <6>1, NoRowsType, AnswerType
          <6> QED BY <6>2
        <5> HIDE DEF q
        <5>4. Append(out, q)[Len(out) + 1] = q /\ Append(out, r)[Len(out) + 1] = r
          BY <1>3, <2>2, <5>3, AppendProperties
        <5> QED BY <2>2, <2>3, <2>5, <5>2, <5>3, <5>4
      <4> QED BY <1>6, <4>1, <4>2, <4>3 DEF Answering
    <3> QED BY <1>1, <1>2, <1>3, <2>1, <2>4, <2>5, <3>1
  <2>6. CASE kind = "none"
    BY <1>1, <1>2, <1>3, <2>1, <2>4, <2>6
  <2>7. CASE kind = "frame"
    BY <1>1, <1>2, <1>3, <2>1, <2>4, <2>7
  <2> QED BY <2>5, <2>6, <2>7
<1> QED BY <1>4, <1>5, <1>6 DEF SomeStep, Answering

-----------------------------------------------------------------------------
IInv ==
  /\ Typed /\ Standing /\ Calling /\ Limits /\ Ordered
  /\ Walked /\ Exact /\ SureKept /\ EndMeansAll /\ Counted

(* An E2 reader that has just been opened.                                 *)
LEMMA OpenReaderIs ==
  ASSUME NEW f, FileOK(f)
  PROVE  LET r == OpenReader
         IN /\ r \in Readers /\ Stands(f, r) /\ Walks(f, r)
            /\ Delivered(f, r) = 0 /\ Spent(f, r) = 0
<1> DEFINE r == OpenReader
           n == Len(f.blocks)
           e == StreamEnd(f)
<1>1. f.blocks \in Seq(BlockType) /\ n \in Nat
  BY DEF FileOK
<1>2. e \in 1..n + 1
  BY <1>1, StreamEndIs
<1>3. /\ r.pos = 1 /\ r.blobs = {} /\ r.last_blob = 0 /\ r.at = 0 /\ r.spans = <<>>
      /\ r.idx = 0 /\ ~r.detected /\ ~r.exhausted /\ r \in Readers
  BY DEF OpenReader, Readers
<1>4. Len(r.spans) = 0
  BY <1>3
<1> HIDE DEF r, e
<1>5. Stands(f, r)
  BY <1>1, <1>3, <1>4 DEF Stands, n
<1>6. PassedTo(f, r.pos) = 0
  BY <1>2, <1>3 DEF PassedTo, e
<1>7. BlobBefore(f, r.pos) = {}
  BY <1>3 DEF BlobBefore
<1>8. Walks(f, r)
  BY <1>2, <1>3, <1>6, <1>7 DEF Walks, e
<1>9. Delivered(f, r) = 0
  <2>1. Declared(f) \in Seq(Nat)
    BY <1>1, DeclaredIs
  <2>2. Sums(Declared(f))[0] = 0
    BY <2>1, SumsSteps
  <2> QED BY <1>3, <1>4, <1>6, <2>2 DEF Delivered
<1>10. Spent(f, r) = 0
  <2>1. Sums(Held(f))[0] = 0
    BY HeldIs, SumsSteps
  <2> QED BY <1>3, <1>4, <2>1 DEF Spent
<1> QED BY <1>3, <1>5, <1>8, <1>9, <1>10 DEF r

(* Nothing has been answered.                                              *)
LEMMA NothingAnswered ==
  ASSUME NEW o, o = <<>>
  PROVE  /\ o \in Seq(Results) /\ ErrorsIn(o) = {} /\ Rows(o) = <<>> /\ SureIn(o) = <<>>
         /\ Answered(o) = 0 /\ TakenOf(o, <<>>) = <<>>
<1>1. o \in Seq(Results) /\ DOMAIN o = {} /\ Len(o) = 0
  OBVIOUS
<1>2. ErrorsIn(o) = {}
  BY <1>1 DEF ErrorsIn
<1>3. Rows(o) = <<>>
  BY RowsEmpty
<1>4. SureIn(o) = <<>>
  <2> HIDE DEF Rows
  <2>1. SureIn(o) = Rows(SubSeq(o, 1, Len(o) + 1 - 1))
    BY <1>2 DEF SureIn, FirstErrorIn
  <2>2. SubSeq(o, 1, Len(o) + 1 - 1) = o
    OBVIOUS
  <2> QED BY <1>3, <2>1, <2>2
<1>5. Answered(o) = 0
  <2>1. {k \in DOMAIN o : o[k].kind # "none"} = {}
    BY <1>1
  <2> QED BY <2>1, FS_EmptySet DEF Answered
<1>6. TakenOf(o, <<>>) = <<>>
  BY <1>3 DEF TakenOf
<1> QED BY <1>1, <1>2, <1>3, <1>4, <1>5, <1>6

(* The inductive invariant holds at the start: RequestAssumption is used   *)
(* here and nowhere else.                                                  *)
LEMMA InitOK == Init => IInv
<1> SUFFICES ASSUME Init PROVE IInv
  OBVIOUS
<1>1. RequestOK(source, options)
  <2>1. PICK family \in Requests : \E request \in family :
          source = request.source /\ options = request.options
    BY DEF Init
  <2>2. PICK request \in family : source = request.source /\ options = request.options
    BY <2>1
  <2> QED BY <2>2, RequestAssumption DEF RequestOK, FileOK
<1>2. /\ reader = (IF E1 THEN 0 ELSE OpenReader)
      /\ rows_read = 0 /\ state = "idle" /\ want = 0 /\ got = <<>> /\ out = <<>>
  BY DEF Init
<1>3. /\ out \in Seq(Results) /\ ErrorsIn(out) = {} /\ Rows(out) = <<>> /\ SureIn(out) = <<>>
      /\ Answered(out) = 0 /\ Taken = <<>>
  BY <1>2, NothingAnswered DEF Taken
<1>4. /\ E1 => file.recs \in Seq({"ok", "cut"}) /\ reader = 0
      /\ ~E1 => /\ FileOK(file) /\ reader = OpenReader /\ reader \in Readers
                /\ Stands(file, reader) /\ Walks(file, reader)
                /\ Delivered(file, reader) = 0 /\ Spent(file, reader) = 0
  <2>1. E1 => file.recs \in Seq({"ok", "cut"})
    BY <1>1 DEF RequestOK, E1, file
  <2>2. ~E1 => FileOK(file)
    BY <1>1 DEF RequestOK, E1, file
  <2> QED BY <1>2, <2>1, <2>2, OpenReaderIs
<1>5. options.n_rows \in Nat \cup {-1} /\ options.columns \in {"all", "none", "unknown"}
  BY <1>1 DEF RequestOK
<1>6. Typed
  BY <1>1, <1>2, <1>3, <1>4 DEF Typed
<1>7. Standing /\ Calling
  BY <1>2, <1>4 DEF Standing, Calling
<1>8. Limits
  BY <1>2, <1>3, <1>5 DEF Limits
<1>9. Ordered
  BY <1>3 DEF Ordered, InOrder
<1>10. AllRecords \in Seq(Places) /\ Len(AllRecords) \in Nat
  BY <1>6, AllRecordsIs
<1>11. Matches(<<>>, AllRecords) /\ \A flag : AllRead(file, <<>>, flag)
  BY <1>10 DEF Matches, AllRead
<1>12. Walked
  BY <1>4 DEF Walked
<1>13. Exact
  BY <1>3, <1>4, <1>11 DEF Exact
<1>14. SureKept
  BY <1>3, <1>11 DEF SureKept
<1>15. EndMeansAll
  BY <1>2 DEF EndMeansAll
<1>16. Counted
  BY <1>2, <1>3, <1>4 DEF Counted, Gathering, Budget
<1> QED BY <1>6, <1>7, <1>8, <1>9, <1>12, <1>13, <1>14, <1>15, <1>16 DEF IInv

(* Every step preserves it.                                                *)
LEMMA NextOK == IInv /\ [Next]_vars => IInv'
<1> SUFFICES ASSUME IInv, [Next]_vars PROVE IInv'
  OBVIOUS
<1>1. /\ Typed /\ Standing /\ Calling /\ Limits /\ Ordered
      /\ Walked /\ Exact /\ SureKept /\ EndMeansAll /\ Counted
  BY DEF IInv
<1>2. source' = source /\ options' = options /\ SomeStep
  BY <1>1, NextSteps
<1>3. Typed' /\ Standing'
  BY <1>1, <1>2, TypedNext
<1>4. Calling'
  BY <1>1, <1>2, CallingNext
<1>5. Limits'
  BY <1>1, <1>2, LimitsNext
<1>6. Ordered'
  BY <1>1, <1>2, OrderedNext
<1>7. Walked'
  BY <1>1, <1>2, WalkedNext
<1>8. Exact'
  BY <1>1, <1>2, ExactNext
<1>9. SureKept'
  BY <1>1, <1>2, SureKeptNext
<1>10. EndMeansAll'
  BY <1>1, <1>2, EndingNext
<1>11. Counted'
  BY <1>1, <1>2, CountedNext
<1> QED BY <1>3, <1>4, <1>5, <1>6, <1>7, <1>8, <1>9, <1>10, <1>11 DEF IInv

(* The type invariant of the batch reader, with the parts its properties   *)
(* follow from, in every reachable state: for every file, batch size,      *)
(* limit and sequence of calls.                                            *)
THEOREM BatchInductive == Spec => []IInv
BY InitOK, NextOK, PTL DEF Spec

-----------------------------------------------------------------------------
(* The record under the reader is a sequence of numbers, so the theorem    *)
(* about decode_record_values applies to it.                               *)
LEMMA VerdictsFollow == IInv => VerdictsAreRight
<1> SUFFICES ASSUME IInv, AtRecord, NEW base \in {5, 6}
             PROVE  VerdictIsRight(decode_record_values(file.fields, reader.spans[reader.idx + 1],
                                                        reader.flag, base),
                                   file.fields, reader.spans[reader.idx + 1], reader.flag)
  BY DEF VerdictsAreRight
<1>1. /\ ~E1 /\ FileOK(file) /\ reader \in Readers /\ Stands(file, reader)
      /\ reader.idx < Len(reader.spans)
  BY Sources DEF IInv, AtRecord, Standing
<1> DEFINE rec == reader.spans[reader.idx + 1]
           fields == file.fields
           flag == reader.flag
<1>2. rec \in Seq(Nat)
  <2> DEFINE f == file
             r == reader
  <2>1. FileOK(f) /\ r \in Readers /\ Stands(f, r) /\ r.idx < Len(r.spans)
    BY <1>1
  <2> HIDE DEF f, r
  <2>2. r.spans[r.idx + 1] \in Seq(Nat)
    BY <2>1, RecordIs
  <2> QED BY <2>2 DEF r
<1>3. fields \in Seq(FieldTypes) /\ flag \in BOOLEAN
  BY <1>1 DEF FileOK, Readers
<1> HIDE DEF rec, fields, flag
<1>4. VerdictIsRight(decode_record_values(fields, rec, flag, base), fields, rec, flag)
  BY <1>2, <1>3, RecordVerdictIsRight
<1> QED BY <1>4 DEF rec, fields, flag

(* decode_record_values gives the record about to be decoded the verdict   *)
(* it deserves, whatever base the probe prefers (e2/reader.rs:             *)
(* decode_record_values, decode_record_adaptive).                          *)
THEOREM BatchVerdicts == Spec => []VerdictsAreRight
BY BatchInductive, VerdictsFollow, PTL

(* The sure rows are rows.                                                 *)
LEMMA SureRows ==
  ASSUME NEW o \in Seq(Results)
  PROVE  SureIn(o) \in Seq(Row)
<1> DEFINE m == FirstErrorIn(o) - 1
           c == SubSeq(o, 1, m)
<1>1. m \in 0..Len(o) /\ Len(o) \in Nat
  <2>1. CASE ErrorsIn(o) = {}
    BY <2>1 DEF FirstErrorIn
  <2>2. CASE ErrorsIn(o) # {}
    <3>1. ErrorsIn(o) \subseteq Nat /\ ErrorsIn(o) \subseteq 1..Len(o)
      BY DEF ErrorsIn
    <3>2. Min(ErrorsIn(o)) \in ErrorsIn(o)
      <4> HIDE DEF Min
      <4> QED BY <2>2, <3>1, MinIs
    <3> QED BY <2>2, <3>1, <3>2 DEF FirstErrorIn
  <2> QED BY <2>1, <2>2
<1> HIDE DEF m
<1>2. c \in Seq(Results)
  <2>1. \A k \in 1..m : o[k] \in Results
    BY <1>1, ElementOfSeq
  <2> QED BY <1>1, <2>1, SubSeqProperties
<1> HIDE DEF c
<1>3. Rows(c) \in Seq(Row)
  BY <1>2, TakenType, NoRowsType
<1> QED BY <1>3 DEF SureIn, c, m

(* Answers are counted in natural numbers.                                 *)
LEMMA AnsweredType ==
  ASSUME NEW o \in Seq(Results)
  PROVE  Answered(o) \in Nat
<1> DEFINE r == Answer("none", NoRows)
<1>1. r \in Results
  BY AnswerType, NoRowsType
<1> HIDE DEF r
<1> QED BY <1>1, AnsweredAppend

(* The rows before the first error are the file's first records; rows      *)
(* after it are still in order, because Taken begins with all rows.        *)
LEMMA RowsFollow == IInv => RowsAreExact
<1> SUFFICES ASSUME IInv PROVE RowsAreExact
  OBVIOUS
<1> DEFINE rows == Rows(out)
           sure == SureIn(out)
           all == AllRecords
<1>1. out \in Seq(Results) /\ got \in Seq(Row)
  BY DEF IInv, Typed
<1>2. sure = Rows(SubSeq(out, 1, FirstError - 1))
  BY ErrorsAre DEF SureIn
<1>3. rows \in Seq(Row) /\ all \in Seq(Places) /\ Taken \in Seq(Row)
  BY TakenTypes, AllRecordsIs DEF IInv
<1>4. sure \in Seq(Row)
  BY <1>1, SureRows
<1>5. Matches(sure, all) /\ (~E1 => AllRead(file, sure, reader.flag))
  BY DEF IInv, SureKept
<1>6. \A k \in 1..(Len(rows) - 1) : Before(rows[k], rows[k + 1])
  <2>1. CASE options.columns = "all"
    <3>1. InOrder(Taken, Here)
      BY <2>1 DEF IInv, Ordered
    <3>2. Begins(rows, Taken)
      BY <1>1, TakenType DEF Taken
    <3>3. InOrder(rows, Here)
      <4> DEFINE s == Taken
                 here == Here
      <4>1. s \in Seq(Row) /\ rows \in Seq(Row) /\ Begins(rows, s) /\ InOrder(s, here)
        BY <1>3, <3>1, <3>2
      <4> HIDE DEF s, here, rows
      <4>2. InOrder(rows, here)
        BY <4>1, InOrderBegins
      <4> QED BY <4>2 DEF here
    <3> QED BY <3>3 DEF InOrder
  <2>2. CASE options.columns # "all"
    <3>1. rows = <<>>
      BY <2>2 DEF IInv, Limits
    <3> QED BY <3>1
  <2> QED BY <2>1, <2>2
<1>7. Positions(sure) = SubSeq(all, 1, Len(sure))
  <2> HIDE DEF sure, all
  <2> QED BY <1>3, <1>4, <1>5, MatchesIs
<1>8. ~E1 => \A k \in DOMAIN sure : ReadsAs(file, sure[k], reader.flag)
  BY <1>4, <1>5 DEF AllRead
<1> HIDE DEF rows, sure, all
<1> QED BY <1>2, <1>6, <1>7, <1>8 DEF RowsAreExact, rows, all

(* No batch leaves out, repeats, reorders or misreads a record before the  *)
(* first error, and none repeats or reorders one after it (next_batch of   *)
(* the E1 and of the E2 reader).                                           *)
THEOREM BatchRows == Spec => []RowsAreExact
BY BatchInductive, RowsFollow, PTL

(* None without an error before it means that n_rows rows were returned    *)
(* or the file is at its end, and then count_records agrees with the rows  *)
(* decoded.                                                                *)
THEOREM BatchEnding == Spec => []EndMeansAll
<1>1. IInv => EndMeansAll
  BY DEF IInv
<1> QED BY <1>1, BatchInductive, PTL

(* As many answers as were paid for.                                       *)
LEMMA EndsFollow == IInv => IterationEnds
<1> SUFFICES ASSUME IInv, ~Refused PROVE Answered(out) <= Work
  BY DEF IterationEnds, Answered
<1>1. Answered(out) + Gathering <= Budget
  BY DEF IInv, Counted
<1>2. Budget \in Int /\ Budget <= Work /\ Work \in Nat
  BY BudgetType DEF IInv
<1>3. Answered(out) \in Nat
  BY AnsweredType DEF IInv, Typed
<1>4. Gathering \in {0, 1}
  BY DEF Gathering
<1> HIDE DEF Answered, Work
<1> QED BY <1>1, <1>2, <1>3, <1>4

(* The calls that do not answer None are not more than the file has        *)
(* blocks and records (an E1 file: records), also for a caller that asks   *)
(* again after every error.                                                *)
THEOREM BatchEnds == Spec => []IterationEnds
BY BatchInductive, EndsFollow, PTL
=============================================================================
