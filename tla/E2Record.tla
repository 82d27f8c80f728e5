------------------------------ MODULE E2Record ------------------------------
(***************************************************************************)
(* Decoding of one E2 record: decode_field of e2/record.rs and the search  *)
(* of e2/reader.rs for the way to frame the record's fields.  A record is  *)
(* a sequence of bytes without lengths or separators; how many bytes a     *)
(* field takes is told by its prefix byte, except that an Int32 prefix has *)
(* two readings, base 5 and base 6, and that a file may put a flag byte    *)
(* before the first date of each record.                                   *)
(*                                                                         *)
(* Values keep the bytes that make them: numbers are padded to their width *)
(* as the code pads them; what a date or a decimal looks like as text is   *)
(* left out.  The code compares framings with FieldValue's ==, for which a *)
(* NaN, Float or Double, differs from itself: it has a value of its own.   *)
(* What else == does not tell apart (0.0 and -0.0, DateTimes in the same   *)
(* second, text with bytes replaced) never decides: two framings part at   *)
(* an Int32 of the same value only if the longer one ends in a zero byte,  *)
(* with which the shorter one goes on, a null; every field behind it is    *)
(* then null at both of two adjacent bytes, and they do not end together.  *)
(***************************************************************************)
EXTENDS Integers, Sequences, FiniteSets, SequencesExt

CONSTANTS
  MAX_AMBIGUITY_STATES,   (* 16384 in the code                             *)
  MAX_AMBIGUITY_FIELDS    (* 256                                           *)

ASSUME LimitAssumption ==
  MAX_AMBIGUITY_STATES \in Nat /\ MAX_AMBIGUITY_FIELDS \in Nat

-----------------------------------------------------------------------------
(* decode_field                                                            *)

Decoded(v, next) == [ok |-> TRUE, v |-> v, next |-> next]
Failed == [ok |-> FALSE, v |-> <<>>, next |-> 0]

NullValue == <<"null">>

(* How a number is told by its prefix p: p in `nulls` is null, p = zero is *)
(* zero, else p - minus bytes follow, within least..most.                  *)
NumberFormat(type, base) ==
  LET Compact(null, b, width) ==
        [nulls |-> {null}, zero |-> b, minus |-> b, least |-> 1, most |-> width]
  IN CASE type = "Byte"     -> Compact(71, 6, 1)
       [] type = "Int16"    -> Compact(69, 6, 2)
       [] type = "Int32"    -> Compact(73, base, 4)
       [] type = "Int64"    -> Compact(74, 6, 8)
       [] type = "Float"    -> Compact(75, 7, 4)
       [] type = "Date"     -> Compact(77, 10, 4)
       [] type = "DateTime" -> Compact(78, 8, 6)
       [] type = "Time"     -> Compact(79, 12, 4)
       [] type = "Double"   ->
            [nulls |-> {72, 76}, zero |-> 6, minus |-> 4, least |-> 3, most |-> 8]

Numbers ==
  {"Byte", "Int16", "Int32", "Int64", "Float", "Double", "Date", "DateTime", "Time"}

FieldTypes ==
  Numbers \cup {"Bool", "FixedDecimal", "String", "WString", "VString", "VWString",
               "Blob", "SpatialObj"}

Padded(data, pos, n, width) ==
  [k \in 1..width |-> IF k <= n THEN data[pos + k] ELSE 0]

NotANumber == <<"nan">>

(* An IEEE float (f32::from_le_bytes) or double (f64::from_le_bytes) whose *)
(* exponent is all ones and whose fraction is not zero: but for its sign   *)
(* it is above infinity, which ends in the bytes 128 127 or 240 127.       *)
IsNaN(type, buf) ==
  LET width == Len(buf)
      infinity == IF type = "Float" THEN 128 ELSE 240
  IN /\ type \in {"Float", "Double"}
     /\ buf[width] % 128 = 127
     /\ \/ buf[width - 1] > infinity
        \/ buf[width - 1] = infinity /\ \E k \in 1..(width - 2) : buf[k] # 0

NumberValue(type, buf) == IF IsNaN(type, buf) THEN NotANumber ELSE <<"number", buf>>

TooWide(f, n) == n < f.least \/ n > f.most

decode_number(data, pos, type, f) ==
  LET n == data[pos] - f.minus
  IN IF data[pos] \in f.nulls THEN Decoded(NullValue, pos + 1)
     ELSE IF data[pos] = f.zero
       THEN Decoded(NumberValue(type, Padded(data, pos, 0, f.most)), pos + 1)
     ELSE IF data[pos] < f.zero \/ TooWide(f, n) \/ pos + n > Len(data) THEN Failed
     ELSE Decoded(NumberValue(type, Padded(data, pos, n, f.most)), pos + n + 1)

decode_bool(data, pos) ==
  IF data[pos] \in {20, 21} THEN Decoded(<<"bool", data[pos] = 21>>, pos + 1)
  ELSE IF data[pos] = 67 THEN Decoded(NullValue, pos + 1) ELSE Failed

(* Strings, blobs and spatial objects: null, inline with a length in the   *)
(* prefix or in two bytes, a slice of a blob block, or a whole blob block. *)
BytesFormat(type) ==
  CASE type \in {"String", "WString", "VString", "VWString"} ->
         [nulls |-> {0, 65}, long |-> {1}, slice |-> {17}, whole |-> {}]
    [] type = "Blob" ->
         [nulls |-> {0, 65}, long |-> {1, 2}, slice |-> {17}, whole |-> {18}]
    [] type = "SpatialObj" ->
         [nulls |-> {0, 67}, long |-> {3}, slice |-> {}, whole |-> {19}]

Inline(data, from, n) ==
  IF from + n - 1 > Len(data) THEN Failed
  ELSE Decoded(<<"bytes", SubSeq(data, from, from + n - 1)>>, from + n)

(* Little-endian numbers of a reference; the file positions of the model   *)
(* fit two bytes.                                                          *)
u16_at(data, pos) == data[pos] + 256 * data[pos + 1]

decode_bytes(data, pos, f) ==
  LET p == data[pos]
  IN IF p \in f.nulls THEN Decoded(NullValue, pos + 1)
     ELSE IF p >= 128 THEN Inline(data, pos + 1, p - 128)
     ELSE IF p \in f.long
       THEN IF pos + 2 > Len(data) THEN Failed
            ELSE Inline(data, pos + 3, u16_at(data, pos + 1))
     ELSE IF p \notin f.slice \cup f.whole \/ pos + 8 > Len(data) THEN Failed
     ELSE IF p \in f.slice
       THEN Decoded(<<"slice", u16_at(data, pos + 1), u16_at(data, pos + 5)>>, pos + 9)
       ELSE Decoded(<<"whole", u16_at(data, pos + 1)>>, pos + 9)

Nibble(data, pos, i) ==
  LET byte == data[pos + 3 + i \div 2]
  IN IF i % 2 = 0 THEN byte \div 16 ELSE byte % 16

(* A marker, the number of the last digit, sign and scale, packed digits.  *)
decode_fixed_decimal(data, pos) ==
  LET last == data[pos + 1]
      next == pos + 3 + last \div 2 + 1
  IN IF data[pos] \in {0, 76} THEN Decoded(NullValue, pos + 1)
     ELSE IF data[pos] # 4 \/ pos + 2 > Len(data) THEN Failed
     ELSE IF next - 1 > Len(data) THEN Failed
     ELSE IF \E i \in 0..last : Nibble(data, pos, i) > 9 THEN Failed
     ELSE Decoded(<<"decimal", [i \in 1..last + 1 |-> Nibble(data, pos, i - 1)],
                    data[pos + 2] % 128, data[pos + 2] >= 128>>, next)

DecodeAt(data, pos, type, base) ==
  CASE type = "Bool"         -> decode_bool(data, pos)
    [] type \in Numbers      -> decode_number(data, pos, type, NumberFormat(type, base))
    [] type = "FixedDecimal" -> decode_fixed_decimal(data, pos)
    [] OTHER                 -> decode_bytes(data, pos, BytesFormat(type))

(* `flagged`: this is the first date of a record in a file with date flags. *)
decode_field(data, off, type, flagged, base) ==
  LET pos == IF flagged THEN off + 1 ELSE off
  IN IF off > Len(data) THEN Failed
     ELSE IF flagged /\ data[off] # 0 THEN Failed
     ELSE IF pos > Len(data) THEN Failed
     ELSE DecodeAt(data, pos, type, base)

(* What a field can hold.                                                  *)
Value ==
  {NullValue, NotANumber}
  \cup {"number", "bytes"} \X Seq(Nat) \cup {"bool"} \X BOOLEAN
  \cup {"slice"} \X Nat \X Nat \cup {"whole"} \X Nat
  \cup {"decimal"} \X Seq(Nat) \X Nat \X BOOLEAN

is_e2_verified_type(type) == type \notin {"Time", "WString"}

-----------------------------------------------------------------------------
(* Framing a record                                                        *)

IsFirstDate(fields, i) ==
  fields[i] = "Date" /\ \A j \in 1..(i - 1) : fields[j] # "Date"

FieldAt(fields, data, flag, base, i, off) ==
  decode_field(data, off, fields[i], flag /\ IsFirstDate(fields, i), base)

Ambiguous(fields, data, i, off) ==
  fields[i] = "Int32" /\ off <= Len(data) /\ data[off] = 9

(* Every Int32 in the same base, up to the first field that does not       *)
(* decode: [ok, off, values, saw], where saw tells that an ambiguous       *)
(* prefix was met.                                                         *)
FieldRead(fields, data, flag, base, i, r) ==
  LET d == FieldAt(fields, data, flag, base, i, r.off)
  IN IF ~r.ok THEN r
     ELSE IF ~d.ok THEN [r EXCEPT !.ok = FALSE]
     ELSE [ok |-> TRUE, off |-> d.next, values |-> Append(r.values, d.v),
           saw |-> r.saw \/ Ambiguous(fields, data, i, r.off)]

ReadUniformly(fields, data, flag, base) ==
  LET upto[i \in 0..Len(fields)] ==
        IF i = 0 THEN [ok |-> TRUE, off |-> 1, values |-> <<>>, saw |-> FALSE]
        ELSE FieldRead(fields, data, flag, base, i, upto[i - 1])
  IN upto[Len(fields)]

(* Bytes that the fields consume up to the first one that does not decode. *)
try_decode_consumed(fields, data, flag, base) ==
  ReadUniformly(fields, data, flag, base).off - 1

decode_record_with_base(fields, data, flag, base) ==
  LET r == ReadUniformly(fields, data, flag, base)
  IN [r EXCEPT !.ok = @ /\ r.off = Len(data) + 1]

(* Rust's == on values: a NaN equals nothing.                              *)
Same(u, v) == u = v /\ ~Contains(u, NotANumber)

HasSame(candidates, v) == \E k \in DOMAIN candidates : Same(candidates[k], v)

(* The readings of one field, without a second one equal to the first.     *)
Alternatives(fields, data, flag, base, i, off) ==
  LET one == FieldAt(fields, data, flag, base, i, off)
      other == FieldAt(fields, data, flag, 11 - base, i, off)
  IN (IF one.ok THEN <<one>> ELSE <<>>)
       \o (IF Ambiguous(fields, data, i, off) /\ other.ok
               /\ (one.ok => other # one \/ other.v = NotANumber)
             THEN <<other>> ELSE <<>>)

(* The depth-first search.  A call reads on at byte `off` behind `values`; *)
(* its state is threaded through: `failed` remembers fields and positions  *)
(* from which no framing was found, `found` is what the last call returned *)
(* and `error` that a limit stopped the search.                            *)
States ==
  [failed : SUBSET (Nat \X Nat), examined : Nat, candidates : Seq(Seq(Value)),
   found : BOOLEAN, error : BOOLEAN]

Calls == [off : Nat \ {0}, values : Seq(Value), state : States]

CallWith(off, values, s) == [off |-> off, values |-> values, state |-> s]

Remembers(t, before) == t.candidates = before /\ ~t.found

(* All fields are read.                                                    *)
Arrived(data, call, s) ==
  LET whole == call.off = Len(data) + 1
  IN [s EXCEPT !.found = whole,
               !.candidates = IF whole /\ ~HasSame(@, call.values)
                                THEN Append(@, call.values) ELSE @]

(* One of the readings of a field, and the fields behind it.               *)
Try(deeper, call, d, s) ==
  LET t == deeper[CallWith(d.next, Append(call.values, d.v), s)]
  IN [t EXCEPT !.found = @ \/ s.found]

(* There are at most two readings.                                         *)
TryAll(deeper, call, alternatives, s) ==
  LET first == Try(deeper, call, alternatives[1], s)
  IN IF alternatives = <<>> THEN s
     ELSE IF Len(alternatives) = 1 \/ first.error \/ Len(first.candidates) >= 2 THEN first
     ELSE Try(deeper, call, alternatives[2], first)

Noted(i, call, t) ==
  IF ~t.error /\ Remembers(t, call.state.candidates)
    THEN [t EXCEPT !.failed = @ \cup {<<i, call.off>>}] ELSE t

(* A call for fields i.., where `deeper` answers the calls for i + 1...    *)
Searched(fields, data, flag, base, i, deeper, call) ==
  LET s == [call.state EXCEPT !.examined = @ + 1, !.found = FALSE]
  IN IF Len(s.candidates) >= 2 THEN [call.state EXCEPT !.found = TRUE]
     ELSE IF s.examined > MAX_AMBIGUITY_STATES THEN [s EXCEPT !.error = TRUE]
     ELSE IF i > Len(fields) THEN Arrived(data, call, s)
     ELSE IF <<i, call.off>> \in s.failed THEN s
     ELSE Noted(i, call, TryAll(deeper, call,
                           Alternatives(fields, data, flag, base, i, call.off), s))

(* How calls are answered that have k fields to read.                      *)
decode_record_adaptive_from(fields, data, flag, base) ==
  LET left[k \in 0..Len(fields)] ==
        IF k = 0
          THEN [call \in Calls |->
                  Searched(fields, data, flag, base, Len(fields) + 1, <<>>, call)]
          ELSE [call \in Calls |->
                  Searched(fields, data, flag, base, Len(fields) + 1 - k, left[k - 1], call)]
  IN left

decode_record_adaptive(fields, data, flag, base) ==
  LET start == [failed |-> {}, examined |-> 0, candidates |-> <<>>, found |-> FALSE,
                error |-> FALSE]
  IN IF Len(fields) > MAX_AMBIGUITY_FIELDS THEN [start EXCEPT !.error = TRUE]
     ELSE decode_record_adaptive_from(fields, data, flag, base)[Len(fields)]
            [CallWith(1, <<>>, start)]

(* The verdict on a record: its values, or why there are none.             *)
Verdict(kind, values) == [kind |-> kind, values |-> values]

FromCandidates(one, other) ==
  IF one.error \/ other.error THEN Verdict("limit", <<>>)
  ELSE LET new == {k \in DOMAIN other.candidates :
                     ~HasSame(one.candidates, other.candidates[k])}
           count == Len(one.candidates) + Cardinality(new)
       IN CASE count = 0 -> Verdict("misfit", <<>>)
            [] count = 1 -> Verdict("ok", IF new = {} THEN one.candidates[1]
                                          ELSE other.candidates[CHOOSE k \in new : TRUE])
            [] count > 1 -> Verdict("ambiguous", <<>>)

FromUniform_Preferred(fields, data, flag, base, preferred, alternate) ==
  IF preferred.ok THEN Verdict("ok", preferred.values)
  ELSE IF alternate.ok THEN Verdict("ok", alternate.values)
  ELSE FromCandidates(decode_record_adaptive(fields, data, flag, base),
                      decode_record_adaptive(fields, data, flag, 11 - base))

FromUniform(fields, data, flag, base, preferred, alternate) ==
  IF "Int32" \notin ToSet(fields)
    THEN IF preferred.ok THEN Verdict("ok", preferred.values) ELSE Verdict("misfit", <<>>)
  ELSE IF preferred.ok /\ alternate.ok /\ ~preferred.saw /\ ~alternate.saw
    THEN IF Same(preferred.values, alternate.values)
           THEN Verdict("ok", preferred.values) ELSE Verdict("ambiguous", <<>>)
  ELSE FromCandidates(decode_record_adaptive(fields, data, flag, base),
                      decode_record_adaptive(fields, data, flag, 11 - base))

decode_record_values(fields, data, flag, base) ==
  FromUniform(fields, data, flag, base,
    decode_record_with_base(fields, data, flag, base),
    decode_record_with_base(fields, data, flag, 11 - base))

-----------------------------------------------------------------------------
(* What it should find: every way to read the last k fields from `off` to  *)
(* the end of the record, with Int32s in base b except that an ambiguous   *)
(* prefix may be in either.                                                *)
Readings(fields, data, flag, b, i, off) ==
  {FieldAt(fields, data, flag, base, i, off) :
     base \in IF Ambiguous(fields, data, i, off) THEN {5, 6} ELSE {b}}

BehindReading(d, shorter) ==
  IF d.ok THEN {<<d.v>> \o rest : rest \in shorter[d.next]} ELSE {}

BehindReadings(ds, shorter) == UNION {BehindReading(d, shorter) : d \in ds}

FramingsFrom(fields, data, flag, b) ==
  LET rests[k \in 0..Len(fields)] ==
        IF k = 0 THEN [off \in Nat \ {0} |-> IF off = Len(data) + 1 THEN {<<>>} ELSE {}]
        ELSE [off \in Nat \ {0} |->
                BehindReadings(Readings(fields, data, flag, b, Len(fields) + 1 - k, off),
                               rests[k - 1])]
  IN rests

Framings(fields, data, flag) ==
  UNION {FramingsFrom(fields, data, flag, b)[Len(fields)][1] : b \in {5, 6}}

(* Among distinct readings, a record's values are only known if there is   *)
(* one.  Only readings of an Int32 are ever compared; a NaN beside one may *)
(* make a single reading look like two.                                    *)
VerdictIsRight(verdict, fields, data, flag) ==
  LET all == Framings(fields, data, flag)
  IN CASE verdict.kind = "ok" -> all = {verdict.values}
       [] verdict.kind = "misfit" -> all = {}
       [] verdict.kind = "ambiguous" ->
            /\ "Int32" \in ToSet(fields)
            /\ \E u, v \in all : u # v \/ Contains(u, NotANumber)
       [] verdict.kind = "limit" -> TRUE
=============================================================================
