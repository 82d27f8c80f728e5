---------------------------- MODULE RecordFormat ----------------------------
(***************************************************************************)
(* The values of an E1 record as bytes: numbers, dates, decimals, strings  *)
(* and variable-length data, as writer.rs lays them out and as record.rs   *)
(* and reader.rs find them again.                                          *)
(*                                                                         *)
(* An optional value is a sequence of none or one.  A string is the        *)
(* sequence of its code points.  Offsets are the code's, from 0: the byte  *)
(* at offset o of a record is element o + 1.                               *)
(***************************************************************************)
EXTENDS Integers, Sequences, SequencesExt, FiniteSetsExt

CONSTANTS
  SECOND,   (* microseconds in a second, 1000000 in the code               *)
  RATIO,    (* nanoseconds in a microsecond, microseconds in a millisecond *)
  CHUNK     (* code units the vector path of transcode_utf16le takes, 8    *)

ASSUME UnitAssumption == SECOND \in Nat \ {0} /\ RATIO \in Nat \ {0} /\ CHUNK \in Nat \ {0}

None == <<>>
Some(v) == <<v>>

Slice(bytes, off, n) == SubSeq(bytes, off + 1, off + n)
At(bytes, off) == bytes[off + 1]

-----------------------------------------------------------------------------
(* Numbers: little-endian, two's complement.                               *)

to_le_bytes[n \in Int, width \in Nat] ==
  IF width = 0 THEN <<>> ELSE <<n % 256>> \o to_le_bytes[n \div 256, width - 1]

from_le_bytes[b \in Seq(0..255)] ==
  IF Len(b) = 1 THEN IF b[1] >= 128 THEN b[1] - 256 ELSE b[1]
  ELSE b[1] + 256 * from_le_bytes[Tail(b)]

(* Division that rounds towards zero.                                      *)
Quotient(a, b) == IF a >= 0 THEN a \div b ELSE -((-a) \div b)

ToMicros(v, unit) ==
  CASE unit = "ns" -> Quotient(v, RATIO) [] unit = "us" -> v [] unit = "ms" -> v * RATIO

-----------------------------------------------------------------------------
(* Decimal text in ASCII                                                   *)

Digits[n \in Nat] ==
  IF n < 10 THEN <<48 + n>> ELSE Append(Digits[n \div 10], 48 + (n % 10))

ZeroPadded(n, width) ==
  [k \in 1..Max({0, width - Len(Digits[n])}) |-> 48] \o Digits[n]

(* {:04} of a year: a minus sign counts.                                   *)
YearText(y) == IF y >= 0 THEN ZeroPadded(y, 4) ELSE <<45>> \o ZeroPadded(-y, 3)

IsDigit(b) == b \in 48..57

(* The number of n digits at offset `at`, -1 if one is not a digit.        *)
Parsed(text, at, n) ==
  IF \A k \in 1..n : IsDigit(text[at + k])
    THEN FoldLeft(LAMBDA acc, b : 10 * acc + (b - 48), 0, Slice(text, at, n))
    ELSE -1

(* Truncated or padded with zero bytes to the width of the field.          *)
write_fixed_ascii(text, width) == [k \in 1..width |-> IF k <= Len(text) THEN text[k] ELSE 0]

(* Up to the first zero byte.                                              *)
Terminated(bytes) ==
  LET zeros == {k \in DOMAIN bytes : bytes[k] = 0}
  IN IF zeros = {} THEN bytes ELSE SubSeq(bytes, 1, Min(zeros) - 1)

-----------------------------------------------------------------------------
(* Dates and times                                                         *)

days_to_civil(days) ==
  LET z == days + 719468
      era == Quotient(IF z >= 0 THEN z ELSE z - 146096, 146097)
      doe == z - era * 146097
      yoe == (doe - doe \div 1460 + doe \div 36524 - doe \div 146096) \div 365
      doy == doe - (365 * yoe + yoe \div 4 - yoe \div 100)
      mp == (5 * doy + 2) \div 153
      m == IF mp < 10 THEN mp + 3 ELSE mp - 9
  IN [y |-> yoe + era * 400 + (IF m <= 2 THEN 1 ELSE 0),
      m |-> m, d |-> doy - (153 * mp + 2) \div 5 + 1]

civil_to_days(year, m, d) ==
  LET y == IF m <= 2 THEN year - 1 ELSE year
      era == Quotient(IF y >= 0 THEN y ELSE y - 399, 400)
      yoe == y - era * 400
      doy == (153 * (IF m > 2 THEN m - 3 ELSE m + 9) + 2) \div 5 + d - 1
      doe == yoe * 365 + yoe \div 4 - yoe \div 100 + doy
  IN era * 146097 + doe - 719468

days_to_date_str(days) ==
  LET c == days_to_civil(days)
  IN YearText(c.y) \o <<45>> \o ZeroPadded(c.m, 2) \o <<45>> \o ZeroPadded(c.d, 2)

ClockText(s) ==
  ZeroPadded(s \div 3600, 2) \o <<58>> \o ZeroPadded((s % 3600) \div 60, 2) \o <<58>>
    \o ZeroPadded(s % 60, 2)

us_to_datetime_str(us) ==
  LET secs == us \div SECOND
  IN days_to_date_str(secs \div 86400) \o <<32>> \o ClockText(secs % 86400)

ns_to_time_str(ns) == ClockText(ns \div (SECOND * RATIO))

parse_date_to_days(text) ==
  IF \E p \in {Parsed(text, 0, 4), Parsed(text, 5, 2), Parsed(text, 8, 2)} : p = -1 THEN None
  ELSE Some(civil_to_days(Parsed(text, 0, 4), Parsed(text, 5, 2), Parsed(text, 8, 2)))

parse_time(text, at) ==
  IF \E p \in {Parsed(text, at, 2), Parsed(text, at + 3, 2), Parsed(text, at + 6, 2)} : p = -1
    THEN None
    ELSE Some(3600 * Parsed(text, at, 2) + 60 * Parsed(text, at + 3, 2) + Parsed(text, at + 6, 2))

parse_time_to_ns(text) ==
  IF parse_time(text, 0) = None THEN None ELSE Some(parse_time(text, 0)[1] * SECOND * RATIO)

parse_datetime_to_us(text) ==
  IF parse_date_to_days(text) = None \/ parse_time(text, 11) = None THEN None
  ELSE Some((parse_date_to_days(text)[1] * 86400 + parse_time(text, 11)[1]) * SECOND)

-----------------------------------------------------------------------------
(* Decimals                                                                *)

format_decimal_i128(v, scale) ==
  LET abs == IF v < 0 THEN -v ELSE v
  IN (IF v < 0 THEN <<45>> ELSE <<>>)
       \o (IF scale = 0 THEN Digits[abs]
           ELSE Digits[abs \div 10^scale] \o <<46>> \o ZeroPadded(abs % 10^scale, scale))

Read10(bytes) ==
  FoldLeft(LAMBDA acc, b : IF IsDigit(b) THEN 10 * acc + (b - 48) ELSE acc, 0, bytes)

parse_decimal_i128(text, scale) ==
  LET neg == text # <<>> /\ text[1] = 45
      s == IF neg THEN Tail(text) ELSE text
      dots == {k \in DOMAIN s : s[k] = 46}
      dot == IF dots = {} THEN Len(s) + 1 ELSE Min(dots)
      frac == [k \in 1..scale |-> IF dot + k <= Len(s) /\ IsDigit(s[dot + k])
                                    THEN s[dot + k] ELSE 48]
      abs == Read10(SubSeq(s, 1, dot - 1) \o frac)
  IN IF neg THEN -abs ELSE abs

-----------------------------------------------------------------------------
(* Strings                                                                 *)

Utf8Of(c) ==
  CASE c < 128 -> <<c>>
    [] c \in 128..2047 -> <<192 + c \div 64, 128 + (c % 64)>>
    [] c \in 2048..65535 -> <<224 + c \div 4096, 128 + ((c \div 64) % 64), 128 + (c % 64)>>
    [] OTHER -> <<240 + c \div 262144, 128 + ((c \div 4096) % 64),
                  128 + ((c \div 64) % 64), 128 + (c % 64)>>

ToUtf8(s) == FlattenSeq([k \in DOMAIN s |-> Utf8Of(s[k])])

Utf8Length(lead) ==
  CASE lead < 128 -> 1 [] lead \in 192..223 -> 2 [] lead \in 224..239 -> 3
    [] lead >= 240 -> 4 [] OTHER -> 0

REPLACEMENT == 65533

(* from_utf8 and, where that fails, from_utf8_lossy: a sequence cut short  *)
(* or a byte that starts none is replaced.                                 *)
RECURSIVE FromUtf8(_)
FromUtf8(b) ==
  LET n == Utf8Length(b[1])
      Lead == CASE n = 1 -> b[1] [] n = 2 -> b[1] - 192 [] n = 3 -> b[1] - 224 [] n = 4 -> b[1] - 240
      whole == n # 0 /\ n <= Len(b) /\ \A k \in 2..n : b[k] \in 128..191
      run == Max({1} \cup {k \in 2..Min({n, Len(b)}) : \A j \in 2..k : b[j] \in 128..191})
      code == FoldLeft(LAMBDA acc, c : 64 * acc + (c - 128), Lead, SubSeq(b, 2, n))
  IN IF b = <<>> THEN <<>>
     ELSE IF whole THEN <<code>> \o FromUtf8(SubSeq(b, n + 1, Len(b)))
     ELSE <<REPLACEMENT>> \o FromUtf8(SubSeq(b, run + 1, Len(b)))

Utf16Of(c) ==
  IF c < 65536 THEN <<c>>
  ELSE <<55296 + (c - 65536) \div 1024, 56320 + ((c - 65536) % 1024)>>

encode_utf16(s) == FlattenSeq([k \in DOMAIN s |-> Utf16Of(s[k])])

UnitBytes(units) == FlattenSeq([k \in DOMAIN units |-> <<units[k] % 256, units[k] \div 256>>])

Units(bytes) == [k \in 1..(Len(bytes) \div 2) |-> bytes[2 * k - 1] + 256 * bytes[2 * k]]

High(u) == u \in 55296..56319
Low(u) == u \in 56320..57343

(* String::from_utf16_lossy.                                               *)
RECURSIVE from_utf16_lossy(_)
from_utf16_lossy(units) ==
  IF units = <<>> THEN <<>>
  ELSE IF High(units[1]) /\ Len(units) > 1 /\ Low(units[2])
    THEN <<65536 + (units[1] - 55296) * 1024 + (units[2] - 56320)>>
           \o from_utf16_lossy(SubSeq(units, 3, Len(units)))
  ELSE <<IF High(units[1]) \/ Low(units[1]) THEN REPLACEMENT ELSE units[1]>>
         \o from_utf16_lossy(Tail(units))

(* transcode_utf16le, after its scalar tail; a high surrogate takes the    *)
(* unit after it along, whatever that is.                                  *)
RECURSIVE TranscodeScalar(_)
TranscodeScalar(units) ==
  LET u == units[1]
      pair == Len(units) > 1 /\ Low(units[2])
  IN IF units = <<>> THEN <<>>
     ELSE IF High(u)
       THEN (IF pair THEN Utf8Of(65536 + (u - 55296) * 1024 + (units[2] - 56320))
             ELSE Utf8Of(REPLACEMENT))
              \o TranscodeScalar(SubSeq(units, 3, Len(units)))
     ELSE Utf8Of(IF Low(u) THEN REPLACEMENT ELSE u) \o TranscodeScalar(Tail(units))

IsAscii_HighByte(u) == u \div 256 = 0

IsAscii(u) == u \div 256 = 0 /\ u < 128

RECURSIVE transcode_utf16le(_)
transcode_utf16le(units) ==
  IF Len(units) < CHUNK \/ High(units[1]) \/ Low(units[1]) THEN TranscodeScalar(units)
  ELSE IF \A k \in 1..CHUNK : IsAscii(units[k])
    THEN SubSeq(units, 1, CHUNK) \o transcode_utf16le(SubSeq(units, CHUNK + 1, Len(units)))
  ELSE Utf8Of(units[1]) \o transcode_utf16le(Tail(units))

write_fixed_wstring(s, size) ==
  UnitBytes([k \in 1..size |-> IF k <= Len(encode_utf16(s)) THEN encode_utf16(s)[k] ELSE 0])

-----------------------------------------------------------------------------
(* Variable-length data: a word in the fixed part, a block after it.  Words *)
(* are bytes; only the top byte tells a reference, an inline value and the *)
(* two special words apart, and no reference exceeds two bytes.            *)

Word(n, top) == <<n % 256, n \div 256, 0, top>>

append_var_block_header(n) == IF n <= 127 THEN <<2 * n + 1>> ELSE Word(2 * n, 0)

(* Where the data of the variable field at `start` is: none, or from which *)
(* offset to which.                                                        *)
Interval(from, n) == Some([from |-> from, to |-> from + n])

Within_Start(record, from, n) == from <= Len(record)

Within(record, from, n) == from + n <= Len(record)

WordAt(record, off) == At(record, off) + 256 * At(record, off + 1) + 65536 * At(record, off + 2)

SmallBlock(record, at) ==
  IF Within(record, at + 1, At(record, at) \div 2)
    THEN Interval(at + 1, At(record, at) \div 2) ELSE None

NormalBlock(record, at) ==
  IF ~Within(record, at, 4) \/ At(record, at + 3) # 0 THEN None
  ELSE IF Within(record, at + 4, WordAt(record, at) \div 2)
    THEN Interval(at + 4, WordAt(record, at) \div 2) ELSE None

locate_var_data(record, start) ==
  LET top == At(record, start + 3)
      block == start + WordAt(record, start)
  IN IF top = 0 /\ WordAt(record, start) = 0 THEN Interval(start, 0)
     ELSE IF top = 0 /\ WordAt(record, start) = 1 THEN None
     ELSE IF top < 128 /\ (top \div 16) % 4 # 0 THEN Interval(start, top \div 16)
     ELSE IF top % 128 # 0 \/ block >= Len(record) THEN None
     ELSE IF At(record, block) % 2 = 1 THEN SmallBlock(record, block)
     ELSE NormalBlock(record, block)

(* The bytes found there.                                                  *)
VarData(record, start) ==
  LET found == locate_var_data(record, start)
  IN IF found = None THEN None
     ELSE Some(Slice(record, found[1].from, found[1].to - found[1].from))
=============================================================================
