---------------------------- MODULE MCRecordCodec ----------------------------
(***************************************************************************)
(* Frames for TLC.  Code points: 97 is a, 233 needs two bytes of UTF-8,    *)
(* 256 needs UTF-16, 8364 three bytes, 128512 a surrogate pair.            *)
(***************************************************************************)
EXTENDS RecordCodec

Column(dtype, values) == [dtype |-> dtype, values |-> values]

Frame(columns) == [columns |-> columns, schema |-> <<>>]

(* Columns of two rows, each value next to a null, before and after it.    *)
Beside(dtype, values) ==
  UNION {{Frame(<<Column(dtype, <<Some(v), None>>)>>), Frame(<<Column(dtype, <<None, Some(v)>>)>>)} :
           v \in values}

Timed(dtype, unit, values) ==
  {Frame(<<[dtype |-> dtype, unit |-> unit, values |-> <<Some(v), None>>]>>) : v \in values}

Numbers ==
  Beside("bool", BOOLEAN) \cup Beside("u8", {0, 127, 255})
  \cup UNION {Beside(d, {-128, -1, 0, 127}) : d \in {"i8", "i16", "i32", "i64"}}
  \cup Beside("u16", {0, 32768, 65535}) \cup Beside("u32", {0, 65536})
  \cup Beside("u64", {0, 1, -1}) \cup Beside("i32", {-2147483647, 2147483647})
  \cup Beside("f32", {<<0, 0, 128, 63>>}) \cup Beside("f64", {<<1, 0, 0, 0, 0, 0, 248, 127>>})

Dates == Beside("date", {0, -1, 59, 11016, -25508, FirstDay, FirstDay - 1, LastDay, LastDay + 1,
                         -1084993, 36525000, 364522971, 364522972})

Times ==
  Timed("datetime", "us", {0, 1, -1, 172799, -172801})
  \cup Timed("datetime", "ms", {0, -1, 5000})
  \cup Timed("datetime", "ns", {0, 19, -20, 172800})
  \cup UNION {Timed("duration", u, {0, 15, -15}) : u \in {"ns", "us", "ms"}}
  \cup Beside("time", {0, 1, 86400 * SECOND * RATIO - 1})

Decimal(p, s, values) ==
  {Frame(<<[dtype |-> "decimal", precision |-> p, scale |-> s, values |-> <<Some(v), None, Some(v)>>]>>)
     : v \in values}

Decimals == Decimal(3, 0, {-999, 0, 7, 999}) \cup Decimal(4, 2, {-9999, -1, 0, 105, 9999})
            \cup Decimal(2, 2, {0, 99})

Narrow(s) == Decimal(2, 2, {s})

Texts == {<<>>, <<97>>, <<97, 97, 97>>, <<233>>, <<97, 233, 97>>, <<256>>, <<97, 8364>>,
          <<128512>>, <<97, 128512, 97>>, <<97, 233, 97, 97, 256>>, <<0, 97>>}

(* 127 bytes in a small block, 128 in a normal one; 63 and 64 code units.  *)
Long(n, c) == [k \in 1..n |-> c]

LongTexts == {Long(127, 97), Long(128, 97), Long(63, 97) \o <<233>>, Long(64, 233),
              Long(63, 256), Long(64, 256)}

Strings == Beside("str", Texts \cup LongTexts)

Fixed(type, size, texts) ==
  {[columns |-> <<Column("str", <<Some(s), None, Some(t)>>)>>,
    schema |-> <<[type |-> type, size |-> size, scale |-> 0]>>] : s \in texts, t \in {<<97>>, <<233>>}}

(* Schemas of the caller: strings of fixed width, a Byte from an Int16.    *)
Declared ==
  Fixed("String", 2, Texts) \cup Fixed("WString", 2, Texts) \cup Fixed("WString", 4, Texts)
  \cup {[columns |-> <<Column("i16", <<Some(v), None>>)>>,
         schema |-> <<[type |-> "Byte", size |-> 1, scale |-> 0]>>] : v \in {0, 255, 256, -1}}

(* Several variable fields in a record, around a field of fixed size: the  *)
(* second row sets other fields than the first.                            *)
Blobs == {None, Some(<<>>), Some(<<5>>), Some(Long(127, 7)), Some(Long(128, 7))}

Binary(spatial, values) == [dtype |-> "binary", spatial |-> spatial, values |-> values]

Pairs ==
  {Frame(<<Binary(FALSE, <<a, b>>), Column("u8", <<Some(1), None>>), Binary(TRUE, <<c, d>>)>>)
     : a \in Blobs, b \in {None, Some(<<>>), Some(<<5>>)}, c \in Blobs, d \in {None, Some(<<6, 6>>)}}
  \cup {Frame(<<Column("str", <<Some(s), t>>), Column("bool", <<None, Some(TRUE)>>),
                Column("str", <<t, Some(s)>>)>>)
          : s \in {<<>>, <<97>>, <<97, 256>>, <<233>>}, t \in {None, Some(<<>>), Some(<<97, 97>>)}}

MCFrames == Numbers \cup Dates \cup Times \cup Decimals \cup Strings \cup Declared \cup Pairs

(* Decimals with as many digits after the point as they have.              *)
NarrowFrames == Narrow(-25) \cup Narrow(25) \cup Narrow(-20)

(* An inline value of 7 bytes; references to the next byte, to the middle  *)
(* and past the end of a record; small and normal blocks longer than the   *)
(* record.                                                                 *)
MCBadWords == {<<0, 0, 0, 112>>, <<5, 0, 0, 128>>, <<1, 0, 0, 128>>, <<255, 255, 0, 128>>,
               <<4, 0, 0, 129>>, <<254, 0, 0, 0>>, <<255, 0, 0, 0>>, <<10, 0, 0, 64>>}
=============================================================================
