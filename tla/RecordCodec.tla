----------------------------- MODULE RecordCodec -----------------------------
(***************************************************************************)
(* A frame written to E1 records and read back: infer_schema, the metadata *)
(* both sides derive their field offsets from, build_record_into with the  *)
(* buffers it reuses from row to row, and the two decoders of a record,    *)
(* extract_field (row reader) and push_from_record (column builders).      *)
(*                                                                         *)
(* A column is [dtype, values] with, for some types, unit, precision,      *)
(* scale and spatial; a value is an option.  A field is                    *)
(* [type, size, scale, offset].                                            *)
(***************************************************************************)
EXTENDS RecordFormat

CONSTANTS
  Frames,    (* [columns, schema]: schema is <<>> where it is inferred     *)
  BadWords   (* what a damaged word of a variable field may hold           *)

VARIABLES
  frame,
  fields,    (* the writer's fields                                        *)
  attrs,     (* the metadata of the file                                   *)
  buf,       (* the writer's buffers [fixed, var_data, var_fixups]         *)
  row, col,  (* the value serialised next                                  *)
  records,
  state,     (* "open", "row", "refused", "written", "damaged", "read"     *)
  rows,      (* rows[r][i], by extract_all_fields                          *)
  cols       (* cols[i][r], by the column builders                         *)

vars == <<frame, fields, attrs, buf, row, col, records, state, rows, cols>>

-----------------------------------------------------------------------------
(* Schema and metadata                                                     *)

fixed_bytes(type, size) ==
  CASE type = "Bool" -> 1
    [] type = "Byte" -> 2
    [] type = "Int16" -> 3
    [] type \in {"Int32", "Float"} -> 5
    [] type \in {"Int64", "Double"} -> 9
    [] type \in {"FixedDecimal", "String"} -> size + 1
    [] type = "WString" -> 2 * size + 1
    [] type = "Date" -> 11
    [] type = "Time" -> 9
    [] type = "DateTime" -> 20
    [] type \in {"VString", "VWString", "Blob", "SpatialObj"} -> 4

is_variable(type) == type \in {"VString", "VWString", "Blob", "SpatialObj"}

(* Fields in order, each where the one before it ends.                     *)
LaidOut(types) ==
  [i \in DOMAIN types |->
    [type |-> types[i].type, size |-> types[i].size, scale |-> types[i].scale,
     offset |-> MapThenSumSet(LAMBDA j : fixed_bytes(types[j].type, types[j].size), 1..(i - 1))]]

FixedSize(fs) == Last(fs).offset + fixed_bytes(Last(fs).type, Last(fs).size)

Present(column) == {column.values[r][1] : r \in {r \in DOMAIN column.values : column.values[r] # None}}

column_needs_wide_string(column) == \E s \in Present(column) : \E k \in DOMAIN s : s[k] > 255

column_max_string_size(column, wide) ==
  Max({1} \cup {Len(IF wide THEN encode_utf16(s) ELSE ToUtf8(s)) : s \in Present(column)})

StringType(column, wide) ==
  [type |-> IF wide THEN "VWString" ELSE "VString", scale |-> 0,
   size |-> column_max_string_size(column, wide)]

Inferred(column) ==
  LET Plain(type, size) == [type |-> type, size |-> size, scale |-> 0]
      d == column.dtype
  IN CASE d = "bool"              -> Plain("Bool", 1)
       [] d = "u8"                -> Plain("Byte", 1)
       [] d \in {"i8", "i16"}     -> Plain("Int16", 2)
       [] d \in {"u16", "i32"}    -> Plain("Int32", 4)
       [] d \in {"u32", "i64", "u64", "duration"} -> Plain("Int64", 8)
       [] d = "f32"               -> Plain("Float", 4)
       [] d = "f64"               -> Plain("Double", 8)
       [] d = "str"               -> StringType(column, column_needs_wide_string(column))
       [] d = "date"              -> Plain("Date", 10)
       [] d = "datetime"          -> Plain("DateTime", 19)
       [] d = "time"              -> Plain("Time", 8)
       [] d = "binary"            -> Plain(IF column.spatial THEN "SpatialObj" ELSE "Blob", 0)
       [] d = "decimal" ->
            [type |-> "FixedDecimal", scale |-> column.scale,
             size |-> column.precision + 1 + (IF column.scale > 0 THEN 1 ELSE 0)]

infer_schema(f) ==
  LaidOut(IF f.schema # <<>> THEN f.schema
          ELSE [i \in DOMAIN f.columns |-> Inferred(f.columns[i])])

(* Only some types have a size in the metadata; without one it reads as 0. *)
build_meta_xml(fs) ==
  [i \in DOMAIN fs |->
    [type |-> fs[i].type, scale |-> IF fs[i].type = "FixedDecimal" THEN fs[i].scale ELSE 0,
     size |-> IF fs[i].type \in {"FixedDecimal", "String", "WString", "VString", "VWString",
                                 "Blob", "SpatialObj"}
                THEN fs[i].size ELSE 0]]

parse_meta_xml(xml) == LaidOut(xml)

Init ==
  /\ frame \in Frames
  /\ fields = infer_schema(frame)
  /\ attrs = build_meta_xml(fields)
  /\ buf = [fixed |-> <<>>, var_data |-> <<>>, var_fixups |-> <<>>]
  /\ row = 1 /\ col = 1
  /\ records = <<>>
  /\ state = "open"
  /\ rows = <<>> /\ cols = <<>>

-----------------------------------------------------------------------------
(* build_record_into                                                       *)

Put(bytes, off, new) ==
  [k \in DOMAIN bytes |-> IF k > off /\ k <= off + Len(new) THEN new[k - off] ELSE bytes[k]]

Cleared_KeepsFixups(b, size) ==
  [b EXCEPT !.fixed = [k \in 1..size |-> 0], !.var_data = <<>>]

Cleared(b, size) ==
  [fixed |-> [k \in 1..size |-> 0], var_data |-> <<>>, var_fixups |-> <<>>]

StartRecord ==
  /\ state = "open" /\ row <= Len(frame.columns[1].values)
  /\ buf' = Cleared(buf, FixedSize(fields))
  /\ col' = 1
  /\ state' = "row"
  /\ UNCHANGED <<frame, fields, attrs, row, records, rows, cols>>

(* The bytes of a value before its null byte.                              *)
NumberBytes(f, c, v) ==
  CASE f.type = "Byte"  -> <<v % 256>>
    [] f.type = "Int16" -> to_le_bytes[v, 2]
    [] f.type = "Int32" -> to_le_bytes[v, 4]
    [] f.type = "Int64" -> to_le_bytes[IF c.dtype = "duration" THEN ToMicros(v, c.unit) ELSE v, 8]
    [] f.type \in {"Float", "Double"} -> v

TextBytes(f, v) ==
  CASE f.type = "FixedDecimal" -> write_fixed_ascii(format_decimal_i128(v, f.scale), f.size)
    [] f.type = "String"   -> write_fixed_ascii(ToUtf8(v), f.size)
    [] f.type = "WString"  -> write_fixed_wstring(v, f.size)

DateBytes(f, c, v) ==
  CASE f.type = "Date"     -> write_fixed_ascii(days_to_date_str(v), 10)
    [] f.type = "Time"     -> write_fixed_ascii(ns_to_time_str(v), 8)
    [] f.type = "DateTime" -> write_fixed_ascii(us_to_datetime_str(ToMicros(v, c.unit)), 19)

Payload(f, c, v) ==
  CASE f.type \in {"FixedDecimal", "String", "WString"} -> TextBytes(f, v)
    [] f.type \in {"Date", "Time", "DateTime"} -> DateBytes(f, c, v)
    [] OTHER -> NumberBytes(f, c, v)

VarBytes(f, v) ==
  CASE f.type = "VString" -> ToUtf8(v)
    [] f.type = "VWString" -> UnitBytes(encode_utf16(v))
    [] OTHER -> v

WithVar(b, f, bytes) ==
  IF bytes = <<>> THEN [b EXCEPT !.fixed = Put(@, f.offset, Word(0, 0))]
  ELSE [fixed |-> Put(b.fixed, f.offset, Word(0, 0)),
        var_fixups |-> Append(b.var_fixups, [at |-> f.offset, start |-> Len(b.var_data)]),
        var_data |-> b.var_data \o append_var_block_header(Len(bytes)) \o bytes]

(* A null leaves the zeroed bytes of its value alone.                      *)
serialize_field_into(b, f, c, v) ==
  LET null == f.offset + fixed_bytes(f.type, f.size) - 1
  IN CASE f.type = "Bool" ->
            [b EXCEPT !.fixed = Put(@, f.offset, <<IF v = None THEN 2 ELSE IF v[1] THEN 1 ELSE 0>>)]
       [] is_variable(f.type) ->
            IF v = None THEN [b EXCEPT !.fixed = Put(@, f.offset, Word(1, 0))]
            ELSE WithVar(b, f, VarBytes(f, v[1]))
       [] OTHER ->
            [b EXCEPT !.fixed = IF v = None THEN Put(@, null, <<1>>)
                                ELSE Put(Put(@, f.offset, Payload(f, c, v[1])), null, <<0>>)]

(* A u64 above the largest i64 stands in the model as -1.                  *)
TooLarge(c, v) == c.dtype = "u64" /\ v = Some(-1)

CurrentValue == frame.columns[col].values[row]

SerializeField ==
  /\ state = "row" /\ col <= Len(fields)
  /\ ~TooLarge(frame.columns[col], CurrentValue)
  /\ buf' = serialize_field_into(buf, fields[col], frame.columns[col], CurrentValue)
  /\ col' = col + 1
  /\ UNCHANGED <<frame, fields, attrs, row, records, state, rows, cols>>

RefuseField ==
  /\ state = "row" /\ col <= Len(fields)
  /\ TooLarge(frame.columns[col], CurrentValue)
  /\ state' = "refused"
  /\ UNCHANGED <<frame, fields, attrs, buf, row, col, records, rows, cols>>

(* Offsets are relative to the word that holds them.                       *)
FixedUp(b, size) ==
  FoldLeft(LAMBDA fixed, x : Put(fixed, x.at, Word(size + 4 + x.start - x.at, 128)),
           b.fixed, b.var_fixups)

FinishRecord ==
  /\ state = "row" /\ col > Len(fields)
  /\ records' = Append(records,
       FixedUp(buf, FixedSize(fields))
         \o (IF \E i \in DOMAIN fields : is_variable(fields[i].type)
               THEN Word(Len(buf.var_data), 0) \o buf.var_data ELSE <<>>))
  /\ row' = row + 1
  /\ state' = IF row' > Len(frame.columns[1].values) THEN "written" ELSE "open"
  /\ UNCHANGED <<frame, fields, attrs, buf, col, rows, cols>>

-----------------------------------------------------------------------------
(* Reading                                                                 *)

IsNull(record, f) == At(record, f.offset + fixed_bytes(f.type, f.size) - 1) = 1

FixedPart(record, f) == Slice(record, f.offset, fixed_bytes(f.type, f.size) - 1)

Number(record, f) ==
  IF f.type = "Byte" THEN At(record, f.offset) ELSE from_le_bytes[FixedPart(record, f)]

WideText(record, f) == Terminated(Units(FixedPart(record, f)))

extract_field(record, f) ==
  LET Mapped(found, To(_)) == IF found = None THEN None ELSE Some(To(found[1]))
  IN CASE f.type = "Bool" ->
            IF At(record, f.offset) = 2 THEN None ELSE Some(At(record, f.offset) = 1)
       [] f.type = "VString" -> Mapped(VarData(record, f.offset), FromUtf8)
       [] f.type = "VWString" ->
            Mapped(VarData(record, f.offset), LAMBDA b : from_utf16_lossy(Units(b)))
       [] f.type \in {"Blob", "SpatialObj"} -> VarData(record, f.offset)
       [] OTHER ->
            IF IsNull(record, f) THEN None
            ELSE CASE f.type \in {"Byte", "Int16", "Int32", "Int64"} -> Some(Number(record, f))
                   [] f.type \in {"Float", "Double"} -> Some(FixedPart(record, f))
                   [] f.type = "WString" -> Some(from_utf16_lossy(WideText(record, f)))
                   [] OTHER -> Some(FromUtf8(Terminated(FixedPart(record, f))))

(* What push_from_record makes of a field.                                 *)
Decoded(record, f) ==
  LET Mapped(found, To(_)) == IF found = None THEN None ELSE Some(To(found[1]))
  IN CASE f.type \in {"Bool", "VString", "Blob", "SpatialObj"} -> extract_field(record, f)
       [] f.type = "VWString" ->
            Mapped(VarData(record, f.offset), LAMBDA b : FromUtf8(transcode_utf16le(Units(b))))
       [] OTHER ->
            IF IsNull(record, f) THEN None
            ELSE CASE f.type = "FixedDecimal" ->
                        Some(parse_decimal_i128(Terminated(FixedPart(record, f)), f.scale))
                   [] f.type = "WString" ->
                        Some(FromUtf8(transcode_utf16le(WideText(record, f))))
                   [] f.type = "Date" -> parse_date_to_days(FixedPart(record, f))
                   [] f.type = "Time" -> parse_time_to_ns(FixedPart(record, f))
                   [] f.type = "DateTime" -> parse_datetime_to_us(FixedPart(record, f))
                   [] OTHER -> extract_field(record, f)

(* A builder keeps a value for every row, 0 where there is none, and the   *)
(* validity apart from it.                                                 *)
NewBuilder == [values |-> <<>>, validity |-> <<>>, has_nulls |-> FALSE]

push_from_record(b, v) ==
  [values |-> Append(b.values, IF v = None THEN 0 ELSE v[1]),
   validity |-> Append(b.validity, v # None),
   has_nulls |-> b.has_nulls \/ v = None]

(* The validity is only looked at where a null was seen.                   *)
into_series(b) ==
  [r \in DOMAIN b.values |->
    IF b.has_nulls /\ ~b.validity[r] THEN None ELSE Some(b.values[r])]

Series(f) ==
  into_series(FoldLeft(LAMBDA b, record : push_from_record(b, Decoded(record, f)),
                       NewBuilder, records))

(* The precision of a decimal is found from its width.                     *)
DecimalPrecision(f) ==
  Min({38, IF f.size > 1 THEN f.size - 1 - (IF f.scale > 0 THEN 1 ELSE 0) ELSE 19})

(* Both readers take their fields from the metadata.                       *)
ReadBack ==
  /\ state = "written"
  /\ \E fs \in {parse_meta_xml(attrs)} :
       /\ rows' = [r \in DOMAIN records |-> [i \in DOMAIN fs |-> extract_field(records[r], fs[i])]]
       /\ cols' = [i \in DOMAIN fs |-> Series(fs[i])]
  /\ state' = "read"
  /\ UNCHANGED <<frame, fields, attrs, buf, row, col, records>>

(* The file is damaged where a variable field is described: its word or    *)
(* the block the word points at.                                           *)
VarFields == {i \in DOMAIN fields : is_variable(fields[i].type)}

Damage ==
  /\ state = "written"
  /\ \E r \in DOMAIN records : \E i \in VarFields : \E w \in BadWords :
       \E off \in {fields[i].offset}
                    \cup {b \in {fields[i].offset + WordAt(records[r], fields[i].offset)} :
                            b + 4 <= Len(records[r])} :
         records' = [records EXCEPT ![r] = Put(@, off, w)]
  /\ state' = "damaged"
  /\ UNCHANGED <<frame, fields, attrs, buf, row, col, rows, cols>>

Stop == state \in {"refused", "damaged", "read"} /\ UNCHANGED vars

Next == StartRecord \/ SerializeField \/ RefuseField \/ FinishRecord \/ ReadBack \/ Damage \/ Stop

Spec == Init /\ [][Next]_vars

-----------------------------------------------------------------------------
(* What should come back                                                   *)

(* 0000-01-01 and 9999-12-31: the dates four digits can tell.              *)
FirstDay == -719528
LastDay == 2932896

Expected(c, f, v) ==
  IF v = None THEN None
  ELSE CASE c.dtype = "date" -> IF v[1] \in FirstDay..LastDay THEN v ELSE None
         [] c.dtype = "datetime" -> Some((ToMicros(v[1], c.unit) \div SECOND) * SECOND)
         [] c.dtype = "time" -> Some((v[1] \div (SECOND * RATIO)) * SECOND * RATIO)
         [] c.dtype = "duration" -> Some(ToMicros(v[1], c.unit))
         [] f.type = "Byte" -> Some(v[1] % 256)
         [] OTHER -> v

(* A fixed string that has to be cut, or that holds a zero, is not kept;   *)
(* nor is a negative decimal without integer digits, nor a date whose year *)
(* takes seven digits (then a month and a day of digits are found).        *)
Keeps(c, f, v) ==
  v = None \/
  CASE f.type = "String" -> Len(ToUtf8(v[1])) <= f.size /\ 0 \notin ToSet(v[1])
    [] f.type = "WString" -> Len(encode_utf16(v[1])) <= f.size /\ 0 \notin ToSet(v[1])
    [] f.type = "FixedDecimal" -> v[1] >= 0 \/ c.precision > c.scale
    [] f.type = "Date" -> v[1] < 364522972
    [] OTHER -> TRUE

(* A frame that is read back has the values that were written, in every    *)
(* row and whatever the rows before it left in the buffers: times to the   *)
(* second, and a date that four digits of year cannot tell as null, never  *)
(* as another date.  A decimal column has the precision it had.            *)
ValuesComeBack ==
  state = "read" =>
    \A r \in DOMAIN records : \A i \in DOMAIN fields :
      LET c == frame.columns[i]
          v == c.values[r]
      IN /\ Keeps(c, fields[i], v) => cols[i][r] = Expected(c, fields[i], v)
         /\ c.dtype = "decimal" => DecimalPrecision(parse_meta_xml(attrs)[i]) = c.precision

(* The row reader and the column builders read the same of every record    *)
(* the writer makes, strings that were cut included.  The row reader gives *)
(* dates and decimals as text.                                             *)
DecodersAgree ==
  state = "read" =>
    \A r \in DOMAIN records : \A i \in DOMAIN fields :
      LET v == rows[r][i]
          As(value) ==
            CASE v = None -> None
              [] v # None /\ fields[i].type = "Date" -> parse_date_to_days(v[1])
              [] v # None /\ fields[i].type = "Time" -> parse_time_to_ns(v[1])
              [] v # None /\ fields[i].type = "DateTime" -> parse_datetime_to_us(v[1])
              [] v # None /\ fields[i].type = "FixedDecimal" ->
                   Some(parse_decimal_i128(v[1], fields[i].scale))
              [] OTHER -> v
      IN cols[i][r] = As(v)

(* Whatever the word of a variable field and the header of its block hold, *)
(* the data is looked for inside the record.                               *)
VarDataStaysInside ==
  state = "damaged" =>
    \A r \in DOMAIN records : \A i \in VarFields :
      \E found \in {locate_var_data(records[r], fields[i].offset)} :
        found = None \/ (found[1].from <= found[1].to /\ found[1].to <= Len(records[r]))

(* The width inferred for a decimal fits every value of its precision.     *)
DecimalsComeBack ==
  state = "read" =>
    \A r \in DOMAIN records : \A i \in DOMAIN fields :
      frame.columns[i].dtype = "decimal" => cols[i][r] = frame.columns[i].values[r]
=============================================================================
