---------------------------- MODULE MCBatchReader ----------------------------
(***************************************************************************)
(* Files for BatchReader: E2 files of a single record made of every string *)
(* over a few prefix bytes, for schemas that mix Int32 with other types;   *)
(* single records of Int32s with floats and doubles, NaN among them;       *)
(* E2 files of a few blocks with blobs, index blocks, faults and dates;    *)
(* and short E1 files.                                                     *)
(***************************************************************************)
EXTENDS BatchReader

CONSTANT MaxBlocks   (* bound: blocks of a file                           *)

E2(fields, blocks) == [format |-> "E2", file |-> [fields |-> fields, blocks |-> blocks]]

Block(kind, fault, recs, count, data) ==
  [kind |-> kind, fault |-> fault, recs |-> recs, count |-> count, data |-> data]

Records(recs) == Block("record", "none", recs, Len(recs), <<>>)
Blob(data)    == Block("blob", "none", <<>>, 0, data)
Index         == Block("index", "none", <<>>, 0, <<>>)
EndMark       == Block("end", "none", <<>>, 0, <<>>)

(* 6 ends or starts an Int32 of base 5 or 6, 7 is one or two bytes, 9 has  *)
(* both readings; 10 is the date zero, 0 its flag.                         *)
Plain == [batch_size |-> 2, n_rows |-> -1, columns |-> "all"]

SingleRecords(fields, bytes, most) ==
  { [source |-> E2(fields, <<Records(<<d>>), EndMark>>), options |-> Plain] :
      d \in UNION {[1..n -> bytes] : n \in 1..most} }

(* Strings and blobs that refer to blob blocks by slice or as a whole.     *)
Slice(off, len) == <<17, off, 0, 0, 0, len, 0, 0, 0>>
Whole(p) == <<18, p, 0, 0, 0, 0, 0, 0, 0>>

BlobFields == <<"VString", "Blob">>

BlobBlocks ==
  { Records(<<Slice(0, 1) \o <<0>>, Slice(1, 1) \o <<129, 5>>>>),
    Records(<<<<130, 7, 8>> \o Whole(1)>>),
    Blob(<<1, 2>>), Blob(<<3>>), Block("blob", "bad", <<>>, 0, <<4, 5>>),
    Index, Block("index", "huge", <<>>, 0, <<>>), EndMark }

(* Dates with and without the flag, block faults and wrong counts.         *)
DateFields == <<"Byte", "Date">>

DateBlocks ==
  { Records(<<<<6, 10>>, <<7, 3, 10>>>>), Records(<<<<6, 0, 10>>, <<71, 0, 77>>>>),
    Records(<<>>), Records(<<<<6>>, <<6, 10>>>>),
    Block("record", "none", <<<<6, 10>>>>, 2, <<>>),
    Block("record", "none", <<<<6, 10>>, <<6, 77>>>>, 1, <<>>),
    Block("record", "cut", <<>>, 0, <<>>), Block("unknown", "none", <<>>, 0, <<>>) }

(* A blob reference is made where its target can be.                       *)
Sequences(blocks) == UNION {[1..n -> blocks] : n \in 1..MaxBlocks}

(* Base 5 throughout, base 6 throughout, and the other types of field.     *)
OtherFiles ==
  { E2(<<"Int32", "Bool">>, <<Records(<<<<5, 21>>, <<8, 1, 2, 3, 20>>>>), Index>>),
    E2(<<"Int32", "Bool">>, <<Records(<<<<8, 1, 2, 21>>>>), Records(<<<<6, 67>>>>)>>),
    E2(<<"Int32", "Bool", "Bool", "Bool", "Bool">>,
       <<Records(<<<<9, 1, 2, 3, 20, 20, 20, 20>>>>)>>),
    E2(<<"Time">>, <<Records(<<<<12>>>>)>>),
    E2(<<"Double", "FixedDecimal", "SpatialObj">>,
       <<Blob(<<9>>), Records(<<<<7, 1, 2, 3, 4, 2, 129, 18, 48>> \o <<19, 1, 0, 0, 0, 0, 0, 0, 0>>,
                                <<6, 76, 131, 1, 2, 3>>>>)>>),
    E2(<<"Double">>, <<Records(<<<<12, 0, 0, 0, 0, 0, 0, 241, 127>>>>)>>) }

(* Floats and doubles that are null, zero, infinite and NaN (a NaN with    *)
(* the fraction in its high, and in its lowest byte), between Int32s that  *)
(* have one reading, one in both bases, two readings, or that take bytes   *)
(* of the number.                                                          *)
Floats ==
  { <<75>>, <<7>>, <<11, 0, 0, 0, 128>>, <<11, 0, 0, 128, 127>>, <<11, 0, 0, 128, 255>>,
    <<11, 0, 0, 192, 127>>, <<11, 1, 0, 128, 127>>, <<11, 0, 0, 129, 255>>, <<9, 192, 127>> }

Doubles ==
  { <<72>>, <<6>>, <<12, 0, 0, 0, 0, 0, 0, 0, 128>>, <<12, 0, 0, 0, 0, 0, 0, 240, 127>>,
    <<12, 0, 0, 0, 0, 0, 0, 248, 127>>, <<12, 1, 0, 0, 0, 0, 0, 240, 127>>,
    <<12, 0, 0, 0, 0, 0, 1, 240, 255>>, <<10, 0, 0, 0, 0, 248, 127>> }

Int32s ==
  { <<73>>, <<5>>, <<6>>, <<7, 1>>, <<9, 1, 2, 3>>, <<9, 1, 2, 3, 0>>, <<9, 1, 2, 3, 73>> }

NumberRecords ==
  { [source |-> E2(r[1], <<Records(<<r[2]>>), EndMark>>), options |-> Plain] :
      r \in
        {<<<<"Int32", "Float">>, n \o x>> : n \in Int32s, x \in Floats} \cup
        {<<<<"Float", "Int32">>, x \o n>> : n \in Int32s, x \in Floats} \cup
        {<<<<"Int32", "Double">>, n \o x>> : n \in Int32s, x \in Doubles} \cup
        {<<<<"Double", "Int32">>, x \o n>> : n \in Int32s, x \in Doubles} \cup
        {<<<<"Int32", "Float", "Int32">>, m \o x \o n>> :
           m, n \in Int32s, x \in Floats} \cup
        {<<<<"Float", "Double">>, x \o y>> : x \in Floats, y \in Doubles} }

E1Files ==
  { [format |-> "E1", file |-> [recs |-> [k \in 1..n |-> IF k <= there THEN "ok" ELSE "cut"]]] :
      n \in 0..4, there \in 0..4 }

Options ==
  { Plain,
    [batch_size |-> 2, n_rows |-> 3, columns |-> "all"],
    [batch_size |-> 3, n_rows |-> 4, columns |-> "none"],
    [batch_size |-> 2, n_rows |-> 3, columns |-> "unknown"] }

Each(files) == { [source |-> f, options |-> o] : f \in files, o \in Options }

MCRequests ==
  { SingleRecords(<<"Int32", "Int32">>, {6, 7, 9}, 7),
    SingleRecords(<<"Int32", "Int32", "Int32">>, {6, 9}, 12),
    SingleRecords(<<"Byte", "Int32", "Byte">>, {6, 7, 9}, 6),
    SingleRecords(<<"Int32", "Date">>, {0, 7, 9, 10}, 5),
    SingleRecords(<<"Date", "Int32", "Date">>, {0, 9, 10}, 7),
    NumberRecords,
    Each(OtherFiles \cup E1Files),
    Each({E2(BlobFields, b) : b \in Sequences(BlobBlocks)}),
    Each({E2(DateFields, b) : b \in Sequences(DateBlocks)}) }
=============================================================================
