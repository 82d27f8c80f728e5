----------------------------- MODULE BlockLayout -----------------------------
(***************************************************************************)
(* How an E1 writer cuts the record stream into blocks and groups: the     *)
(* decisions that YxdbWriter::write_batch and write_records share.         *)
(*                                                                         *)
(* A layout is a record of what has been laid out so far, in offsets of    *)
(* the record stream:                                                      *)
(*   cut     where each block ends                                         *)
(*   end     bytes appended so far; what lies after the last cut is still  *)
(*           in block_buf                                                  *)
(*   index   for each group, how many blocks precede it (block_index holds *)
(*           the file offset of the end of that block)                     *)
(***************************************************************************)
EXTENDS Integers, Sequences, SequencesExt

CONSTANTS
  BlockSize,   (* BLOCK_SIZE                                               *)
  GroupSize    (* RECORDS_PER_BLOCK: records of one group                  *)

ASSUME SizesAssumption ==
  BlockSize \in Nat \ {0} /\ GroupSize \in Nat \ {0}

LayoutType == [cut : Seq(Nat), end : Nat, index : Seq(Nat)]

EmptyLayout == [cut |-> <<>>, end |-> 0, index |-> <<0>>]

LastCut(l)  == IF l.cut = <<>> THEN 0 ELSE l.cut[Len(l.cut)]
Buffered(l) == l.end - LastCut(l)

(* flush_block: what is buffered becomes a block.                          *)
Flush(l) ==
  IF Buffered(l) = 0 THEN l ELSE [l EXCEPT !.cut = Append(@, l.end)]

(* A record about to be appended opens a group: the group starts a block,  *)
(* and its place goes into the index.                                      *)
IsGroupStart(n) == n > 0 /\ n % GroupSize = 0

(* Mutant: the position is taken before the flush.                         *)
OpenGroup_IndexFirst(l, n) ==
  IF IsGroupStart(n)
  THEN Flush([l EXCEPT !.index = Append(@, Len(l.cut))])
  ELSE l

OpenGroup(l, n) ==
  IF IsGroupStart(n)
  THEN LET f == Flush(l)
       IN [f EXCEPT !.index = Append(@, Len(f.cut))]
  ELSE l

(* A record that does not fit the block being filled starts a new one.     *)
Overflows(l, len) == Buffered(l) + len > BlockSize /\ Buffered(l) > 0

(* Mutant: a block is filled to the last byte.                             *)
MakeRoom_Never(l, len) == l

MakeRoom(l, len) == IF Overflows(l, len) THEN Flush(l) ELSE l

(* Append the record, flushing each time the block is full and some of it  *)
(* remains: every block but the last is then BlockSize long.               *)
Splits_Never(l, len) == 0   (* mutant: long records are not split       *)

Splits(l, len) == IF len = 0 THEN 0 ELSE (Buffered(l) + len - 1) \div BlockSize

AppendSplit(l, len) ==
  [l EXCEPT !.cut = @ \o [i \in 1 .. Splits(l, len) |->
                            LastCut(l) + i * BlockSize],
            !.end = @ + len]

AddRecord(l, len) == AppendSplit(MakeRoom(l, len), len)

(* Lay out record number n (from 0).                                       *)
PlaceRecord(l, n, len) == AddRecord(OpenGroup(l, n), len)

(* The layouts after none, one, two ... of a sequence of records.          *)
Layouts(lens) ==
  LET after[n \in 0 .. Len(lens)] ==
        IF n = 0 THEN EmptyLayout
        ELSE PlaceRecord(after[n - 1], n - 1, lens[n])
  IN after

(* The finished layout of all of them.                                     *)
LayoutOf(lens) == Flush(Layouts(lens)[Len(lens)])

(* The layouts at which laying out a record calls flush_block, in which    *)
(* case an I/O error can stop it there: before the group, before the       *)
(* record, or in the middle of it.                                         *)
FlushPoints(l, n, len) ==
  LET g == OpenGroup(l, n)
      m == MakeRoom(g, len)
  IN (IF IsGroupStart(n) /\ Buffered(l) > 0 THEN {l} ELSE {})
     \cup (IF Overflows(g, len) THEN {g} ELSE {})
     \cup {AppendSplit(m, s * BlockSize - Buffered(m)) : s \in 1 .. Splits(m, len)}
=============================================================================
