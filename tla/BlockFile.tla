------------------------------ MODULE BlockFile ------------------------------
(***************************************************************************)
(* The block region of an E1 YXDB file, as the readers see it.             *)
(*                                                                         *)
(* Bytes are identified by their offset in the decoded block stream: the   *)
(* concatenation of every block's decompressed bytes, in file order.  The  *)
(* bytes of one block, of one record and of the caller's row buffer are    *)
(* then intervals of offsets, and "the right bytes in the right order" is  *)
(* an equation between offsets.  A file is a record                        *)
(*                                                                         *)
(*   start[r], len[r]  where record r starts and how many bytes it has     *)
(*   cut[b]            where block b ends (it starts where b-1 ended)      *)
(*   fault[b]          "none"    block b is readable                       *)
(*                     "corrupt" block b does not decompress               *)
(*                     "short"   the file ends inside block b              *)
(*   grid              the blocks that hold spatial index cells            *)
(*   spatial           the header announces a spatial index                *)
(*   hasVar            the schema has a variable-length field              *)
(*                                                                         *)
(* Len(start) is the record count of the header.                           *)
(***************************************************************************)
EXTENDS Integers, Sequences

CONSTANTS
  HeaderLen,   (* bytes of a record read first: its fixed part and, with   *)
               (* variable fields, the length of what follows              *)
  GroupSize,   (* RECORDS_PER_INDEX_GROUP                                  *)
  GarbageLen   (* what the length word reads as where no record starts     *)

ASSUME LayoutAssumption ==
  /\ HeaderLen \in Nat \ {0}
  /\ GroupSize \in Nat \ {0}
  /\ GarbageLen \in Nat

Faults == {"none", "corrupt", "short"}

(* The shape of a file description.                                        *)
FileType ==
  [start : Seq(Nat), len : Seq(Nat), cut : Seq(Nat), fault : Seq(Faults),
   grid : SUBSET Nat, spatial : BOOLEAN, hasVar : BOOLEAN]

NumRecords(f) == Len(f.start)
NumBlocks(f)  == Len(f.cut)

BlockStart(f, b) == IF b = 1 THEN 0 ELSE f.cut[b - 1]
BlockEnd(f, b)   == f.cut[b]

(* What a parser that assumes a record starts at offset q reads as the     *)
(* length of its variable part.                                            *)
VarLen(f, q) ==
  IF \E r \in 1 .. NumRecords(f) : f.start[r] = q
  THEN LET r == CHOOSE r \in 1 .. NumRecords(f) : f.start[r] = q
       IN f.len[r] - HeaderLen
  ELSE GarbageLen

(* Where the record assumed at q would end; q itself when the block that   *)
(* ends at "to" has no room left for another header.                       *)
ProbeEnd(f, q, to) ==
  IF q + HeaderLen > to THEN q ELSE q + HeaderLen + VarLen(f, q)

(* Three records in a row, read from the first byte of the block, end      *)
(* inside the block.  A probe that has already run past the end stays      *)
(* there, so the early return is the conjunction.                          *)
IsRecordBlock(f, from, to) ==
  LET first  == ProbeEnd(f, from, to)
      second == ProbeEnd(f, first, to)
      third  == ProbeEnd(f, second, to)
  IN first <= to /\ second <= to /\ third <= to

-----------------------------------------------------------------------------
(* Which files a writer of the format produces.                            *)

EndOfRecord(f, r) == f.start[r] + f.len[r]

(* Blocks cover the stream in order; a short block is the last one.        *)
BlocksInOrder(f) ==
  /\ Len(f.fault) = NumBlocks(f)
  /\ f.grid \subseteq 1 .. NumBlocks(f)
  /\ \A b \in 1 .. NumBlocks(f) :
       /\ BlockStart(f, b) <= BlockEnd(f, b)
       /\ f.fault[b] = "short" => b = NumBlocks(f)

(* Nothing but grid blocks lies between offset e, the end of some block,   *)
(* and s, the end of a later one - unless the file was cut off before.     *)
OnlyGridBetween(f, e, s) ==
  \/ NumBlocks(f) = 0
  \/ f.cut[NumBlocks(f)] <= e
  \/ \E b \in 1 .. NumBlocks(f) : \E c \in (b + 1) .. NumBlocks(f) :
       /\ f.cut[b] = e /\ f.cut[c] = s
       /\ (b + 1) .. c \subseteq f.grid

(* Records follow one another without a gap, except that grid blocks may   *)
(* sit between two groups, and no record has a byte in a grid block.       *)
RecordsInOrder(f) ==
  /\ Len(f.len) = NumRecords(f)
  /\ NumRecords(f) > 0 => f.start[1] = 0
  /\ \A r \in 1 .. NumRecords(f) :
       /\ f.len[r] >= HeaderLen
       /\ ~f.hasVar => f.len[r] = HeaderLen
  /\ \A r \in 1 .. NumRecords(f) - 1 :
       \/ f.start[r + 1] = EndOfRecord(f, r)
       \/ /\ f.spatial /\ f.hasVar /\ r % GroupSize = 0
          /\ f.start[r + 1] >= EndOfRecord(f, r)
          /\ OnlyGridBetween(f, EndOfRecord(f, r), f.start[r + 1])
  /\ \A b \in f.grid, r \in 1 .. NumRecords(f) :
       EndOfRecord(f, r) <= BlockStart(f, b) \/ BlockEnd(f, b) <= f.start[r]

WellFormed(f) == f \in FileType /\ BlocksInOrder(f) /\ RecordsInOrder(f)

(* What the skip heuristic relies on: no grid block parses as records, and *)
(* the data block that opens a group does.                                 *)
GridDetectable(f) ==
  f.spatial /\ f.hasVar =>
    \A b \in 1 .. NumBlocks(f) :
      \/ /\ b \in f.grid
         /\ ~IsRecordBlock(f, BlockStart(f, b), BlockEnd(f, b))
      \/ /\ b \notin f.grid
         /\ \/ IsRecordBlock(f, BlockStart(f, b), BlockEnd(f, b))
            \/ \A r \in 1 .. NumRecords(f) :
                 r > 1 /\ (r - 1) % GroupSize = 0
                   => BlockStart(f, b) # f.start[r]

(* What tells grid blocks from records in a file with a spatial index: a   *)
(* stray length leads out of the file, no grid block parses as records,    *)
(* and nothing but grid blocks lies behind the last record.                *)
GridTold(f) ==
  f.spatial /\ f.hasVar =>
    \A b \in 1 .. NumBlocks(f) :
      /\ BlockEnd(f, b) < HeaderLen + GarbageLen
      /\ b \in f.grid =>
           \/ BlockStart(f, b) = BlockEnd(f, b)
           \/ ~IsRecordBlock(f, BlockStart(f, b), BlockEnd(f, b))
      /\ NumRecords(f) > 0 /\ BlockEnd(f, b) > EndOfRecord(f, NumRecords(f))
           => b \in f.grid
=============================================================================
