------------------------------ MODULE SmallFiles ------------------------------
(***************************************************************************)
(* Small files for the readers' models: records of given lengths, cut into *)
(* blocks in every way, with a grid block after each group and after the   *)
(* last record of a spatial file, and at most one fault.                   *)
(***************************************************************************)
EXTENDS BlockFile, SequencesExt, TLC

MCGridLen == 3   (* bytes of a grid block                                   *)

(* Records before r that end a group, each followed by a grid block.       *)
GridsBefore(r, spatial) == IF spatial THEN (r - 1) \div GroupSize ELSE 0

Total(lens, n) == FoldSeq(LAMBDA x, y : x + y, 0, SubSeq(lens, 1, n))

(* SubSeq(s, 1, Len(s)) = s: TLC then keeps the tuple, not the expression. *)
Tuple(s) == SubSeq(s, 1, Len(s))

Starts(lens, spatial) ==
  Tuple([r \in 1 .. Len(lens) |->
           Total(lens, r - 1) + MCGridLen * GridsBefore(r, spatial)])

(* Ends of the stretches of record data: the group ends of a spatial file, *)
(* and the end of the last record.                                         *)
GroupEnds(lens, spatial) ==
  LET starts == Starts(lens, spatial)
  IN {starts[r] + lens[r] : r \in {q \in 1 .. Len(lens) :
        q = Len(lens) \/ (spatial /\ q % GroupSize = 0)}}

(* Grid blocks start where a stretch ends, and nothing is cut inside one.  *)
GridBytes(lens, spatial) ==
  IF spatial
  THEN UNION {(e + 1) .. (e + MCGridLen) : e \in GroupEnds(lens, spatial)}
  ELSE {}

Cuts(lens, spatial, extra) ==
  LET ends  == GroupEnds(lens, spatial)
      grids == IF spatial THEN {e + MCGridLen : e \in ends} ELSE {}
  IN SortSeq(SetToSeq(ends \cup grids) \o extra, LAMBDA x, y : x < y)

FileOf(lens, spatial, hasVar, extra) ==
  LET cuts == Cuts(lens, spatial, extra)
  IN [start |-> Starts(lens, spatial), len |-> lens, cut |-> cuts,
      fault |-> Tuple([b \in 1 .. Len(cuts) |-> "none"]),
      grid |-> {b \in 1 .. Len(cuts) :
                  /\ cuts[b] \in GridBytes(lens, spatial)
                  /\ b > 1 /\ cuts[b - 1] < cuts[b]},
      spatial |-> spatial, hasVar |-> hasVar]

(* At most two more cuts, at record bytes only.                            *)
ExtraCuts(lens, spatial) ==
  LET top  == IF lens = <<>> THEN 0
              ELSE Starts(lens, spatial)[Len(lens)] + lens[Len(lens)]
      here == (1 .. top) \ GridBytes(lens, spatial)
  IN {<<>>} \cup {<<c>> : c \in here}
            \cup {<<c, d>> : c \in here, d \in here}

FilesWith(lens, spatial, hasVar) ==
  {FileOf(lens, spatial, hasVar, extra) : extra \in ExtraCuts(lens, spatial)}

(* The first n blocks of a file.                                           *)
Truncated(f, n) ==
  [f EXCEPT !.cut = SubSeq(@, 1, n), !.fault = SubSeq(@, 1, n), !.grid = @ \cap 1 .. n]

(* One fault, or none.                                                     *)
Damage(f) ==
  {f} \cup {[f EXCEPT !.fault[b] = "corrupt"] : b \in 1 .. NumBlocks(f)}
      \cup {[f EXCEPT !.fault[b] = "short"] : b \in {NumBlocks(f)} \ {0}}
      \cup {Truncated(f, n) : n \in 0 .. NumBlocks(f) - 1}
=============================================================================
