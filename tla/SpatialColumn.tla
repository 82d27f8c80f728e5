---------------------------- MODULE SpatialColumn ----------------------------
(***************************************************************************)
(* A geometry column on its way through YXDB files: WKB cells are          *)
(* converted to SHP when a frame is written (convert_spatial_columns_to_-  *)
(* shp), SHP cells back to WKB when it is read (convert_spatial_columns_-  *)
(* to_wkb), and so on for MaxTrips files.  Once on the way a cell may be   *)
(* cut short, as a damaged file or a careless producer leaves it.          *)
(***************************************************************************)
EXTENDS Spatial

CONSTANTS
  Columns,      (* source columns: sequences of [cell, g], a WKB cell (or  *)
                (* Null, or no bytes) and the geometry it encodes          *)
  MaxTrips      (* files the column is written to and read from            *)

ASSUME TripsAssumption == MaxTrips \in Nat \ {0}

VARIABLES
  source,       (* the column as it was given                              *)
  col,          (* its cells now                                           *)
  stage,        (* wkb, shp, failed                                        *)
  trips,        (* conversions done                                        *)
  cut,          (* the cell that was cut, 0 if none                        *)
  left,         (* the words that are left of it                           *)
  firstRead     (* the cells after the first trip                          *)

vars == <<source, col, stage, trips, cut, left, firstRead>>

Init ==
  /\ source \in Columns
  /\ col = [i \in DOMAIN source |-> source[i].cell]
  /\ stage = "wkb" /\ trips = 0 /\ cut = 0 /\ left = 0
  /\ firstRead = <<>>

(* One cell with bytes, converted to format `to`.                          *)
CellTo(to, words) == IF to = "shp" THEN wkb_to_shp(words) ELSE shp_to_wkb(words)

Convert_ErrorIsNull(to) ==
  LET Cell(c) == IF c = Null \/ c[2] = <<>> \/ CellTo(to, c[2]) = Error THEN Null
                 ELSE CellTo(to, c[2])
  IN [i \in DOMAIN col |-> Cell(col[i])]

(* Null and empty cells are null; the first cell that cannot be converted  *)
(* fails the whole frame.                                                  *)
Convert(to) ==
  LET Cell(c) == IF c = Null \/ c[2] = <<>> THEN Null ELSE CellTo(to, c[2])
      UnlessError(cells) == IF Error \in Range(cells) THEN <<>> ELSE cells
  IN UnlessError([i \in DOMAIN col |-> Cell(col[i])])

Converted(to) ==
  /\ trips' = trips + 1
  /\ \E converted \in {Convert(to)} :
       IF converted = <<>>
         THEN stage' = "failed" /\ UNCHANGED col
         ELSE stage' = to /\ col' = converted
  /\ UNCHANGED <<source, cut, left>>

convert_spatial_columns_to_shp ==
  /\ stage = "wkb" /\ trips < 2 * MaxTrips
  /\ Converted("shp")
  /\ UNCHANGED firstRead

convert_spatial_columns_to_wkb ==
  /\ stage = "shp"
  /\ Converted("wkb")
  /\ firstRead' = IF trips = 1 THEN col' ELSE firstRead

(* Words are lost from the end of a cell.                                  *)
CutCell ==
  /\ cut = 0 /\ trips <= 1 /\ stage # "failed"
  /\ \E i \in DOMAIN col :
       /\ col[i] # Null /\ col[i][2] # <<>>
       /\ \E n \in 0..(Len(col[i][2]) - 1) :
            /\ col' = [col EXCEPT ![i] = Bytes(SubSeq(@[2], 1, n))]
            /\ left' = n
       /\ cut' = i
  /\ UNCHANGED <<source, stage, trips, firstRead>>

Finished ==
  /\ stage = "failed" \/ (stage = "wkb" /\ trips = 2 * MaxTrips)
  /\ UNCHANGED vars

Next ==
  \/ convert_spatial_columns_to_shp \/ convert_spatial_columns_to_wkb
  \/ CutCell \/ Finished

Spec == Init /\ [][Next]_vars

-----------------------------------------------------------------------------

Exterior(rings) == rings[1]

Holes(rings) == Tail(rings)

(* Exterior rings run counterclockwise and holes clockwise, as ISO WKB     *)
(* asks; rings without area count as exteriors.                            *)
WoundAsWkb(g) ==
  \A p \in DOMAIN Kept(g).polys :
    LET rings == Kept(g).polys[p]
    IN /\ signed_area_2d(Exterior(rings)) >= 0
       /\ \A h \in DOMAIN Holes(rings) : signed_area_2d(Holes(rings)[h]) < 0

(* The other way round, as the Shapefile format has it.                    *)
WoundAsShapefile(g) ==
  \A p \in DOMAIN Kept(g).polys :
    LET rings == Kept(g).polys[p]
    IN /\ signed_area_2d(Exterior(rings)) < 0
       /\ \A h \in DOMAIN Holes(rings) : signed_area_2d(Holes(rings)[h]) > 0

IsPolygon(g) == g.kind \in {PolygonKind, MultiPolygonKind}

HasShape(i) == source[i].g.kind # 0

(* Cell i, as read back, holds geometry g.                                 *)
Holds(i, g) == col[i] = Bytes(EncodeLittle(g))

Read == stage = "wkb" /\ trips > 0

(* Every geometry comes back from a file as the geometry that was written, *)
(* in every byte order of the source: the same parts, rings grouped into   *)
(* the same polygons, Z and M of the same points, M lost only if no point  *)
(* of a Z geometry has one; null and empty cells come back null.           *)
GeometryIsKept ==
  Read /\ cut = 0 =>
    \A i \in DOMAIN col :
      IF ~HasShape(i) THEN col[i] = Null
      ELSE (IsPolygon(source[i].g) => WoundAsWkb(source[i].g)) =>
             Holds(i, Kept(source[i].g))

(* Without damage a column is never refused, and what was read from one    *)
(* file survives any number of further trips unchanged, also where the     *)
(* first one regrouped rings.                                              *)
TripsAreStable ==
  cut = 0 =>
    /\ stage # "failed"
    /\ Read => col = firstRead

(* A cell that was cut short is refused: it is never taken for a smaller   *)
(* geometry.  The one exception is what M a Z shape carries; a cell with   *)
(* nothing left is null.                                                   *)
CutIsNoticed ==
  Read /\ cut # 0 =>
    \/ left = 0 /\ col[cut] = Null
    \/ source[cut].g.z /\ Holds(cut, WithoutM(source[cut].g))
    \/ IsPolygon(source[cut].g) /\ ~WoundAsWkb(source[cut].g)

(* The rings of a polygon are grouped by the Shapefile convention that the *)
(* comments of shp_multipoly_to_wkb and signed_area_2d state: a clockwise  *)
(* ring is an exterior.                                                    *)
ClockwiseRingsAreExteriors ==
  Read /\ cut = 0 =>
    \A i \in DOMAIN col :
      HasShape(i) /\ IsPolygon(source[i].g) /\ WoundAsShapefile(source[i].g) =>
        Holds(i, Kept(source[i].g))
=============================================================================
