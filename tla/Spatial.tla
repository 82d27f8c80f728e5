------------------------------- MODULE Spatial -------------------------------
(***************************************************************************)
(* The SpatialObj conversions of spatial.rs: wkb_to_shp before a column is *)
(* written, shp_to_wkb after it was read.  A SHP record is a sequence of   *)
(* words, always little-endian; a WKB word carries its byte order, and is  *)
(* nonsense when read in the other one.  Lengths and offsets count words   *)
(* from 1 where the code counts bytes from 0.                              *)
(*                                                                         *)
(* Cells of a column are <<"null">> or <<"bytes", words>>; a conversion of *)
(* one cell that fails is <<"error">>.                                     *)
(***************************************************************************)
EXTENDS Geometry, FiniteSetsExt

Null == <<"null">>
Error == <<"error">>
Bytes(words) == <<"bytes", words>>

(* SHP shape types of the six conversions, without and with a dimension.   *)
SHP_NULL == 0
SHP_POINT == 1
SHP_POLYLINE == 3
SHP_POLYGON == 5
SHP_MULTIPOINT == 8

shp_type(base, has_z, has_m) ==
  base + (IF has_z THEN 10 ELSE IF has_m THEN 20 ELSE 0)

-----------------------------------------------------------------------------
(* WKB to SHP                                                              *)

(* A number read in the other byte order; zero is its own mirror image.    *)
Mirrored(v) == IF v = 0 THEN 0 ELSE 16777216 + v

read(wkb, off, is_le) ==
  IF wkb[off][1] = is_le THEN wkb[off][2] ELSE Mirrored(wkb[off][2])

HasZ(type) == (type \div 1000) \in {1, 3}

HasM(type) == (type \div 1000) \in {2, 3}

Dim(has_z, has_m) == 2 + (IF has_z THEN 1 ELSE 0) + (IF has_m THEN 1 ELSE 0)

MOffset_AfterXY(has_z) == 2

MOffset(has_z) == IF has_z THEN 3 ELSE 2

CoordAt(wkb, base, is_le, has_z, has_m) ==
  Coord(read(wkb, base, is_le), read(wkb, base + 1, is_le),
        IF has_z THEN read(wkb, base + 2, is_le) ELSE 0,
        IF has_m THEN read(wkb, base + MOffset(has_z), is_le)
                 ELSE NO_DATA)

(* A parse that reached word `next`, having found `seq`; ~ok is an error.  *)
Parsed(seq, next) == [ok |-> TRUE, seq |-> seq, next |-> next]
Short == [ok |-> FALSE, seq |-> <<>>, next |-> 0]

(* `num` coordinates from word off + 1 on.                                 *)
CoordsAt(wkb, off, num, is_le, has_z, has_m) ==
  LET dim == Dim(has_z, has_m)
  IN IF Len(wkb) < off + num * dim THEN Short
     ELSE Parsed([i \in 1..num |->
                    CoordAt(wkb, off + 1 + (i - 1) * dim, is_le, has_z, has_m)],
                 off + 1 + num * dim)

parse_wkb_ring_coords(wkb, off, is_le, has_z, has_m) ==
  IF Len(wkb) < off THEN Short
  ELSE CoordsAt(wkb, off, read(wkb, off, is_le), is_le, has_z, has_m)

(* What was found first, followed by what was found after it.              *)
Joined(first, more) ==
  IF more.ok THEN Parsed(first \o more.seq, more.next) ELSE Short

RECURSIVE parse_wkb_polygon_rings(_, _, _, _, _, _)
parse_wkb_polygon_rings(wkb, off, n, is_le, has_z, has_m) ==
  LET RingThen(ring) ==
        IF ~ring.ok THEN Short
        ELSE Joined(<<ring.seq>>,
                    parse_wkb_polygon_rings(wkb, ring.next, n - 1, is_le,
                                            has_z, has_m))
  IN IF n = 0 THEN Parsed(<<>>, off)
     ELSE RingThen(parse_wkb_ring_coords(wkb, off, is_le, has_z, has_m))

PolygonAt(wkb, off, is_le, has_z, has_m) ==
  IF Len(wkb) < off THEN Short
  ELSE parse_wkb_polygon_rings(wkb, off + 1, read(wkb, off, is_le), is_le,
                               has_z, has_m)

SubOrder_Outer(wkb, off) == wkb[1][2] = 1 /\ off > 0

SubOrder(wkb, off) == wkb[off][2] = 1

(* The header of a point inside a MultiPoint, which tells its own          *)
(* dimensions, followed by its coordinate.                                 *)
SubPointAt(wkb, off, type, is_le) ==
  IF type % 1000 # PointKind THEN Short
  ELSE CoordsAt(wkb, off + 1, 1, is_le, HasZ(type), HasM(type))

AsOneRing(p) == [p EXCEPT !.seq = <<@>>]

(* One member of a collection, as a sequence of rings.  The dimensions of  *)
(* a line or polygon are those of the collection.                          *)
MemberAt(wkb, off, kind, sub_le, has_z, has_m) ==
  CASE kind = MultiPolygonKind -> PolygonAt(wkb, off + 2, sub_le, has_z, has_m)
    [] kind = MultiLineKind ->
         AsOneRing(parse_wkb_ring_coords(wkb, off + 2, sub_le, has_z, has_m))
    [] kind = MultiPointKind ->
         AsOneRing(SubPointAt(wkb, off, read(wkb, off + 1, sub_le), sub_le))

RECURSIVE MembersAt(_, _, _, _, _, _)
MembersAt(wkb, off, n, kind, has_z, has_m) ==
  LET MemberThen(member) ==
        IF ~member.ok THEN Short
        ELSE Joined(member.seq,
                    MembersAt(wkb, member.next, n - 1, kind, has_z, has_m))
  IN IF n = 0 THEN Parsed(<<>>, off)
     ELSE IF Len(wkb) < off + 1 THEN Short
     ELSE MemberThen(MemberAt(wkb, off, kind, SubOrder(wkb, off), has_z, has_m))

(* The lowest and the highest of some numbers.                             *)
range_1d(S) == IF S = {} THEN <<0, 0>> ELSE <<Min(S), Max(S)>>

bbox_2d(x, y) == <<x[1], y[1], x[2], y[2]>>

(* XY pairs, then the Z values with their range, then the M values: every  *)
(* shape with Z or M ends in M.                                            *)
CoordArrays(cs, has_z, has_m) ==
  FlattenSeq([i \in DOMAIN cs |-> <<cs[i].x, cs[i].y>>])
    \o (IF ~has_z THEN <<>>
        ELSE range_1d({cs[i].z : i \in DOMAIN cs}) \o [i \in DOMAIN cs |-> cs[i].z])
    \o (IF ~has_z /\ ~has_m THEN <<>>
        ELSE range_1d({cs[i].m : i \in DOMAIN cs}) \o [i \in DOMAIN cs |-> cs[i].m])

(* build_shp_polyline, build_shp_polygon and build_shp_multipoint.  Parts  *)
(* are told apart by the index of their first point; points have none.     *)
build_shp(base, parts, cs, has_z, has_m) ==
  <<shp_type(base, has_z, has_m)>>
    \o bbox_2d(range_1d({cs[i].x : i \in DOMAIN cs}),
               range_1d({cs[i].y : i \in DOMAIN cs}))
    \o (IF base = SHP_MULTIPOINT THEN <<Len(cs)>>
        ELSE <<Len(parts), Len(cs)>>
               \o [i \in DOMAIN parts |-> Len(FlattenSeq(SubSeq(parts, 1, i - 1)))])
    \o CoordArrays(cs, has_z, has_m)

wkb_point_to_shp(c, has_z, has_m) ==
  <<shp_type(SHP_POINT, has_z, has_m), c.x, c.y>>
    \o (IF has_z THEN <<c.z>> ELSE <<>>)
    \o (IF has_z \/ has_m THEN <<c.m>> ELSE <<>>)

ShapeOf(kind) ==
  CASE kind \in {LineKind, MultiLineKind} -> SHP_POLYLINE
    [] kind \in {PolygonKind, MultiPolygonKind} -> SHP_POLYGON
    [] kind = MultiPointKind -> SHP_MULTIPOINT

(* The rings of a geometry whose header was read.                          *)
RingsAt(wkb, kind, is_le, z, m) ==
  CASE kind = PointKind -> AsOneRing(CoordsAt(wkb, 2, 1, is_le, z, m))
    [] kind = LineKind -> AsOneRing(parse_wkb_ring_coords(wkb, 3, is_le, z, m))
    [] kind = PolygonKind -> PolygonAt(wkb, 3, is_le, z, m)
    [] kind \in MultiPointKind..MultiPolygonKind ->
         IF Len(wkb) < 3 THEN Short
         ELSE MembersAt(wkb, 4, read(wkb, 3, is_le), kind, z, m)
    [] OTHER -> Short

BuiltFrom(p, kind, z, m) ==
  IF ~p.ok THEN Error
  ELSE Bytes(IF kind = PointKind THEN wkb_point_to_shp(p.seq[1][1], z, m)
             ELSE build_shp(ShapeOf(kind), p.seq, FlattenSeq(p.seq), z, m))

WkbToShp(wkb, type, is_le) ==
  BuiltFrom(RingsAt(wkb, type % 1000, is_le, HasZ(type), HasM(type)),
            type % 1000, HasZ(type), HasM(type))

wkb_to_shp(wkb) ==
  IF Len(wkb) < 2 THEN Error
  ELSE WkbToShp(wkb, read(wkb, 2, wkb[1][2] = 1), wkb[1][2] = 1)

-----------------------------------------------------------------------------
(* SHP to WKB                                                              *)

(* n points from word `off` on with the dimensions found: [ok, z, m, cs].  *)
(* With Z, M is optional: it counts when the record is long enough for it  *)
(* and some M is data.                                                     *)
ArraysAt(shp, off, n, has_z, has_m) ==
  LET z_off == off + 2 * n
      m_off == IF has_z THEN z_off + 2 + n ELSE z_off
      whole_m == Len(shp) >= m_off + 1 + n
      with_m == IF has_z
                  THEN whole_m /\ \E i \in 1..n : shp[m_off + 1 + i] > NO_DATA_LIMIT
                  ELSE has_m
      Found(m) ==
        [ok |-> TRUE, z |-> has_z, m |-> m,
         cs |-> [i \in 1..n |->
                   Coord(shp[off + 2 * i - 2], shp[off + 2 * i - 1],
                         IF has_z THEN shp[z_off + 1 + i] ELSE 0,
                         IF m THEN shp[m_off + 1 + i] ELSE NO_DATA)]]
  IN IF /\ Len(shp) >= z_off - 1
        /\ has_z => Len(shp) >= z_off + 1 + n
        /\ has_m => whole_m
       THEN Found(with_m)
       ELSE [ok |-> FALSE, z |-> FALSE, m |-> FALSE, cs |-> <<>>]

(* The coordinates of part i of a PolyLine or Polygon record.              *)
Part(shp, cs, i) ==
  SubSeq(cs, shp[7 + i] + 1, IF i < shp[6] THEN shp[8 + i] ELSE shp[7])

RECURSIVE CrossSum(_, _)
CrossSum(ring, i) ==
  IF i = 0 THEN 0
  ELSE LET j == (i % Len(ring)) + 1
       IN ring[i].x * ring[j].y - ring[j].x * ring[i].y + CrossSum(ring, i - 1)

(* Twice the code's value: only its sign is used.                          *)
signed_area_2d(ring) == IF Len(ring) < 3 THEN 0 ELSE CrossSum(ring, Len(ring))

StartsPolygon(ring, polygons) == signed_area_2d(ring) >= 0 \/ polygons = <<>>

WithRing(polygons, ring) ==
  IF StartsPolygon(ring, polygons) THEN Append(polygons, <<ring>>)
  ELSE Append(Front(polygons), Append(Last(polygons), ring))

(* Rings grouped into polygons; a ring that starts none is a hole of the   *)
(* last one.                                                               *)
Grouped(rings) == FoldLeft(WithRing, <<>>, rings)

(* The geometry of a record from the arrays it holds.                      *)
Geom(kind, z, m, polys) == [kind |-> kind, z |-> z, m |-> m, polys |-> polys]

(* shp_multiline_to_wkb, shp_multipoly_to_wkb and shp_multipoint_to_wkb    *)
MultiFrom(base, shp, a) ==
  IF ~a.ok THEN Error
  ELSE Bytes(EncodeLittle(
    CASE base = SHP_MULTIPOINT ->
           Geom(MultiPointKind, a.z, a.m, [i \in DOMAIN a.cs |-> <<<<a.cs[i]>>>>])
      [] base = SHP_POLYLINE ->
           Geom(MultiLineKind, a.z, a.m,
                [i \in 1..shp[6] |-> <<Part(shp, a.cs, i)>>])
      [] base = SHP_POLYGON ->
           Geom(MultiPolygonKind, a.z, a.m,
                Grouped([i \in 1..shp[6] |-> Part(shp, a.cs, i)]))))

(* parse_shp_parts_header; a MultiPoint record has no parts.               *)
shp_multi_to_wkb(base, shp, has_z, has_m) ==
  IF Len(shp) < (IF base = SHP_MULTIPOINT THEN 6 ELSE 7) THEN Error
  ELSE IF base = SHP_MULTIPOINT
    THEN MultiFrom(base, shp, ArraysAt(shp, 7, shp[6], has_z, has_m))
  ELSE IF Len(shp) < 7 + shp[6] THEN Error
  ELSE MultiFrom(base, shp, ArraysAt(shp, 8 + shp[6], shp[7], has_z, has_m))

(* The three point conversions: Z is followed by an M that may be absent   *)
(* or no data.                                                             *)
shp_point_to_wkb(shp, has_z, has_m) ==
  LET z == IF has_z THEN shp[4] ELSE 0
      z_and_m == has_z /\ Len(shp) >= 5 /\ shp[5] > NO_DATA_LIMIT
      m == IF has_m THEN shp[4] ELSE IF z_and_m THEN shp[5] ELSE NO_DATA
  IN IF Len(shp) < (IF has_z \/ has_m THEN 4 ELSE 3) THEN Error
     ELSE Bytes(EncodeLittle(Geom(PointKind, has_z, has_m \/ z_and_m,
                                  <<<<<<Coord(shp[2], shp[3], z, m)>>>>>>)))

shp_to_wkb(shp) ==
  IF shp = <<>> THEN Error
  ELSE LET base == IF shp[1] \in 0..29 THEN shp[1] % 10 ELSE 9
           z == shp[1] \div 10 = 1
           m == shp[1] \div 10 = 2
       IN CASE shp[1] = SHP_NULL -> Null
            [] base = SHP_POINT -> shp_point_to_wkb(shp, z, m)
            [] base \in {SHP_POLYLINE, SHP_POLYGON, SHP_MULTIPOINT} ->
                 shp_multi_to_wkb(base, shp, z, m)
            [] OTHER -> Error
====
