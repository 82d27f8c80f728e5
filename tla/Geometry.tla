------------------------------ MODULE Geometry ------------------------------
(***************************************************************************)
(* What the two spatial encodings talk about: a geometry, its ISO          *)
(* well-known binary with every byte order a writer may choose, and the    *)
(* geometry that a YXDB SpatialObj field can keep of it.                   *)
(*                                                                         *)
(* A geometry is [kind, z, m, polys]: the dimensions it has and its        *)
(* coordinates, as a sequence of members, each a sequence of rings, each a *)
(* sequence of coordinates.  A point or a line is a member with one ring.  *)
(* An encoded geometry is a sequence of words, one per number or flag of   *)
(* the byte format; a WKB word is the pair of the byte order it was        *)
(* written in and its value.                                               *)
(***************************************************************************)
EXTENDS Integers, Sequences, SequencesExt

PointKind == 1
LineKind == 2
PolygonKind == 3
MultiPointKind == 4
MultiLineKind == 5
MultiPolygonKind == 6

(* Doubles are integers here: any M up to NO_DATA_LIMIT means "no data",   *)
(* and NO_DATA is the value written for a missing M.                       *)
NO_DATA_LIMIT == -100
NO_DATA == -1000

Coord(x, y, z, m) == [x |-> x, y |-> y, z |-> z, m |-> m]

Rings(g) == FlattenSeq(g.polys)

Coords(g) == FlattenSeq(Rings(g))

-----------------------------------------------------------------------------
(* ISO well-known binary                                                   *)

TypeCode(kind, z, m) == kind + (IF z THEN 1000 ELSE 0) + (IF m THEN 2000 ELSE 0)

HeaderWords(le, kind, g) ==
  <<<<le, IF le THEN 1 ELSE 0>>, <<le, TypeCode(kind, g.z, g.m)>>>>

CoordWords(le, c, g) ==
  <<<<le, c.x>>, <<le, c.y>>>>
    \o (IF g.z THEN <<<<le, c.z>>>> ELSE <<>>)
    \o (IF g.m THEN <<<<le, c.m>>>> ELSE <<>>)

BodyWords(le, ring, g) ==
  FlattenSeq([i \in DOMAIN ring |-> CoordWords(le, ring[i], g)])

RingWords(le, ring, g) == <<<<le, Len(ring)>>>> \o BodyWords(le, ring, g)

PolygonWords(le, rings, g) ==
  <<<<le, Len(rings)>>>>
    \o FlattenSeq([i \in DOMAIN rings |-> RingWords(le, rings[i], g)])

MemberWords(le, kind, rings, g) ==
  HeaderWords(le, kind, g) \o
  CASE kind = PointKind   -> BodyWords(le, rings[1], g)
    [] kind = LineKind    -> RingWords(le, rings[1], g)
    [] kind = PolygonKind -> PolygonWords(le, rings, g)

(* Member i of a collection is written in byte order sub[i].               *)
Encode(g, le, sub) ==
  IF g.kind <= PolygonKind THEN MemberWords(le, g.kind, g.polys[1], g)
  ELSE HeaderWords(le, g.kind, g) \o <<<<le, Len(g.polys)>>>>
         \o FlattenSeq([i \in DOMAIN g.polys |->
              MemberWords(sub[i], g.kind - 3, g.polys[i], g)])

EncodeLittle(g) == Encode(g, TRUE, [i \in DOMAIN g.polys |-> TRUE])

-----------------------------------------------------------------------------
(* What is kept: a line or polygon becomes a collection of one, a polygon  *)
(* without rings disappears, and with Z an M that no point has is dropped. *)

Kept(g) ==
  [kind  |-> IF g.kind \in {LineKind, PolygonKind} THEN g.kind + 3 ELSE g.kind,
   z     |-> g.z,
   m     |-> g.m /\ (g.z => \E i \in DOMAIN Coords(g) :
                                Coords(g)[i].m > NO_DATA_LIMIT),
   polys |-> SelectSeq(g.polys, LAMBDA rings : rings # <<>>)]

WithoutM(g) == [Kept(g) EXCEPT !.m = FALSE]
=============================================================================
