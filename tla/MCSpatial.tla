------------------------------ MODULE MCSpatial ------------------------------
(***************************************************************************)
(* Points, lines and point sets with up to MaxPoints coordinates and all   *)
(* patterns of missing M; polygons of up to two members with up to two     *)
(* rings each; every choice of dimensions and byte orders.                 *)
(***************************************************************************)
EXTENDS SpatialColumn

CONSTANTS MaxPoints

MValues == {NO_DATA, NO_DATA_LIMIT, 5}

(* n coordinates with the M values of pattern f.                           *)
Points(n, f) == [i \in 1..n |-> Coord(i, 3 - i * i, 10 + i, f[i])]

MPatterns(n) == [1..n -> MValues]

Lists == UNION {{Points(n, f) : f \in MPatterns(n)} : n \in 0..MaxPoints}

(* Triangles: counterclockwise, clockwise, and one without area.           *)
Ring(a, b, c, m) ==
  [i \in 1..3 |-> LET p == <<a, b, c>>[i] IN Coord(p[1], p[2], 7 + i, m)]

RingSet ==
  {Ring(<<0, 0>>, <<9, 0>>, <<0, 9>>, 5), Ring(<<1, 1>>, <<1, 3>>, <<3, 1>>, NO_DATA),
   Ring(<<4, 4>>, <<5, 5>>, <<6, 6>>, 5)}

Polys == UNION {[1..n -> RingSet] : n \in 0..2}

Dims == BOOLEAN \X BOOLEAN

(* Missing dimensions are 0 and no data, as a decoder sees them.           *)
Flat(cs, z, m) ==
  [i \in DOMAIN cs |-> [cs[i] EXCEPT !.z = IF z THEN @ ELSE 0,
                                     !.m = IF m THEN @ ELSE NO_DATA]]

Shape(kind, d, polys) ==
  Geom(kind, d[1], d[2],
       [p \in DOMAIN polys |->
          [r \in DOMAIN polys[p] |-> Flat(polys[p][r], d[1], d[2])]])

Shapes ==
  UNION {
    {Shape(PointKind, d, <<<<l>>>>) : l \in {k \in Lists : Len(k) = 1}, d \in Dims},
    {Shape(LineKind, d, <<<<l>>>>) : l \in Lists, d \in Dims},
    {Shape(MultiPointKind, d, [i \in DOMAIN l |-> <<<<l[i]>>>>]) :
       l \in Lists, d \in Dims},
    {Shape(MultiLineKind, d, ls) :
       ls \in {<<>>} \cup {<<<<k>>, <<l>>>> :
                            k \in Lists, l \in {i \in Lists : Len(i) < 2}},
       d \in Dims},
    {Shape(PolygonKind, d, <<p>>) : p \in Polys, d \in Dims},
    {Shape(MultiPolygonKind, d, <<p, q>>) :
       p \in Polys, q \in {i \in Polys : Len(i) < 2}, d \in Dims}}

Source(g, le, sub) ==
  LET order == [i \in DOMAIN g.polys |-> IF i % 2 = 1 THEN sub ELSE ~sub]
  IN [cell |-> Bytes(Encode(g, le, order)), g |-> g]

NoShape(cell) == [cell |-> cell, g |-> Geom(0, FALSE, FALSE, <<>>)]

MCColumns ==
  {<<Source(g, le, sub)>> : g \in Shapes, le \in BOOLEAN, sub \in BOOLEAN}
    \cup {<<NoShape(c), Source(g, TRUE, FALSE)>> :
            c \in {Null, Bytes(<<>>)},
            g \in {s \in Shapes : s.kind = PointKind}}
=============================================================================
