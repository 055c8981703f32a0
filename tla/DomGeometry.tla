---------------------------- MODULE DomGeometry ----------------------------
(***************************************************************************)
(* DOMPoint and DOMRect (src/js/facade/extensions/dom-geometry.js): four   *)
(* numbers each, and the transformation of a point, which completes a      *)
(* matrix given as a plain object in a way of its own.                     *)
(***************************************************************************)
EXTENDS DomMatrix

CONSTANT MaxGeometryOps   \* bound: calls made on the point and the rectangle

VARIABLE geometry         \* a point, a rectangle and the last transformation

Lengths == {-2, 0, 3}     \* numbers a program gives
Absent == <<>>            \* an argument left out, or null
Given(v) == <<v>>
Or(argument, default) == IF argument = Absent THEN default ELSE Head(argument)

\* A missing coordinate is 0, and w is 1.
DOMPointReadOnly(x, y, z, w) == <<Or(x, 0), Or(y, 0), Or(z, 0), Or(w, 1)>>
FromPoint(p) == DOMPointReadOnly(Given(p[1]), Given(p[2]), Given(p[3]), Given(p[4]))
DOMRectReadOnly(x, y, width, height) == [x |-> Or(x, 0), y |-> Or(y, 0), width |-> Or(width, 0), height |-> Or(height, 0)]

Arguments == {Absent} \cup {Given(v) : v \in Lengths}

Lesser(a, b) == IF a < b THEN a ELSE b
Greater(a, b) == IF a < b THEN b ELSE a
Top(r) == Lesser(r.y, r.y + r.height)
Bottom(r) == Greater(r.y, r.y + r.height)
Left(r) == Lesser(r.x, r.x + r.width)
Right(r) == Greater(r.x, r.x + r.width)

\* Each cell by its indexed name, and else by its two-dimensional one.
ToMatrixComponents(init) ==
  [i \in Sides |-> [j \in Sides |->
     LET name == Cell(i, j)
         short == ShortOf(name) \cap DOMAIN init
     IN IF name \in DOMAIN init THEN init[name]
        ELSE IF short # {} THEN init[CHOOSE x \in short : TRUE] ELSE Identity[i][j]]]
MatrixTransform(p, init) ==
  LET m == ToMatrixComponents(init)
      coordinate(j) == p[1] * m[1][j] + p[2] * m[2][j] + p[3] * m[3][j] + p[4] * m[4][j]
  IN DOMPointReadOnly(Given(coordinate(1)), Given(coordinate(2)), Given(coordinate(3)), Given(coordinate(4)))

\* What a program gives: the six two-dimensional names, indexed ones, some of
\* either, or both.
Inits == {<<>>, [a |-> 0, b |-> 1, c |-> -1, d |-> 0, e |-> 2, f |-> 3], [m11 |-> 2, m12 |-> 1, m34 |-> 1, m41 |-> -1, m44 |-> 2],
          [m11 |-> 2, m22 |-> 3, m42 |-> 1], [m21 |-> 2, m13 |-> 1, m24 |-> -1, m43 |-> 1, m31 |-> 1],
          [a |-> 2, f |-> -1], [b |-> 3], [a |-> 5, m12 |-> 3], [m11 |-> 2, b |-> 3, m12 |-> 1, d |-> -1]}

Made(point, rect) == [point |-> point, rect |-> rect, from |-> point, init |-> <<>>, ops |-> 0]
GeometryInit == geometry = Made(DOMPointReadOnly(Absent, Absent, Absent, Absent), DOMRectReadOnly(Absent, Absent, Absent, Absent))
GeometryCall(r) == geometry.ops < MaxGeometryOps /\ geometry' = [r EXCEPT !.ops = @ + 1]
PointOf(p) == GeometryCall([geometry EXCEPT !.point = p, !.from = p, !.init = <<>>])
RectOf(r) == GeometryCall([geometry EXCEPT !.rect = r])
NewPoint(x, w) == PointOf(DOMPointReadOnly(x, Given(1), Absent, w))
SetPoint(i, v) == PointOf([geometry.point EXCEPT ![i] = v])
NewRect(x, width) == RectOf(DOMRectReadOnly(x, Given(1), width, Absent))
SetRect(name, v) == RectOf([geometry.rect EXCEPT ![name] = v])
Transform(init) ==
  GeometryCall([geometry EXCEPT !.point = MatrixTransform(geometry.point, init), !.from = FromPoint(geometry.point), !.init = init])

GeometryMoves ==
  \/ \E x, w \in Arguments : NewPoint(x, w)
  \/ \E i \in Sides, v \in Lengths : SetPoint(i, v)
  \/ \E x, width \in Arguments : NewRect(x, width)
  \/ \E name \in {"x", "y", "width", "height"}, v \in Lengths : SetRect(name, v)
  \/ \E init \in Inits : Transform(init)

\* A point and a matrix complete a plain object each in a way of its own, and
\* transform alike where they read it alike: everywhere but in the cells the
\* object names in the kind of name the matrix passes over and the point does not.
Contested(init) ==
  {cell \in Sides \X Sides :
     LET name == Cell(cell[1], cell[2])
     IN IF TakesShort(init) THEN ShortOf(name) # {} /\ name \in DOMAIN init
        ELSE ShortOf(name) \cap DOMAIN init # {} /\ name \notin DOMAIN init}
TransformsAgree ==
  LET asMatrix == transformPoint(resolveMatrixInit(geometry.init), geometry.from) IN
  \A j \in Sides : (\A i \in Sides : <<i, j>> \notin Contested(geometry.init)) => geometry.point[j] = asMatrix[j]
\* The edges enclose the corner the rectangle starts at and the opposite one,
\* also where a size is negative.
EdgesEnclose ==
  LET r == geometry.rect IN
  /\ r.x \in {Left(r), Right(r)} /\ r.y \in {Top(r), Bottom(r)}
  /\ Right(r) - Left(r) \in {r.width, -r.width} /\ Right(r) >= Left(r)
  /\ Bottom(r) - Top(r) \in {r.height, -r.height} /\ Bottom(r) >= Top(r)
=============================================================================
