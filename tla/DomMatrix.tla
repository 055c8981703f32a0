----------------------------- MODULE DomMatrix -----------------------------
(***************************************************************************)
(* DOMMatrix and DOMMatrixReadOnly: sixteen numbers, the ways to read and  *)
(* to replace them, and the transformation methods, each a multiplication. *)
(* A matrix is a table of rows; row i, column j is the component m<i><j>.  *)
(* Angles are quarter turns, skews are given by their tangent, and numbers *)
(* are integers, so every product the methods form is exact.               *)
(***************************************************************************)
EXTENDS Integers, Sequences, SequencesExt, FiniteSets, TLC

CONSTANT MaxMatrixOps     \* bound: calls made on the matrix

VARIABLE matrix           \* the components, and the last call made on them
domMatrixVars == <<matrix>>

Sides == 1 .. 4
Cell(i, j) == "m" \o ToString(i) \o ToString(j)
Identity == [i \in Sides |-> [j \in Sides |-> IF i = j THEN 1 ELSE 0]]
Rows(s) == [i \in Sides |-> [j \in Sides |-> s[4 * (i - 1) + j]]]

-----------------------------------------------------------------------------
(* Reading and replacing the components *)

\* The two-dimensional names of six components.
Aliases == [a |-> "m11", b |-> "m12", c |-> "m21", d |-> "m22", e |-> "m41", f |-> "m42"]
Place(name) == CHOOSE p \in Sides \X Sides :
                 Cell(p[1], p[2]) = IF name \in DOMAIN Aliases THEN Aliases[name] ELSE name
Component(m, name) == m[Place(name)[1]][Place(name)[2]]
SetComponent(m, name, v) == [m EXCEPT ![Place(name)[1]][Place(name)[2]] = v]

isIdentity(m) == m = Identity
\* The cells m13, m14, m23 and m24 are not asked.
is2D(m) == /\ \A j \in Sides : m[3][j] = Identity[3][j]
           /\ m[4][3] = 0 /\ m[4][4] = 1

toArray(m, flat) ==
  IF flat THEN <<m[1][1], m[1][2], m[2][1], m[2][2], m[4][1], m[4][2]>>
  ELSE m[1] \o m[2] \o m[3] \o m[4]

fromArray(a) ==
  IF Len(a) = 16 THEN Rows(a)
  ELSE Rows(<<a[1], a[2], 0, 0, a[3], a[4], 0, 0, 0, 0, 1, 0, a[5], a[6], 0, 1>>)

\* A plain object is completed with the identity, which has both kinds of name:
\* with an a and no m11 the six short names are taken, whatever the object says
\* of the cells they stand for, and otherwise none of them is.
TakesShort(init) == "m11" \notin DOMAIN init /\ "a" \in DOMAIN init
ShortOf(name) == {x \in DOMAIN Aliases : Aliases[x] = name}
resolveMatrixInit(init) ==
  [i \in Sides |-> [j \in Sides |->
     LET name == Cell(i, j)
         asked == IF TakesShort(init) /\ ShortOf(name) # {} THEN ShortOf(name) ELSE {name}
         found == asked \cap DOMAIN init
     IN IF found = {} THEN Identity[i][j] ELSE init[CHOOSE x \in found : TRUE]]]

-----------------------------------------------------------------------------
(* The kernels *)

\* Mutant: the operands are swapped.
MultiplySwapped(target, m) ==
  [i \in Sides |-> [j \in Sides |->
     target[i][1] * m[1][j] + target[i][2] * m[2][j] + target[i][3] * m[3][j]
       + target[i][4] * m[4][j]]]

multiplySelf(target, m) ==
  [i \in Sides |-> [j \in Sides |->
     m[i][1] * target[1][j] + m[i][2] * target[2][j] + m[i][3] * target[3][j]
       + m[i][4] * target[4][j]]]

Translation(x, y, z) == [Identity EXCEPT ![4] = <<x, y, z, 1>>]
Scaling(x, y, z) == [Identity EXCEPT ![1][1] = x, ![2][2] = y, ![3][3] = z]
translateSelf(t, x, y, z) == multiplySelf(t, Translation(x, y, z))

\* Scales about an origin: there, and back again afterwards.
scaleSelf(t, s, o) == translateSelf(multiplySelf(translateSelf(t, o[1], o[2], o[3]),
                                                 Scaling(s[1], s[2], s[3])),
                                    -o[1], -o[2], -o[3])
scale3dSelf(t, s, o) == scaleSelf(t, <<s, s, s>>, o)
scaleNonUniformSelf(t, x, y) == multiplySelf(t, Scaling(x, y, 1))

Sine(q) == <<0, 1, 0, -1>>[1 + (q % 4)]
Cosine(q) == <<1, 0, -1, 0>>[1 + (q % 4)]

\* Rodrigues' rotation about an axis of the coordinate system, any length.
rotateAxisAngleSelf(t, axis, quarters) ==
  LET size(n) == IF n < 0 THEN -n ELSE n
      length == size(axis[1]) + size(axis[2]) + size(axis[3])
      x == axis[1] \div length
      y == axis[2] \div length
      z == axis[3] \div length
      s == Sine(quarters)
      v == 1 - Cosine(quarters)
  IN  IF length = 0 THEN t
      ELSE multiplySelf(t, Rows(
             <<1 - v * (y * y + z * z), v * x * y + z * s, v * x * z - y * s, 0,
               v * x * y - z * s, 1 - v * (x * x + z * z), v * y * z + x * s, 0,
               v * x * z + y * s, v * y * z - x * s, 1 - v * (x * x + y * y), 0,
               0, 0, 0, 1>>))

\* One angle turns about z; three turn about z, then y, then x.
rotateSelf(t, r) ==
  LET three == IF Len(r) = 1 THEN <<0, 0, r[1]>> ELSE r
      turn(m, axis, q) == IF q = 0 THEN m ELSE rotateAxisAngleSelf(m, axis, q)
  IN  turn(turn(turn(t, <<0, 0, 1>>, three[3]), <<0, 1, 0>>, three[2]), <<1, 0, 0>>, three[1])

\* The vector's own direction, on the axes of the plane.
rotateFromVectorSelf(t, x, y) ==
  IF x = 0 /\ y = 0 THEN t
  ELSE rotateSelf(t, <<IF y = 0 THEN (IF x > 0 THEN 0 ELSE 2) ELSE (IF y > 0 THEN 1 ELSE -1)>>)

skewXSelf(t, tangent) == multiplySelf(t, [Identity EXCEPT ![2][1] = tangent])
skewYSelf(t, tangent) == multiplySelf(t, [Identity EXCEPT ![1][2] = tangent])
flipXSelf(t) == multiplySelf(t, Scaling(-1, 1, 1))
flipYSelf(t) == multiplySelf(t, Scaling(1, -1, 1))

\* The adjugate over the determinant, both by cofactors.
Minor(m, i, j) ==
  LET skip(k, n) == IF n < k THEN n ELSE n + 1
      c(r, s) == m[skip(i, r)][skip(j, s)]
  IN  c(1, 1) * (c(2, 2) * c(3, 3) - c(2, 3) * c(3, 2))
        - c(1, 2) * (c(2, 1) * c(3, 3) - c(2, 3) * c(3, 1))
        + c(1, 3) * (c(2, 1) * c(3, 2) - c(2, 2) * c(3, 1))
Cofactor(m, i, j) == IF (i + j) % 2 = 0 THEN Minor(m, i, j) ELSE -Minor(m, i, j)
Determinant(m) == m[1][1] * Cofactor(m, 1, 1) + m[2][1] * Cofactor(m, 2, 1)
                    + m[3][1] * Cofactor(m, 3, 1) + m[4][1] * Cofactor(m, 4, 1)
Unimodular(m) == Determinant(m) \in {1, -1}   \* where the inverse is of integers
invertSelf(m) ==
  [i \in Sides |-> [j \in Sides |-> Cofactor(m, j, i) * Determinant(m)]]

transformPoint(m, p) ==
  [j \in Sides |-> p[1] * m[1][j] + p[2] * m[2][j] + p[3] * m[3][j] + p[4] * m[4][j]]

-----------------------------------------------------------------------------
(* Transform lists, as text *)

\* One function of a transform list. `matrix` and `matrix3d` replace what was
\* parsed before them, `perspective` writes one cell, a scale whose first
\* number is 1 is passed over. translateX, scaleY and the other forms for one
\* axis are these with the other numbers given.
Parsed(m, call) ==
  LET n == Len(call.args)
      x == call.args[1]
      arg(i, default) == IF n >= i THEN call.args[i] ELSE default
      name == call.name
  IN  CASE name = "perspective" -> IF n = 1 /\ x # 0 THEN [m EXCEPT ![3][4] = -1 \div x] ELSE m
        [] name = "translate"   -> IF n < 3 THEN translateSelf(m, x, arg(2, 0), 0) ELSE m
        [] name = "translate3d" -> IF n >= 3 THEN translateSelf(m, x, arg(2, 0), arg(3, 0)) ELSE m
        [] name = "matrix"      -> IF n \in {6, 16} THEN fromArray(call.args) ELSE m
        [] name = "rotate"      -> IF n = 1 THEN rotateSelf(m, <<0, 0, x>>) ELSE m
        [] name = "rotate3d"    -> IF n >= 4 THEN rotateAxisAngleSelf(m, SubSeq(call.args, 1, 3), arg(4, 0))
                                   ELSE m
        [] name = "scale"       -> IF x # 1 /\ n < 3 THEN scaleSelf(m, <<x, arg(2, x), 1>>, <<0, 0, 0>>) ELSE m
        [] name = "scale3d"     -> IF n >= 3 THEN scaleSelf(m, SubSeq(call.args, 1, 3), <<0, 0, 0>>) ELSE m
        [] name = "skew"        -> IF n = 1 THEN skewXSelf(m, x)
                                   ELSE skewYSelf(skewXSelf(m, x), arg(2, 0))
        [] OTHER                -> m
fromString(calls) == FoldLeft(Parsed, Identity, calls)

\* `matrix(...)` or `matrix3d(...)`, told apart by the number of values.
toText(m) == <<[name |-> "matrix", args |-> toArray(m, is2D(m))]>>

\* What the constructor and setMatrixValue accept.
applySetMatrixValue(m, source) ==
  CASE source.kind = "text"   -> IF source.calls = <<>> THEN m ELSE fromString(source.calls)
    [] source.kind = "array"  -> fromArray(source.values)
    [] source.kind = "object" -> resolveMatrixInit(source.init)
    [] OTHER                  -> m

-----------------------------------------------------------------------------
(* The calls a program makes *)

Small == {-1, 0, 1}
Vectors == {<<1, 0, 0>>, <<0, 0, -1>>, <<0, 2, 0>>, <<0, 0, 0>>}
Call(name, value, by) == [name |-> name, value |-> value, by |-> by]
NoMatrix == <<>>

\* A new value, and the matrix multiplied by, where there is one.
Transformations(m) ==
       {Call("translate", translateSelf(m, v[1], v[2], 2), Translation(v[1], v[2], 2)) : v \in Vectors}
  \cup {Call("rotate", rotateSelf(m, <<q>>), rotateSelf(Identity, <<q>>)) : q \in 0 .. 3}
  \cup {Call("rotate", rotateSelf(m, <<q, 1, 2>>), rotateSelf(Identity, <<q, 1, 2>>)) : q \in 0 .. 1}
  \cup {Call("axis", rotateAxisAngleSelf(m, v, 1), rotateAxisAngleSelf(Identity, v, 1)) : v \in Vectors}
  \cup {Call("vector", rotateFromVectorSelf(m, x, 0), rotateFromVectorSelf(Identity, x, 0)) : x \in Small}
  \cup {Call("vector", rotateFromVectorSelf(m, 0, y), rotateFromVectorSelf(Identity, 0, y)) : y \in {-1, 1}}
  \cup {Call("skew", skewXSelf(m, t), skewXSelf(Identity, t)) : t \in Small}
  \cup {Call("skew", skewYSelf(m, t), skewYSelf(Identity, t)) : t \in Small}
  \cup {Call("flip", flipXSelf(m), Scaling(-1, 1, 1)), Call("flip", flipYSelf(m), Scaling(1, -1, 1))}
  \cup {Call("scale", scaleNonUniformSelf(m, 2, -1), Scaling(2, -1, 1))}
  \cup {Call("multiply", multiplySelf(m, resolveMatrixInit(init)), resolveMatrixInit(init)) :
          init \in {[a |-> 0, b |-> 1, c |-> 1, d |-> 0, e |-> 0, f |-> 2], [m11 |-> 1, a |-> 5, m34 |-> 1],
                    [a |-> -1, m12 |-> 3, f |-> 1], [b |-> 3, m43 |-> 1]}}

\* A scaling about a point.
Centre == <<1, 2, 3>>
AboutCentre(m) == {Call("centred", scaleSelf(m, <<s, 1, -1>>, Centre), NoMatrix) : s \in {-1, 0, 2}}
             \cup {Call("centred", scale3dSelf(m, s, Centre), NoMatrix) : s \in {-1, 2}}

\* What replaces the components.
Replacements(m) ==
       {Call("text", applySetMatrixValue(m, [kind |-> "text", calls |-> calls]), NoMatrix) :
          calls \in {<<>>,
                     <<[name |-> "translate", args |-> <<1, 2>>], [name |-> "scale", args |-> <<2>>]>>,
                     <<[name |-> "scale", args |-> <<1, 2>>], [name |-> "skew", args |-> <<1, 1>>]>>,
                     <<[name |-> "rotate3d", args |-> <<1, 0, 0, 1>>], [name |-> "perspective", args |-> <<1>>]>>,
                     <<[name |-> "rotate", args |-> <<1>>], [name |-> "translate3d", args |-> <<1, 0, 2>>]>>,
                     <<[name |-> "rotate", args |-> <<1>>], [name |-> "matrix", args |-> <<1, 0, 1, 1, 0, 2>>],
                       [name |-> "scale3d", args |-> <<1, 1, 2>>]>>}}
  \cup {Call("array", applySetMatrixValue(m, [kind |-> "array", values |-> <<1, 1, 0, 1, 2, 0>>]), NoMatrix)}
  \cup {Call("object", applySetMatrixValue(m, [kind |-> "object", init |-> [m13 |-> 1]]), NoMatrix)}
  \cup {Call("cell", SetComponent(m, name, 2), NoMatrix) : name \in {"a", "f", "m14", "m33"}}
Inversions(m) == IF Unimodular(m) THEN {Call("invert", invertSelf(m), NoMatrix)} ELSE {}

DomMatrixInit == matrix = [now |-> Identity, was |-> Identity, last |-> Call("new", Identity, NoMatrix), calls |-> 0]

\* preMultiplySelf is multiplySelf under another name, so it adds no call.
MatrixCall ==
  /\ matrix.calls < MaxMatrixOps
  /\ \E call \in Transformations(matrix.now) \cup AboutCentre(matrix.now)
                   \cup Replacements(matrix.now) \cup Inversions(matrix.now) :
       matrix' = [now |-> call.value, was |-> matrix.now, last |-> call, calls |-> matrix.calls + 1]

DomMatrixMoves == MatrixCall

-----------------------------------------------------------------------------
(* Properties *)

Points == {<<1, 0, 0, 1>>, <<0, 1, 2, 1>>, <<3, -1, 0, 0>>}

\* A transformation method acts on the points before the transformation the
\* matrix already held: translate then rotate turns first, as in a transform
\* list read from the left.
PointsCompose ==
  matrix.last.by # NoMatrix =>
    \A p \in Points : transformPoint(matrix.now, p)
                        = transformPoint(matrix.was, transformPoint(matrix.last.by, p))

\* Scaling about a point leaves that point where the matrix had it.
CentreKept ==
  matrix.last.name = "centred" =>
    LET p == Append(Centre, 1) IN transformPoint(matrix.now, p) = transformPoint(matrix.was, p)

\* inverse() undoes the matrix on both sides.
InverseUndoes ==
  Unimodular(matrix.now) => /\ multiplySelf(matrix.now, invertSelf(matrix.now)) = Identity
                            /\ multiplySelf(invertSelf(matrix.now), matrix.now) = Identity

\* A matrix read back from its own text is the same matrix, unless it has a
\* value in one of the four cells is2D does not ask about and the text leaves out.
TextRoundTrip ==
  \/ is2D(matrix.now) /\ \E i \in 1 .. 2, j \in 3 .. 4 : matrix.now[i][j] # 0
  \/ fromString(toText(matrix.now)) = matrix.now
=============================================================================
