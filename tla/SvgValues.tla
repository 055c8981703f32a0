------------------------------ MODULE SvgValues ------------------------------
(***************************************************************************)
(* The SVG value classes of src/js/facade/extensions/svg.js that are read  *)
(* from and written back to the text of one attribute: SVGLength,          *)
(* SVGAngle, SVGPreserveAspectRatio, SVGRect, and SVGMatrix with its cache *)
(* under SVGTransform.  A text is a record of what a parse of it finds;    *)
(* numbers are exact fractions <<n, d>>.                                   *)
(***************************************************************************)
EXTENDS Integers, Sequences

CONSTANTS
  Amounts,   \* numbers a program writes (integers)
  MaxWrites  \* writes to a transform

VARIABLES length, angle, ratio, rect, transform, writes
svgValueVars == <<length, angle, ratio, rect, transform, writes>>

\* Fractions in lowest terms with a positive denominator.
Abs(n) == IF n < 0 THEN -n ELSE n
Gcd[a \in Nat, b \in Nat] == IF b = 0 THEN a ELSE Gcd[b, a % b]
Fraction(n, d) ==
  LET g == Gcd[Abs(n), Abs(d)] s == IF d < 0 THEN -1 ELSE 1 IN <<(s * n) \div g, (s * d) \div g>>
Times(a, b) == Fraction(a[1] * b[1], a[2] * b[2])
Over(a, b) == Fraction(a[1] * b[2], a[2] * b[1])
Whole(n) == <<n, 1>>

-----------------------------------------------------------------------------
(* SVGLength and SVGAngle.  The expressions match no sign: a negative text   *)
(* is of unknown unit.                                                       *)

LengthText == [number |-> Whole(1), px |-> Whole(1), cm |-> <<4800, 127>>, mm |-> <<480, 127>>,
               in |-> Whole(96), pt |-> Whole(72), pc |-> Whole(6)]
Relative == {"em", "ex", "%"}   \* cannot be resolved: every operation throws
AngleText == [number |-> Whole(1), deg |-> Whole(1), rad |-> <<573, 10>>, grad |-> <<9, 10>>, turn |-> Whole(360)]
Absent == [n |-> Whole(0), unit |-> "unknown"]
Text(n, unit) == [n |-> n, unit |-> IF n[1] < 0 THEN "unknown" ELSE unit]

LengthUnitType(t) == t.unit
LengthValue(t) == IF t.unit = "unknown" THEN Whole(0) ELSE Times(t.n, LengthText[t.unit])
LengthSet(t, v) ==
  IF LengthUnitType(t) = "unknown" THEN Text(v, "number") ELSE Text(Over(v, LengthText[t.unit]), t.unit)
LengthNew(unit, n) == Text(n, unit)
LengthConvert(t, unit) == Text(Over(LengthValue(t), LengthText[unit]), unit)

AngleUnitType(t) == IF t.unit = "turn" THEN "unknown" ELSE t.unit
AngleValue(t) == IF t.unit = "unknown" THEN Whole(0) ELSE Times(t.n, AngleText[t.unit])
AngleSet(t, v) ==
  LET unit == IF AngleUnitType(t) = "unknown" THEN "turn" ELSE t.unit IN Text(Over(v, AngleText[unit]), unit)
AngleNew(unit, n) == Text(n, unit)
AngleConvert(t, unit) == Text(Over(AngleValue(t), AngleText[unit]), unit)

-----------------------------------------------------------------------------
(* SVGPreserveAspectRatio: align 1 is written "none", which reads as 6.      *)

NoRatio == [align |-> 0, slice |-> FALSE]     \* 0: absent or no keyword
Align(t) == IF t.align \in 2..10 THEN t.align ELSE 6
MeetOrSlice(t) == IF t.slice THEN 2 ELSE 1
SetAlign(t, n) == [align |-> n, slice |-> MeetOrSlice(t) = 2]
SetMeetOrSlice(t, n) == [align |-> Align(t), slice |-> n = 2]

(* SVGRect: four numbers, or a text that does not parse (the empty tuple). *)
RectNumbers(t) == IF Len(t) = 4 THEN t ELSE <<>>
RectGet(t, i) == IF RectNumbers(t) = <<>> THEN 0 ELSE t[i]
RectSet(t, i, n) == IF RectNumbers(t) = <<>> THEN <<n>> ELSE [t EXCEPT ![i] = n]

-----------------------------------------------------------------------------
(* SVGMatrix <<a, b, c, d, e, f>>.  Angles are quarter turns.                *)

Identity2d == <<1, 0, 0, 1, 0, 0>>
Multiply2d(m, n) ==
  <<m[1] * n[1] + m[3] * n[2], m[2] * n[1] + m[4] * n[2], m[1] * n[3] + m[3] * n[4], m[2] * n[3] + m[4] * n[4],
    m[1] * n[5] + m[3] * n[6] + m[5], m[2] * n[5] + m[4] * n[6] + m[6]>>
Translate2d(m, x, y) == Multiply2d(m, <<1, 0, 0, 1, x, y>>)
Sin == <<0, 1, 0, -1>>
Cos == <<1, 0, -1, 0>>
Rotation(q) == <<Cos[q + 1], Sin[q + 1], -Sin[q + 1], Cos[q + 1], 0, 0>>

\* svgMatrixParse of one function; scale(1 y) parses as the identity.
TransformText(fn, args) == [fn |-> fn, args |-> args]
NoTransform == TransformText("none", <<>>)
SvgMatrixParse(t) ==
  CASE t.fn = "matrix" -> t.args
    [] t.fn = "translate" -> Translate2d(Identity2d, t.args[1], t.args[2])
    [] t.fn = "scale" -> IF t.args[1] = 1 THEN Identity2d ELSE <<t.args[1], 0, 0, t.args[2], 0, 0>>
    [] t.fn = "rotate" ->
         LET x == t.args[2] y == t.args[3] IN
         Translate2d(Multiply2d(Translate2d(Identity2d, x, y), Rotation(t.args[1])), -x, -y)
    [] OTHER -> Identity2d

\* A transform and its matrix: the text, and what the matrix caches, its values
\* with the text it knows them by and, as a history variable, the text they
\* were parsed from or last written as.
NoRead == [attr |-> NoTransform, values |-> Identity2d, read |-> FALSE, wrote |-> NoTransform]
Known(values, text) == [attr |-> text, values |-> values, read |-> TRUE, wrote |-> text]
MatrixRead(tr) ==
  IF tr.cache.read /\ tr.cache.attr = tr.text THEN tr.cache ELSE Known(SvgMatrixParse(tr.text), tr.text)
\* _write: a setter hands the cache itself, whose text is spread over the new one.
MatrixSet(tr, i, n) ==
  LET read == MatrixRead(tr)
      values == [read.values EXCEPT ![i] = n]
      text == TransformText("matrix", values)
  IN [text |-> text, cache |-> [read EXCEPT !.values = values, !.wrote = text]]
\* The operations return a new matrix, which setMatrix then binds.
MatrixMultiply(m, n) == Multiply2d(m, n)
MatrixTranslate(m, x, y) == Translate2d(m, x, y)
MatrixScale(m, s) == Multiply2d(m, <<s, 0, 0, s, 0, 0>>)
MatrixScaleNonUniform(m, x, y) == Multiply2d(m, <<x, 0, 0, y, 0, 0>>)
MatrixRotate(m, q) == Multiply2d(m, Rotation(q))
MatrixFlipX(m) == Multiply2d(m, <<-1, 0, 0, 1, 0, 0>>)
MatrixFlipY(m) == Multiply2d(m, <<1, 0, 0, -1, 0, 0>>)
Det(m) == m[1] * m[4] - m[2] * m[3]
MatrixInverse(m) ==
  LET part(x) == x \div Det(m) IN
  <<part(m[4]), part(-m[2]), part(-m[3]), part(m[1]), part(m[3] * m[6] - m[4] * m[5]), part(m[2] * m[5] - m[1] * m[6])>>
MatrixOf(tr) ==
  LET m == MatrixRead(tr).values IN
  {MatrixTranslate(m, x, 0) : x \in Amounts} \cup {MatrixScale(m, s) : s \in Amounts} \cup
  {MatrixScaleNonUniform(m, 1, s) : s \in Amounts} \cup {MatrixRotate(m, q) : q \in 0..3} \cup
  {MatrixFlipX(m), MatrixFlipY(m)} \cup (IF Abs(Det(m)) = 1 THEN {MatrixInverse(m)} ELSE {})
SetMatrix(tr, m) ==
  [text |-> TransformText("matrix", m), cache |-> Known(m, TransformText("matrix", m))]
Retext(tr, t) == [tr EXCEPT !.text = t]
SetTranslate(tr, x, y) == Retext(tr, TransformText("translate", <<x, y>>))
SetScale(tr, x, y) == Retext(tr, TransformText("scale", <<x, y>>))
SetRotate(tr, q, x, y) == Retext(tr, TransformText("rotate", <<q, x, y>>))
TransformType(t) == IF t.fn = "none" THEN "unknown" ELSE t.fn
TransformAngle(t) == IF t.fn = "rotate" THEN t.args[1] ELSE 0

-----------------------------------------------------------------------------

SvgValueInit ==
  /\ length = Absent /\ angle = Absent /\ ratio = NoRatio /\ rect = <<>>
  /\ transform = [text |-> NoTransform, cache |-> NoRead] /\ writes = 0

LengthMoves ==
  /\ UNCHANGED <<angle, ratio, rect, transform, writes>>
  /\ \E n \in Amounts, unit \in DOMAIN LengthText :
       length' \in {LengthNew(unit, Whole(n)), LengthSet(length, Whole(n)), LengthConvert(length, unit)}
AngleMoves ==
  /\ UNCHANGED <<length, ratio, rect, transform, writes>>
  /\ \E n \in Amounts, unit \in DOMAIN AngleText :
       angle' \in {AngleNew(unit, Whole(n)), AngleSet(angle, Whole(n)), AngleConvert(angle, unit)}
RatioMoves ==
  /\ UNCHANGED <<length, angle, rect, transform, writes>>
  /\ ratio' \in {SetAlign(ratio, n) : n \in 1..10} \cup {SetMeetOrSlice(ratio, n) : n \in 1..2}
RectMoves ==
  /\ UNCHANGED <<length, angle, ratio, transform, writes>>
  /\ rect' \in {RectSet(rect, i, n) : i \in 1..4, n \in Amounts} \cup {<<n, n, 0, 0>> : n \in Amounts} \* or by setAttribute
TransformMoves ==
  /\ UNCHANGED <<length, angle, ratio, rect>>
  /\ writes < MaxWrites /\ writes' = writes + 1
  /\ \/ \E i \in 1..6, n \in Amounts : transform' = MatrixSet(transform, i, n)
     \/ \E m \in MatrixOf(transform) : transform' = SetMatrix(transform, m)
     \/ \E x, y \in Amounts :
          transform' \in {SetTranslate(transform, x, y), SetScale(transform, x, y), SetRotate(transform, 1, x, y)}
SvgValueMoves == LengthMoves \/ AngleMoves \/ RatioMoves \/ RectMoves \/ TransformMoves

\* The parts of the classes' meaning.  A conversion keeps what the length and the
\* angle are worth; an attribute of two settings keeps the one that is not set; a
\* matrix is undone by its inverse.
UnitsKept ==
  /\ \A unit \in DOMAIN LengthText : LengthValue(LengthConvert(length, unit)) = LengthValue(length)
  /\ \A unit \in DOMAIN AngleText : AngleValue(AngleConvert(angle, unit)) = AngleValue(angle)
OtherSettingKept ==
  /\ \A n \in 1..10 : MeetOrSlice(SetAlign(ratio, n)) = MeetOrSlice(ratio)
  /\ \A n \in 1..2 : Align(SetMeetOrSlice(ratio, n)) = Align(ratio)
  /\ \A n \in Amounts, i, j \in 1..4 : i # j => RectGet(RectSet(rect, i, n), j) = RectGet(rect, j)
MatrixAlgebra ==
  LET m == MatrixRead(transform).values IN
  Abs(Det(m)) = 1 => MatrixMultiply(m, MatrixInverse(m)) = Identity2d
\* A matrix is written as what it reads as, and reads as its text says, with one
\* exception: a setter leaves the matrix known by the text before it, and the
\* transform given that text again reads as what the setter wrote.
MatrixReads ==
  LET values == MatrixRead(transform).values cache == transform.cache IN
  /\ cache.read => cache.values = SvgMatrixParse(cache.wrote)
  /\ \/ values = SvgMatrixParse(transform.text)
     \/ cache.attr = transform.text /\ cache.wrote # transform.text /\ cache.wrote.fn = "matrix"
=============================================================================
