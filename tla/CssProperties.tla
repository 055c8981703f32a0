---------------------------- MODULE CssProperties ----------------------------
(***************************************************************************)
(* The style declaration of src/js/facade/extensions/cssom.js: the parsers *)
(* that expand a shorthand into longhands (SetParser) and collapse them    *)
(* again (GetParser), the PropertyManager that keeps them in order, and    *)
(* the CSSStyleDeclaration that is a view over the style attribute.  A     *)
(* value is a sequence of tokens, each of one lexical class.  The slash of *)
(* background and font, and border-image given by its parts, are left out. *)
(***************************************************************************)
EXTENDS Naturals, Sequences, SequencesExt, TLC

CONSTANTS
  WrittenPairs, \* pairs <<property, value>> a program writes
  MaxStyleOps   \* writes to the declaration

VARIABLE style

-----------------------------------------------------------------------------
(* ValueParser: the tokens of each lexical class.                            *)

Globals == {"inherit", "initial"}
Length == {"0", "0px", "1px"}
Percentage == {"0", "0%", "50%"}
Measurement == Length \cup Percentage \cup {"calc()"}
ContentMeasurement == Measurement \cup {"auto", "min-content"}
AutoMeasurement == Measurement \cup {"auto"}
FloatNumber == {"0", "1", "2"}
IntegerNumber == {"0", "1", "2"}
Color == {"red", "blue"}
Url == {"url()", "none"}
ExceptInitial == Globals \ {"initial"}

(* SetParser: what each longhand accepts besides a variable and a global.    *)
Family(names, accepts) == [p \in names |-> Globals \cup accepts]
DisplayFamily ==
  Family({"border-collapse"}, {"separate", "collapse"}) @@ Family({"display"}, {"none", "block", "inline"}) @@
  Family({"direction"}, {"ltr", "rtl"})
SizeFamily ==
  Family({"letter-spacing", "word-spacing", "text-indent", "width", "height", "top", "right", "bottom", "left"}, ContentMeasurement)
FloatFamily == Family({"clear"}, {"none", "left", "right", "both"}) @@ Family({"float"}, {"none", "left", "right"})
BorderStyles == {"none", "solid", "dotted"}
BorderWidths == Length \cup {"thin", "medium"}
EdgeNames == <<"top", "right", "bottom", "left">>
Edges(prefix, suffix) == [i \in 1..4 |-> prefix \o "-" \o EdgeNames[i] \o suffix]
Corners == <<"border-top-left-radius", "border-top-right-radius", "border-bottom-right-radius", "border-bottom-left-radius">>
OutlineFamily ==
  Family({"outline-color"}, Color) @@ Family({"outline-style"}, BorderStyles) @@ Family({"outline-width"}, BorderWidths)
BorderWidthFamily == Family(ToSet(Edges("border", "-width")), BorderWidths)
BorderStyleFamily == Family(ToSet(Edges("border", "-style")), BorderStyles)
BorderColorFamily == Family(ToSet(Edges("border", "-color")), Color)
RadiusFamily == Family(ToSet(Corners), Measurement)
PaddingFamily == Family(ToSet(Edges("padding", "")), Measurement)
MarginFamily == Family(ToSet(Edges("margin", "")), AutoMeasurement)
FlexFamily ==
  Family({"flex-grow", "flex-shrink"}, FloatNumber) @@ Family({"flex-basis"}, ContentMeasurement \cup {"fill", "content"})
BackgroundFamily ==
  Family({"background-image"}, Url) @@ Family({"background-color"}, Color) @@
  Family({"background-repeat"}, {"repeat", "no-repeat"}) @@ Family({"background-attachment"}, {"scroll", "fixed"}) @@
  Family({"background-origin", "background-clip"}, {"border-box", "padding-box"}) @@ Family({"background-size"}, AutoMeasurement)
PositionFamily ==
  Family({"background-position-x"}, Measurement \cup {"left", "right", "center"}) @@
  Family({"background-position-y"}, Measurement \cup {"top", "bottom", "center"})
ColorFamily == Family({"color", "flood-color"}, Color)
FontFamily ==
  Family({"font-style"}, {"normal", "italic"}) @@ Family({"font-variant"}, {"normal", "small-caps"}) @@
  Family({"font-stretch"}, {"normal", "condensed"} \cup Percentage) @@ Family({"font-weight"}, {"normal", "bold"} \cup IntegerNumber) @@
  Family({"font-size"}, {"small", "large"} \cup Measurement) @@ Family({"line-height"}, {"normal"} \cup FloatNumber \cup Measurement) @@
  Family({"font-family"}, {"serif", "mono"})
TextFamily ==
  Family({"text-transform"}, {"uppercase", "none"}) @@ Family({"visibility"}, {"visible", "hidden"})
ImageFamily == Family({"border-image"}, {})    \* by its globals only
Longhands ==
  DisplayFamily @@ SizeFamily @@ FloatFamily @@ OutlineFamily @@ BorderWidthFamily @@ BorderStyleFamily @@ BorderColorFamily @@
  RadiusFamily @@ PaddingFamily @@ MarginFamily @@ FlexFamily @@ BackgroundFamily @@ PositionFamily @@ ColorFamily @@ FontFamily @@
  TextFamily @@ ImageFamily

\* A length is recognised first, so a zero is written with its unit.
Zeroless == {"flex-grow", "flex-shrink", "font-weight", "line-height", "background-size"}
Written0(p, token) ==
  IF token # "0" \/ p \in Zeroless THEN token ELSE IF p = "font-stretch" THEN "0%" ELSE "0px"

-----------------------------------------------------------------------------
(* The shorthands.                                                           *)

Sides == [margin |-> Edges("margin", ""), padding |-> Edges("padding", "")] @@
  ("border-width" :> Edges("border", "-width")) @@ ("border-style" :> Edges("border", "-style")) @@
  ("border-color" :> Edges("border", "-color")) @@ ("border-radius" :> Corners)
Edge(side) == <<<<"border-" \o side \o "-width">>, <<"border-" \o side \o "-style">>, <<"border-" \o side \o "-color">>>>
Mixed == [outline |-> <<<<"outline-color">>, <<"outline-style">>, <<"outline-width">>>>] @@
  ("border" :> <<Sides["border-width"], Sides["border-style"], Sides["border-color"]>>) @@
  ("border-top" :> Edge("top")) @@ ("border-right" :> Edge("right")) @@
  ("border-bottom" :> Edge("bottom")) @@ ("border-left" :> Edge("left"))
Backgrounds == <<"background-image", "background-position-x", "background-position-y", "background-size", "background-repeat",
                 "background-attachment", "background-origin", "background-clip", "background-color">>
Fonts == <<"font-style", "font-variant", "font-weight", "font-stretch", "font-size", "line-height", "font-family">>
Flexes == <<"flex-grow", "flex-shrink", "flex-basis">>
Positions == <<"background-position-x", "background-position-y">>
LonghandsOf(name) ==
  CASE name \in DOMAIN Sides -> Sides[name]
    [] name = "border" -> FlattenSeq(Mixed[name]) \o <<"border-image">>
    [] name \in DOMAIN Mixed -> FlattenSeq(Mixed[name])
    [] name = "background" -> Backgrounds [] name = "background-position" -> Positions
    [] name = "font" -> Fonts [] name = "flex" -> Flexes
    [] OTHER -> <<>>

Rejected == <<>>
Entry(name, value, important) == [name |-> name, value |-> value, important |-> important]
Accepts(p, token) == token = "var()" \/ token \in Longhands[p]
AssignLonghand(p, token, important) == IF Accepts(p, token) THEN <<Entry(p, <<Written0(p, token)>>, important)>> ELSE Rejected
AssignAll(ps, token, important) == FlattenSeq([i \in DOMAIN ps |-> AssignLonghand(ps[i], token, important)])

SidePart(v, i) == IF i =< Len(v) THEN v[i] ELSE IF i = 4 /\ Len(v) >= 2 THEN v[2] ELSE v[1]
SetSides(name, v, important) ==
  IF \A i \in 1..4 : Accepts(Sides[name][i], SidePart(v, i))
    THEN FlattenSeq([i \in 1..4 |-> AssignLonghand(Sides[name][i], SidePart(v, i), important)]) ELSE Rejected
\* Each part goes to every group that accepts it.
SetMixed(name, v, important) ==
  LET groups == Mixed[name]
      takes(g, token) == \A i \in DOMAIN groups[g] : Accepts(groups[g][i], token)
      part(token) == FlattenSeq([g \in DOMAIN groups |-> IF takes(g, token) THEN AssignAll(groups[g], token, important) ELSE <<>>]) IN
  IF Len(v) = 1 /\ v[1] \in Globals THEN AssignAll(LonghandsOf(name), v[1], important)
  ELSE IF \E i \in DOMAIN v : \A g \in DOMAIN groups : ~takes(g, v[i]) THEN Rejected
  ELSE AssignAll(LonghandsOf(name), "initial", important) \o FlattenSeq([i \in DOMAIN v |-> part(v[i])])
SetFlex(v, important) ==
  LET flex(grow, shrink, basis) ==
        IF Accepts("flex-grow", grow) /\ Accepts("flex-shrink", shrink) /\ Accepts("flex-basis", basis)
          THEN AssignLonghand("flex-grow", grow, important) \o AssignLonghand("flex-shrink", shrink, important) \o AssignLonghand("flex-basis", basis, important)
          ELSE Rejected IN
  IF Len(v) = 1 /\ v[1] \in Globals THEN AssignAll(Flexes, v[1], important)
  ELSE IF v = <<"none">> THEN flex("0", "0", "auto")
  ELSE IF Len(v) = 1 /\ v[1] \in ContentMeasurement THEN flex("1", "1", v[1])
  ELSE flex(v[1], IF Len(v) > 1 THEN v[2] ELSE "1", IF Len(v) > 2 THEN v[3] ELSE "0%")
SetPosition(v, important) ==
  LET vertical == v[1] \in {"top", "bottom"}
      xy == IF Len(v) = 1
              THEN IF vertical THEN <<"center", v[1]>>
                   ELSE IF v[1] \in {"left", "right", "center"} THEN <<v[1], "center">> ELSE <<"", "">>
              ELSE IF vertical THEN <<v[2], v[1]>> ELSE <<v[1], v[2]>> IN
  IF Len(v) = 1 /\ v[1] \in Globals THEN AssignAll(Positions, v[1], important)
  ELSE IF Len(v) =< 2 /\ Accepts(Positions[1], xy[1]) /\ Accepts(Positions[2], xy[2])
    THEN AssignLonghand(Positions[1], xy[1], important) \o AssignLonghand(Positions[2], xy[2], important) ELSE Rejected
SetBackground(v, important) ==
  LET single == SelectSeq(Backgrounds, LAMBDA p : p \notin ToSet(Positions) \cup {"background-size"})
      isPosition(token) == \E i \in 1..2 : Accepts(Positions[i], token)
      known(token) == isPosition(token) \/ \E i \in DOMAIN single : Accepts(single[i], token)
      positions == SelectSeq(v, isPosition) IN
  IF Len(v) = 1 /\ v[1] \in Globals THEN AssignAll(Backgrounds, v[1], important)
  ELSE IF \E i \in DOMAIN v : ~known(v[i]) THEN Rejected
  ELSE AssignAll(Backgrounds, "initial", important) \o FlattenSeq([i \in DOMAIN v |-> AssignAll(single, v[i], important)])
         \o (IF positions = <<>> THEN <<>> ELSE SetPosition(positions, important))
\* Each part goes to the first longhand that accepts it; what none does is the family.
SetFont(v, important) ==
  LET first == <<"font-style", "font-variant", "font-weight", "font-size", "font-stretch">>
      known(token) == \E i \in DOMAIN first : Accepts(first[i], token)
      part(token) == LET i == CHOOSE i \in DOMAIN first : Accepts(first[i], token) /\ \A j \in 1..(i - 1) : ~Accepts(first[j], token) IN
                     AssignLonghand(first[i], token, important)
      family == SelectInSeq(v, LAMBDA token : ~known(token))
      sized == IF family = 0 THEN v ELSE SubSeq(v, 1, family - 1) IN
  IF Len(v) = 1 /\ v[1] \in Globals THEN AssignAll(Fonts, v[1], important)
  ELSE IF v = <<"caption">> THEN <<Entry("font", v, important)>>
  ELSE IF family # 0 /\ (family < Len(v) \/ ~Accepts("font-family", v[family])) THEN Rejected
  ELSE AssignAll(<<"font-style", "font-variant", "font-weight", "font-stretch", "line-height">>, "normal", important)
         \o FlattenSeq([i \in DOMAIN sized |-> part(sized[i])])
         \o (IF family = 0 THEN <<>> ELSE AssignLonghand("font-family", v[family], important))

\* PropertyManager.set: what a name and a value assign.
Assigned(name, v, important) ==
  CASE v = <<"var()">> -> <<Entry(name, v, important)>>
    [] name \in DOMAIN Sides -> SetSides(name, v, important)
    [] name \in DOMAIN Mixed -> SetMixed(name, v, important)
    [] name = "flex" -> SetFlex(v, important)
    [] name = "background-position" -> SetPosition(v, important)
    [] name = "background" -> SetBackground(v, important)
    [] name = "font" -> SetFont(v, important)
    [] name \in DOMAIN Longhands -> IF Len(v) = 1 THEN AssignLonghand(name, v[1], important) ELSE Rejected
    [] OTHER -> <<Entry(name, v, important)>>

-----------------------------------------------------------------------------
(* PropertyManager: the properties in the order they were first written, and *)
(* the names they were written by.                                           *)

NoProperties == [properties |-> <<>>, defined |-> <<>>]
Find(m, name) == SelectInSeq(m.properties, LAMBDA e : e.name = name)
Has(m, name) == Find(m, name) # 0
ValueAt(m, name) == IF Has(m, name) THEN m.properties[Find(m, name)].value ELSE <<>>
ImportantAt(m, name) == Has(m, name) /\ m.properties[Find(m, name)].important
PutEntry(m, e) == [m EXCEPT !.properties = IF Has(m, e.name) THEN [@ EXCEPT ![Find(m, e.name)] = e] ELSE Append(@, e)]
PropertyManagerSet(m, name, v, important) ==
  LET new == Assigned(name, v, important) IN
  IF new = Rejected THEN m
  ELSE [FoldLeft(PutEntry, m, new) EXCEPT !.defined = IF \E i \in DOMAIN @ : @[i] = name THEN @ ELSE Append(@, name)]
\* Mutant: removing a shorthand leaves its longhands behind.
RemoveShorthandOnly(m, name) ==
  [properties |-> SelectSeq(m.properties, LAMBDA e : e.name # name), defined |-> SelectSeq(m.defined, LAMBDA n : n # name)]
PropertyManagerRemove(m, name) ==
  [properties |-> SelectSeq(m.properties, LAMBDA e : e.name # name /\ e.name \notin ToSet(LonghandsOf(name))),
   defined |-> SelectSeq(m.defined, LAMBDA n : n # name)]

(* GetParser.                                                                *)
NoValue == [value |-> <<>>, important |-> FALSE, found |-> FALSE]
Found(value, important) == [value |-> value, important |-> important, found |-> TRUE]
AllHere(m, ps) == \A i \in DOMAIN ps : ValueAt(m, ps[i]) # <<>>
AllImportant(m, ps) == \A i \in DOMAIN ps : ImportantAt(m, ps[i])
SameValues(m, ps) == \A i \in DOMAIN ps : ValueAt(m, ps[i]) = ValueAt(m, ps[1])
SomeIn(m, ps, tokens) == \E i \in DOMAIN ps : Len(ValueAt(m, ps[i])) = 1 /\ ValueAt(m, ps[i])[1] \in tokens
\* A side that repeats its opposite is left out, and what follows it with it.
Shortest(top, right, bottom, left) ==
  CASE left # right -> top \o right \o bottom \o left
    [] left = right /\ bottom # top -> top \o right \o bottom
    [] OTHER -> IF right # top THEN top \o right ELSE top
Merged(m, ps) == IF SameValues(m, ps) THEN Found(ValueAt(m, ps[1]), AllImportant(m, ps)) ELSE NoValue
GetPaddingLikeProperty(m, ps) ==
  IF ~AllHere(m, ps) THEN NoValue
  ELSE IF SomeIn(m, ps, Globals) THEN Merged(m, ps)
  ELSE Found(Shortest(ValueAt(m, ps[1]), ValueAt(m, ps[2]), ValueAt(m, ps[3]), ValueAt(m, ps[4])), AllImportant(m, ps))
NotInitial(m, ps) == FlattenSeq([i \in DOMAIN ps |-> IF ValueAt(m, ps[i]) = <<"initial">> THEN <<>> ELSE ValueAt(m, ps[i])])
GetBorderTopRightBottomLeft(m, ps) ==
  IF ~AllHere(m, ps) THEN NoValue
  ELSE IF SameValues(m, ps) /\ ValueAt(m, ps[1]) \in {<<t>> : t \in ExceptInitial} THEN Found(ValueAt(m, ps[1]), AllImportant(m, ps))
  ELSE Found(NotInitial(m, ps), AllImportant(m, ps))
BorderAll == FlattenSeq(Mixed["border"])
BorderTops == [g \in 1..3 |-> Mixed["border"][g][1]]
GetBorder(m) ==
  IF ~AllHere(m, BorderAll) \/ \E g \in 1..3 : ~SameValues(m, Mixed["border"][g]) THEN NoValue
  ELSE IF SomeIn(m, BorderTops, ExceptInitial) THEN Merged(m, BorderTops)
  ELSE Found(NotInitial(m, BorderTops), AllImportant(m, BorderAll))
GetInOrder(m, ps, globals) ==
  IF ~AllHere(m, ps) THEN NoValue
  ELSE IF SomeIn(m, ps, globals) THEN Merged(m, ps)
  ELSE Found(NotInitial(m, ps), AllImportant(m, ps))
\* normal is left out; a line height stays with the size.
ShownFonts(m) == SelectSeq(Fonts, LAMBDA p : p \in {"font-size", "font-family"} \/ ValueAt(m, p) # <<"normal">>)
ValuesOf(m, ps) == FlattenSeq([i \in DOMAIN ps |-> ValueAt(m, ps[i])])
GetFont(m) ==
  IF ~AllHere(m, Fonts) THEN NoValue
  ELSE IF SomeIn(m, Fonts, Globals) THEN Merged(m, Fonts)
  ELSE Found(ValuesOf(m, ShownFonts(m)), AllImportant(m, Fonts))
PropertyManagerGet(m, name) ==
  IF Has(m, name) THEN Found(ValueAt(m, name), ImportantAt(m, name))
  ELSE CASE name \in DOMAIN Sides -> GetPaddingLikeProperty(m, Sides[name])
         [] name = "border" -> GetBorder(m)
         [] name \in DOMAIN Mixed -> GetBorderTopRightBottomLeft(m, FlattenSeq(Mixed[name]))
         [] name = "background" -> GetInOrder(m, Backgrounds, ExceptInitial)
         [] name = "background-position" -> GetInOrder(m, Positions, Globals)
         [] name = "flex" -> GetInOrder(m, Flexes, Globals)
         [] name = "font" -> GetFont(m)
         [] OTHER -> NoValue

\* toString: collapse a first match of each group, then write by the names used.
ToStringGroups == <<<<"margin">>, <<"padding">>, <<"border">>, <<"border-width", "border-style", "border-color", "border-image">>,
                    <<"border-radius">>, <<"background">>, <<"background-position">>, <<"font">>>>
Collapsed(s, name, got) ==
  IF ~got.found THEN s
  ELSE [rest |-> PropertyManagerRemove(s.rest, name), out |-> PutEntry(s.out, Entry(name, got.value, got.important))]
Collapse(s, name) == Collapsed(s, name, PropertyManagerGet(s.rest, name))
\* border stands for its four parts, and background for its position.
CollapseGroup(s, group) ==
  IF \/ (group[1] = "border-width" /\ Has(s.out, "border"))
     \/ (group[1] = "background-position" /\ Has(s.out, "background")) THEN s
  ELSE FoldLeft(Collapse, s, group)
Remaining(s) == FoldLeft(PutEntry, s.out, s.rest.properties).properties
ByName(m, all) ==
  SelectSeq([i \in DOMAIN m.defined |-> SelectInSeq(all, LAMBDA e : e.name = m.defined[i])], LAMBDA i : i # 0)
InTextOrder(m, all) ==
  [i \in DOMAIN ByName(m, all) |-> all[ByName(m, all)[i]]]
    \o SelectSeq(all, LAMBDA e : \A i \in DOMAIN m.defined : m.defined[i] # e.name)
ToText(m) == InTextOrder(m, Remaining(FoldLeft(CollapseGroup, [rest |-> m, out |-> NoProperties], ToStringGroups)))
\* The constructor over a text; a declaration without a value does not parse.
ParseRule(m, e) ==
  IF e.value # <<>> /\ (e.important \/ ~PropertyManagerGet(m, e.name).important)
    THEN PropertyManagerSet(m, e.name, e.value, e.important) ELSE m
ParseCssText(text) == FoldLeft(ParseRule, NoProperties, text)

-----------------------------------------------------------------------------
(* CSSStyleDeclaration over the style attribute.                             *)

StyleInit == style = [attr |-> <<>>, seen |-> <<>>, manager |-> NoProperties, parsed |-> FALSE, ops |-> 0]
GetPropertyManager(s) == IF s.parsed /\ s.seen = s.attr THEN s.manager ELSE ParseCssText(s.attr)
Store(s, m, text) == [s EXCEPT !.attr = text, !.seen = text, !.manager = m, !.parsed = TRUE, !.ops = @ + 1]
WriteBack(s, m) == Store(s, m, ToText(m))
SetProperty(m, w, important) == PropertyManagerSet(m, w[1], w[2], important)
RemoveProperty(m, w) == PropertyManagerRemove(m, w[1])
SetCssText(w, important) == ParseCssText(<<Entry(w[1], w[2], important)>>)
SetStyleAttribute(text) == style' = [style EXCEPT !.attr = text, !.ops = @ + 1]
Edited(m, w, important) == {SetProperty(m, w, important), RemoveProperty(m, w), SetCssText(w, important)}
StyleMoves ==
  /\ style.ops < MaxStyleOps
  /\ \E w \in WrittenPairs, important \in BOOLEAN :
       \/ \E m \in Edited(GetPropertyManager(style), w, important) : style' = WriteBack(style, m)
       \/ SetStyleAttribute(<<Entry(w[1], w[2], important)>>)

\* What the serialization cannot express: a shorthand that holds a variable, and a
\* group all of whose members are initial.
Shorthands == DOMAIN Sides \cup DOMAIN Mixed \cup {"background", "background-position", "font", "flex"}
Expressible(m) ==
  /\ \A i \in DOMAIN m.properties : m.properties[i].name \notin Shorthands /\ m.properties[i].value # <<"var()">>
  /\ \A name \in Shorthands : PropertyManagerGet(m, name).found => PropertyManagerGet(m, name).value # <<>>
PropertyNames(m) == {m.properties[i].name : i \in DOMAIN m.properties}
\* The attribute says what the declaration holds, but for the importance that some
\* of a group have: it is written once for the group, and only when all have it.
Together(text, p) == {p} \cup UNION {g \in {ToSet(LonghandsOf(text[i].name)) : i \in DOMAIN text} : p \in g}
SaysWhatItHolds(text, read, m) ==
  /\ PropertyNames(read) = PropertyNames(m)
  /\ \A p \in PropertyNames(m) :
       /\ ValueAt(read, p) = ValueAt(m, p)
       /\ ImportantAt(read, p) <=> \A q \in Together(text, p) \cap PropertyNames(m) : ImportantAt(m, q)
StyleRoundTrip ==
  \A m \in {GetPropertyManager(style)} : Expressible(m) =>
    \A text \in {ToText(m)} : \A read \in {ParseCssText(text)} : SaysWhatItHolds(text, read, m)

\* Removing a property leaves nothing it could be read from.
RemovedIsGone ==
  \A m \in {GetPropertyManager(style)}, name \in {w[1] : w \in WrittenPairs} :
    ~PropertyManagerGet(PropertyManagerRemove(m, name), name).found
=============================================================================
