------------------------------ MODULE CssSheets ------------------------------
(***************************************************************************)
(* Style sheets, media queries and computed styles of                      *)
(* src/js/facade/extensions/cssom.js: the brace parser that builds the     *)
(* rule tree, the rule lists programs edit, MediaQueryItem, and            *)
(* getComputedStyle with its caches over Core's two epochs.                *)
(***************************************************************************)
EXTENDS Naturals, Sequences, SequencesExt, FiniteSetsExt

CONSTANTS
  MaxBraces,    \* braces of a parsed text
  MaxCascadeOps \* changes of a document between reads

-----------------------------------------------------------------------------
(* parseCssRules: one step per brace.                                        *)

VARIABLE css
GroupingRules == {"media", "container", "supports", "scope"}   \* types 4, 0, 12, 0
DeclarationRules == {"style", "keyframe", "font-face", "unknown"}  \* types 1, 8, 5, 1
AtRules == GroupingRules \cup {"keyframes", "font-face", "unknown"}
Selectors == {"selector", ";"}                                  \* one that is valid, and one that is not

\* listed: among the rules of its parent, or of the sheet when it has none.
CssInit == css = [rules |-> <<>>, stack |-> <<>>, parentRule |-> 0, blocks |-> <<>>, braces |-> 0]
KindOf(c, i) == IF i = 0 THEN "sheet" ELSE c.rules[i].kind
Lists(c, i) == KindOf(c, i) \in GroupingRules \cup {"sheet"}
AddRule(c, kind, listed) ==
  [c EXCEPT !.rules = Append(@, [kind |-> kind, parent |-> c.parentRule, listed |-> listed, text |-> 0]),
            !.parentRule = Len(c.rules) + 1, !.blocks = Append(@, Len(c.rules) + 1)]
OpenAtRule(c, kind) == AddRule(c, kind, kind # "unknown" /\ Lists(c, c.parentRule))
\* isValidStyleSelector
OpenSelector(c, selector) ==
  IF KindOf(c, c.parentRule) = "keyframes" THEN AddRule(c, "keyframe", TRUE)
  ELSE IF selector = "selector" THEN AddRule(c, "style", Lists(c, c.parentRule))
  ELSE [c EXCEPT !.blocks = Append(@, 0)]
PushParent(c, new) == IF new.parentRule # 0 THEN [new EXCEPT !.stack = Append(@, new.parentRule)] ELSE new
OpenBrace(c, text) == PushParent(c, IF text \in AtRules THEN OpenAtRule(c, text) ELSE OpenSelector(c, text))
CloseBrace(c) ==
  LET stack == IF c.stack = <<>> THEN <<>> ELSE Front(c.stack)
      written == IF KindOf(c, c.parentRule) \in DeclarationRules
                   THEN [c.rules EXCEPT ![c.parentRule].text = c.braces + 1] ELSE c.rules IN
  [c EXCEPT !.rules = written, !.stack = stack, !.parentRule = IF stack = <<>> THEN 0 ELSE Last(stack),
            !.blocks = IF @ = <<>> THEN @ ELSE Front(@)]
CssMoves ==
  /\ css.braces < MaxBraces
  /\ \/ \E text \in AtRules \cup Selectors : css' = [OpenBrace(css, text) EXCEPT !.braces = @ + 1]
     \/ css' = [CloseBrace(css) EXCEPT !.braces = @ + 1]

\* A rule belongs to the innermost open block that made one: whatever blocks are
\* skipped on the way, a brace closes what it opened, and a rule is listed only
\* where its parent keeps a list.
RulesNested ==
  LET open == SelectSeq(css.blocks, LAMBDA b : b # 0) IN
  /\ css.parentRule = IF open = <<>> THEN 0 ELSE Last(open)
  /\ \A i \in DOMAIN css.rules :
       css.rules[i].listed => Lists(css, css.rules[i].parent) \/ KindOf(css, css.rules[i].parent) = "keyframes"

-----------------------------------------------------------------------------
(* The rule lists of a program: a sheet, a grouping rule, keyframes, media.  *)

VARIABLE sheet
RuleNames == {"a", "b"}
SheetInit == sheet = [text |-> <<>>, lastText |-> <<"none">>, cssRules |-> <<>>, group |-> <<>>, keyframes |-> <<>>, media |-> <<>>]
EnsureParsed(s) == IF s.lastText = s.text THEN s ELSE [s EXCEPT !.lastText = s.text, !.cssRules = s.text]
InsertRule(s, rule, index) ==
  LET parsed == EnsureParsed(s) IN
  [parsed EXCEPT !.cssRules = IF index > Len(@) THEN @ ELSE InsertAt(@, index + 1, rule)]
DeleteRule(s, index) ==
  LET parsed == EnsureParsed(s) IN [parsed EXCEPT !.cssRules = IF index >= Len(@) THEN @ ELSE RemoveAt(@, index + 1)]
ReplaceSync(s, text) == [s EXCEPT !.lastText = text, !.cssRules = text]
GroupInsertRule(s, rule, index) == [s EXCEPT !.group = IF index > Len(@) THEN @ ELSE InsertAt(@, index + 1, rule)]
GroupDeleteRule(s, index) == [s EXCEPT !.group = IF index >= Len(@) THEN @ ELSE RemoveAt(@, index + 1)]
AppendRule(s, key) == [s EXCEPT !.keyframes = Append(@, key)]
KeyframesDeleteRule(s, key) ==
  [s EXCEPT !.keyframes = LET i == SelectInSeq(@, LAMBDA k : k = key) IN IF i = 0 THEN @ ELSE RemoveAt(@, i)]
AppendMedium(s, medium) == [s EXCEPT !.media = IF medium \in ToSet(@) THEN @ ELSE Append(@, medium)]
DeleteMedium(s, medium) ==
  [s EXCEPT !.media = LET i == SelectInSeq(@, LAMBDA m : m = medium) IN IF i = 0 THEN @ ELSE RemoveAt(@, i)]
SheetMoves ==
  /\ \E r \in RuleNames, i \in 0..2 :
       sheet' \in {InsertRule(sheet, r, i), DeleteRule(sheet, i), ReplaceSync(sheet, <<r>>), GroupInsertRule(sheet, r, i),
                   GroupDeleteRule(sheet, i), AppendRule(sheet, r), KeyframesDeleteRule(sheet, r), AppendMedium(sheet, r),
                   DeleteMedium(sheet, r), [sheet EXCEPT !.text = <<r, r>>]}
  /\ Len(sheet'.cssRules) + Len(sheet'.group) + Len(sheet'.keyframes) < 4
\* A medium is listed once, so deleteMedium removes it for good.
MediumsDistinct == IsInjective(sheet.media)

-----------------------------------------------------------------------------
(* MediaQueryItem: media types, features with a value, and ranges.           *)

Device == [mediaType |-> "screen", prefersReducedMotion |-> "no-preference", forcedColors |-> "none", scheme |-> "light", touch |-> 0]
MatchesMediaType(mediaType) == mediaType \in {"all", Device.mediaType}
\* toPixels: a percentage and a unit of no size are null.
ToPixels(value) == IF value.unit = "px" THEN value.n ELSE IF value.unit = "em" THEN value.n * 16 ELSE -1
Compare(a, operator, b) ==
  CASE operator = "<" -> a < b [] operator = "<=" -> a =< b [] operator = ">" -> a > b [] operator = ">=" -> a >= b
MatchesRange(range, size) ==
  /\ range.before # <<>> => ToPixels(range.before[1]) # -1 /\ Compare(ToPixels(range.before[1]), range.before[2], size)
  /\ range.after # <<>> => ToPixels(range.after[1]) # -1 /\ Compare(size, range.after[2], ToPixels(range.after[1]))
MatchesBareRule(name) ==
  CASE name = "prefers-reduced-motion" -> Device.prefersReducedMotion = "reduce"
    [] name = "forced-colors" -> Device.forcedColors = "active"
    [] OTHER -> name \in {"min-width", "max-width", "width", "orientation", "hover", "any-hover", "pointer", "any-pointer",
                          "prefers-color-scheme", "display-mode", "min-aspect-ratio", "max-aspect-ratio", "aspect-ratio"}
MatchesRule(name, value, w, h) ==
  LET px == ToPixels(value) IN
  CASE name = "min-width" -> px # -1 /\ w >= px
    [] name = "max-width" -> px # -1 /\ w =< px
    [] name = "width" -> px # -1 /\ w = px
    [] name = "orientation" -> IF value.n = 1 THEN w > h ELSE w < h     \* 1: landscape
    [] name = "min-aspect-ratio" -> value.n * h =< w                    \* n / 1
    [] name = "max-aspect-ratio" -> value.n * h >= w
    [] name = "aspect-ratio" -> value.n * h = w
    [] name \in {"hover", "any-hover"} -> (value.word = "none") = (Device.touch > 0)   \* none or hover
    [] name \in {"pointer", "any-pointer"} -> value.word # "none" /\ (value.word = "coarse") = (Device.touch > 0)
    [] name = "prefers-color-scheme" -> value.word = Device.scheme
    [] name = "prefers-reduced-motion" -> value.word = Device.prefersReducedMotion
    [] name = "forced-colors" -> value.word = Device.forcedColors
    [] name = "display-mode" -> value.word = "browser"
    [] OTHER -> FALSE
MatchesAll(item, w, h) ==
  /\ item.mediaTypes # {} => \E t \in item.mediaTypes : MatchesMediaType(t)
  /\ \A r \in item.rules : MatchesRule(r[1], r[2], w, h)
  /\ \A r \in item.ranges : MatchesRange(r, w)
Matches(item, w, h) == IF item.not THEN ~MatchesAll(item, w, h) ELSE MatchesAll(item, w, h)
\* matches of a list: every item, not one of them.
MatchesQuery(items, w, h) == \A i \in DOMAIN items : Matches(items[i], w, h)
Px(n) == [n |-> n, unit |-> "px"]
Range_(before, after) == [before |-> before, after |-> after]
Item(not, rules) == [not |-> not, mediaTypes |-> {"screen"}, rules |-> rules, ranges |-> {}]
\* The two notations of a bound agree: min-width and >=, max-width and <=, on
\* either side of the name; both refuse a value that has no size.  Two bounds on
\* the aspect ratio meet in the ratio itself, and not turns exactly that around.
RangesAgree ==
  \A w \in 0..4, n \in 0..4, unit \in {"px", "%"} :
    LET v == [n |-> n, unit |-> unit] IN
    /\ MatchesRule("min-width", v, w, 1) = MatchesRange(Range_(<<>>, <<v, ">=">>), w)
    /\ MatchesRule("max-width", v, w, 1) = MatchesRange(Range_(<<v, ">=">>, <<>>), w)
    /\ MatchesRange(Range_(<<v, "<">>, <<v, ">">>), w) = MatchesRange(Range_(<<>>, <<v, ">">>), w)
    /\ \A h \in 1..4, not \in BOOLEAN :
         MatchesQuery(<<Item(not, {<<"min-aspect-ratio", v>>, <<"max-aspect-ratio", v>>})>>, w, h)
           = (MatchesRule("aspect-ratio", v, w, h) # not)

-----------------------------------------------------------------------------
(* getComputedStyle of an element under a parent under html: the declarations *)
(* of each origin, in order, and the caches over the structure and the       *)
(* attribute epoch.  A value is a pair <<value, important>>, 0 for none.      *)

VARIABLE doc
ComputedProperties == {"color", "width"}
INHERITED_PROPERTIES == {"color"}
NoDeclaration == <<0, FALSE>>
NoManager == [p \in ComputedProperties |-> NoDeclaration]
Declarations == {[NoManager EXCEPT ![p] = d] : p \in ComputedProperties, d \in {<<1, TRUE>>, <<2, FALSE>>}} \cup {NoManager}
\* sheets: the style elements in the document; text: the rule all of them hold,
\* matched by the element of the number it names.
DocInit ==
  doc = [inline |-> [e \in 1..2 |-> NoManager], sheets |-> 0, text |-> [matches |-> 2, declares |-> NoManager],
         connected |-> TRUE, structureEpoch |-> 0, attributeEpoch |-> 0,
         cache |-> [structureEpoch |-> 99, attributeEpoch |-> 99, manager |-> NoManager],
         handles |-> [structureEpoch |-> 99, count |-> 0], ops |-> 0]
ApplyDeclaration(target, e, m, d) ==
  [p \in ComputedProperties |->
     IF d[p] # NoDeclaration /\ (p \in INHERITED_PROPERTIES \/ e = target) /\ (~m[p][2] \/ d[p][2]) THEN d[p] ELSE m[p]]
CollectSheetDeclarations(d, count, e) == IF count > 0 /\ d.text.matches = e THEN d.text.declares ELSE NoManager
Cascade(d, count) ==
  LET origin(m, e) ==
        ApplyDeclaration(2, e, ApplyDeclaration(2, e, m, CollectSheetDeclarations(d, count, e)), d.inline[e]) IN
  IF d.connected THEN origin(origin(NoManager, 1), 2) ELSE NoManager
\* computedSheetHandles
SheetHandles(d) == IF d.handles.structureEpoch = d.structureEpoch THEN d.handles.count ELSE d.sheets
CacheHits(d) == d.cache.structureEpoch = d.structureEpoch /\ d.cache.attributeEpoch = d.attributeEpoch
Computed(d) == IF CacheHits(d) THEN d.cache.manager ELSE Cascade(d, SheetHandles(d))
Cached(d) ==
  [d EXCEPT !.handles = [structureEpoch |-> d.structureEpoch, count |-> SheetHandles(d)],
            !.cache = [structureEpoch |-> d.structureEpoch, attributeEpoch |-> d.attributeEpoch, manager |-> Computed(d)]]
ReadComputed(d) ==
  IF CacheHits(d) \/ ~d.connected THEN d
  ELSE IF SheetHandles(d) = 0 THEN Cached(d)
  ELSE [d EXCEPT !.handles = [structureEpoch |-> d.structureEpoch, count |-> SheetHandles(d)]]
\* What a program does between reads; an edit of a sheet's text or of its rules
\* moves no epoch.
DocMoves ==
  \/ doc' = ReadComputed(doc)
  \/ /\ doc.ops < MaxCascadeOps
     /\ \/ \E e \in 1..2, d \in Declarations : doc' = [doc EXCEPT !.inline[e] = d, !.attributeEpoch = @ + 1, !.ops = @ + 1]
        \/ \E n \in 0..1 : doc' = [doc EXCEPT !.sheets = n, !.structureEpoch = @ + 1, !.ops = @ + 1]
        \/ \E e \in 1..2, d \in Declarations : doc' = [doc EXCEPT !.text = [matches |-> e, declares |-> d], !.ops = @ + 1]
        \/ doc' = [doc EXCEPT !.connected = ~@, !.structureEpoch = @ + 1, !.ops = @ + 1]

\* What a read returns is the cascade of the document as it is, whatever was
\* cached before which change.
ComputedFresh == Computed(doc) = Cascade(doc, doc.sheets)
=============================================================================
