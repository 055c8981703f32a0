------------------------------ MODULE MCFacade ------------------------------
(* The facade's objects, each in a world of its own: a behaviour stays in the *)
(* world it starts in, and the variables of the other worlds are idle.        *)
EXTENDS SvgLists, Reflections, CssProperties

CONSTANTS MaxAccesses, Amounts, MaxWrites, MaxBraces, MaxCascadeOps, MaxMatrixOps,
          TheRoot, TheShadowRoot, Callbacks, Handlers, ListenerOptions, Dispatched, Composed, MaxEventOps, MaxDepth,
          MaxMinted, MaxKids, LabelOrder, ControlOrder, MaxLabelWrites, RadioOrder, OptionOrder, MaxFormOps,
          MaxGeometryOps, MaxMessages, MaxReads, MaxHeaderOps, MaxSignals, MaxSources, MaxSignalOps,
          SharedCountKeys, LastEpoch, MaxCacheOps, MaxCacheWrites, MaxTokenOps, MaxRowOps,
          Starts, TextNodes, SnapshotLimit, ChunkSize, MaxEpoch, MaxNavOps, MaxTreeWrites, TokenBatchSize, MaxCreated

VARIABLES element, length, angle, ratio, rect, transform, writes, css, sheet, doc, matrix, events, payload,
          family, labelling, form, choice, validation, geometry, body, headers, signals, cached, named, row, nav, pool, world

Elements == INSTANCE SvgElements
Units == INSTANCE SvgValues
Sheets == INSTANCE CssSheets
Matrices == INSTANCE DomGeometry
Dispatch == INSTANCE Events
Nodes == INSTANCE ChildNodes
Names == INSTANCE Labels
Forms == INSTANCE FormControls
Bodies == INSTANCE FetchBodies
HeaderLists == INSTANCE FetchHeaders
Aborts == INSTANCE AbortSignals
Caches == INSTANCE NodeCaches
Attrs == INSTANCE AttributeNodes
Rows == INSTANCE ChildNodeLists
Walks == INSTANCE Navigation

MCAmounts == {-1, 0, 2}
MCWritten ==
  {<<"margin", <<"1px">>>>, <<"margin", <<"1px", "auto", "0">>>>, <<"margin-left", <<"auto">>>>, <<"margin", <<"var()">>>>,
   <<"border", <<"1px", "solid", "red">>>>, <<"border", <<"solid">>>>, <<"border-width", <<"thin", "1px">>>>,
   <<"border-top-width", <<"1px">>>>, <<"border-top", <<"inherit">>>>, <<"outline", <<"red", "1px">>>>, <<"flex", <<"2">>>>,
   <<"flex", <<"none">>>>, <<"background", <<"red", "left", "1px">>>>, <<"background-position", <<"top">>>>,
   <<"font", <<"bold", "1px", "serif">>>>, <<"font-size", <<"50%">>>>, <<"padding", <<"red">>>>, <<"color", <<"blue">>>>}
MCListenerOptions ==
  {[capture |-> FALSE, once |-> FALSE, passive |-> FALSE], [capture |-> FALSE, once |-> TRUE, passive |-> FALSE],
   [capture |-> TRUE, once |-> FALSE, passive |-> TRUE]}
MCLabelOrder == <<"label1", "label2">>
MCControlOrder == <<"control1", "control2">>
MCRadioOrder == <<"radio1", "radio2">>
MCOptionOrder == <<"option1", "option2", "option3">>
\* Four nodes in a row under the root, and three in two levels; the last epoch
\* before a live one would repeat.
MCRowOfFour == <<<<2, 3, 4, 5>>, <<>>, <<>>, <<>>, <<>>>>
MCTwoLevels == <<<<2, 4>>, <<3>>, <<>>, <<>>>>
MCStarts == {[kids |-> MCRowOfFour, binding |-> "chunks", epoch |-> 0]}
            \cup {[kids |-> MCTwoLevels, binding |-> binding, epoch |-> 0] : binding \in {"chunks", "complete", "pairs", "plain"}}
            \cup {[kids |-> MCTwoLevels, binding |-> "chunks", epoch |-> MaxEpoch]}

-----------------------------------------------------------------------------
svgVars == <<svg, strings, element>>
unitVars == <<length, angle, ratio, rect, transform, writes>>
cssVars == <<style, css, sheet, doc>>
objectVars == <<matrix, geometry, events, payload>>
nodeVars == <<reflected, disclosure, family, labelling>>
formVars == <<form, choice, validation>>
otherVars == <<svgVars, unitVars, cssVars, objectVars, nodeVars, formVars>>
fetchVars == <<body, headers, signals>>
readVars == <<cached, named, row, nav, pool>>
vars == <<otherVars, fetchVars, readVars, world>>

Idle == "idle"
Init ==
  /\ world \in {"lists", "strings", "elements", "lengths", "ratios", "transforms", "style", "rules", "sheets", "cascade",
                "matrix", "events", "payload", "attributes", "disclosure", "nodes", "labels", "form", "select", "validity",
                "geometry", "bodies", "headers", "signals", "caches", "named", "row", "walks", "tokens"}
  /\ IF world = "lists" THEN SvgListInit ELSE svg = Idle
  /\ IF world = "strings" THEN strings = NoStrings ELSE strings = Idle
  /\ IF world = "elements" THEN Elements!SvgElementInit ELSE element = Idle
  /\ IF world \in {"lengths", "ratios", "transforms"} THEN Units!SvgValueInit
     ELSE length = Idle /\ angle = Idle /\ ratio = Idle /\ rect = Idle /\ transform = Idle /\ writes = Idle
  /\ IF world = "style" THEN StyleInit ELSE style = Idle
  /\ IF world = "rules" THEN Sheets!CssInit ELSE css = Idle
  /\ IF world = "sheets" THEN Sheets!SheetInit ELSE sheet = Idle
  /\ IF world = "cascade" THEN Sheets!DocInit ELSE doc = Idle
  /\ IF world = "matrix" THEN Matrices!DomMatrixInit ELSE matrix = Idle
  /\ IF world = "events" THEN Dispatch!EventsInit ELSE events = Idle
  /\ IF world = "payload" THEN Dispatch!PayloadInit ELSE payload = Idle
  /\ IF world = "attributes" THEN ReflectedInit ELSE reflected = Idle
  /\ IF world = "disclosure" THEN DisclosureInit ELSE disclosure = Idle
  /\ IF world = "nodes" THEN Nodes!FamilyInit ELSE family = Idle
  /\ IF world = "labels" THEN Names!LabellingInit ELSE labelling = Idle
  /\ IF world = "form" THEN Forms!FormInit ELSE form = Idle
  /\ IF world = "select" THEN Forms!ChoiceInit ELSE choice = Idle
  /\ IF world = "validity" THEN Forms!ValidationInit ELSE validation = Idle
  /\ IF world = "geometry" THEN Matrices!GeometryInit ELSE geometry = Idle
  /\ IF world = "bodies" THEN Bodies!FetchBodiesInit ELSE body = Idle
  /\ IF world = "headers" THEN HeaderLists!HeadersInit ELSE headers = Idle
  /\ IF world = "signals" THEN Aborts!SignalsInit ELSE signals = Idle
  /\ IF world = "caches" THEN Caches!CachesInit ELSE cached = Idle
  /\ IF world = "named" THEN Attrs!NamedInit ELSE named = Idle
  /\ IF world = "row" THEN Rows!RowInit ELSE row = Idle
  /\ IF world = "walks" THEN Walks!NavInit ELSE nav = Idle
  /\ IF world = "tokens" THEN Walks!PoolInit ELSE pool = Idle

Next ==
  /\ UNCHANGED world
  /\ \/ world = "lists" /\ SvgListNext /\ UNCHANGED <<strings, element, unitVars, cssVars, objectVars, nodeVars, formVars, fetchVars, readVars>>
     \/ world = "strings" /\ StringListNext /\ UNCHANGED <<svg, element, unitVars, cssVars, objectVars, nodeVars, formVars, fetchVars, readVars>>
     \/ world = "elements" /\ Elements!SvgElementMoves /\ UNCHANGED <<svg, strings, unitVars, cssVars, objectVars, nodeVars, formVars, fetchVars, readVars>>
     \/ world = "lengths" /\ (Units!LengthMoves \/ Units!AngleMoves) /\ UNCHANGED <<svgVars, cssVars, objectVars, nodeVars, formVars, fetchVars, readVars>>
     \/ world = "ratios" /\ (Units!RatioMoves \/ Units!RectMoves) /\ UNCHANGED <<svgVars, cssVars, objectVars, nodeVars, formVars, fetchVars, readVars>>
     \/ world = "transforms" /\ Units!TransformMoves /\ UNCHANGED <<svgVars, cssVars, objectVars, nodeVars, formVars, fetchVars, readVars>>
     \/ world = "style" /\ StyleMoves /\ UNCHANGED <<css, sheet, doc, svgVars, unitVars, objectVars, nodeVars, formVars, fetchVars, readVars>>
     \/ world = "rules" /\ Sheets!CssMoves /\ UNCHANGED <<style, sheet, doc, svgVars, unitVars, objectVars, nodeVars, formVars, fetchVars, readVars>>
     \/ world = "sheets" /\ Sheets!SheetMoves /\ UNCHANGED <<style, css, doc, svgVars, unitVars, objectVars, nodeVars, formVars, fetchVars, readVars>>
     \/ world = "cascade" /\ Sheets!DocMoves /\ UNCHANGED <<style, css, sheet, svgVars, unitVars, objectVars, nodeVars, formVars, fetchVars, readVars>>
     \/ world = "matrix" /\ Matrices!DomMatrixMoves /\ UNCHANGED <<geometry, events, payload, svgVars, unitVars, cssVars, nodeVars, formVars, fetchVars, readVars>>
     \/ world = "events" /\ Dispatch!EventsMoves /\ UNCHANGED <<matrix, geometry, payload, svgVars, unitVars, cssVars, nodeVars, formVars, fetchVars, readVars>>
     \/ world = "payload" /\ Dispatch!PayloadMoves /\ UNCHANGED <<matrix, geometry, events, svgVars, unitVars, cssVars, nodeVars, formVars, fetchVars, readVars>>
     \/ world = "attributes" /\ ReflectedMoves /\ UNCHANGED <<disclosure, family, labelling, svgVars, unitVars, cssVars, objectVars, formVars, fetchVars, readVars>>
     \/ world = "disclosure" /\ DisclosureMoves /\ UNCHANGED <<reflected, family, labelling, svgVars, unitVars, cssVars, objectVars, formVars, fetchVars, readVars>>
     \/ world = "nodes" /\ Nodes!FamilyMoves /\ UNCHANGED <<reflected, disclosure, labelling, svgVars, unitVars, cssVars, objectVars, formVars, fetchVars, readVars>>
     \/ world = "labels" /\ Names!LabelsMove /\ UNCHANGED <<reflected, disclosure, family, svgVars, unitVars, cssVars, objectVars, formVars, fetchVars, readVars>>
     \/ world = "form" /\ Forms!FormMoves /\ UNCHANGED <<choice, validation, svgVars, unitVars, cssVars, objectVars, nodeVars, fetchVars, readVars>>
     \/ world = "select" /\ Forms!ChoiceMoves /\ UNCHANGED <<form, validation, svgVars, unitVars, cssVars, objectVars, nodeVars, fetchVars, readVars>>
     \/ world = "validity" /\ Forms!ValidationMoves /\ UNCHANGED <<form, choice, svgVars, unitVars, cssVars, objectVars, nodeVars, fetchVars, readVars>>
     \/ world = "geometry" /\ Matrices!GeometryMoves /\ UNCHANGED <<matrix, events, payload, svgVars, unitVars, cssVars, nodeVars, formVars, fetchVars, readVars>>
     \/ world = "bodies" /\ Bodies!BodyMoves /\ UNCHANGED <<headers, signals, otherVars, readVars>>
     \/ world = "headers" /\ HeaderLists!HeaderMoves /\ UNCHANGED <<body, signals, otherVars, readVars>>
     \/ world = "signals" /\ Aborts!SignalMoves /\ UNCHANGED <<body, headers, otherVars, readVars>>
     \/ world = "caches" /\ Caches!CacheMoves /\ UNCHANGED <<named, row, nav, pool, otherVars, fetchVars>>
     \/ world = "named" /\ Attrs!NamedMoves /\ UNCHANGED <<cached, row, nav, pool, otherVars, fetchVars>>
     \/ world = "row" /\ Rows!RowMoves /\ UNCHANGED <<cached, named, nav, pool, otherVars, fetchVars>>
     \/ world = "walks" /\ Walks!NavMoves /\ UNCHANGED <<cached, named, row, pool, otherVars, fetchVars>>
     \/ world = "tokens" /\ Walks!PoolMoves /\ UNCHANGED <<cached, named, row, nav, otherVars, fetchVars>>

Spec == Init /\ [][Next]_vars

-----------------------------------------------------------------------------
(* The properties of each module, in the worlds that run it *)

(* SVG: a list and a matrix say what their attribute says, or what they last   *)
(* wrote there themselves without recording it; a list's items are bound to    *)
(* it, a property's object is its element's, and units and matrices keep what  *)
(* they are worth (svg.js).                                                    *)
SvgSound ==
  /\ world = "lists" => SvgListsAgree
  /\ world = "strings" => StringListAgrees
  /\ world = "elements" => Elements!MemoOwn /\ Elements!EnumReadsBack
  /\ world \in {"lengths", "ratios", "transforms"} => 
       Units!UnitsKept /\ Units!OtherSettingKept /\ Units!MatrixAlgebra /\ Units!MatrixReads

(* CSS: what a declaration reads is what was written, what is removed is       *)
(* gone, rules nest as their braces do, and a computed style is never older    *)
(* than the document (cssom.js).                                               *)
StylesSound ==
  /\ world = "style" => StyleRoundTrip /\ RemovedIsGone
  /\ world = "rules" => Sheets!RulesNested
  /\ world = "sheets" => Sheets!MediumsDistinct /\ Sheets!RangesAgree
  /\ world = "cascade" => Sheets!ComputedFresh

(* Matrices: a call composes with what the matrix was, its text and its        *)
(* inverse bring it back, a point reads a plain object as a matrix does where  *)
(* both look at the same names, and a rectangle lies between its edges         *)
(* (dom-matrix.js, dom-geometry.js).                                           *)
MatrixSound ==
  /\ world = "matrix" => Matrices!PointsCompose /\ Matrices!CentreKept /\ Matrices!InverseUndoes /\ Matrices!TextRoundTrip
  /\ world = "geometry" => Matrices!TransformsAgree /\ Matrices!EdgesEnclose

(* Events: a listener that can still be called has its callback; one that      *)
(* cannot has not, but until its own document has dispatched if another did    *)
(* when it went; an event is in one dispatch; and a signal any() made follows  *)
(* its sources and leaves them, a source named twice with one handler still on *)
(* it (events.js, events_api.rs, fetch.js).                                    *)
ListenersSound ==
  /\ world = "events" => /\ Dispatch!CallbacksReachable /\ Dispatch!CallbacksReleased /\ Dispatch!NoTwins
                         /\ Dispatch!HandlerInSlot /\ Dispatch!EventInOneDispatch
  /\ world = "payload" => Dispatch!CopiesReadAlike
  /\ world = "signals" => Aborts!AnyFollows /\ Aborts!SourcesReleased

(* Nodes: a property assigned what it reads still reads it, insertions put     *)
(* their arguments where they say and keep the order of what they do not move, *)
(* labels are those of the tree as it is, and no memo, count or token answers  *)
(* for what Core no longer holds                                               *)
(* (hdunit-nodes.js, node.js, attribute-cache.js, live-collections.js,         *)
(* attribute-nodes.js, child-nodelist.js).                                     *)
NodesSound ==
  /\ world = "attributes" => SelfAssignKeeps /\ ReadsInRange /\ PartsKeepLink
  /\ world = "disclosure" => FlipsAnnounced
  /\ world = "nodes" => /\ Nodes!BystandersKeepOrder /\ Nodes!ArgumentsInPlace /\ Nodes!NormalizeKeepsText
                        /\ Nodes!SplitKeepsWhole /\ Nodes!ElementReadsAgree /\ Nodes!RowsAtIndex
  /\ world = "labels" => Names!LabelsFresh
  /\ world = "caches" => Caches!KeptReadsExact /\ Caches!SharedBounded
  /\ world = "named" => Attrs!OneAttrPerName /\ Attrs!TokensAsCalled
  /\ world = "row" => Rows!IterationWhole
  /\ world = "walks" => Walks!MemosExact /\ Walks!StaleAsked
  /\ world = "tokens" => Walks!TokensOnce

(* Forms: one radio of a group, one option of a single select, a form that is  *)
(* sent is one that says it is valid, and what is sent is read once, whole and *)
(* under the headers it was given (forms.js, form.rs, fetch.js).               *)
FormsSound ==
  /\ world = "form" => Forms!OneRadioChecked /\ Forms!GroupAnswered
  /\ world = "select" => Forms!OneSelected
  /\ world = "validity" => Forms!ValidityAgrees /\ Forms!RangeClamped
  /\ world = "bodies" => Bodies!BodiesDelivered /\ Bodies!ConsumedOnce /\ Bodies!FormsReadable
  /\ world = "headers" => HeaderLists!HeadersReplay

(* "the checkbox/radio toggle before dispatch (restored on `preventDefault`)"  *)
(* (forms.js): cancelling a click that no listener meddled with leaves every   *)
(* control as it was.                                                          *)
CancelledClickRestores == world = "form" => Forms!CancelledClickRestores
=============================================================================
