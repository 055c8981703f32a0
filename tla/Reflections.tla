----------------------------- MODULE Reflections -----------------------------
(***************************************************************************)
(* The element properties that reflect an attribute: the installers of     *)
(* src/js/facade/extensions/hdunit-nodes.js, class by class, with the few  *)
(* that keep a slot of their own, and the disclosure state of details and  *)
(* dialog.                                                                 *)
(*                                                                         *)
(* An attribute's text, and a value given to a setter, is one of Texts; a  *)
(* getter's answer is written as the text it would be assigned as.         *)
(***************************************************************************)
EXTENDS Integers, Sequences, FiniteSets, TLC

CONSTANT MaxToggles   \* bound on the calls on one details or dialog element

VARIABLES reflected,  \* the property looked at, its attribute and its slot
          disclosure  \* an element that opens and closes

-----------------------------------------------------------------------------
(* Texts, numbers and URLs.  Numbers are counted in tenths. *)

Absent == "no attribute"
Refused == "throws"
NaN == 9999
Infinite == 9998
Numbers == ("-2" :> -20) @@ ("-1" :> -10) @@ ("0" :> 0) @@ ("0.5" :> 5) @@ ("1" :> 10) @@ ("2" :> 20) @@ ("20" :> 200) @@ ("Infinity" :> Infinite)
Paths == {"", "word"}
Hashes == {"", "#top"}
Opaque == "blank"   \* the path of about:blank
Urls == [path : Paths \cup {Opaque}, hash : Hashes]
Href(url) == (IF url.path = Opaque THEN "about:" ELSE "http://h/") \o url.path \o url.hash
Absolute == {Href(u) : u \in Urls}
Keywords ==
  {"hide", "show", "toggle", "metadata", "subtitles", "high", "auto", "origin", "text", "radio", "submit", "reset", "get"}
Links == Paths \cup Hashes \cup Absolute
Words == DOMAIN Numbers \cup Keywords \cup {"", "word", "true"}
Texts == Links \cup Words
Stored == Texts \cup {Absent}
Locations == {"about:blank", "http://h/"}

NumberOf(t) == IF t \in DOMAIN Numbers THEN Numbers[t] ELSE IF t \in {"", Absent} THEN 0 ELSE NaN
ParsedInt(t) == IF t = "0.5" THEN 0 ELSE IF t \in DOMAIN Numbers \ {"Infinity"} THEN Numbers[t] ELSE NaN
TextOf(n) == CHOOSE t \in DOMAIN Numbers : Numbers[t] = n
Given(t, default) == IF t = Absent THEN default ELSE t

\* new URL(text, location): under about:blank a relative text has no meaning,
\* but a hash is one of about:blank.
Resolves(location, t) == t \in Absolute \/ location # "about:blank" \/ t \in Hashes \ {""}
UrlOf(location, t) ==
  IF t \in Absolute THEN CHOOSE u \in Urls : Href(u) = t
  ELSE IF t \notin Hashes THEN [path |-> t, hash |-> ""]
  ELSE [path |-> IF location = "about:blank" THEN Opaque ELSE "", hash |-> t]
Resolved(location, t) == IF t \in Links THEN Href(UrlOf(location, t)) ELSE "http://h/" \o t

\* absoluteURL
AbsoluteURL(location, t) == IF t = "" \/ ~Resolves(location, t) THEN t ELSE Resolved(location, t)

-----------------------------------------------------------------------------
(* Kinds of property: what the getter makes of the attribute, what the     *)
(* setter makes of the value.                                              *)

Kind(Read(_, _), Write(_)) ==
  [read |-> [l \in Locations |-> [t \in Stored |-> Read(l, t)]], write |-> [v \in Texts |-> Write(v)]]
Same(v) == v
Clamped(n, low, default) == IF n = NaN \/ n < low THEN default ELSE n
Number(Read(_), Write(_)) == Kind(LAMBDA l, t : TextOf(Read(t)), LAMBDA v : TextOf(Write(v)))

StringReflect == Kind(LAMBDA l, t : Given(t, ""), Same)
BoolReflect == Kind(LAMBDA l, t : IF t = Absent THEN "" ELSE "true", LAMBDA v : IF v = "" THEN Absent ELSE "")
LongReflect(default) ==
  Number(LAMBDA t : IF t = Absent \/ NumberOf(t) = NaN THEN default ELSE NumberOf(t),
         LAMBDA v : IF NumberOf(v) = NaN THEN 0 ELSE NumberOf(v))
TabIndex == LongReflect(0)
ColumnSpan ==
  Number(LAMBDA t : IF t = Absent \/ NumberOf(t) = NaN THEN 10 ELSE NumberOf(t),
         LAMBDA v : IF NumberOf(v) = NaN THEN 10 ELSE NumberOf(v))

CellSpan == Number(LAMBDA t : Clamped(NumberOf(t), 10, 10), LAMBDA v : Clamped(NumberOf(v), 10, 10))
UnsignedLong == Number(LAMBDA t : Clamped(NumberOf(t), 0, 0), LAMBDA v : Clamped(NumberOf(v), 0, 0))
ImageSize == Kind(LAMBDA l, t : TextOf(Clamped(ParsedInt(t), 0, 0)), Same)
InputSize == Kind(LAMBDA l, t : IF ParsedInt(t) = NaN THEN "20" ELSE TextOf(ParsedInt(t)), Same)
FiniteOnly(v, Write(_)) == IF NumberOf(v) \in {NaN, Infinite} THEN Refused ELSE Write(NumberOf(v))
Progress(default) ==
  Kind(LAMBDA l, t : IF t = Absent THEN TextOf(default) ELSE TextOf(Clamped(NumberOf(t), 0, default)),
       LAMBDA v : FiniteOnly(v, LAMBDA n : TextOf(Clamped(n, 0, default))))
Meter(default) ==
  Kind(LAMBDA l, t : CASE t = Absent \/ NumberOf(t) = NaN -> TextOf(default)
                       [] NumberOf(t) # NaN /\ t # Absent /\ NumberOf(t) < 0 -> "0"
                       [] NumberOf(t) # NaN /\ t # Absent /\ NumberOf(t) > 10 -> "1"
                       [] OTHER -> TextOf(NumberOf(t)),
       LAMBDA v : FiniteOnly(v, TextOf))
UrlReflect == Kind(LAMBDA l, t : IF t = Absent THEN "" ELSE IF Resolves(l, t) THEN Resolved(l, t) ELSE t, Same)
UrlKeepingEmpty == Kind(LAMBDA l, t : IF t = Absent THEN "" ELSE AbsoluteURL(l, t), Same)
BaseHref == Kind(LAMBDA l, t : IF t = Absent THEN l ELSE AbsoluteURL(l, t), Same)
FormAction == Kind(LAMBDA l, t : IF t = Absent THEN l ELSE IF Resolves(l, t) THEN Resolved(l, t) ELSE "", Same)
KeywordOr(keywords, default) == Kind(LAMBDA l, t : IF t \in keywords THEN t ELSE default, Same)
TrackKind ==
  Kind(LAMBDA l, t : IF t = Absent THEN "subtitles" ELSE IF t \in {"metadata", "subtitles"} THEN t ELSE "metadata",
       LAMBDA v : IF v \in {"metadata", "subtitles"} THEN v ELSE "metadata")
InputType == KeywordOr({"text", "radio", "submit", "reset"}, "text")
ButtonType == KeywordOr({"submit", "reset"}, "submit")
FormMethod == Kind(LAMBDA l, t : IF t \in {"", Absent} THEN "get" ELSE t, Same)
LengthLimit ==
  Kind(LAMBDA l, t : IF t = Absent THEN "-1" ELSE IF ParsedInt(t) = NaN THEN "word" ELSE TextOf(ParsedInt(t)),
       LAMBDA v : IF NumberOf(v) = NaN \/ v = "" \/ NumberOf(v) < 0 THEN Absent ELSE IF v = "0.5" THEN "0" ELSE v)
PopoverTargetAction == KeywordOr({"hide", "show", "toggle"}, "toggle")
FetchPriority == KeywordOr({"high"}, "auto")
ReferrerPolicy == KeywordOr({"origin"}, "")

\* A reference to an element: anything but one ("word") or null ("") throws.
ElementSlot == Kind(LAMBDA l, t : Given(t, ""), LAMBDA v : IF v \in {"", "word"} THEN v ELSE Refused)

\* A hyperlink part: the getter takes it out of the resolved href, the setter
\* writes the href with the part replaced.
HyperlinkURL(location, t) == IF Resolves(location, Given(t, "")) /\ t # Absent THEN {UrlOf(location, t)} ELSE {}
PartGet(location, part, t) ==
  IF part = "hash" /\ t = "#top" THEN t
  ELSE IF HyperlinkURL(location, t) = {} THEN "" ELSE (CHOOSE u \in HyperlinkURL(location, t) : TRUE)[part]
PartSet(location, part, t, v) ==
  IF HyperlinkURL(location, t) = {} THEN t
  ELSE LET url == CHOOSE u \in HyperlinkURL(location, t) : TRUE
       IN Href(IF part = "path" /\ url.path = Opaque THEN url ELSE [url EXCEPT ![part] = v])

Kinds ==
  [string |-> StringReflect, bool |-> BoolReflect, long0 |-> LongReflect(0), long1 |-> LongReflect(10), tabIndex |-> TabIndex,
   columnSpan |-> ColumnSpan, cellSpan |-> CellSpan, unsigned |-> UnsignedLong, image |-> ImageSize, inputSize |-> InputSize,
   progressMax |-> Progress(10), progressValue |-> Progress(0), meter0 |-> Meter(0), meter1 |-> Meter(10), meterHalf |-> Meter(5),
   url |-> UrlReflect, urlOrEmpty |-> UrlKeepingEmpty, baseHref |-> BaseHref, formAction |-> FormAction,
   popover |-> PopoverTargetAction, trackKind |-> TrackKind, fetchPriority |-> FetchPriority, referrerPolicy |-> ReferrerPolicy,
   inputType |-> InputType, buttonType |-> ButtonType, method |-> FormMethod, lengthLimit |-> LengthLimit,
   slot |-> StringReflect, elementSlot |-> ElementSlot]

-----------------------------------------------------------------------------
(* The classes: each property with its kind *)

Of(kind, properties) == [p \in properties |-> kind]

HTMLLabelElement == Of("string", {"htmlFor"})
HTMLBaseElement == Of("baseHref", {"href"}) @@ Of("string", {"target"})
HTMLAnchorElement == Of("string", {"download", "hreflang", "ping", "target", "referrerPolicy", "rel", "type"})
HTMLAreaElement == Of("string", {"download", "ping", "target", "referrerPolicy", "rel", "alt", "coords", "shape", "relList"})
HyperlinkHref == Of("url", {"href", "toString"})
HyperlinkTabIndex == Of("tabIndex", {"tabIndex"})
HTMLLinkElement == Of("string", {"as", "crossOrigin", "hreflang", "media", "referrerPolicy", "rel", "type"}) @@ Of("url", {"href"})
FormActionElement ==
  Of("formAction", {"formAction"}) @@ Of("string", {"formEnctype", "formMethod", "formTarget"}) @@ Of("popover", {"popoverTargetAction"})
PopoverTarget == Of("elementSlot", {"popoverTargetElement"})
HTMLInputSlots == Of("slot", {"height", "width", "indeterminate"})
HTMLInputElement ==
  Of("inputSize", {"size"}) @@ Of("bool", {"autofocus"})
  @@ Of("string", {"alt", "accept", "allowdirs", "autocomplete", "placeholder", "inputMode", "src"})
HTMLTextAreaElement ==
  Of("string", {"autocomplete", "cols", "rows", "placeholder", "inputMode"}) @@ Of("bool", {"autofocus"}) @@ Of("tabIndex", {"tabIndex"})
HTMLSelectElement == Of("bool", {"autofocus"}) @@ Of("tabIndex", {"tabIndex"})
ControlTabIndex == Of("tabIndex", {"input", "button"})
HTMLIFrameElement ==
  Of("string", {"allow", "height", "width", "name", "referrerPolicy", "srcdoc", "sandbox"}) @@ Of("url", {"src"}) @@ Of("tabIndex", {"tabIndex"})
HTMLObjectElement == Of("url", {"data"}) @@ Of("string", {"name", "height", "width", "type"}) @@ Of("tabIndex", {"tabIndex"})
HTMLOutputElement == Of("slot", {"defaultValue"}) @@ Of("string", {"htmlFor", "name"})
HTMLTableCellElement == Of("string", {"abbr", "headers", "scope"}) @@ Of("cellSpan", {"colSpan", "rowSpan"})
HTMLTrackElement == Of("trackKind", {"kind"}) @@ Of("url", {"src"}) @@ Of("string", {"srclang", "label"}) @@ Of("bool", {"default"})
HTMLScriptElement ==
  Of("string", {"type", "charset", "lang", "integrity", "crossOrigin", "blocking"}) @@ Of("bool", {"async", "defer", "noModule"})
  @@ Of("fetchPriority", {"fetchPriority"}) @@ Of("referrerPolicy", {"referrerPolicy"}) @@ Of("url", {"src"})
HTMLImageElement == Of("image", {"width", "height"})
HTMLDataElement == Of("string", {"value"})
HTMLTimeElement == Of("string", {"dateTime"})
HTMLModElement == Of("urlOrEmpty", {"cite"}) @@ Of("string", {"dateTime"})
HTMLQuoteElement == Of("urlOrEmpty", {"cite"})
HTMLMetaElement == Of("string", {"content", "httpEquiv", "name", "scheme"})
HTMLLIElement == Of("long0", {"value"})
HTMLOListElement == Of("bool", {"reversed"}) @@ Of("long1", {"start"}) @@ Of("string", {"type"})
HTMLEmbedElement == Of("string", {"height", "width", "type"}) @@ Of("urlOrEmpty", {"src"})
HTMLMapElement == Of("string", {"name"})
HTMLTableColElement == Of("columnSpan", {"span"})
HTMLOptionElement == Of("bool", {"disabled"})
HTMLOptGroupElement == Of("bool", {"disabled"}) @@ Of("string", {"label"})
HTMLSourceElement == Of("unsigned", {"height", "width"}) @@ Of("string", {"media", "sizes", "srcset", "type"}) @@ Of("urlOrEmpty", {"src"})
HTMLProgressElement == Of("progressMax", {"max"}) @@ Of("progressValue", {"value"})
HTMLMeterElement == Of("meter0", {"value", "min", "low"}) @@ Of("meter1", {"max", "high"}) @@ Of("meterHalf", {"optimum"})

\* forms.js
ControlNames == Of("string", {"name"}) @@ Of("inputType", {"input.type"}) @@ Of("buttonType", {"button.type"})
ControlFlags == Of("bool", {"disabled", "required", "readOnly", "multiple"})
ConstraintAttributes == Of("string", {"pattern", "max", "min", "step"}) @@ Of("lengthLimit", {"maxLength", "minLength"})
ControlDefaults == Of("bool", {"defaultChecked"}) @@ Of("string", {"defaultValue"})
FormAttributes ==
  Of("method", {"method"}) @@ Of("formAction", {"action"}) @@ Of("bool", {"noValidate"})
  @@ Of("string", {"enctype", "acceptCharset", "encoding", "autocomplete"})
SubmitterFlags == Of("bool", {"formNoValidate"})

Classes ==
  [label |-> HTMLLabelElement, base |-> HTMLBaseElement, a |-> HTMLAnchorElement, area |-> HTMLAreaElement, hyperlink |-> HyperlinkHref,
   hyperlinkTab |-> HyperlinkTabIndex, link |-> HTMLLinkElement, submitter |-> FormActionElement, popover |-> PopoverTarget,
   inputSlots |-> HTMLInputSlots, input |-> HTMLInputElement, textarea |-> HTMLTextAreaElement, select |-> HTMLSelectElement,
   controlTab |-> ControlTabIndex, iframe |-> HTMLIFrameElement, object |-> HTMLObjectElement, output |-> HTMLOutputElement,
   td |-> HTMLTableCellElement, track |-> HTMLTrackElement, script |-> HTMLScriptElement, img |-> HTMLImageElement,
   data |-> HTMLDataElement, time |-> HTMLTimeElement, ins |-> HTMLModElement, q |-> HTMLQuoteElement, meta |-> HTMLMetaElement,
   li |-> HTMLLIElement, ol |-> HTMLOListElement, embed |-> HTMLEmbedElement, map |-> HTMLMapElement, col |-> HTMLTableColElement,
   option |-> HTMLOptionElement, optgroup |-> HTMLOptGroupElement, source |-> HTMLSourceElement, progress |-> HTMLProgressElement,
   meter |-> HTMLMeterElement, controlNames |-> ControlNames, controlFlags |-> ControlFlags, constraints |-> ConstraintAttributes,
   defaults |-> ControlDefaults, form |-> FormAttributes, submitterFlags |-> SubmitterFlags]

-----------------------------------------------------------------------------
(* One property of one element *)

KindOf(r) == Classes[r.class][r.property]

ReflectedInit ==
  \E class \in DOMAIN Classes, location \in Locations : \E property \in DOMAIN Classes[class] :
    reflected = [class |-> class, property |-> property, location |-> location, text |-> Absent, slot |-> Absent]

\* A slot is what was last assigned, whatever the attribute became since; the
\* size of an input is written to both.
HasSlot(r) == KindOf(r) \in {"slot", "elementSlot"}
Get(r) == Kinds[KindOf(r)].read[r.location][IF HasSlot(r) THEN r.slot ELSE r.text]
Put(r, v) ==
  LET written == Kinds[KindOf(r)].write[v]
  IN IF written = Refused THEN r
     ELSE [r EXCEPT !.slot = IF HasSlot(r) THEN written ELSE @,
                    !.text = IF ~HasSlot(r) \/ r.property \in {"height", "width"} THEN written ELSE @]

SetAttribute(v) == reflected' = [reflected EXCEPT !.text = v]
Assign(v) == reflected' = Put(reflected, v)
AssignPart(part, v) ==
  /\ reflected.property = "href" /\ reflected.class = "hyperlink"
  /\ reflected' = [reflected EXCEPT !.text = PartSet(reflected.location, part, @, v)]
Inputs == IF KindOf(reflected) \in {"url", "urlOrEmpty", "baseHref", "formAction"} THEN Links ELSE Words
ReflectedMoves ==
  \/ \E t \in Inputs \cup {Absent} : SetAttribute(t)
  \/ \E v \in Inputs : Assign(v)
  \/ \E v \in Paths : AssignPart("path", v)
  \/ \E v \in Hashes : AssignPart("hash", v)

-----------------------------------------------------------------------------
(* details and dialog *)

DisclosureInit == disclosure = [open |-> FALSE, toggles |-> 0, flips |-> 0, returnValue |-> "", closes |-> 0, calls |-> 0]
Flip(d, open) == IF d.open # open THEN [d EXCEPT !.open = open, !.flips = @ + 1] ELSE d
Toggled(d) == [d EXCEPT !.toggles = @ + 1]

\* details.open: a value that is not a Boolean never equals the state before.
OpenSet(v) ==
  LET after == Flip(disclosure, v # FALSE)
  IN disclosure' = IF v = disclosure.open THEN after ELSE Toggled(after)

\* A click on the summary, whatever its listeners did.
SummaryClick == disclosure' = Toggled(Flip(disclosure, ~disclosure.open))
Show == disclosure' = [disclosure EXCEPT !.open = TRUE]
CloseDialog(returnValue) ==
  disclosure' = [disclosure EXCEPT !.open = FALSE, !.returnValue = returnValue, !.closes = IF disclosure.open THEN @ + 1 ELSE @]
DisclosureMoves ==
  /\ disclosure.toggles + disclosure.closes < MaxToggles
  /\ \/ \E v \in BOOLEAN : OpenSet(v)
     \/ SummaryClick
     \/ Show
     \/ \E v \in {"", "word"} : CloseDialog(v)

-----------------------------------------------------------------------------
(* Properties *)

\* Assigning a property the value it reads changes nothing a reader can see.
\* A URL property of an absent attribute is the exception, its "" is a URL,
\* and so is a length limit the setter would not take.
SelfAssignKeeps ==
  LET r == reflected
      exempt == \/ KindOf(r) = "url" /\ r.text = Absent
                \/ KindOf(r) = "lengthLimit" /\ Get(r) \in {"word", "-2"}
  IN ~exempt => Get(Put(r, Get(r))) = Get(r)

\* What a getter answers is what the interface allows, whatever the attribute
\* says: a span of at least one, a meter between 0 and 1, a known keyword.
ReadsInRange ==
  LET kind == KindOf(reflected)
      got == Get(reflected)
  IN /\ kind = "cellSpan" => Numbers[got] >= 10
     /\ kind \in {"unsigned", "image", "progressMax", "progressValue"} => Numbers[got] >= 0
     /\ kind \in {"meter0", "meter1", "meterHalf"} => Numbers[got] \in 0..10
     /\ kind = "popover" => got \in {"hide", "show", "toggle"}
     /\ kind = "trackKind" => got \in {"metadata", "subtitles"}

\* Assigning a part of a hyperlink the value it reads leaves the link where
\* it points.
PartsKeepLink ==
  KindOf(reflected) = "url" =>
    \A part \in {"path", "hash"} :
      LET t == reflected.text
          l == reflected.location
          after == PartSet(l, part, t, PartGet(l, part, t))
      IN Kinds["url"].read[l][after] = Kinds["url"].read[l][t]

\* Nothing opens or closes a details element through its property or its
\* summary without a toggle event.
FlipsAnnounced == disclosure.flips <= disclosure.toggles
=============================================================================
