----------------------------- MODULE SvgElements -----------------------------
(***************************************************************************)
(* The element classes of src/js/facade/extensions/svg.js, each by the     *)
(* properties that reflect an attribute, and the memo of the objects they  *)
(* return: ANIMATED keeps one object per element and key, made by whoever  *)
(* asks first.                                                             *)
(***************************************************************************)
EXTENDS Integers, Sequences, FiniteSets

\* A property: the key of its object in the memo, the class of the object,
\* the attribute it reads, and the keywords of an enumeration.
Prop(key, kind, attr) == [key |-> key, kind |-> kind, attr |-> attr, values |-> <<>>, default |-> ""]
Props(kind, keys) == {Prop(k, kind, k) : k \in keys}
Lengths(keys) == Props("length", keys)
Strings(keys) == Props("string", keys)
Numbers(keys) == Props("number", keys)
NumbersFrom1(keys) == {[Prop(k, "number", k) EXCEPT !.default = "1"] : k \in keys}
Integers_(keys) == Props("integer", keys)
NumberLists(keys) == Props("number list", keys)
LengthLists(keys) == Props("length list", keys)
StringLists(keys) == Props("string list", keys)
TransformLists(keys) == Props("transform list", keys)
Rects(keys) == Props("rect", keys)
AspectRatio == Props("aspect ratio", {"preserveAspectRatio"})
EnumOf(key, attr, values, default) == {[key |-> key, kind |-> "enumeration", attr |-> attr, values |-> values, default |-> default]}
Enum(key, values, default) == EnumOf(key, key, values, default)
Points(key, readOnly) == {Prop(key, IF readOnly THEN "read-only points" ELSE "points", "points")}
Plain(keys) == Props("reflected", keys)   \* without an object

Box == Lengths({"height", "width", "x", "y"})
Units(key, default) == Enum(key, <<"userSpaceOnUse", "objectBoundingBox">>, default)

SVGElement == {}
SVGGraphicsElement == TransformLists({"transform"}) \cup StringLists({"requiredExtensions", "systemLanguage"})
SVGGeometryElement == SVGGraphicsElement \cup Numbers({"pathLength"})
SVGCircleElement == SVGGeometryElement \cup Lengths({"cx", "cy", "r"})
SVGEllipseElement == SVGGeometryElement \cup Lengths({"cx", "cy", "rx", "ry"})
SVGAnimationElement == StringLists({"requiredExtensions", "systemLanguage"})
SVGClipPathElement == Units("clipPathUnits", "userSpaceOnUse")
SVGFilterElement == Strings({"href"}) \cup Box \cup Units("filterUnits", "userSpaceOnUse") \cup Units("primitiveUnits", "userSpaceOnUse")
SVGForeignObjectElement == SVGGraphicsElement \cup Box
SVGGradientElement ==
  SVGGraphicsElement \cup Strings({"href"}) \cup Units("gradientUnits", "objectBoundingBox")
    \cup TransformLists({"gradientTransform"}) \cup Enum("spreadMethod", <<"pad", "reflect", "repeat">>, "pad")
SVGImageElement == SVGGraphicsElement \cup Plain({"crossorigin", "decoding"}) \cup Strings({"href"}) \cup AspectRatio \cup Box
SVGLineElement == SVGGeometryElement \cup Lengths({"x1", "y1", "x2", "y2"})
SVGLinearGradientElement == SVGGradientElement \cup Lengths({"x1", "y1", "x2", "y2"})
SVGMPathElement == Strings({"href"})
\* Two properties of one attribute, told apart by their keys alone.
SVGMarkerElement ==
  Enum("markerUnits", <<"userSpaceOnUse", "strokeWidth">>, "strokeWidth")
    \cup Lengths({"markerWidth", "markerHeight", "refX", "refY"})
    \cup EnumOf("orientType", "orient", <<"auto", "any">>, "auto")
    \cup {Prop("orientAngle", "angle", "orient")} \cup Rects({"viewBox"}) \cup AspectRatio
SVGMaskElement == Units("maskUnits", "userSpaceOnUse") \cup Units("maskContentUnits", "userSpaceOnUse") \cup Box
SVGPatternElement ==
  Strings({"href"}) \cup Units("patternUnits", "objectBoundingBox") \cup Units("patternContentUnits", "userSpaceOnUse")
    \cup TransformLists({"patternTransform"}) \cup Box
SVGPolygonElement == SVGGeometryElement \cup Points("animatedPoints", TRUE) \cup Points("points", FALSE)
SVGPolylineElement == SVGGeometryElement \cup Points("animatedPoints", TRUE) \cup Points("points", FALSE)
SVGRadialGradientElement == SVGGradientElement \cup Lengths({"cx", "cy", "r", "fx", "fy"})
SVGRectElement == SVGGeometryElement \cup Box \cup Lengths({"rx", "ry"})
SVGSVGElement == SVGGraphicsElement \cup AspectRatio \cup Box \cup Rects({"viewBox"})
SVGScriptElement == SVGGraphicsElement \cup Strings({"href"}) \cup Plain({"type"})
SVGStopElement == Numbers({"offset"})
SVGStyleElement == Plain({"media", "type", "title"})
SVGTextContentElement ==
  SVGGraphicsElement \cup Lengths({"textLength"}) \cup Enum("lengthAdjust", <<"spacing", "spacingAndGlyphs">>, "spacing")
SVGTextPositioningElement == SVGTextContentElement \cup LengthLists({"x", "y", "dx", "dy"}) \cup NumberLists({"rotate"})
SVGUseElement == SVGGraphicsElement \cup Strings({"href"}) \cup Box

SVGFilterPrimitiveElement == Box \cup Strings({"in", "result"})
BlendModes == <<"normal", "multiply", "screen", "darken", "lighten", "overlay", "color-dodge", "color-burn", "hard-light",
                "soft-light", "difference", "exclusion", "hue", "saturation", "color", "luminosity">>
SVGFEBlendElement == SVGFilterPrimitiveElement \cup Strings({"in2"}) \cup Enum("mode", BlendModes, "normal")
SVGFEColorMatrixElement ==
  SVGFilterPrimitiveElement \cup Strings({"in2"}) \cup NumberLists({"values"})
    \cup Enum("type", <<"matrix", "saturate", "huerotate", "luminancetoalpha">>, "matrix")
SVGFECompositeElement ==
  SVGFilterPrimitiveElement \cup NumberLists({"values"})
    \cup Enum("type", <<"over", "in", "out", "atop", "xor", "arithmetic">>, "over")
EdgeMode == Enum("edgeMode", <<"duplicate", "wrap", "none">>, "duplicate")
SVGFEConvolveMatrixElement ==
  SVGFilterPrimitiveElement \cup Numbers({"bias", "divisor", "kernelUnitLengthX", "kernelUnitLengthY"}) \cup EdgeMode
    \cup NumberLists({"kernelMatrix"}) \cup Integers_({"orderX", "orderY", "targetX", "targetY"}) \cup Props("boolean", {"preserveAlpha"})
SVGFEDiffuseLightingElement ==
  SVGFilterPrimitiveElement \cup Numbers({"diffuseConstant", "kernelUnitLengthX", "kernelUnitLengthY", "surfaceScale"})
Channels == <<"r", "g", "b", "a">>
SVGFEDisplacementMapElement ==
  SVGFilterPrimitiveElement \cup Strings({"in2"}) \cup Numbers({"scale"})
    \cup Enum("xChannelSelector", Channels, "r") \cup Enum("yChannelSelector", Channels, "r")
SVGFEDistantLightElement == Numbers({"azimuth", "elevation"})
DeviationOf2 == {[Prop(k, "number", k) EXCEPT !.default = "2"] : k \in {"stdDeviationX", "stdDeviationY"}}
SVGFEDropShadowElement == SVGFilterPrimitiveElement \cup Numbers({"dx", "dy"}) \cup DeviationOf2
SVGComponentTransferFunctionElement ==
  Enum("type", <<"identity", "table", "discrete", "linear", "gamma">>, "identity") \cup NumberLists({"tableValues"})
    \cup NumbersFrom1({"slope", "amplitude", "exponent"}) \cup Numbers({"intercept", "offset"})
SVGFEGaussianBlurElement == SVGFilterPrimitiveElement \cup EdgeMode \cup DeviationOf2
SVGFEImageElement == SVGFilterPrimitiveElement \cup Plain({"crossorigin"}) \cup Strings({"href"}) \cup AspectRatio
SVGFEMergeNodeElement == Strings({"in"})
SVGFEMorphologyElement ==
  SVGFilterPrimitiveElement \cup Enum("operator", <<"erode", "dilate">>, "erode") \cup Numbers({"radiusX", "radiusY"})
SVGFEOffsetElement == SVGFilterPrimitiveElement \cup Numbers({"dx", "dy"})
SVGFEPointLightElement == Numbers({"x", "y", "z"})
SVGFESpecularLightingElement ==
  SVGFilterPrimitiveElement \cup Numbers({"kernelUnitLengthX", "kernelUnitLengthY"})
    \cup NumbersFrom1({"specularConstant", "specularExponent", "surfaceScale"})
SVGFESpotLightElement ==
  Numbers({"x", "y", "z", "pointsAtX", "pointsAtY", "pointsAtZ", "limitingConeAngle"}) \cup NumbersFrom1({"specularExponent"})
SVGFETurbulenceElement ==
  SVGFilterPrimitiveElement \cup Numbers({"baseFrequencyX", "baseFrequencyY", "seed"}) \cup Integers_({"numOctaves"})
    \cup Enum("stitchTiles", <<"stitch", "noStitch">>, "stitch") \cup Enum("type", <<"fractalNoise", "turbulence">>, "turbulence")

\* createElementNS: the class of a tag, and SVGElement for a tag of no class.
SvgTagClass(tag) ==
  CASE tag \in {"animate", "animateMotion", "animateTransform", "set"} -> SVGAnimationElement
    [] tag = "circle" -> SVGCircleElement [] tag = "clipPath" -> SVGClipPathElement
    [] tag = "ellipse" -> SVGEllipseElement [] tag = "feBlend" -> SVGFEBlendElement
    [] tag = "feColorMatrix" -> SVGFEColorMatrixElement [] tag = "feComposite" -> SVGFECompositeElement
    [] tag = "feConvolveMatrix" -> SVGFEConvolveMatrixElement [] tag = "feDiffuseLighting" -> SVGFEDiffuseLightingElement
    [] tag = "feDisplacementMap" -> SVGFEDisplacementMapElement [] tag = "feDistantLight" -> SVGFEDistantLightElement
    [] tag = "feDropShadow" -> SVGFEDropShadowElement
    [] tag \in {"feFuncA", "feFuncB", "feFuncG", "feFuncR"} -> SVGComponentTransferFunctionElement
    [] tag \in {"feComponentTransfer", "feFlood", "feMerge", "feTile"} -> SVGFilterPrimitiveElement
    [] tag = "feGaussianBlur" -> SVGFEGaussianBlurElement [] tag = "feImage" -> SVGFEImageElement
    [] tag = "feMergeNode" -> SVGFEMergeNodeElement [] tag = "feMorphology" -> SVGFEMorphologyElement
    [] tag = "feOffset" -> SVGFEOffsetElement [] tag = "fePointLight" -> SVGFEPointLightElement
    [] tag = "feSpecularLighting" -> SVGFESpecularLightingElement [] tag = "feSpotLight" -> SVGFESpotLightElement
    [] tag = "feTurbulence" -> SVGFETurbulenceElement [] tag = "filter" -> SVGFilterElement
    [] tag = "foreignObject" -> SVGForeignObjectElement [] tag = "image" -> SVGImageElement
    [] tag = "line" -> SVGLineElement [] tag = "linearGradient" -> SVGLinearGradientElement
    [] tag = "marker" -> SVGMarkerElement [] tag = "mask" -> SVGMaskElement
    [] tag = "mpath" -> SVGMPathElement [] tag = "path" -> SVGGeometryElement
    [] tag = "pattern" -> SVGPatternElement [] tag = "polygon" -> SVGPolygonElement
    [] tag = "polyline" -> SVGPolylineElement [] tag = "radialGradient" -> SVGRadialGradientElement
    [] tag = "rect" -> SVGRectElement [] tag = "script" -> SVGScriptElement
    [] tag = "stop" -> SVGStopElement [] tag = "style" -> SVGStyleElement [] tag = "svg" -> SVGSVGElement
    [] tag \in {"text", "tspan"} -> SVGTextPositioningElement [] tag = "textPath" -> SVGTextContentElement
    [] tag = "use" -> SVGUseElement
    [] tag \in {"defs", "g", "switch", "symbol"} -> SVGGraphicsElement
    [] OTHER -> SVGElement
SvgTags == {"animate", "circle", "clipPath", "ellipse", "feBlend", "feColorMatrix", "feComposite", "feConvolveMatrix",
  "feDiffuseLighting", "feDisplacementMap", "feDistantLight", "feDropShadow", "feFuncA", "feFlood", "feGaussianBlur",
  "feImage", "feMergeNode", "feMorphology", "feOffset", "fePointLight", "feSpecularLighting", "feSpotLight",
  "feTurbulence", "filter", "foreignObject", "image", "line", "linearGradient", "marker", "mask", "mpath", "path",
  "pattern", "polygon", "polyline", "radialGradient", "rect", "script", "stop", "style", "svg", "text", "textPath",
  "use", "g", "title"}

-----------------------------------------------------------------------------
(* An element: its tag, the objects of the memo, and an enumerated attribute. *)

CONSTANT MaxAccesses \* properties of an element that are read
VARIABLE element

SvgElementInit == element \in [tag : SvgTags, memo : {{}}]

\* animatedLength and its like: the object of the key, whoever made it.
Animated(e, p) == IF \E q \in e.memo : q.key = p.key THEN CHOOSE q \in e.memo : q.key = p.key ELSE p
Access(p) == element' = [element EXCEPT !.memo = @ \cup {Animated(element, p)}]
SvgElementMoves ==
  /\ Cardinality(element.memo) < MaxAccesses
  /\ \E p \in SvgTagClass(element.tag) : p.kind # "reflected" /\ Access(p)

\* SVGAnimatedEnumeration over a text ("": none).  The keyword "any" stands for
\* null, which every other text is read as and which is written "0".
IndexOf(values, v) == IF \E i \in DOMAIN values : values[i] = v THEN CHOOSE i \in DOMAIN values : values[i] = v ELSE 0
EnumGet(p, text) ==
  IF text = "" THEN IndexOf(p.values, p.default)
  ELSE IF IndexOf(p.values, text) # 0 /\ text # "any" THEN IndexOf(p.values, text) ELSE IndexOf(p.values, "any")
EnumSet(p, text, n) ==
  LET any == p.values[n] = "any" new == IF any THEN "0" ELSE p.values[n] IN
  IF \/ text = "" \/ (any /\ text # "any" /\ IndexOf(p.values, text) # 0) \/ (~any /\ text # new)
    THEN new ELSE text

\* What a property reads is an object of its own class and attribute, whichever
\* other properties of the element were read first; an enumeration reads as the
\* number it was set to.
MemoOwn == \A p \in SvgTagClass(element.tag) : Animated(element, p) = p
EnumReadsBack ==
  \A p \in SvgTagClass(element.tag) :
    p.kind = "enumeration" =>
      \A n \in DOMAIN p.values, text \in {"", "0", "7"} \cup {p.values[i] : i \in DOMAIN p.values} :
        EnumGet(p, EnumSet(p, text, n)) = n

=============================================================================
