------------------------------ MODULE SvgLists ------------------------------
(***************************************************************************)
(* The lists of src/js/facade/extensions/svg.js: SVGNumberList,            *)
(* SVGPointList, SVGTransformList, SVGLengthList and SVGStringList.  A     *)
(* list is a view of an attribute: it caches the items it parsed with the  *)
(* text they stand for, and an item it is bound to writes back through it. *)
(* An element has two lists of an attribute, the base list and the         *)
(* read-only one of the animated values.                                   *)
(***************************************************************************)
EXTENDS Integers, Sequences, SequencesExt

CONSTANTS Vals,     \* what an item may stand for
          Zero,     \* what an item without a value is written as
          NoVal,    \* an item's value before it is given one
          MaxItems, \* item objects made at most
          MaxLength \* items of a list at most

ASSUME SvgListAssumption == /\ Zero \in Vals /\ NoVal \notin Vals
                            /\ MaxItems \in Nat /\ MaxLength \in Nat

VARIABLE svg
\* kind: the class; attr: the attribute; base and anim: the caches; item: the
\* item objects, of which `made` exist; read: what a list returned last.

-----------------------------------------------------------------------------
(* What the classes do differently.  A list that does not detach the items   *)
(* it forgets leaves them bound to it; a removal that does not record the    *)
(* text it writes makes the next read parse it into other items.             *)

SVGNumberList    == [detaches |-> FALSE, removeRecords |-> FALSE, clearRecords |-> TRUE]
SVGPointList     == [detaches |-> TRUE,  removeRecords |-> FALSE, clearRecords |-> TRUE]
SVGTransformList == [detaches |-> TRUE,  removeRecords |-> TRUE,  clearRecords |-> TRUE]
SVGLengthList    == [detaches |-> TRUE,  removeRecords |-> FALSE, clearRecords |-> FALSE]
ListClasses == {SVGNumberList, SVGPointList, SVGTransformList, SVGLengthList}

\* A text is its values and whether it is spaced the way the lists write it.
Text(vs) == [vals |-> vs, tidy |-> TRUE]
Unset == Text(<<>>)

\* What a list caches: its items with the text it knows them by, and, as a
\* history variable, the text they were parsed from or last written as.
Cache(items, text) == [items |-> items, text |-> text, wrote |-> text]

FreeItem == [val |-> NoVal, bound |-> FALSE]
SvgListInit == svg \in [kind : ListClasses, attr : {Unset}, made : {0}, item : {[i \in 1..MaxItems |-> FreeItem]},
                        base : {Cache(<<>>, Unset)}, anim : {Cache(<<>>, Unset)}]

SerializeItems(item, items) ==
  Text([i \in DOMAIN items |-> IF item[items[i]].val = NoVal THEN Zero ELSE item[items[i]].val])

Unbind(item, items) == [i \in DOMAIN item |-> IF i \in Range(items) THEN [item[i] EXCEPT !.bound = FALSE] ELSE item[i]]
DetachItems(s) == [s EXCEPT !.item = Unbind(@, s.base.items)]

\* getItemList(): the cached items while the attribute has the text they were
\* cached with, and items parsed from it otherwise.
Parsed(s, cache, bound) ==
  LET n == Len(s.attr.vals) IN
  [made |-> s.made + n, cache |-> Cache([i \in 1..n |-> s.made + i], s.attr),
   item |-> [i \in 1..MaxItems |->
     IF i > s.made /\ i <= s.made + n THEN [val |-> s.attr.vals[i - s.made], bound |-> bound] ELSE s.item[i]]]

CanRead(s) == s.base.text = s.attr \/ s.made + Len(s.attr.vals) <= MaxItems
ItemList(s) ==
  IF s.base.text = s.attr THEN s
  ELSE LET t == IF s.kind.detaches THEN DetachItems(s) ELSE s
           p == Parsed(t, t.base, TRUE)
       IN [t EXCEPT !.made = p.made, !.base = p.cache, !.item = p.item]

\* The text of the items, recorded with them before it is written.
Recorded(s, items) ==
  LET text == SerializeItems(s.item, items) IN [s EXCEPT !.base = Cache(items, text), !.attr = text]
Written(s, items) ==
  LET text == SerializeItems(s.item, items)
  IN  [s EXCEPT !.base = [@ EXCEPT !.items = items, !.wrote = text], !.attr = text]

\* Mutant: the item is put in the list and not bound to it.
BindNothing(s, i) == s
BindItem(s, i) == [s EXCEPT !.item[i].bound = TRUE]

Clamp(x, hi) == IF x < 0 THEN 0 ELSE IF x > hi THEN hi ELSE x
At(items, x) == IF x \in DOMAIN items THEN items[x] ELSE 0

-----------------------------------------------------------------------------
(* The operations of a base list, on a state its items were read in.         *)

Clear(s) ==
  IF s.kind.clearRecords THEN [DetachItems(s) EXCEPT !.base = Cache(<<>>, Unset), !.attr = Unset]
  ELSE [s EXCEPT !.attr = Unset]

\* An item without a value is recorded as no text at all, so that the next
\* read parses the empty attribute and loses it.
Initialize(s, i) ==
  LET t == BindItem(DetachItems(s), i) v == s.item[i].val
      text == IF v = NoVal THEN Unset ELSE Text(<<v>>)
  IN [t EXCEPT !.base = Cache(<<i>>, IF v = NoVal THEN [Unset EXCEPT !.tidy = FALSE] ELSE text), !.attr = text]

InsertItemBefore(s, i, x) ==
  LET rest == SelectSeq(s.base.items, LAMBDA j : j # i) IN
  BindItem(Recorded(s, InsertAt(rest, Clamp(x, Len(rest)) + 1, i)), i)

\* Beyond the end the last item is replaced; in an empty list nothing is, and
\* the item is bound all the same.
ReplaceItem(s, i, x) ==
  LET rest == SelectSeq(s.base.items, LAMBDA j : j # i)
      at == Clamp(x, Len(rest) - 1) + 1
  IN
  IF At(s.base.items, x + 1) = i THEN s
  ELSE IF rest = <<>> THEN BindItem(Recorded(s, rest), i)
  ELSE BindItem(Recorded([s EXCEPT !.item = Unbind(@, <<rest[at]>>)], [rest EXCEPT ![at] = i]), i)

AppendItem(s, i) == BindItem(Recorded(s, Append(SelectSeq(s.base.items, LAMBDA j : j # i), i)), i)

\* Nothing is done with an index out of bounds but to throw.
RemoveItem(s, x) ==
  LET items == s.base.items
      t == [s EXCEPT !.item = Unbind(@, <<items[x + 1]>>)]
      left == RemoveAt(items, x + 1)
  IN
  IF x + 1 \notin DOMAIN items THEN s
  ELSE IF s.kind.removeRecords THEN Recorded(t, left) ELSE Written(t, left)

\* The value of an item changes; bound to the list, it writes the whole list,
\* in which it need not be any longer.
SetItem(s, i, v) ==
  LET t == [s EXCEPT !.item[i].val = v] IN
  IF ~s.item[i].bound THEN t
  ELSE LET u == ItemList(t) IN Recorded(u, u.base.items)

-----------------------------------------------------------------------------
Short == Len(svg.base.items) < MaxLength

MakeItem == svg.made < MaxItems /\ svg' = [svg EXCEPT !.made = @ + 1, !.item[svg.made + 1] = FreeItem]
ElementWrites == \E vs \in SeqOf(Vals, MaxLength), tidy \in BOOLEAN :
  svg' = [svg EXCEPT !.attr = [vals |-> vs, tidy |-> tidy \/ vs = <<>>]]
ListReads == CanRead(svg) /\ svg' = ItemList(svg)
\* The list of the animated values has items of its own.
AnimReads ==
  /\ svg.anim.text # svg.attr /\ svg.made + Len(svg.attr.vals) <= MaxItems
  /\ LET p == Parsed(svg, svg.anim, FALSE) IN
     svg' = [svg EXCEPT !.made = p.made, !.anim = p.cache, !.item = p.item]

ListChanges ==
  /\ CanRead(svg)
  /\ LET s == ItemList(svg) mine == 1..s.made \ Range(s.anim.items) IN
     \/ svg' = Clear(svg)
     \/ \E x \in 0..MaxLength : svg' = RemoveItem(s, x)
     \/ \E i \in mine : \/ svg' = Initialize(svg, i)
                        \/ Short /\ svg' = AppendItem(s, i)
                        \/ \E x \in 0..MaxLength : (Short /\ svg' = InsertItemBefore(s, i, x)) \/ svg' = ReplaceItem(s, i, x)
ItemChanges ==
  /\ CanRead(svg)
  /\ \E i \in 1..svg.made \ Range(svg.anim.items), v \in Vals : svg' = SetItem(svg, i, v)

SvgListNext == MakeItem \/ ElementWrites \/ ListReads \/ AnimReads \/ ListChanges \/ ItemChanges

-----------------------------------------------------------------------------
(* SVGStringList: its items are strings, each at most once, and none of its   *)
(* operations but clear records the text it writes.                           *)

VARIABLE strings
NoStrings == [attr |-> Unset, items |-> <<>>, text |-> Unset, wrote |-> Unset]

Distinct(vs) == FoldLeft(LAMBDA seen, v : IF Contains(seen, v) THEN seen ELSE Append(seen, v), <<>>, vs)

StringItems(s) ==
  IF s.text = s.attr THEN s ELSE [attr |-> s.attr, items |-> Distinct(s.attr.vals), text |-> s.attr, wrote |-> s.attr]

WriteStrings(s, items) == [s EXCEPT !.items = items, !.wrote = Text(items), !.attr = Text(items)]
Others(s, v) == SelectSeq(s.items, LAMBDA u : u # v)

StringClear(s) == NoStrings
StringInitialize(s, v) == [s EXCEPT !.attr = Text(<<v>>)]
StringInsert(s, v, x) == LET rest == Others(s, v) IN WriteStrings(s, InsertAt(rest, Clamp(x, Len(rest)) + 1, v))
StringAppend(s, v) == WriteStrings(s, Append(Others(s, v), v))
\* Unlike the other two it does not look for the string it is given.
StringReplace(s, v, x) ==
  IF s.items = <<>> THEN WriteStrings(s, <<>>)
  ELSE WriteStrings(s, [s.items EXCEPT ![Clamp(x, Len(s.items) - 1) + 1] = v])
StringRemove(s, x) == IF x + 1 \in DOMAIN s.items THEN WriteStrings(s, RemoveAt(s.items, x + 1)) ELSE s

StringListNext ==
  LET s == StringItems(strings) IN
  \/ strings' = s
  \/ strings' = StringClear(strings)
  \/ \E vs \in SeqOf(Vals, MaxLength), tidy \in BOOLEAN :
       strings' = [strings EXCEPT !.attr = [vals |-> vs, tidy |-> tidy \/ vs = <<>>]]
  \/ \E v \in Vals, x \in 0..MaxLength :
       \/ strings' = StringInitialize(strings, v)
       \/ strings' = StringReplace(s, v, x)
       \/ Len(s.items) < MaxLength /\ strings' \in {StringInsert(s, v, x), StringAppend(s, v)}
       \/ strings' = StringRemove(s, x)

-----------------------------------------------------------------------------
(* A list that knows its items by the text the attribute has never has others *)
(* than the attribute says, with one exception: an operation that records no  *)
(* text, a removal or any of the string list, and the old text given to the   *)
(* attribute again, leave the items as that operation wrote them.  A removal  *)
(* so undone leaves less than the attribute says, never anything else, and    *)
(* never in a list that records it (getItemList, removeItem of svg.js).       *)
Remains(vals, all) ==
  /\ Len(vals) < Len(all)
  /\ \E at \in [DOMAIN vals -> DOMAIN all] :
       \A i, j \in DOMAIN vals : vals[i] = all[at[i]] /\ (i < j => at[i] < at[j])
SvgListsAgree ==
  /\ \A c \in {svg.base, svg.anim} : c.text = svg.attr =>
       LET vals == SerializeItems(svg.item, c.items).vals IN
       \/ vals = svg.attr.vals
       \/ ~svg.kind.removeRecords /\ vals = c.wrote.vals /\ Remains(vals, svg.attr.vals)
  /\ svg.base.text = svg.attr => \A i \in Range(svg.base.items) : svg.item[i].bound
  /\ svg.anim.text = svg.attr => svg.anim.wrote = svg.attr

StringListAgrees ==
  strings.text = strings.attr =>
    strings.items \in {Distinct(strings.attr.vals), strings.wrote.vals}
=============================================================================
