--------------------------- MODULE AttributeNodes ---------------------------
(***************************************************************************)
(* Attr objects and DOMTokenList: src/js/facade/extensions/                *)
(* attribute-nodes.js over src/crates/mad-dom-core/src/dom/                *)
(* attribute_nodes.rs.  One element; the value of an attribute is the      *)
(* sequence of words of its text, as it was written.                       *)
(***************************************************************************)
EXTENDS Naturals, Sequences, SequencesExt

CONSTANT MaxTokenOps  \* bound on the calls on the element's attributes

VARIABLE named        \* the attributes of an element and their objects

Names == {"class", "CLASS", "id"}
LowerCased(name) == IF name = "CLASS" THEN "class" ELSE name
NoCall == [op |-> "none", words |-> <<>>, before |-> <<>>, result |-> FALSE]
NamedInit == named = [pairs |-> <<>>, objects |-> <<>>, handed |-> {}, call |-> NoCall, ops |-> 0]

PairOf(name) == SelectSeq(named.pairs, LAMBDA p : p.name = name)
WordsOf(name) == IF PairOf(name) = <<>> THEN <<>> ELSE PairOf(name)[1].value
\* ordered_set_parse: the first of equal words stays.
OrderedSet(words) == FoldLeft(LAMBDA set, w : IF w \in ToSet(set) THEN set ELSE Append(set, w), <<>>, words)
PairsWith(name, value) ==
  IF PairOf(name) = <<>> THEN Append(named.pairs, [name |-> name, value |-> value])
  ELSE [i \in DOMAIN named.pairs |-> IF named.pairs[i].name = name THEN [name |-> name, value |-> value] ELSE named.pairs[i]]
PairsWithout(name) == SelectSeq(named.pairs, LAMBDA p : p.name # name)
NamedCall(r) == named.ops < MaxTokenOps /\ named' = [r EXCEPT !.ops = @ + 1]

SetNamed(name, value) == NamedCall([named EXCEPT !.pairs = PairsWith(name, value), !.call = NoCall])
RemoveNamed(name) == PairOf(name) # <<>> /\ NamedCall([named EXCEPT !.pairs = PairsWithout(name), !.call = NoCall])

\* attrOf: one object per element and name, kept when the attribute goes.
ObjectOf(name) == SelectSeq(named.objects, LAMBDA o : o.name = name)
AttrOf(name) ==
  LET made == IF ObjectOf(name) # <<>> THEN named.objects ELSE Append(named.objects, [name |-> name])
      number == CHOOSE k \in DOMAIN made : made[k].name = name
  IN NamedCall([named EXCEPT !.objects = made, !.handed = @ \cup {<<LowerCased(name), number>>}, !.call = NoCall])
ItemOf(i) == i \in DOMAIN named.pairs /\ AttrOf(named.pairs[i].name)
NamedItemOf(name) == PairOf(name) # <<>> /\ AttrOf(name)
GetAttributeNode(name) == PairOf(LowerCased(name)) # <<>> /\ AttrOf(LowerCased(name))
\* Writing the value of an Attr whose attribute is gone brings it back.
AttrWrite(k, value) == NamedCall([named EXCEPT !.pairs = PairsWith(named.objects[k].name, value), !.call = NoCall])

\* Every word is looked at before anything is written.
Valid(words) == "" \notin ToSet(words)
Updated(set) == IF set = <<>> THEN PairsWithout("class") ELSE PairsWith("class", set)
TokenCall(op, words, pairs, result) ==
  NamedCall([named EXCEPT !.pairs = IF Valid(words) THEN pairs ELSE @,
                          !.call = [op |-> op, words |-> words, before |-> named.pairs, result |-> result]])
TokenSet == OrderedSet(WordsOf("class"))
Without(set, words) == SelectSeq(set, LAMBDA w : w \notin words)
TokenAdd(words) == TokenCall("add", words, Updated(OrderedSet(TokenSet \o words)), TRUE)
TokenRemove(words) == TokenCall("remove", words, Updated(Without(TokenSet, ToSet(words))), TRUE)
TokenToggle(w, force) ==
  LET present == w \in ToSet(TokenSet)
      add == IF force = "unset" THEN ~present ELSE force = "true"
      set == IF add THEN OrderedSet(Append(TokenSet, w)) ELSE Without(TokenSet, {w})
  IN TokenCall("toggle", <<w>>, Updated(set), add)
\* The new word takes the place of the old one, even where it stands already.
TokenReplace(old, new) ==
  LET at == {i \in DOMAIN TokenSet : TokenSet[i] = old} IN
  TokenCall("replace", <<old, new>>,
            IF at = {} THEN named.pairs ELSE PairsWith("class", [i \in DOMAIN TokenSet |-> IF i \in at THEN new ELSE TokenSet[i]]),
            at # {})

Words == {"a", "b", ""}
Texts == {<<>>, <<"a">>, <<"b", "a", "b">>}
NamedMoves ==
  \/ \E name \in {"class", "id"}, value \in Texts : SetNamed(name, value)
  \/ \E name \in {"class", "id"} : RemoveNamed(name)
  \/ \E i \in 1..2 : ItemOf(i)
  \/ \E name \in Names : NamedItemOf(name) \/ GetAttributeNode(name)
  \/ \E k \in DOMAIN named.objects : AttrWrite(k, <<"a">>)
  \/ \E v, w \in Words : TokenAdd(<<v, w>>) \/ TokenRemove(<<v, w>>) \/ TokenReplace(v, w)
  \/ \E w \in Words, force \in {"unset", "true", "false"} : TokenToggle(w, force)

\* Two reads of an attribute hand out one object, by whatever spelling and
\* route, also when the attribute was gone in between.
OneAttrPerName == \A g, h \in named.handed : g[1] = h[1] <=> g[2] = h[2]
\* A token call leaves the words it does not name as and where they were, does
\* to those it names what it says, and writes nothing at all if one is wrong.
TokensAsCalled ==
  LET c == named.call
      words == ToSet(c.words)
      old == SelectSeq(c.before, LAMBDA p : p.name = "class")
      was == IF old = <<>> THEN <<>> ELSE OrderedSet(old[1].value)
      now == ToSet(TokenSet)
  IN c.op # "none" =>
       /\ ~Valid(c.words) => named.pairs = c.before
       /\ Without(TokenSet, words) = Without(was, words)
       /\ SelectSeq(named.pairs, LAMBDA p : p.name # "class") = SelectSeq(c.before, LAMBDA p : p.name # "class")
       /\ Valid(c.words) =>
            /\ c.op = "add" => words \subseteq now
            /\ c.op = "remove" => words \cap now = {}
            /\ c.op = "toggle" => (words \subseteq now <=> c.result)
            /\ c.op = "replace" => (c.result <=> c.words[1] \in ToSet(was))
            /\ c.op = "replace" /\ c.result => now = (ToSet(was) \ {c.words[1]}) \cup {c.words[2]}
            /\ c.op = "replace" /\ ~c.result => named.pairs = c.before
=============================================================================
