----------------------------- MODULE QueryIndex -----------------------------
(***************************************************************************)
(* The query index of a document (selectors/live.rs, selectors/query.rs):  *)
(* lists of elements by id, class and tag, kept in document order by the   *)
(* chokepoints of the mutation and attribute APIs, and the reads served    *)
(* from them.  A mutation is a run of detachments, each of which drops a   *)
(* subtree's entries, then one attachment, which lists the subtrees that   *)
(* moved one element at a time in a tree that is already relinked.         *)
(***************************************************************************)
EXTENDS ForestOps, FiniteSets

CONSTANTS
  Root,      \* the Document node, cached_document_root
  IdKey,     \* values of the id attribute
  ClassKey,  \* class tokens
  TagKey,    \* lowercased local names
  AnyTag,    \* "*", the key of all_elements
  Tag,       \* the local name of every element
  Defined,   \* the local name that may be defined as a custom element
  MaxFresh   \* bound on the elements that one call creates

Element == Node \ {Root}

ASSUME QueryIndexAssumption ==
  /\ Root \in Node /\ Null \notin Node
  /\ Tag \in [Element -> TagKey] /\ AnyTag \notin TagKey
  /\ IdKey \cap ClassKey = {}
  /\ (IdKey \cup ClassKey) \cap (TagKey \cup {AnyTag}) = {}
  /\ MaxFresh \in Nat

VARIABLES
  kids,    \* the children of every node
  live,    \* allocated nodes
  attrs,   \* the id and the class tokens of every element
  defined, \* the custom element name is in the registry
  mode,    \* QueryIndexMode
  index    \* the lists of the QueryIndex; an absent key is an empty list

vars == <<kids, live, attrs, defined, mode, index>>

Attributes == {at \in SUBSET (IdKey \cup ClassKey) : Cardinality(at \cap IdKey) <= 1}
Key == IdKey \cup ClassKey \cup TagKey \cup {AnyTag}

EmptyLists == [key \in Key |-> <<>>]

\* index_keys_for, and the list of all elements.
KeysOf(at, n) == at[n] \cup {Tag[n], AnyTag}

InDocument(k, n) == Inside(k, Root, n)

\* The keys that an index of mode m maintains.
Maintained(m) ==
  CASE m = "Full" -> Key [] m = "IdOnly" -> IdKey [] m = "Off" -> {}

-----------------------------------------------------------------------------
(***************************************************************************)
(* precedes: whether a comes before b in document order.                   *)
(***************************************************************************)
Precedes(k, a, b) ==
  LET order == Preorder(k, Root) IN Position(order, a) < Position(order, b)

\* Mutant: only the element's own siblings are looked at.
IsLastChild(k, el) ==
  \A p \in Node : ChildOf(k, el, p) => Last(k[p]) = el

(***************************************************************************)
(* is_last_in_document_order: el and each of its ancestors is the last     *)
(* child of its parent.                                                    *)
(***************************************************************************)
IsLast(k, el) ==
  \A p, c \in Node : ChildOf(k, c, p) /\ Inside(k, c, el) => Last(k[p]) = c

(***************************************************************************)
(* The lists s may become when el enters it: el at the end when it is the  *)
(* last of the document, or else where partition_point's search ends, a    *)
(* boundary between entries that precede el and entries that do not.  In   *)
(* an ordered list there is one; in any other the search may end at each.  *)
(***************************************************************************)
Listed(k, s, el) ==
  IF IsLast(k, el) THEN {Append(s, el)}
  ELSE {InsertAt(s, i, el) : i \in {j \in 1 .. Len(s) + 1 :
          /\ j = 1 \/ Precedes(k, s[j - 1], el)
          /\ j = Len(s) + 1 \/ ~ Precedes(k, s[j], el)}}

\* What s may become when the elements of els enter it one after another.
Entered(k, s, els) ==
  LET after[n \in 0 .. Len(els)] ==
        IF n = 0 THEN {s} ELSE UNION {Listed(k, r, els[n]) : r \in after[n - 1]}
  IN  after[Len(els)]

(***************************************************************************)
(* The indexes whose lists are among those that c has for their keys; only *)
(* the keys for which there is a choice are enumerated.                    *)
(***************************************************************************)
Outcomes(c) ==
  LET open == {key \in DOMAIN c : \A s \in c[key] : c[key] # {s}}
      picks == {f \in [open -> UNION {c[key] : key \in open}] : \A key \in open : f[key] \in c[key]}
  IN  {[key \in DOMAIN c |-> IF key \in open THEN f[key] ELSE CHOOSE s \in c[key] : TRUE] : f \in picks}

(***************************************************************************)
(* index_insert_into_key of el for each of the keys that is maintained:    *)
(* what each list may become; index_remove_from_key likewise.              *)
(***************************************************************************)
ListedUnder(k, ix, el, keys) ==
  [key \in Key |-> IF key \in keys \cap Maintained(mode) THEN Listed(k, ix[key], el) ELSE {ix[key]}]

UnlistedUnder(ix, el, keys) ==
  [key \in Key |-> IF key \in keys \cap Maintained(mode) THEN Keeping(ix[key], Node \ {el}) ELSE ix[key]]

(***************************************************************************)
(* The elements of the subtrees at the nodes of roots, and those of them   *)
(* that have a key.                                                        *)
(***************************************************************************)
Subtrees(k, roots) == FlattenSeq([j \in DOMAIN roots |-> Preorder(k, roots[j])])

With(at, key, els) == {el \in els : key \in KeysOf(at, el)}

\* Mutant: only the roots of the subtrees leave the lists.
DropRoots(k, at, ix, gone) ==
  [key \in Key |-> IF key \notin Maintained(mode) THEN ix[key]
                   ELSE Keeping(ix[key], Node \ With(at, key, ToSet(gone)))]

(***************************************************************************)
(* index_subtree_detached for each of the roots in gone, whose subtrees k  *)
(* holds; index_subtree_attached for the roots in xs.                      *)
(***************************************************************************)
DropSubtrees(k, at, ix, gone) ==
  LET els == ToSet(Subtrees(k, gone))
  IN  [key \in Key |-> IF key \notin Maintained(mode) THEN ix[key]
                       ELSE Keeping(ix[key], Node \ With(at, key, els))]

ListSubtrees(k, at, ix, xs) ==
  LET els == Subtrees(k, Keeping(xs, {x \in ToSet(xs) : InDocument(k, x)}))
  IN  [key \in Key |-> IF key \notin Maintained(mode) THEN {ix[key]}
                       ELSE Entered(k, ix[key], Keeping(els, With(at, key, ToSet(els))))]

-----------------------------------------------------------------------------
\* No list of an index that is off holds anything, and none is touched.
Init ==
  /\ kids = NoKids
  /\ live = {Root}
  /\ attrs = [n \in Element |-> {}]
  /\ defined = FALSE
  /\ mode = "Off"
  /\ index = EmptyLists

(***************************************************************************)
(* The chokepoints, as the mutation API drives them: the trees of gone are *)
(* detached, and those of xs linked, which makes the tree k.               *)
(***************************************************************************)
Relink(k, at, gone, xs) ==
  /\ kids' = k
  /\ attrs' = at
  /\ index' \in Outcomes(ListSubtrees(k, at, DropSubtrees(kids, attrs, index, gone), xs))
  /\ UNCHANGED <<defined, mode>>

\* create_element.
CreateElement(n) ==
  /\ n \in Element \ live
  /\ live' = live \cup {n}
  /\ UNCHANGED <<kids, attrs, defined, mode, index>>

(***************************************************************************)
(* append_child and insert_before of an element that is not yet where it   *)
(* is sent: pre_insert leaves any other alone.                             *)
(***************************************************************************)
Insertable(p, n, ref) ==
  /\ {p, n} \subseteq live \cap Element /\ ~ Inside(kids, n, p)
  /\ ref # n /\ (ref = Null \/ ChildOf(kids, ref, p))
  /\ PutBefore(Without(kids, {n})[p], ref, <<n>>) # kids[p]

\* Mutant: what is inserted stays where it was.
InsertBeforeCopying(p, n, ref) ==
  /\ Insertable(p, n, ref)
  /\ Relink([kids EXCEPT ![p] = PutBefore(@, ref, <<n>>)], attrs, <<n>>, <<n>>)
  /\ UNCHANGED live

InsertBefore(p, n, ref) ==
  /\ Insertable(p, n, ref)
  /\ LET k == Without(kids, {n})
     IN  Relink([k EXCEPT ![p] = PutBefore(@, ref, <<n>>)], attrs, <<n>>, <<n>>)
  /\ UNCHANGED live

RemoveChild(c) ==
  /\ Owner(kids, c) # Null
  /\ Relink(Without(kids, {c}), attrs, <<c>>, <<>>)
  /\ UNCHANGED live

ReplaceChild(c, n) ==
  LET p == Owner(kids, c)
  IN  /\ p # Null /\ n \in live \cap Element
      /\ n # c /\ ~ Inside(kids, n, p)
      /\ Relink(Without([Without(kids, {n}) EXCEPT ![p] = PutBefore(@, c, <<n>>)], {c}),
                attrs, <<c, n>>, <<n>>)
      /\ UNCHANGED live

(***************************************************************************)
(* Markup brings new elements xs with any attributes.                      *)
(***************************************************************************)
Chains == {xs \in UNION {[1 .. len -> Element] : len \in 0 .. MaxFresh} :
             IsInjective(xs) /\ ToSet(xs) \cap live = {}}

WithParsed(xs) ==
  {[n \in Element |-> IF n \in ToSet(xs) THEN new[n] ELSE attrs[n]] :
     new \in [ToSet(xs) -> Attributes]}

\* set_inner_html, and load_html when p is the document.
ReplaceChildren(p, xs, at) ==
  /\ p \in live /\ (p = Root => Len(xs) = 1)
  /\ live' = live \cup ToSet(xs)
  /\ Relink([kids EXCEPT ![p] = xs], at, kids[p], xs)

\* set_outer_html.
ReplaceInParent(c, xs, at) ==
  /\ Owner(kids, c) # Null
  /\ live' = live \cup ToSet(xs)
  /\ LET p == Owner(kids, c)
     IN  Relink(Without([kids EXCEPT ![p] = PutBefore(@, c, xs)], {c}), at, <<c>>, xs)

(***************************************************************************)
(* set_attribute and remove_attribute of the id (family is IdKey) or of    *)
(* the class: the old tokens are dropped, then the new ones listed.        *)
(***************************************************************************)
WriteAttribute(el, family, new) ==
  /\ el \in live \cap Element
  /\ LET at == [attrs EXCEPT ![el] = (@ \ family) \cup new]
         ix == UnlistedUnder(index, el, attrs[el] \cap family)
     IN  /\ at[el] \in Attributes
         /\ attrs' = at
         /\ IF InDocument(kids, el) THEN index' \in Outcomes(ListedUnder(kids, ix, el, new))
            ELSE index' = ix
  /\ UNCHANGED <<kids, live, defined, mode>>

\* k with new in the place of old, a child of p, and its children under new.
RenamedIn(k, p, old, new) ==
  [n \in Node |->
     CASE n = new -> k[old]
       [] n = old -> <<>>
       [] n = p -> [i \in DOMAIN k[p] |-> IF k[p][i] = old THEN new ELSE k[p][i]]
       [] OTHER -> k[n]]

(***************************************************************************)
(* define_custom_element replaces each element of the name in the          *)
(* document, in document order.  The replacement takes the attributes and  *)
(* the children; it alone is listed (index_element_attached), as the       *)
(* children's entries never left.                                          *)
(***************************************************************************)
Upgraded(s, old, new) ==
  LET k == RenamedIn(s.kids, Owner(s.kids, old), old, new)
      at == [s.attrs EXCEPT ![new] = s.attrs[old]]
  IN  {[kids |-> k, attrs |-> at, index |-> i] :
         i \in Outcomes(ListedUnder(k, UnlistedUnder(s.index, old, KeysOf(s.attrs, old)),
                                   new, KeysOf(at, new)))}

\* What s may become when each of old is replaced, in turn, by its fresh one.
Upgrades(s, old, fresh) ==
  LET after[n \in 0 .. Len(old)] ==
        IF n = 0 THEN {s} ELSE UNION {Upgraded(r, old[n], fresh[n]) : r \in after[n - 1]}
  IN  after[Len(old)]

Define(fresh) ==
  LET old == Keeping(Below(kids, Root), {n \in Element : Tag[n] = Defined})
  IN  /\ ~ defined /\ defined' = TRUE
      /\ Len(fresh) = Len(old)
      /\ \A n \in ToSet(fresh) : Tag[n] = Defined
      /\ live' = live \cup ToSet(fresh)
      /\ \E s \in Upgrades([kids |-> kids, attrs |-> attrs, index |-> index], old, fresh) :
           kids' = s.kids /\ attrs' = s.attrs /\ index' = s.index
      /\ UNCHANGED mode

(***************************************************************************)
(* build_full_query_index and build_id_query_index: one traversal.         *)
(***************************************************************************)
Built(m) ==
  [key \in Key |-> IF key \notin Maintained(m) THEN <<>>
                   ELSE Keeping(Below(kids, Root), With(attrs, key, Element))]

\* ensure_id_query_index_enabled: a document's first plain id read.
EnsureIdIndex ==
  /\ mode = "Off"
  /\ mode' = "IdOnly" /\ index' = Built("IdOnly")
  /\ UNCHANGED <<kids, live, attrs, defined>>

SetEnabled(enabled) ==
  /\ IF enabled THEN mode # "Full" ELSE mode # "Off"
  /\ mode' = (IF enabled THEN "Full" ELSE "Off")
  /\ index' = IF enabled THEN Built("Full") ELSE EmptyLists
  /\ UNCHANGED <<kids, live, attrs, defined>>

-----------------------------------------------------------------------------
(***************************************************************************)
(* Reads.  A traversal meets the elements below the scope in order.        *)
(***************************************************************************)
Traversed(scope, keys) ==
  Keeping(Below(kids, scope), {el \in Element : keys \subseteq KeysOf(attrs, el)})

InScope(s, scope) == Keeping(s, ToSet(Below(kids, scope)))

\* Mutant: detached scopes are served from the document's lists.
UsesIndexAlways(scope) == mode = "Full"

\* scope_uses_document_index.
UsesIndex(scope) == mode = "Full" /\ InDocument(kids, scope)

(***************************************************************************)
(* get_elements_by_tag_name (one key) and get_elements_by_class_name       *)
(* (class tokens, from a shortest of their lists).                         *)
(***************************************************************************)
GetElements(scope, keys) ==
  IF ~ UsesIndex(scope) THEN {Traversed(scope, keys)}
  ELSE {Keeping(InScope(index[key], scope),
                {el \in Element : \A other \in keys : el \in ToSet(index[other])}) :
          key \in {q \in keys : \A other \in keys : Len(index[q]) <= Len(index[other])}}

\* count_elements_by_tag_name: of the document, the length of the list.
CountElements(scope, key) ==
  IF ~ UsesIndex(scope) THEN Len(Traversed(scope, {key}))
  ELSE IF scope = Root THEN Len(index[key]) ELSE Len(InScope(index[key], scope))

\* Mutant: the head of the list is taken for the first in document order.
IndexedHead(id) == IF index[id] = <<>> THEN Null ELSE Head(index[id])

(***************************************************************************)
(* get_element_by_id: of the listed elements below the document, one that  *)
(* no other precedes.                                                      *)
(***************************************************************************)
IndexedById(id) ==
  LET listed == InScope(index[id], Root)
      first[n \in 0 .. Len(listed)] ==
        IF n = 0 THEN Null
        ELSE LET so == first[n - 1]
             IN  IF so = Null \/ Precedes(kids, listed[n], so) THEN listed[n] ELSE so
  IN  first[Len(listed)]

GetElementById(id) ==
  IF mode # "Off" THEN IndexedById(id)
  ELSE LET all == Traversed(Root, {id}) IN IF all = <<>> THEN Null ELSE Head(all)

-----------------------------------------------------------------------------
Next ==
  \/ \E n \in Node : CreateElement(n)
  \/ \E p, n \in Node, ref \in Node \cup {Null} : InsertBefore(p, n, ref)
  \/ \E c \in Node : RemoveChild(c)
  \/ \E c, n \in Node : ReplaceChild(c, n)
  \/ \E p \in Node, xs \in Chains : \E at \in WithParsed(xs) : ReplaceChildren(p, xs, at)
  \/ \E c \in Node, xs \in Chains : \E at \in WithParsed(xs) : ReplaceInParent(c, xs, at)
  \/ \E el \in Element, new \in SUBSET IdKey : WriteAttribute(el, IdKey, new)
  \/ \E el \in Element, new \in SUBSET ClassKey : WriteAttribute(el, ClassKey, new)
  \/ \E fresh \in Chains : Define(fresh)
  \/ EnsureIdIndex
  \/ \E enabled \in BOOLEAN : SetEnabled(enabled)

Spec == Init /\ [][Next]_vars

-----------------------------------------------------------------------------
\* Every variable holds a value of its kind; an element is a child at most once.
TypeOK ==
  /\ kids \in [Node -> Seq(live \cap Element)]
  /\ \A p, q \in Node : /\ IsInjective(kids[p])
                        /\ p # q => ToSet(kids[p]) \cap ToSet(kids[q]) = {}
  /\ live \subseteq Node /\ Root \in live
  /\ attrs \in [Element -> Attributes]
  /\ defined \in BOOLEAN
  /\ mode \in {"Off", "IdOnly", "Full"}
  /\ index \in [Key -> Seq(live \cap Element)]

(***************************************************************************)
(* After any history of moves, replacements, attribute writes, upgrades    *)
(* and mode changes, each list the mode maintains holds exactly the        *)
(* elements of the document with its key, each once, and the others are    *)
(* empty: nothing stale, nothing lost.                                     *)
(***************************************************************************)
IndexExact ==
  LET present == ToSet(Below(kids, Root))
  IN  \A key \in Key :
        /\ IsInjective(index[key])
        /\ ToSet(index[key]) = {el \in present : key \in KeysOf(attrs, el) \cap Maintained(mode)}

(***************************************************************************)
(* A live collection finds the elements a traversal of its scope finds,    *)
(* each once, whatever index is on and wherever its scope is; its length   *)
(* is their number.                                                        *)
(***************************************************************************)
SameElements ==
  \A scope \in live :
    /\ \A keys \in {{key} : key \in TagKey \cup {AnyTag}} \cup ((SUBSET ClassKey) \ {{}}) :
         \A found \in GetElements(scope, keys) :
           IsInjective(found) /\ ToSet(found) = ToSet(Traversed(scope, keys))
    /\ \A key \in TagKey \cup {AnyTag} :
         CountElements(scope, key) = Len(Traversed(scope, {key}))

(***************************************************************************)
(* getElementById answers the first element in document order that has     *)
(* the id, in every mode, even from a list whose order is wrong.           *)
(***************************************************************************)
FirstById ==
  \A id \in IdKey : LET all == Traversed(Root, {id})
                    IN  GetElementById(id) = IF all = <<>> THEN Null ELSE Head(all)

InOrder(k, ix) ==
  LET order == Preorder(k, Root)
  IN  \A key \in Key : \A i, j \in DOMAIN ix[key] :
        i < j => Position(order, ix[key][i]) < Position(order, ix[key][j])

(***************************************************************************)
(* Moving, removing and replacing elements keeps lists in document order,  *)
(* wherever the elements go and whatever they hold.                        *)
(***************************************************************************)
MovesKeepOrder ==
  [][InOrder(kids, index) /\ kids' # kids /\ defined' = defined
     => InOrder(kids', index')]_vars

(***************************************************************************)
(* selectors/live.rs:32-34 "The maintained and traversal paths therefore   *)
(* produce byte-for-byte identical results".                               *)
(***************************************************************************)
IdenticalResults ==
  \A scope \in live :
    \A keys \in {{key} : key \in TagKey \cup {AnyTag}} \cup ((SUBSET ClassKey) \ {{}}) :
      GetElements(scope, keys) = {Traversed(scope, keys)}
=============================================================================
