------------------------------- MODULE Labels -------------------------------
(***************************************************************************)
(* Labels and their controls (src/js/facade/extensions/hdunit-nodes.js):   *)
(* which control a label is for, and the cache behind a control's .labels, *)
(* one scan of a tree kept while the document's tree epoch and attribute   *)
(* epoch stay what they were.                                              *)
(***************************************************************************)
EXTENDS Naturals, Sequences, SequencesExt

CONSTANTS LabelOrder,      \* the labels, in document order
          ControlOrder,    \* the controls, in document order where they share a place
          MaxLabelWrites   \* bound on the writes of a behaviour

VARIABLE labelling

Labels == {LabelOrder[i] : i \in DOMAIN LabelOrder}
Controls == {ControlOrder[i] : i \in DOMAIN ControlOrder}
NoAttr == "absent"
NoCache == [tree |-> 0, attribute |-> 0, controls |-> <<>>, indexed |-> {}]

\* A node is in the document, on its own, or (a control) inside a label.
LabellingInit ==
  labelling = [place |-> [n \in Labels \cup Controls |-> "document"], for |-> [l \in Labels |-> NoAttr],
               id |-> [c \in Controls |-> NoAttr], hidden |-> {},
               tree |-> 1, attribute |-> 1, cache |-> NoCache, writes |-> 0]

Place(n) == labelling.place[n]
RootOf(n) ==
  LET top == IF Place(n) \in Labels THEN Place(n) ELSE n
  IN IF Place(top) = "document" THEN "document" ELSE top

\* Document order: a label, the controls in it, the next label; then the
\* controls that are in no label.
Rank(n) ==
  LET place == CHOOSE i \in 1..Len(LabelOrder) + 1 :
                 \/ i <= Len(LabelOrder) /\ LabelOrder[i] \in {n, Place(n)}
                 \/ i = Len(LabelOrder) + 1 /\ n \in Controls /\ Place(n) \notin Labels
      own == IF n \in Labels THEN 0 ELSE CHOOSE i \in DOMAIN ControlOrder : ControlOrder[i] = n
  IN place * (Len(ControlOrder) + 1) + own
FirstOf(S) == CHOOSE n \in S : \A m \in S : Rank(n) <= Rank(m)
InOrder(S) == SetToSortSeq(S, LAMBDA n, m : Rank(n) < Rank(m))

IsLabelable(c) == c \notin labelling.hidden

\* labelControlOf: a `for` never falls back to a control inside, and only the
\* first element of that id counts.
LabelControlOf(l) ==
  LET for == labelling.for[l]
      named == {c \in Controls : RootOf(c) = RootOf(l) /\ labelling.id[c] = for}
      inside == {c \in Controls : Place(c) = l /\ IsLabelable(c)}
  IN CASE for = "" -> {}
       [] for \notin {"", NoAttr} -> IF named = {} THEN {} ELSE {FirstOf(named)} \ labelling.hidden
       [] for = NoAttr -> IF inside = {} THEN {} ELSE {FirstOf(inside)}

LabelsFor(c) == InOrder({l \in Labels : RootOf(l) = RootOf(c) /\ c \in LabelControlOf(l)})

-----------------------------------------------------------------------------
(* The cache *)

\* labelAssociationCache
LabelAssociationCache ==
  IF labelling.cache.tree = labelling.tree /\ labelling.cache.attribute = labelling.attribute THEN labelling.cache
  ELSE [NoCache EXCEPT !.tree = labelling.tree, !.attribute = labelling.attribute]

\* indexLabels: every control of the tree is recorded, the unlabelled ones too.
IndexLabels(cache, root) ==
  IF root \in cache.indexed THEN cache
  ELSE LET found == {c \in Controls : RootOf(c) = root}
       IN [cache EXCEPT !.indexed = @ \cup {root},
                        !.controls = [c \in DOMAIN @ \cup found |-> IF c \in found THEN LabelsFor(c) ELSE @[c]]]

\* readLabels: the document is indexed first, then the control's own tree.
ReadLabels(c) ==
  LET cache == LabelAssociationCache
      whole == IndexLabels(cache, "document")
  IN CASE c \in DOMAIN cache.controls -> cache
       [] c \notin DOMAIN cache.controls /\ c \in DOMAIN whole.controls -> whole
       [] OTHER -> IndexLabels(whole, RootOf(c))
LabelsOf(c) == IsLabelable(c) /\ labelling' = [labelling EXCEPT !.cache = ReadLabels(c)]

-----------------------------------------------------------------------------
(* Writes: to the tree, to an attribute *)

Written(r, epochs) ==
  /\ labelling.writes < MaxLabelWrites
  /\ labelling' = [r EXCEPT !.writes = @ + 1,
                            !.tree = IF "tree" \in epochs THEN @ + 1 ELSE @,
                            !.attribute = IF "attribute" \in epochs THEN @ + 1 ELSE @]
LabelsMove ==
  \/ \E n \in Labels \cup Controls :
       \E place \in {"document", "alone"} \cup (IF n \in Controls THEN Labels ELSE {}) :
         Written([labelling EXCEPT !.place[n] = place], {"tree"})
  \/ \E l \in Labels, for \in {NoAttr, "", "a"} : Written([labelling EXCEPT !.for[l] = for], {"attribute"})
  \/ \E c \in Controls, id \in {NoAttr, "a"} : Written([labelling EXCEPT !.id[c] = id], {"attribute"})
  \/ \E c \in Controls : Written([labelling EXCEPT !.hidden = (@ \ {c}) \cup ({c} \ @)], {"attribute"})
  \/ \E c \in Controls : LabelsOf(c)

\* What .labels answers for a control is what a scan of its tree finds now,
\* whatever was cached before and whoever wrote since.
LabelsFresh ==
  \A c \in Controls : IsLabelable(c) => ReadLabels(c).controls[c] = LabelsFor(c)
=============================================================================
