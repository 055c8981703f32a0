----------------------------- MODULE ChildNodes -----------------------------
(***************************************************************************)
(* What src/js/facade/extensions/hdunit-nodes.js builds on insertBefore,   *)
(* appendChild and removeChild: the variadic ParentNode and ChildNode      *)
(* methods, normalize, splitText and wholeText, the element-only reads,    *)
(* and the rows of a table section.  One parent's child list is modelled,  *)
(* as the sequence of its children; the three primitives are DomTree's.    *)
(***************************************************************************)
EXTENDS Integers, Sequences, SequencesExt, FiniteSetsExt

CONSTANTS MaxMinted,  \* bound on the nodes created
          MaxKids     \* bound on the length of the child list

VARIABLE family       \* the child list, and how many nodes were created

Element == "element"
Row == "tr"
Text == "text"
Node(id, kind, data) == [id |-> id, kind |-> kind, data |-> data]
Ancestor == Node(0, Element, <<>>)   \* an argument that contains the parent
NoNode == Node(-1, Element, <<>>)

FamilyInit == family = [kids |-> <<>>, minted |-> 0]
Kids == family.kids
Fresh(kind, data) == Node(family.minted + 1, kind, data)

\* The primitives, on the child list.
Without(s, n) == SelectSeq(s, LAMBDA m : m # n)
AppendChild(s, n) == Append(Without(s, n), n)
InsertBefore(s, n, ref) ==
  IF n = ref THEN s
  ELSE LET rest == Without(s, n)
           i == CHOOSE j \in DOMAIN rest : rest[j] = ref
       IN SubSeq(rest, 1, i - 1) \o <<n>> \o SubSeq(rest, i, Len(rest))

\* Mutant: each argument goes in front of the one before it.
InsertAllReversed(s, nodes, ref) ==
  FoldLeft(LAMBDA r, n : IF r # <<>> THEN InsertBefore(r, n, r[1]) ELSE <<n>>, s, nodes)

\* The loop of every variadic method: one insertion after another before a
\* reference read at the start; an argument that cannot be inserted throws,
\* with the ones before it in place.
InsertAll(s, nodes, ref) ==
  LET failing == {i \in DOMAIN nodes : nodes[i] = Ancestor}
      inserted == IF failing = {} THEN nodes ELSE SubSeq(nodes, 1, Min(failing) - 1)
  IN FoldLeft(LAMBDA r, n : IF ref = NoNode THEN AppendChild(r, n) ELSE InsertBefore(r, n, ref), s, inserted)

IndexIn(s, n) == CHOOSE i \in DOMAIN s : s[i] = n
At(s, i) == IF i \in DOMAIN s THEN s[i] ELSE NoNode
NextSibling(n) == At(Kids, IndexIn(Kids, n) + 1)

AppendAll(nodes) == InsertAll(Kids, nodes, NoNode)
RemoveThis(n) == Without(Kids, n)
Prepend(nodes) == InsertAll(Kids, nodes, At(Kids, 1))
ReplaceChildren(nodes) == InsertAll(<<>>, nodes, NoNode)
Before(n, nodes) == InsertAll(Kids, nodes, n)
After(n, nodes) == InsertAll(Kids, nodes, NextSibling(n))
ReplaceWith(n, nodes) == InsertAll(RemoveThis(n), nodes, NextSibling(n))

-----------------------------------------------------------------------------
(* Text *)

\* The maximal runs of text children, as intervals of the child list.
IsText(i) == Kids[i].kind = Text
Joined(lo, hi) == FoldLeft(LAMBDA d, n : d \o n.data, <<>>, SubSeq(Kids, lo, hi))
RunEnds(i) == {j \in i..Len(Kids) : \A k \in i..j : IsText(k)}
StartsRun(i) == IsText(i) /\ (i = 1 \/ ~IsText(i - 1))

\* normalize: each run gives way to one new text node, an empty one to none.
NormalizedAt(i) ==
  IF ~IsText(i) THEN <<Kids[i]>>
  ELSE IF ~StartsRun(i) \/ Joined(i, Max(RunEnds(i))) = <<>> THEN <<>>
  ELSE <<Node(family.minted + i, Text, Joined(i, Max(RunEnds(i))))>>
Normalized == FlattenSeq([i \in DOMAIN Kids |-> NormalizedAt(i)])

\* wholeText: the data of the text nodes around node i, itself included.
WholeText(s, i) ==
  LET run == {j \in DOMAIN s : \A k \in Min({i, j})..Max({i, j}) : s[k].kind = Text}
  IN FoldLeft(LAMBDA d, n : d \o n.data, <<>>, SubSeq(s, Min(run), Max(run)))

\* splitText: an offset outside the data throws.
SplitText(i, offset) ==
  LET n == Kids[i]
  IN IF offset \notin 0..Len(n.data) THEN Kids
     ELSE SubSeq(Kids, 1, i - 1) \o <<[n EXCEPT !.data = SubSeq(@, 1, offset)], Fresh(Text, SubSeq(n.data, offset + 1, Len(n.data)))>>
          \o SubSeq(Kids, i + 1, Len(Kids))

-----------------------------------------------------------------------------
(* Element-only reads and table rows *)

ElementsOf(s) == SelectSeq(s, LAMBDA n : n.kind # Text)
FirstElementChild == At(ElementsOf(Kids), 1)
LastElementChild == At(ElementsOf(Kids), Len(ElementsOf(Kids)))
ChildElementCount == Cardinality({i \in DOMAIN Kids : ~IsText(i)})
NearestElement(indices, Pick(_)) == IF indices = {} THEN NoNode ELSE Kids[Pick(indices)]
PreviousElementSibling(i) == NearestElement({j \in 1..i - 1 : ~IsText(j)}, Max)
NextElementSibling(i) == NearestElement({j \in i + 1..Len(Kids) : ~IsText(j)}, Min)

TableRows(s) == SelectSeq(s, LAMBDA n : n.kind = Row)

\* insertRow and deleteRow: an index out of range throws; -1 is the end.
InsertRow(s, n) ==
  LET rows == TableRows(s)
      row == Fresh(Row, <<>>)
  IN IF n < -1 \/ n > Len(rows) THEN s
     ELSE IF n = -1 \/ n = Len(rows) THEN AppendChild(s, row) ELSE InsertBefore(s, row, rows[n + 1])
DeleteRow(s, n) ==
  LET rows == TableRows(s)
      target == IF n = -1 THEN At(rows, Len(rows)) ELSE At(rows, n + 1)
  IN IF n < -1 \/ n >= Len(rows) THEN s ELSE Without(s, target)

-----------------------------------------------------------------------------

Arguments == {Fresh(Element, <<>>), Fresh(Text, <<"b">>), Fresh(Text, <<>>), Ancestor} \cup ToSet(Kids)
ArgumentLists == {<<>>} \cup {<<n>> : n \in Arguments} \cup {<<n, m>> : n \in Arguments, m \in ToSet(Kids) \cup {Ancestor}}

\* Every outcome of a call with the arguments `nodes`.
Calls(nodes) ==
  {AppendAll(nodes), Prepend(nodes), ReplaceChildren(nodes)}
  \cup UNION {{Before(n, nodes), After(n, nodes), ReplaceWith(n, nodes)} : n \in ToSet(Kids)}

Becomes(s) == /\ Len(s) <= MaxKids
              /\ family.minted + Len(s) < MaxMinted
              /\ family' = [kids |-> s, minted |-> Max({family.minted} \cup {n.id : n \in ToSet(s)})]
FamilyMoves ==
  \/ \E nodes \in ArgumentLists : \E s \in Calls(nodes) : Becomes(s)
  \/ \E n \in ToSet(Kids) : Becomes(RemoveThis(n))
  \/ Becomes(Normalized)
  \/ \E i \in DOMAIN Kids : IsText(i) /\ \E offset \in 0..2 : Becomes(SplitText(i, offset))
  \/ \E n \in -2..2 : Becomes(InsertRow(Kids, n)) \/ Becomes(DeleteRow(Kids, n))

-----------------------------------------------------------------------------
(* Properties *)

\* Whatever a variadic call is given, also when it throws half way, the
\* children it was not given keep their order, and none is there twice.
BystandersKeepOrder ==
  \A nodes \in ArgumentLists : \A s \in Calls(nodes) :
    LET bystanders(q) == SelectSeq(q, LAMBDA n : n \notin ToSet(nodes) /\ n \in ToSet(s))
    IN bystanders(s) = bystanders(Kids) /\ IsInjective(s)

\* The arguments come out next to one another, in their order, right in front
\* of the node the method remembered, or at the end if there was none.  If that
\* node is itself an argument it stays, and so comes out last.
ArgumentsInPlace ==
  \A nodes \in ArgumentLists : Ancestor \notin ToSet(nodes) /\ IsInjective(nodes) =>
    LET upTo(ref) == IF ref = NoNode THEN nodes ELSE Append(Without(nodes, ref), ref)
        together(s, ref, run) == IF ref = NoNode THEN IsSuffix(run, s) ELSE run \in SubSeqs(s)
    IN /\ IsPrefix(upTo(At(Kids, 1)), Prepend(nodes))
       /\ IsSuffix(nodes, AppendAll(nodes)) /\ ReplaceChildren(nodes) = nodes
       /\ \A n \in ToSet(Kids) :
            LET next == NextSibling(n)
                self == IF n \in ToSet(nodes) THEN <<>> ELSE <<n>>
            IN /\ together(Before(n, nodes), n, upTo(n))
               /\ together(After(n, nodes), next, self \o upTo(next))
               /\ together(ReplaceWith(n, nodes), next, upTo(next))

\* normalize leaves no empty and no neighbouring text, every element where it
\* was among the elements, and the text between them unchanged.
NormalizeKeepsText ==
  LET s == Normalized
      text(q) == FoldLeft(LAMBDA d, n : d \o (IF n.kind = Text THEN n.data ELSE <<"|">>), <<>>,
                          SelectSeq(q, LAMBDA n : n.kind # Text \/ n.data # <<>>))
  IN /\ \A i \in DOMAIN s : s[i].kind = Text => s[i].data # <<>> /\ (i > 1 => s[i - 1].kind # Text)
     /\ ElementsOf(s) = ElementsOf(Kids)
     /\ text(s) = text(Kids)

\* Splitting a text changes no wholeText.
SplitKeepsWhole ==
  \A i \in DOMAIN Kids : IsText(i) => \A offset \in 0..2 : WholeText(SplitText(i, offset), i) = WholeText(Kids, i)

\* The element-only reads are those of the list of element children.
ElementReadsAgree ==
  /\ ChildElementCount = Len(ElementsOf(Kids))
  /\ \A i \in DOMAIN Kids :
       LET next == NextElementSibling(i)
       IN IF next = NoNode THEN IsText(i) \/ LastElementChild = Kids[i]
          ELSE ~IsText(i) => PreviousElementSibling(IndexIn(Kids, next)) = Kids[i]

\* A row inserted at an index is the row at that index, and deleting the row
\* there leaves the section as it was.
RowsAtIndex ==
  \A n \in 0..Len(TableRows(Kids)) :
    LET s == InsertRow(Kids, n) IN TableRows(s)[n + 1] = Fresh(Row, <<>>) /\ DeleteRow(s, n) = Kids
=============================================================================
