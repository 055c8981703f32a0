----------------------------- MODULE Navigation -----------------------------
(***************************************************************************)
(* Walking the tree through the facade: the navigation getters of          *)
(* src/js/facade/extensions/node.js, which answer from memos that one      *)
(* native read may fill for many nodes at once, and the reserve of element *)
(* tokens createElement draws on.                                          *)
(*                                                                         *)
(* Nodes are 1 .. Size, 1 the root of the document.  Every write to the    *)
(* tree moves the structural epoch; a memo counts only at the epoch it was *)
(* made for.                                                               *)
(***************************************************************************)
EXTENDS Integers, Sequences, SequencesExt, FiniteSetsExt, TLC

CONSTANTS Starts,         \* [kids, binding, epoch]: the children of every node in order, what
                          \* the native build offers, and the epoch the behaviour starts at
          TextNodes,      \* the nodes that cannot have children
          SnapshotLimit,  \* nodes in one preorder snapshot (65535)
          ChunkSize,      \* nodes in one sibling chunk (32)
          MaxEpoch,       \* the epoch that is reached before a live one repeats
          MaxNavOps,      \* bound on the calls of a behaviour
          MaxTreeWrites,  \* and on those that write the tree
          TokenBatchSize, \* ELEMENT_TOKEN_BATCH_SIZE
          MaxCreated      \* bound on the elements created

VARIABLES nav,            \* the tree and the memos of its wrappers
          pool            \* the reserve of tokens for one element name

Unset == -1
Null == 0
Destroyed == -2147483647 - 1   \* i32::MIN
Disabled == -1
NoEpoch == -2
None == {Null}            \* no set of partition roots at all
Fields == {"fc", "lc", "ns", "ps", "pn"}
FreshMemo(epoch) == [e |-> epoch, fc |-> Unset, lc |-> Unset, ns |-> Unset, ps |-> Unset, pn |-> Unset]

NavInit ==
  \E start \in Starts :
    nav = start @@ [gone |-> {}, memo |-> [n \in DOMAIN start.kids |-> FreshMemo(NoEpoch)],
                    valid |-> [n \in DOMAIN start.kids |-> IF n = 1 THEN start.epoch ELSE NoEpoch],
                    attempt |-> NoEpoch, partition |-> None, ops |-> 0, writes |-> 0]

NavNodes == DOMAIN nav.kids
Parents(n) == {p \in NavNodes : n \in Range(nav.kids[p])}
ParentOf(n) == IF Parents(n) = {} THEN Null ELSE CHOOSE p \in Parents(n) : TRUE
Beside(n, step) ==
  IF Parents(n) = {} THEN Null
  ELSE LET row == nav.kids[ParentOf(n)] i == CHOOSE i \in DOMAIN row : row[i] = n
       IN IF i + step \in DOMAIN row THEN row[i + step] ELSE Null
\* What Core answers.
Relation(n) == [fc |-> IF nav.kids[n] = <<>> THEN Null ELSE Head(nav.kids[n]),
                lc |-> IF nav.kids[n] = <<>> THEN Null ELSE Last(nav.kids[n]),
                ns |-> Beside(n, 1), ps |-> Beside(n, -1), pn |-> ParentOf(n)]

\* The program reads nodes it has a wrapper of.  The native read validates the
\* handle: a node that was adopted away, or any node of a destroyed document,
\* throws and nothing is remembered.
Wrapped(n) == nav.valid[n] # NoEpoch
Answers(n) == nav.ops < MaxNavOps /\ Wrapped(n) /\ nav.epoch # Destroyed /\ n \notin nav.gone
Caching == nav.epoch # Disabled
Fresh(n) == nav.memo[n].e = nav.epoch
Missed(n, field) == ~Fresh(n) \/ nav.memo[n][field] = Unset

-----------------------------------------------------------------------------
(* Memos *)

MemoFor(r, n) == IF r.memo[n].e = r.epoch THEN r ELSE [r EXCEPT !.memo[n] = FreshMemo(r.epoch)]
Remember(r, n, field, value) == [MemoFor(r, n) EXCEPT !.memo[n][field] = value]
\* The stamp of a node Core just answered for.  A wrapper found by its handle
\* keeps an older stamp in the code: it is then asked for once more, not less.
Valid(r, n) == IF n = Null THEN r ELSE [r EXCEPT !.valid[n] = r.epoch]
Did(r) == nav' = [r EXCEPT !.ops = @ + 1]

\* A leaf whose wrapper is proven live needs no native read to have no child.
Childless(n) == nav.valid[n] = nav.epoch /\ n \in TextNodes

\* navRead: the relation is remembered both ways.
NavRead(n, field) ==
  LET result == Relation(n)[field]
      proven == IF field \in {"fc", "lc"} /\ Childless(n) THEN nav ELSE Valid(Valid(nav, n), result)
      live == Remember(proven, n, field, result)
      shared(r) == IF nav.memo[n].pn # Unset /\ Fresh(n) THEN Remember(r, result, "pn", nav.memo[n].pn) ELSE r
  IN CASE result = Null \/ field = "pn" -> live
       [] result # Null /\ field = "fc" -> Remember(Remember(live, result, "pn", n), result, "ps", Null)
       [] result # Null /\ field = "lc" -> Remember(Remember(live, result, "pn", n), result, "ns", Null)
       [] result # Null /\ field = "ns" -> shared(Remember(live, result, "ps", n))
       [] result # Null /\ field = "ps" -> shared(Remember(live, result, "ns", n))
Read(n, field) ==
  /\ Answers(n) /\ Caching /\ Missed(n, field)
  /\ Did(NavRead(n, field))

-----------------------------------------------------------------------------
(* firstChild: a preorder snapshot of what is below *)

RECURSIVE Preorder(_, _)
Preorder(n, depth) == <<[node |-> n, depth |-> depth]>> \o FlattenSeq([i \in DOMAIN nav.kids[n] |-> Preorder(nav.kids[n][i], depth + 1)])
\* preorder_token_snapshot: the first nodes, and the depth of the next one.
Chunk(n) == LET all == Preorder(n, 0) IN
            [flat |-> SubSeq(all, 1, Min({SnapshotLimit, Len(all)})),
             next |-> IF Len(all) > SnapshotLimit THEN all[SnapshotLimit + 1].depth ELSE Null]
\* An older build gives the whole subtree or nothing.
Snapshot(n) == IF nav.binding = "chunks" \/ Chunk(n).next = Null THEN Chunk(n) ELSE [flat |-> <<>>, next |-> Null]

\* hydrateSubtreeSnapshot: depths tell parents, so the relations within the
\* prefix are known; what ends at its edge is known only if the edge is proven.
At(flat, d) == Max({i \in DOMAIN flat : flat[i].depth = d})          \* the open ancestor at a depth
ParentAt(flat, i) == Max({j \in 1..(i - 1) : flat[j].depth = flat[i].depth - 1})
KidsAt(flat, i) == SelectSeq([j \in DOMAIN flat |-> j], LAMBDA j : j > 1 /\ ParentAt(flat, j) = i)
Decoded(r, flat, i) ==
  LET kids == KidsAt(flat, i)
      row == KidsAt(flat, ParentAt(flat, i))
      place == CHOOSE k \in DOMAIN row : row[k] = i
      below == [fc |-> IF kids = <<>> THEN Null ELSE flat[Head(kids)].node, lc |-> IF kids = <<>> THEN Null ELSE flat[Last(kids)].node]
  IN IF i = 1 THEN below @@ r.memo[flat[1].node]
     ELSE below @@ [e |-> nav.epoch, pn |-> flat[ParentAt(flat, i)].node,
                    ps |-> IF place = 1 THEN Null ELSE flat[row[place - 1]].node,
                    ns |-> IF place = Len(row) THEN Null ELSE flat[row[place + 1]].node]
Linked(r, flat) ==
  FoldLeftDomain(LAMBDA t, i : Valid([t EXCEPT !.memo[flat[i].node] = Decoded(t, flat, i)], flat[i].node),
                 MemoFor(r, flat[1].node), flat)
Opened(r, flat, d) ==
  LET ancestor == flat[At(flat, d)].node last == r.memo[ancestor].lc
      reopened == [r EXCEPT !.memo[ancestor].lc = Unset]
  IN IF last = Null THEN [reopened EXCEPT !.memo[ancestor].fc = Unset] ELSE [reopened EXCEPT !.memo[last].ns = Unset]
Hydrated(r, s) == FoldLeft(LAMBDA t, d : Opened(t, s.flat, d), Linked(r, s.flat), [k \in 1..s.next |-> k - 1])
PartitionRoots(r, s) ==
  IF s.next = Null THEN r
  ELSE [r EXCEPT !.partition = (IF @ = None THEN {} ELSE @) \cup {s.flat[At(s.flat, d)].node : d \in 0..(s.next - 1)}]

\* Two children, and whether there are more (first_child_pair).
Row(r, parent, first, row, end) ==
  LET linked == FoldLeftDomain(
        LAMBDA t, i : LET before == IF i = 1 THEN first ELSE row[i - 1]
                          known == Remember(Remember(Valid(t, row[i]), row[i], "pn", parent), row[i], "ps", before)
                      IN IF before = Null THEN known ELSE Remember(known, before, "ns", row[i]), r, row)
      last == IF row = <<>> THEN first ELSE Last(row)
  IN IF ~end THEN linked
     ELSE LET closed == Remember(linked, parent, "lc", last) IN IF last = Null THEN closed ELSE Remember(closed, last, "ns", Null)
FirstChildPair(r, n) ==
  LET pair == SubSeq(r.kids[n], 1, Min({2, Len(r.kids[n])}))
      end == Len(r.kids[n]) <= 2
  IN Row(Remember(Valid(r, n), n, "fc", IF pair = <<>> THEN Null ELSE Head(pair)), n, Null, pair, end)

\* One snapshot is tried per epoch, then one at each child of a node whose
\* children a snapshot broke off at.
PrimarySnapshot == nav.attempt # nav.epoch
PartitionChild(n) ==
  /\ ~PrimarySnapshot /\ nav.partition # None
  /\ n \in nav.partition \/ (Fresh(n) /\ nav.memo[n].pn \in nav.partition)
FirstChild(n) ==
  LET tried == IF PrimarySnapshot THEN [nav EXCEPT !.attempt = nav.epoch, !.partition = None] ELSE nav
      s == Snapshot(n)
  IN /\ Answers(n) /\ Caching /\ Missed(n, "fc")
     /\ Did(CASE Childless(n) \/ nav.binding = "plain" -> NavRead(n, "fc")
              [] ~Childless(n) /\ nav.binding = "pairs" -> FirstChildPair(nav, n)
              [] ~Childless(n) /\ nav.binding \in {"chunks", "complete"} ->
                   IF ~(PrimarySnapshot \/ PartitionChild(n)) THEN FirstChildPair(nav, n)
                   ELSE IF s.flat # <<>> THEN PartitionRoots(Hydrated(tried, s), s)
                   ELSE FirstChildPair(IF PrimarySnapshot THEN [tried EXCEPT !.partition = {n}] ELSE tried, n))

-----------------------------------------------------------------------------
(* nextSibling: a chunk, once two links of the row have been followed *)

Following(n) == /\ Fresh(n) /\ nav.memo[n].ps \notin {Unset, Null} /\ nav.memo[n].pn \notin {Unset, Null}
                /\ Fresh(nav.memo[n].ps) /\ nav.memo[nav.memo[n].ps].ps \notin {Unset, Null}
Later(n) == LET row == nav.kids[ParentOf(n)] IN SubSeq(row, 1 + CHOOSE i \in DOMAIN row : row[i] = n, Len(row))
NextSibling(n) ==
  /\ Answers(n) /\ Caching /\ Missed(n, "ns")
  /\ Did(IF ~Following(n) \/ nav.binding = "plain" THEN NavRead(n, "ns")
         ELSE Row(Valid(nav, n), nav.memo[n].pn, n, SubSeq(Later(n), 1, Min({ChunkSize, Len(Later(n))})), Len(Later(n)) <= ChunkSize))

\* nodeType, nodeName, tagName: the stamp of a wrapper proven live, or a native
\* read that proves it.
ReadType(n) == Answers(n) /\ Caching /\ nav.valid[n] # nav.epoch /\ Did(Valid(nav, n))

-----------------------------------------------------------------------------
(* Writes: Core's, and the epoch they publish *)

\* advance_epoch stops at the last value for ever.
Advanced(epoch) == IF epoch \in {Disabled, MaxEpoch} THEN Disabled ELSE epoch + 1
Below(n) == LET all == Preorder(n, 0) IN {all[i].node : i \in DOMAIN all}
Unlinked(n) == [p \in NavNodes |-> SelectSeq(nav.kids[p], LAMBDA k : k # n)]
TreeWrite(r) == nav.ops < MaxNavOps /\ nav.writes < MaxTreeWrites /\ nav.epoch # Destroyed
                /\ Did([r EXCEPT !.epoch = Advanced(@), !.writes = @ + 1])
RemoveNode(n) == ParentOf(n) # Null /\ TreeWrite([nav EXCEPT !.kids = Unlinked(n)])
AppendNode(n, p) == n \notin nav.gone /\ p \notin nav.gone \cup TextNodes /\ p \notin Below(n)
                    /\ TreeWrite([nav EXCEPT !.kids = [Unlinked(n) EXCEPT ![p] = Append(@, n)]])
\* adoptNode: the subtree leaves for another document, its handles go stale.
AdoptAway(n) == n \notin nav.gone /\ TreeWrite([nav EXCEPT !.kids = Unlinked(n), !.gone = @ \cup Below(n)])
DestroyDocument == nav.epoch # Destroyed /\ nav' = [nav EXCEPT !.epoch = Destroyed]

NavMoves ==
  \/ \E n \in NavNodes, field \in {"pn", "lc", "ps"} : Read(n, field)
  \/ \E n \in NavNodes : FirstChild(n)
  \/ \E n \in NavNodes : NextSibling(n)
  \/ \E n \in NavNodes : ReadType(n)
  \/ \E n \in NavNodes : RemoveNode(n)
  \/ \E n, p \in NavNodes : AppendNode(n, p)
  \/ \E n \in NavNodes : AdoptAway(n)
  \/ DestroyDocument

\* What a memo that counts remembers is what Core would answer now: whatever
\* was read before, in bulk or one by one, and where a bulk read broke off.
MemosExact ==
  \A n \in NavNodes : Fresh(n) /\ Caching => \A f \in Fields : nav.memo[n][f] \in {Unset, Relation(n)[f]}
\* A node that went to another document, or died with its own, is never
\* answered for without asking Core.
StaleAsked ==
  \A n \in NavNodes : (n \in nav.gone \/ nav.epoch = Destroyed) => nav.valid[n] # nav.epoch /\ ~Fresh(n)

-----------------------------------------------------------------------------
(* createElement: tokens are drawn from a reserve that grows with use *)

Offers == {{}, {"batch"}, {"range"}, {"range", "batch"}, {"ffi", "range"}, {"ffi", "range", "batch"}}
PoolInit == \E offered \in Offers :
  pool = [offered |-> offered, open |-> FALSE, tokens |-> <<>>, next |-> 8, minted |-> 0, handed |-> <<>>, alive |-> TRUE]

Creating == pool.alive /\ Len(pool.handed) < MaxCreated
Handed(r, token) == pool' = [r EXCEPT !.handed = Append(@, token)]
One(r) == Handed([r EXCEPT !.minted = @ + 1], r.minted + 1)
Ramp(next) == Min({next * 4, TokenBatchSize})
Refilled(size) == [pool EXCEPT !.tokens = [k \in 1..size |-> pool.minted + k], !.minted = @ + size, !.next = Ramp(size)]
Drawn(r) == Handed([r EXCEPT !.tokens = Front(@)], Last(r.tokens))
\* The first element of a name only opens its reserve.
FirstOfName == Creating /\ ~pool.open /\ One([pool EXCEPT !.open = pool.offered # {}])
FromReserve == Creating /\ pool.open /\ pool.tokens # <<>> /\ Drawn(pool)
\* The providers are asked in order; the FFI and the array batch may answer
\* with nothing, and the request has still grown.
Refill == \E refused \in BOOLEAN :
  /\ Creating /\ pool.open /\ pool.tokens = <<>>
  /\ refused => "ffi" \in pool.offered
  /\ Drawn(Refilled(IF refused THEN Ramp(pool.next) ELSE pool.next))
BatchRefused == /\ Creating /\ pool.open /\ pool.tokens = <<>> /\ pool.offered = {"batch"}
                /\ One([pool EXCEPT !.next = Ramp(@)])
PoolDestroyed == pool.alive /\ pool' = [pool EXCEPT !.alive = FALSE]
PoolMoves == FirstOfName \/ FromReserve \/ Refill \/ BatchRefused \/ PoolDestroyed

\* No two elements share a token, every one is a node that was minted, and a
\* name never keeps more in reserve than a batch.
TokensOnce ==
  /\ \A i, j \in DOMAIN pool.handed : pool.handed[i] = pool.handed[j] => i = j
  /\ \A i \in DOMAIN pool.handed : pool.handed[i] \in 1..pool.minted
  /\ Len(pool.tokens) < TokenBatchSize /\ ToSet(pool.tokens) \cap ToSet(pool.handed) = {}
=============================================================================
