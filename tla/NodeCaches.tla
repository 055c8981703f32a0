----------------------------- MODULE NodeCaches -----------------------------
(***************************************************************************)
(* What the facade keeps of a node between two native reads: the id and    *)
(* class of an element (attribute-cache.js) and the counts of live         *)
(* collections (live-collections.js), of src/js/facade/extensions.         *)
(*                                                                         *)
(* Core moves one epoch when the tree changes and one when an attribute    *)
(* does; the facade compares its own copies of them.                       *)
(***************************************************************************)
EXTENDS Integers, Sequences, SequencesExt, FiniteSets

CONSTANTS SharedCountKeys,  \* MAX_SHARED_COUNT_KEYS (32)
          LastEpoch,        \* the epoch after which one would repeat
          MaxCacheOps,      \* bound on the calls of a behaviour
          MaxCacheWrites    \* and on those that write

VARIABLE cached             \* two elements of a document, and what is kept of them

Destroyed == -2147483647 - 1
Disabled == -1
NoEpoch == -2
Advanced(epoch) == IF epoch \in {Disabled, LastEpoch} THEN Disabled ELSE epoch + 1
Counts(epoch) == epoch \notin {Destroyed, Disabled}

-----------------------------------------------------------------------------
(* The two epochs.  "x" stands in the document and holds "y". *)

Elements == {"x", "y"}
Scopes == {"document", "x"}
Tag == [x |-> "p", y |-> "q"]
Unread == "unread"
Tokens == [absent |-> {}, c |-> {"c"}, cd |-> {"c", "d"}]
Values == [id |-> {"absent", "c"}, class |-> DOMAIN Tokens]
NothingKept == [tree |-> NoEpoch, attrs |-> NoEpoch, id |-> Unread, class |-> Unread]

CachesInit ==
  \E epoch \in {0, LastEpoch}, bundled \in BOOLEAN :
    cached = [parent |-> [x |-> "document", y |-> "x"], attr |-> [n \in Elements |-> [id |-> "absent", class |-> "c"]],
              tree |-> epoch, attrs |-> epoch, view |-> epoch, delivering |-> NoEpoch, gone |-> {}, bundled |-> bundled,
              kept |-> [n \in Elements |-> NothingKept], valid |-> [n \in Scopes \cup Elements |-> NoEpoch],
              shared |-> [s \in Scopes |-> [tag |-> <<>>, class |-> <<>>]], lists |-> <<>>, ops |-> 0, writes |-> 0]

Alive == cached.tree # Destroyed
Below(scope) == {n \in Elements : cached.parent[n] = scope \/ (cached.parent[n] = "x" /\ cached.parent["x"] = scope)}
Matches(n, kind, key) == IF kind = "tag" THEN Tag[n] = key ELSE key \in Tokens[cached.attr[n].class]
CountNow(scope, kind, key) == Cardinality({n \in Below(scope) : Matches(n, kind, key)})
May == cached.ops < MaxCacheOps
Did(r) == cached' = [r EXCEPT !.ops = @ + 1]

\* Core's own writes publish before they return.  destroy() leaves the last
\* value any view will have.
Writes(r) == May /\ Alive /\ cached.writes < MaxCacheWrites /\ Did([r EXCEPT !.writes = @ + 1])
TreeWrite(r) == Writes([r EXCEPT !.tree = Advanced(@)])
MoveTo(place) ==
  /\ "y" \notin cached.gone /\ cached.parent["y"] # place
  /\ place = "x" => "x" \notin cached.gone
  /\ TreeWrite([cached EXCEPT !.parent["y"] = place])
AdoptAway(n) ==
  /\ n \notin cached.gone
  /\ TreeWrite([cached EXCEPT !.parent[n] = "elsewhere", !.gone = @ \cup {n} \cup Below(n)])
DestroyDocument == /\ Alive
                   /\ cached' = [cached EXCEPT !.tree = Destroyed, !.attrs = Destroyed, !.view = Destroyed]

\* setAttributeTokenLocal: the epoch moves in Core, and the facade stores what
\* the call returns.  With an observer waiting, the epochs are published first
\* and its scheduler runs inside the call, where anything may be called; what
\* is returned then is the epoch as it has become.
Written(n, name, value) == [cached EXCEPT !.attr[n][name] = value, !.attrs = Advanced(@)]
Published(r) == [r EXCEPT !.view = r.attrs]
SetAttribute(n, name, value) == n \notin cached.gone /\ Writes(Published(Written(n, name, value)))
SetAttributeObserved(n, name, value) ==
  /\ n \notin cached.gone /\ cached.delivering = NoEpoch
  /\ LET r == Published(Written(n, name, value)) IN Writes([r EXCEPT !.delivering = r.attrs])
Returned == cached.attrs
CallReturns == cached.delivering # NoEpoch /\ cached' = [cached EXCEPT !.delivering = NoEpoch, !.view = Returned]

-----------------------------------------------------------------------------
(* readCachedAttribute: id and className *)

AttributeHit(n, name) ==
  /\ Counts(cached.view) /\ Counts(cached.tree)
  /\ cached.kept[n].attrs = cached.view /\ cached.kept[n].tree = cached.tree
  /\ cached.kept[n][name] # Unread
ReadAttribute(n, name) ==
  LET k == cached.kept[n]
      current == IF k.attrs = cached.view /\ k.tree = cached.tree THEN k
                 ELSE [NothingKept EXCEPT !.tree = cached.tree, !.attrs = cached.view]
      now == cached.attr[n]
  IN /\ May /\ ~AttributeHit(n, name) /\ Alive /\ n \notin cached.gone
     /\ Did([cached EXCEPT !.valid[n] = cached.tree,
                           !.kept[n] = IF cached.bundled THEN [current EXCEPT !.id = now.id, !.class = now.class]
                                       ELSE [current EXCEPT ![name] = now[name]]])

-----------------------------------------------------------------------------
(* liveCollection and the length of what it returns *)

Keys == [tag |-> {"p", "q"}, class |-> {"c", "d"}]
SharedEntry(scope, kind, key) == SelectSeq(cached.shared[scope][kind], LAMBDA e : e.key = key)
StillCounts(kind, e) ==
  /\ Counts(cached.tree) /\ e.tree = cached.tree
  /\ kind = "tag" \/ (Counts(cached.view) /\ e.attrs = cached.view)
ScopeIsCurrent(scope) == scope = "document" \/ cached.valid[scope] = cached.tree
SharedHit(scope, kind, key) ==
  LET entry == SharedEntry(scope, kind, key)
  IN entry # <<>> /\ ScopeIsCurrent(scope) /\ StillCounts(kind, entry[1])

\* rememberCount: the oldest key leaves for a new one.
RememberCount(counts, e) ==
  IF \E i \in DOMAIN counts : counts[i].key = e.key
  THEN [i \in DOMAIN counts |-> IF counts[i].key = e.key THEN e ELSE counts[i]]
  ELSE Append(IF Len(counts) >= SharedCountKeys THEN Tail(counts) ELSE counts, e)
Counted(scope, kind, key) ==
  [key |-> key, tree |-> cached.tree, attrs |-> cached.view, value |-> CountNow(scope, kind, key)]
NewList(r, scope, kind, e) == Did([r EXCEPT !.lists = Append(@, [scope |-> scope, kind |-> kind, count |-> e])])
LiveCollection(scope, kind, key) ==
  LET e == Counted(scope, kind, key) IN
  /\ May /\ Len(cached.lists) < 2
  /\ \/ SharedHit(scope, kind, key) /\ NewList(cached, scope, kind, SharedEntry(scope, kind, key)[1])
     \/ /\ ~SharedHit(scope, kind, key) /\ Alive /\ scope \notin cached.gone
        /\ NewList([cached EXCEPT !.valid[scope] = cached.tree, !.shared[scope][kind] = RememberCount(@, e)], scope, kind, e)

LengthHit(l) == StillCounts(l.kind, l.count)
ReadLength(i) ==
  LET l == cached.lists[i] IN
  /\ May /\ ~LengthHit(l) /\ Alive /\ l.scope \notin cached.gone
  /\ Did([cached EXCEPT !.lists[i].count = Counted(l.scope, l.kind, l.count.key)])

CacheMoves ==
  \/ \E place \in {"document", "x", "nowhere"} : MoveTo(place)
  \/ \E n \in Elements : AdoptAway(n)
  \/ DestroyDocument
  \/ \E n \in Elements, name \in {"id", "class"} : ReadAttribute(n, name)
  \/ \E n \in Elements, name \in {"id", "class"} : \E value \in Values[name] : SetAttribute(n, name, value) \/ SetAttributeObserved(n, name, value)
  \/ CallReturns
  \/ \E s \in Scopes, kind \in {"tag", "class"} : \E key \in Keys[kind] : LiveCollection(s, kind, key)
  \/ \E i \in DOMAIN cached.lists : ReadLength(i)

\* Whatever would be answered without asking Core is what Core would answer,
\* of a node and a document that are still there: after writes a scheduler
\* made inside another write, after adoption, destruction and saturation.
KeptReadsExact ==
  /\ \A n \in Elements, name \in {"id", "class"} :
       AttributeHit(n, name) => Alive /\ n \notin cached.gone /\ cached.kept[n][name] = cached.attr[n][name]
  /\ \A s \in Scopes, kind \in {"tag", "class"} : \A key \in Keys[kind] :
       SharedHit(s, kind, key) => Alive /\ s \notin cached.gone /\ SharedEntry(s, kind, key)[1].value = CountNow(s, kind, key)
  /\ \A i \in DOMAIN cached.lists :
       LET l == cached.lists[i] IN LengthHit(l) => Alive /\ l.scope \notin cached.gone /\ l.count.value = CountNow(l.scope, l.kind, l.count.key)
\* A scope never keeps more counts of a kind than the limit.
SharedBounded == \A s \in Scopes, kind \in {"tag", "class"} : Len(cached.shared[s][kind]) <= SharedCountKeys

=============================================================================
