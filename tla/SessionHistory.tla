--------------------------- MODULE SessionHistory ---------------------------
(***************************************************************************)
(* Session history and the URL state that goes with it: HistoryItemList,   *)
(* Location and History of src/js/facade/extensions/window-platform.js.    *)
(* A frame keeps one list, every window another.                           *)
(***************************************************************************)
EXTENDS Integers, Sequences

CONSTANTS Docs,   \* what a URL names without its fragment
          Blank,  \* about:blank
          Hashes, \* fragments; 0 is none
          OriginOf \* the origin of each document

ASSUME HistoryAssumption == Blank \in Docs /\ 0 \in Hashes /\ DOMAIN OriginOf = Docs

URLs == [doc : Docs, hash : Hashes]
AboutBlank == [doc |-> Blank, hash |-> 0]
Origin(url) == OriginOf[url.doc]

Entry(url, pop) == [url |-> url, popState |-> pop]

NewList == [items |-> <<Entry(AboutBlank, FALSE)>>, current |-> 1]
Current(l) == l.items[l.current]
AtOffset(l, d) == l.current + d \in 1..Len(l.items)

\* Both forget the entries after the current one.
UpToCurrent(l) == SubSeq(l.items, 1, l.current)
Push(l, e) == [items |-> Append(UpToCurrent(l), e), current |-> l.current + 1]
Replace(l, e) == [l EXCEPT !.items = [UpToCurrent(l) EXCEPT ![l.current] = e]]
MarkPopState(l) == [l EXCEPT !.items[l.current].popState = TRUE]

\* The same document, another fragment.
IsHashNavigation(from, to) == to.doc = from.doc /\ to.hash # 0 /\ to.hash # from.hash

-----------------------------------------------------------------------------
(* Location and History of a window w: its url and its list.  back, forward,*)
(* go and reload do nothing there.                                          *)

\* Location._navigate, which every setter but hash, and assign and replace,
\* come down to.
LocationNavigate(w, url) ==
  IF IsHashNavigation(w.url, url)
    THEN [w EXCEPT !.history = Push(MarkPopState(@), Entry(url, TRUE)), !.url = url]
    ELSE [w EXCEPT !.history = Push(@, Entry(url, FALSE)), !.url = url]

SetHash(w, h) ==
  LET url == [w.url EXCEPT !.hash = h] IN
  IF h = w.url.hash THEN w
  ELSE [w EXCEPT !.history = Push(MarkPopState(@), Entry(url, TRUE)), !.url = url]

\* pushState and replaceState refuse the URL of another origin.
\* Mutant: the entry is recorded and the URL is not moved.
PushStateOnly(w, url) == [w EXCEPT !.history = Push(MarkPopState(@), Entry(url, TRUE))]
PushState(w, url) ==
  IF Origin(url) # Origin(w.url) THEN w
  ELSE [w EXCEPT !.history = Push(MarkPopState(@), Entry(url, TRUE)), !.url = url]

ReplaceState(w, url) ==
  IF Origin(url) # Origin(w.url) THEN w
  ELSE [w EXCEPT !.history = Replace(@, Entry(url, Current(@).popState)), !.url = url]
=============================================================================
