---------------------------- MODULE BrowserProofs ----------------------------
(***************************************************************************)
(* However many pages, contexts, windows and navigations a browser has,    *)
(* overlapping navigations are counted exactly, an answer overtaken on its *)
(* way is never written, and the windows errors are routed to are known.   *)
(***************************************************************************)
EXTENDS MCBrowser, FiniteSetTheorems, TLAPS

-----------------------------------------------------------------------------
(* The kinds of values.                                                      *)

HistoryEntry == [url : URLs, popState : BOOLEAN]
History == {l \in [items : Seq(HistoryEntry), current : Nat] : l.current \in DOMAIN l.items}
Window == [open : BOOLEAN, url : URLs, history : History, made : URLs, shows : Docs, under : SUBSET Navs]
Page == [state : {"none", "open", "closing", "closed"}, context : Contexts \cup {None}, win : Nat, late : Nat,
         history : History, pending : Nat, completion : Navs \cup {None}]
Busy == {"fetching", "content", "scripts"}
Nav == [state : Busy \cup {"none", "ended"}, page : Pages \cup {None}, win : Nat, url : URLs]
Context == [state : {"none", "open", "closing", "closed"}, cookies : BOOLEAN, awaits : SUBSET Pages]

(* The waiters are left out: what they are is nobody else's business.        *)
TypeOK ==
  /\ win \in Seq(Window) /\ page \in [Pages -> Page] /\ nav \in [Navs -> Nav]
  /\ context \in [Contexts -> Context] /\ policy \in Policies
  /\ listening \in BOOLEAN /\ abouts \in Seq(Pages)
  /\ detached \in [url : URLs, history : History]

-----------------------------------------------------------------------------
(* The inductive invariant.                                                  *)

(* A page has a window from its creation until it is closed, open while the  *)
(* page is, and may have one more that was made for it since.                *)
PageSited(p) ==
  /\ IF page[p].state \in {"open", "closing"} THEN page[p].win \in DOMAIN win ELSE page[p].win = 0
  /\ page[p].state = "open" => win[page[p].win].open
  /\ page[p].state # "none" => page[p].context \in Contexts
  /\ page[p].late # 0 => /\ page[p].late \in DOMAIN win /\ page[p].state \in {"closing", "closed"}
                         /\ page[p].state = "closing" => page[p].win = page[p].late

(* No two pages have one window.                                             *)
WindowsOwn == \A p, q \in Pages : \A v \in Holds(p) : v \in Holds(q) => p = q

(* A navigation under way was started by a page, for a window made for what  *)
(* it fetches; whether that is still the window of the page is open.         *)
NavSited(n) ==
  nav[n].state \in Busy =>
    /\ nav[n].page \in Pages /\ page[nav[n].page].state # "none"
    /\ nav[n].win \in DOMAIN win /\ win[nav[n].win].made = nav[n].url

(* One that calls the program back before it writes will write into its own  *)
(* window, or into one that was made or closed under this very callback.     *)
NavHeld(n) ==
  nav[n].state = "content" =>
    LET p == nav[n].page IN
    /\ page[p].win # 0
    /\ \/ page[p].state = "open" /\ page[p].win = nav[n].win
       \/ n \in win[page[p].win].under

(* What a window was made or closed under has started.                       *)
UnderSited == \A w \in DOMAIN win : \A n \in win[w].under : nav[n].state # "none"

Flight(p) == {n \in Navs : nav[n].state \in Busy /\ nav[n].page = p}

(* What a page's window shows: LoadedByOwn, for one page.                    *)
ShowsOwn(p) ==
  page[p].win # 0 =>
    LET w == win[page[p].win] IN
    \/ w.shows = Blank
    \/ page[p].state = "open" /\ w.shows = w.made.doc
    \/ \E n \in w.under : nav[n].page = p /\ w.shows = nav[n].url.doc

Sited == /\ (\A p \in Pages : PageSited(p)) /\ WindowsOwn
         /\ (\A n \in Navs : NavSited(n)) /\ (\A n \in Navs : NavHeld(n)) /\ UnderSited
Counted == \A p \in Pages : IsFiniteSet(Flight(p)) /\ page[p].pending = Cardinality(Flight(p))
IInv == /\ TypeOK /\ Sited /\ Counted /\ (\A p \in Pages : ShowsOwn(p))
        /\ ObserversExact /\ DetachedLocation

(* What the observer holds, window by window.                                *)
Routed(v) == \E p \in Pages : \/ page[p].state = "open" /\ page[p].win = v
                              \/ page[p].late # 0 /\ page[p].late = v

LEMMA ObserversByWindow ==
  /\ ObserversExact <=> (\A v : v \in observed <=> Routed(v)) /\ (listening <=> observed # {})
  /\ ObserversExact' <=> (\A v : v \in observed' <=> Routed(v)') /\ (listening' <=> observed' # {})
<1>1. ObserversExact <=> (\A v : v \in observed <=> Routed(v)) /\ (listening <=> observed # {})
  BY DEF ObserversExact, Routed
<1>2. ObserversExact' <=> (\A v : v \in observed' <=> Routed(v)') /\ (listening' <=> observed' # {})
  BY DEF ObserversExact, Routed
<1>. QED
  BY <1>1, <1>2

-----------------------------------------------------------------------------
(* Histories.                                                                *)

LEMMA UrlFacts ==
  /\ AboutBlank \in URLs /\ AboutBlank.doc = Blank /\ Blank \in Docs /\ Plain \subseteq URLs
  /\ \A url \in URLs : url.doc \in Docs /\ url.hash \in Hashes
BY HistoryAssumption DEF AboutBlank, URLs, Plain

LEMMA NewListTyped == NewList \in History /\ Current(NewList) = Entry(AboutBlank, FALSE)
BY UrlFacts DEF NewList, History, HistoryEntry, Entry, Current

LEMMA EntryTyped ==
  ASSUME NEW url \in URLs, NEW pop \in BOOLEAN
  PROVE  Entry(url, pop) \in HistoryEntry /\ Entry(url, pop).url = url
BY DEF Entry, HistoryEntry

LEMMA SeqWith ==
  ASSUME NEW S, NEW s \in Seq(S), NEW i \in DOMAIN s, NEW e \in S
  PROVE  /\ [s EXCEPT ![i] = e] \in Seq(S) /\ DOMAIN [s EXCEPT ![i] = e] = DOMAIN s
         /\ s[i] \in S
OBVIOUS

LEMMA HistoryParts ==
  ASSUME NEW l
  PROVE  l \in History <=> /\ l = [items |-> l.items, current |-> l.current]
                          /\ l.items \in Seq(HistoryEntry) /\ l.current \in Nat
                          /\ l.current \in DOMAIN l.items
BY DEF History

LEMMA CurrentTyped ==
  ASSUME NEW l \in History
  PROVE  Current(l) \in HistoryEntry /\ Current(l).url \in URLs /\ Current(l).popState \in BOOLEAN
<1>1. l.items \in Seq(HistoryEntry) /\ l.current \in DOMAIN l.items
  BY HistoryParts
<1>2. Current(l) \in HistoryEntry
  BY <1>1, SeqWith DEF Current
<1>. QED
  BY <1>2 DEF HistoryEntry

LEMMA PushTyped ==
  ASSUME NEW l \in History, NEW e \in HistoryEntry
  PROVE  Push(l, e) \in History /\ Current(Push(l, e)) = e
<1>1. UpToCurrent(l) \in Seq(HistoryEntry) /\ Len(UpToCurrent(l)) = l.current
  BY DEF UpToCurrent, History
<1>. QED
  BY <1>1 DEF Push, Current, History

LEMMA MarkTyped ==
  ASSUME NEW l \in History
  PROVE  MarkPopState(l) \in History
<1>. DEFINE marked == [l.items[l.current] EXCEPT !.popState = TRUE]
            items == [l.items EXCEPT ![l.current] = marked]
<1>1. l.items \in Seq(HistoryEntry) /\ l.current \in Nat /\ l.current \in DOMAIN l.items
  BY HistoryParts
<1>2. l.items[l.current] \in HistoryEntry
  BY <1>1, SeqWith
<1>3. marked \in HistoryEntry
  BY <1>2 DEF HistoryEntry
<1>4. items \in Seq(HistoryEntry) /\ DOMAIN items = DOMAIN l.items
  BY <1>1, <1>3, SeqWith
<1>5. MarkPopState(l) = [l EXCEPT !.items = items]
  BY Zenon DEF MarkPopState
<1>. HIDE DEF items
<1>. QED
  BY <1>1, <1>4, <1>5 DEF History

LEMMA ReplaceTyped ==
  ASSUME NEW l \in History, NEW e \in HistoryEntry
  PROVE  Replace(l, e) \in History /\ Current(Replace(l, e)) = e
<1>. DEFINE items == [UpToCurrent(l) EXCEPT ![l.current] = e]
<1>1. UpToCurrent(l) \in Seq(HistoryEntry) /\ Len(UpToCurrent(l)) = l.current /\ l.current \in Nat
      /\ l.current \in DOMAIN UpToCurrent(l)
  BY DEF UpToCurrent, History
<1>2. items \in Seq(HistoryEntry) /\ DOMAIN items = DOMAIN UpToCurrent(l) /\ items[l.current] = e
  BY <1>1, SeqWith
<1>3. Replace(l, e) = [items |-> items, current |-> l.current]
  BY HistoryParts DEF Replace
<1>. HIDE DEF items
<1>. QED
  BY <1>1, <1>2, <1>3 DEF Current, History

LEMMA MoveTyped ==
  ASSUME NEW l \in History, NEW d \in Int, AtOffset(l, d)
  PROVE  [l EXCEPT !.current = @ + d] \in History
BY DEF AtOffset, History

-----------------------------------------------------------------------------
(* The window without a page.                                                *)

DetachedSound(w) == /\ w \in [url : URLs, history : History]
                    /\ w.url = Current(w.history).url

LEMMA DetachedMovesSound ==
  ASSUME NEW w, DetachedSound(w), NEW url \in URLs, NEW h \in Hashes
  PROVE  /\ DetachedSound(LocationNavigate(w, url)) /\ DetachedSound(SetHash(w, h))
         /\ DetachedSound(PushState(w, url)) /\ DetachedSound(ReplaceState(w, url))
<1>. DEFINE u == [w.url EXCEPT !.hash = h]
            kept == Entry(url, Current(w.history).popState)
<1>1. u \in URLs
  BY DEF DetachedSound, URLs
<1>2. \A v \in URLs, pop \in BOOLEAN :
        /\ Push(w.history, Entry(v, pop)) \in History
        /\ Push(MarkPopState(w.history), Entry(v, pop)) \in History
        /\ Current(Push(w.history, Entry(v, pop))).url = v
        /\ Current(Push(MarkPopState(w.history), Entry(v, pop))).url = v
  BY MarkTyped, PushTyped, EntryTyped DEF DetachedSound
<1>3. w.history \in History /\ kept \in HistoryEntry /\ kept.url = url
  BY CurrentTyped, EntryTyped DEF DetachedSound
<1>. HIDE DEF kept
<1>4. Replace(w.history, kept) \in History /\ Current(Replace(w.history, kept)).url = url
  BY <1>3, ReplaceTyped
<1>5. \A v \in URLs, l \in History : Current(l).url = v => DetachedSound([w EXCEPT !.history = l, !.url = v])
  BY DEF DetachedSound
<1>6. DetachedSound(LocationNavigate(w, url))
  BY <1>2, <1>5 DEF LocationNavigate
<1>7. DetachedSound(SetHash(w, h))
  BY <1>1, <1>2, <1>5 DEF SetHash
<1>8. DetachedSound(PushState(w, url))
  BY <1>2, <1>5 DEF PushState
<1>9. DetachedSound(ReplaceState(w, url))
  BY <1>4, <1>5 DEF ReplaceState, kept
<1>. QED
  BY <1>6, <1>7, <1>8, <1>9

-----------------------------------------------------------------------------
(* What holds at first.                                                      *)

LEMMA NoPageTyped == NoPage \in Page
BY NewListTyped DEF NoPage, Page

(* What a page is, field by field.                                           *)
PageIs(r, state, ctx, number, late, history, pending, completion) ==
  /\ r \in Page /\ r.state = state /\ r.context = ctx /\ r.win = number /\ r.late = late
  /\ r.history = history /\ r.pending = pending /\ r.completion = completion

LEMMA NewWindowFacts ==
  ASSUME NEW url \in URLs
  PROVE  /\ NewWindow(url) \in Window /\ NewWindow(url).made = url /\ NewWindow(url).shows = Blank
         /\ NewWindow(url).under = Calling /\ NewWindow(url).open
<1>. DEFINE w == [open |-> TRUE, url |-> AboutBlank, history |-> NewList, made |-> url, shows |-> Blank, under |-> Calling]
<1>1. \A pop \in BOOLEAN : /\ Push(NewList, Entry(url, pop)) \in History
                           /\ Push(MarkPopState(NewList), Entry(url, pop)) \in History
  BY NewListTyped, MarkTyped, PushTyped, EntryTyped
<1>2. NewWindow(url) = LocationNavigate(w, url)
  BY DEF NewWindow
<1>3. Calling \in SUBSET Navs
  BY DEF Calling
<1>. QED
  BY <1>1, <1>2, <1>3, UrlFacts DEF LocationNavigate, Window

(* A window that is closed, whether or not it was before.                    *)
LEMMA CloseWindowFacts ==
  ASSUME NEW w \in Window
  PROVE  /\ CloseWindow(w) \in Window /\ CloseWindow(w).made = w.made
         /\ CloseWindow(w).under = w.under \cup Calling
         /\ w.open => CloseWindow(w).shows = Blank
         /\ CloseWindow(w) = [w EXCEPT !.open = FALSE, !.under = @ \cup Calling,
                                       !.shows = IF w.open THEN Blank ELSE @]
<1>1. Calling \in SUBSET Navs /\ Blank \in Docs
  BY UrlFacts DEF Calling
<1>. QED
  BY <1>1 DEF CloseWindow, Window

LEMMA IInvInit == Init => IInv
<1>. SUFFICES ASSUME Init PROVE IInv
  OBVIOUS
<1>. USE DEF Init, BrowserInit
<1>1. TypeOK
  <2>1. policy \in Policies /\ listening \in BOOLEAN /\ win \in Seq(Window) /\ abouts \in Seq(Pages)
    <3>1. <<>> \in Seq(Window) /\ <<>> \in Seq(Pages)
      OBVIOUS
    <3>. QED
      BY <3>1
  <2>2. page \in [Pages -> Page]
    BY NoPageTyped
  <2>3. NoNav \in Nav /\ nav \in [Navs -> Nav]
    BY UrlFacts DEF Nav, NoNav, Busy
  <2>4. context \in [Contexts -> Context]
    BY DEF Context
  <2>5. detached \in [url : URLs, history : History]
    BY UrlFacts, NewListTyped
  <2>. QED
    BY <2>1, <2>2, <2>3, <2>4, <2>5 DEF TypeOK
<1>2. Sited
  BY DEF Sited, PageSited, WindowsOwn, Holds, NavSited, NavHeld, UnderSited, NoPage, NoNav, Busy
<1>3. ASSUME NEW p \in Pages PROVE Flight(p) = {} /\ page[p].pending = 0
  BY DEF Flight, NoPage, NoNav, Busy
<1>4. Counted
  BY <1>3, FS_EmptySet DEF Counted
<1>5. (\A p \in Pages : ShowsOwn(p)) /\ ObserversExact
  BY DEF ShowsOwn, ObserversExact, NoPage
<1>6. DetachedLocation
  BY NewListTyped DEF DetachedLocation, Entry
<1>. QED
  BY <1>1, <1>2, <1>4, <1>5, <1>6 DEF IInv

-----------------------------------------------------------------------------
(* The shapes of steps.                                                      *)

(* Page q keeps its place: its state, windows, context and count.            *)
Keeps(q) == /\ page'[q].state = page[q].state /\ page'[q].win = page[q].win /\ page'[q].late = page[q].late
            /\ page'[q].context = page[q].context /\ page'[q].pending = page[q].pending

(* Window w is what it was, but for its URL and its history.                 *)
Stays(w) == /\ win'[w].made = win[w].made /\ win'[w].shows = win[w].shows
            /\ win'[w].under = win[w].under /\ win'[w].open = win[w].open

(* No page moves, and no window is minted or written to.                     *)
Quiet ==
  /\ \A q \in Pages : Keeps(q)
  /\ DOMAIN win' = DOMAIN win
  /\ \A w \in DOMAIN win : Stays(w)
  /\ UNCHANGED <<nav, observed, listening>>

(* Page p gets a new window, alone or with a navigation that fetches for it. *)
Seats(p, w) ==
  /\ page[p].state # "closed"
  /\ page'[p].state = IF page[p].state = "none" THEN "open" ELSE page[p].state
  /\ page'[p].win = w /\ page'[p].late = IF page[p].state = "closing" THEN w ELSE 0
  /\ page'[p].context \in Contexts
  /\ \A q \in Pages \ {p} : Keeps(q)
  /\ w \in DOMAIN win' /\ w \notin DOMAIN win
  /\ DOMAIN win \subseteq DOMAIN win'
  /\ \A v \in DOMAIN win : /\ win'[v].made = win[v].made /\ (v # page[p].win => Stays(v))
                            /\ win[v].under \subseteq win'[v].under
  /\ \A v \in DOMAIN win' : win'[v].under \subseteq Calling \cup (IF v \in DOMAIN win THEN win[v].under ELSE {})
  /\ win'[w].shows = Blank /\ win'[w].under = Calling /\ win'[w].open
  /\ observed' = (observed \ {page[p].win}) \cup {w} /\ listening' = TRUE
  /\ \/ nav' = nav /\ page'[p].pending = page[p].pending
     \/ \E n \in Navs :
          /\ nav[n].state = "none"
          /\ nav' = [nav EXCEPT ![n] = [state |-> "fetching", page |-> p, win |-> w, url |-> win'[w].made]]
          /\ page'[p].pending = page[p].pending + 1

LEMMA WindowNumbers ==
  ASSUME TypeOK
  PROVE  DOMAIN win = 1 .. Len(win) /\ 0 \notin DOMAIN win /\ Len(win) \in Nat
BY DEF TypeOK

LEMMA PagesHold ==
  ASSUME IInv
  PROVE  /\ 0 \notin DOMAIN win /\ 0 \notin observed
         /\ \A q \in Pages : /\ page[q].win = 0 \/ page[q].win \in DOMAIN win
                             /\ page[q].late = 0 \/ page[q].late \in DOMAIN win
                             /\ page[q].state \in {"none", "open"} => page[q].late = 0
                             /\ page[q].state = "open" => page[q].win # 0
         /\ \A p, q \in Pages : p # q =>
              /\ page[p].win # 0 => page[p].win # page[q].win /\ page[p].win # page[q].late
              /\ page[p].late # 0 => page[p].late # page[q].win /\ page[p].late # page[q].late
<1>1. 0 \notin DOMAIN win
  BY WindowNumbers DEF IInv
<1>2. \A q \in Pages : PageSited(q)
  BY DEF IInv, Sited
<1>3. ASSUME NEW q \in Pages
      PROVE  /\ page[q].win = 0 \/ page[q].win \in DOMAIN win
             /\ page[q].late = 0 \/ page[q].late \in DOMAIN win
             /\ page[q].state \in {"none", "open"} => page[q].late = 0
             /\ page[q].state = "open" => page[q].win # 0
  BY <1>1, <1>2 DEF PageSited
<1>4. 0 \notin observed
  BY <1>3, ObserversByWindow DEF IInv, Routed
<1>5. ASSUME NEW p \in Pages, NEW q \in Pages, p # q
      PROVE  /\ page[p].win # 0 => page[p].win # page[q].win /\ page[p].win # page[q].late
             /\ page[p].late # 0 => page[p].late # page[q].win /\ page[p].late # page[q].late
  BY <1>5 DEF IInv, Sited, WindowsOwn, Holds
<1>. QED
  BY <1>1, <1>3, <1>4, <1>5

LEMMA QuietSound ==
  ASSUME IInv, Quiet, TypeOK', DetachedLocation'
  PROVE  IInv'
<1>. USE DEF Quiet, Keeps, Stays
<1>1. Sited'
  <2>1. ASSUME NEW q \in Pages PROVE PageSited(q)'
    BY PagesHold DEF IInv, Sited, PageSited
  <2>2. WindowsOwn'
    BY DEF IInv, Sited, WindowsOwn, Holds
  <2>3. ASSUME NEW n \in Navs PROVE NavSited(n)' /\ NavHeld(n)'
    <3>1. NavSited(n) /\ NavHeld(n)
      BY DEF IInv, Sited
    <3>2. nav[n].state = "content" => nav[n].page \in Pages
      BY <3>1 DEF NavSited, Busy
    <3>. QED
      BY <3>1, <3>2, PagesHold DEF NavSited, NavHeld, Busy
  <2>4. UnderSited'
    BY DEF IInv, Sited, UnderSited
  <2>. QED
    BY <2>1, <2>2, <2>3, <2>4 DEF Sited
<1>2. ASSUME NEW p \in Pages PROVE Flight(p)' = Flight(p)
  BY DEF Flight
<1>3. Counted'
  BY <1>2 DEF IInv, Counted
<1>4. ASSUME NEW p \in Pages PROVE ShowsOwn(p)'
  BY PagesHold DEF IInv, ShowsOwn
<1>5. ObserversExact'
  BY DEF IInv, ObserversExact
<1>. QED
  BY <1>1, <1>3, <1>4, <1>5 DEF IInv

LEMMA SeatsSound ==
  ASSUME IInv, NEW p \in Pages, NEW w, Seats(p, w), TypeOK', DetachedLocation'
  PROVE  IInv'
<1>. USE DEF Keeps
<1>1. /\ w # 0 /\ w \notin DOMAIN win /\ w \in DOMAIN win' /\ DOMAIN win \subseteq DOMAIN win'
      /\ page'[p].win = w /\ page'[p].late \in {0, w} /\ \A q \in Pages \ {p} : Keeps(q)
  <2>1. 0 \notin DOMAIN win'
    BY WindowNumbers DEF TypeOK
  <2>. QED
    BY <2>1 DEF Seats
<1>2. \A q \in Pages : PageSited(q)
  BY DEF IInv, Sited
<1>3. ASSUME NEW q \in Pages, q # p, page[q].win # 0
      PROVE  page[q].win \in DOMAIN win /\ page[q].win # page[p].win /\ Stays(page[q].win)
             /\ page'[q].win = page[q].win
  <2>1. page[q].win \in DOMAIN win /\ page[q].win # page[p].win
    BY <1>3, PagesHold
  <2>2. Stays(page[q].win)
    BY <2>1 DEF Seats
  <2>. QED
    BY <1>1, <1>3, <2>1, <2>2
<1>4. ASSUME NEW q \in Pages PROVE PageSited(q)'
  <2>1. CASE q = p
    <3>1. page[p].state \in {"none", "open", "closing"}
      BY DEF Seats, IInv, TypeOK, Page
    <3>2. page'[p].state \in {"open", "closing"} /\ page'[p].context \in Contexts /\ win'[w].open
          /\ page'[p].late = IF page'[p].state = "closing" THEN w ELSE 0
      BY <3>1 DEF Seats
    <3>. QED
      BY <1>1, <2>1, <3>2 DEF PageSited
  <2>2. CASE q # p
    BY <1>1, <1>2, <1>3, <2>2, PagesHold DEF PageSited, Stays
  <2>. QED
    BY <2>1, <2>2
<1>5. WindowsOwn'
  <2>1. ASSUME NEW q \in Pages, q # p PROVE Holds(q)' = Holds(q) /\ w \notin Holds(q)
    BY <1>1, <2>1, PagesHold DEF Holds
  <2>2. Holds(p)' = {w}
    BY <1>1 DEF Holds
  <2>. QED
    BY <2>1, <2>2 DEF IInv, Sited, WindowsOwn
<1>6. ASSUME NEW m \in Navs
      PROVE  nav'[m] = nav[m] \/ /\ nav[m].state = "none"
                                 /\ nav'[m] = [state |-> "fetching", page |-> p, win |-> w, url |-> win'[w].made]
  BY DEF Seats, IInv, TypeOK
<1>7. ASSUME NEW n \in Navs PROVE NavSited(n)' /\ NavHeld(n)'
  <2>1. NavSited(n) /\ NavHeld(n)
    BY DEF IInv, Sited
  <2>2. CASE nav'[n] = nav[n]
    <3>1. nav[n].page \in Pages /\ page[nav[n].page].state # "none" => page'[nav[n].page].state # "none"
      BY <1>1 DEF Seats
    <3>2. NavSited(n)'
      BY <1>1, <2>1, <2>2, <3>1 DEF NavSited, Seats
    <3>3. ASSUME nav[n].state = "content" PROVE NavHeld(n)'
      <4>1. nav[n].page \in Pages /\ n \in Calling
        BY <2>1, <3>3 DEF NavSited, Calling, Busy
      <4>2. CASE nav[n].page = p
        BY <1>1, <2>2, <4>1, <4>2 DEF NavHeld, Seats
      <4>3. CASE nav[n].page # p
        BY <1>1, <1>3, <2>1, <2>2, <3>3, <4>1, <4>3 DEF NavHeld, Stays
      <4>. QED
        BY <4>2, <4>3
    <3>. QED
      BY <2>2, <3>2, <3>3 DEF NavHeld
  <2>3. CASE nav'[n] = [state |-> "fetching", page |-> p, win |-> w, url |-> win'[w].made]
    <3>1. page'[p].state # "none"
      BY DEF Seats
    <3>. QED
      BY <1>1, <2>3, <3>1 DEF NavSited, NavHeld
  <2>. QED
    BY <1>6, <2>2, <2>3
<1>8. ASSUME NEW q \in Pages PROVE IsFiniteSet(Flight(q))' /\ (page[q].pending = Cardinality(Flight(q)))'
  <2>1. IsFiniteSet(Flight(q)) /\ page[q].pending = Cardinality(Flight(q))
    BY DEF IInv, Counted
  <2>2. CASE nav' = nav /\ page'[p].pending = page[p].pending
    <3>1. Flight(q)' = Flight(q) /\ page'[q].pending = page[q].pending
      BY <1>1, <2>2 DEF Flight
    <3>. QED
      BY <2>1, <3>1
  <2>3. ASSUME NEW n \in Navs, nav[n].state = "none",
               nav' = [nav EXCEPT ![n] = [state |-> "fetching", page |-> p, win |-> w, url |-> win'[w].made]],
               page'[p].pending = page[p].pending + 1
        PROVE  IsFiniteSet(Flight(q))' /\ (page[q].pending = Cardinality(Flight(q)))'
    <3>1. n \notin Flight(q) /\ nav \in [Navs -> Nav]
      BY <2>3 DEF Flight, Busy, IInv, TypeOK
    <3>2. CASE q = p
      <4>1. Flight(q)' = Flight(q) \cup {n}
        BY <2>3, <3>1, <3>2 DEF Flight, Busy
      <4>. QED
        BY <2>1, <2>3, <3>1, <3>2, <4>1, FS_AddElement
    <3>3. CASE q # p
      <4>1. Flight(q)' = Flight(q) /\ page'[q].pending = page[q].pending
        BY <1>1, <2>3, <3>1, <3>3 DEF Flight, Busy
      <4>. QED
        BY <2>1, <4>1
    <3>. QED
      BY <3>2, <3>3
  <2>. QED
    BY <2>2, <2>3 DEF Seats
<1>9. UnderSited'
  <2>. SUFFICES ASSUME NEW v \in DOMAIN win', NEW m \in win'[v].under PROVE nav'[m].state # "none"
    BY DEF UnderSited
  <2>1. m \in Calling \/ (v \in DOMAIN win /\ m \in win[v].under)
    BY DEF Seats
  <2>2. m \in Navs
    <3>1. CASE v \in DOMAIN win /\ m \in win[v].under
      <4>1. win[v] \in Window
        BY <3>1, SeqWith DEF IInv, TypeOK
      <4>. QED
        BY <3>1, <4>1 DEF Window
    <3>. QED
      BY <2>1, <3>1 DEF Calling
  <2>3. nav[m].state # "none"
    BY <2>1 DEF IInv, Sited, UnderSited, Calling
  <2>. QED
    BY <1>6, <2>2, <2>3
<1>10. ASSUME NEW q \in Pages PROVE ShowsOwn(q)'
  <2>1. CASE q = p
    BY <2>1 DEF ShowsOwn, Seats
  <2>2. CASE q # p /\ page[q].win # 0
    <3>. DEFINE v == page[q].win
    <3>1. v \in DOMAIN win /\ Stays(v) /\ page'[q].win = v /\ page'[q].state = page[q].state
      BY <1>1, <1>3, <2>2
    <3>2. ASSUME NEW m \in win[v].under PROVE nav'[m] = nav[m]
      <4>1. win[v] \in Window
        BY <3>1, SeqWith DEF IInv, TypeOK
      <4>2. m \in Navs /\ nav[m].state # "none"
        BY <3>1, <4>1 DEF Window, IInv, Sited, UnderSited
      <4>. QED
        BY <1>6, <4>2
    <3>. QED
      BY <2>2, <3>1, <3>2 DEF IInv, ShowsOwn, Stays
  <2>3. CASE q # p /\ page[q].win = 0
    BY <1>1, <2>3 DEF ShowsOwn
  <2>. QED
    BY <2>1, <2>2, <2>3
<1>11. ObserversExact'
  <2>1. ASSUME NEW v PROVE v \in observed' <=> Routed(v)'
    <3>1. v \in observed <=> Routed(v)
      BY ObserversByWindow DEF IInv
    <3>2. v \in observed' <=> (v \in observed /\ v # page[p].win) \/ v = w
      BY DEF Seats
    <3>. DEFINE Else(u) == \E q \in Pages \ {p} : \/ page[q].state = "open" /\ page[q].win = u
                                                  \/ page[q].late # 0 /\ page[q].late = u
    <3>3. Routed(v)' <=> Else(v) \/ v = w
      <4>1. (page'[p].state = "open" /\ page'[p].win = v) \/ (page'[p].late # 0 /\ page'[p].late = v) <=> v = w
        <5>1. page[p].state \in {"none", "open", "closing"}
          BY DEF Seats, IInv, TypeOK, Page
        <5>. QED
          BY <1>1, <5>1 DEF Seats
      <4>. QED
        BY <1>1, <4>1 DEF Routed
    <3>4. Routed(v) /\ v # page[p].win <=> Else(v)
      <4>1. Else(v) => v # page[p].win
        BY PagesHold
      <4>2. page[p].late # 0 => page[p].win = page[p].late
        BY <1>2 DEF PageSited, Seats
      <4>. QED
        BY <4>1, <4>2 DEF Routed
    <3>. QED
      BY <3>1, <3>2, <3>3, <3>4
  <2>2. listening' <=> observed' # {}
    BY DEF Seats
  <2>. QED
    BY <2>1, <2>2, ObserversByWindow
<1>. QED
  BY <1>4, <1>5, <1>7, <1>8, <1>9, <1>10, <1>11 DEF IInv, Sited, Counted

-----------------------------------------------------------------------------
(* Pages that close.                                                         *)

LEMMA ClosingSound ==
  ASSUME IInv, NEW ps \in SUBSET Pages, \A p \in ps : page[p].state = "open", Closing(ps),
         context' \in [Contexts -> Context]
  PROVE  IInv'
<1>. DEFINE ws == {page[p].win : p \in ps}
<1>1. /\ win \in Seq(Window) /\ page \in [Pages -> Page] /\ \A p \in Pages : PageSited(p)
      /\ DOMAIN win = 1 .. Len(win) /\ Len(win) \in Nat /\ 0 \notin DOMAIN win
  BY WindowNumbers DEF IInv, TypeOK, Sited
<1>2. \A q \in Pages : page'[q] = IF q \in ps THEN [page[q] EXCEPT !.state = "closing"] ELSE page[q]
  BY DEF Closing
<1>3. \A q \in Pages : /\ page'[q] \in Page /\ page'[q].win = page[q].win /\ page'[q].pending = page[q].pending
                       /\ page'[q].late = page[q].late
                       /\ page'[q].state = IF q \in ps THEN "closing" ELSE page[q].state
                       /\ page'[q].context = page[q].context
  <2>. SUFFICES ASSUME NEW q \in Pages, NEW r \in Page, r = page[q],
                       page'[q] = IF q \in ps THEN [r EXCEPT !.state = "closing"] ELSE r
                PROVE  /\ page'[q] \in Page /\ page'[q].win = r.win /\ page'[q].pending = r.pending
                       /\ page'[q].late = r.late
                       /\ page'[q].state = IF q \in ps THEN "closing" ELSE r.state
                       /\ page'[q].context = r.context
    BY <1>1, <1>2
  <2>1. [r EXCEPT !.state = "closing"] \in Page
    BY DEF Page
  <2>. QED
    BY <2>1 DEF Page
<1>4. win' = [w \in 1 .. Len(win) |-> IF w \in ws THEN CloseWindow(win[w]) ELSE win[w]]
  BY <1>1 DEF Closing
<1>5. ASSUME NEW w \in 1 .. Len(win)
      PROVE  /\ win'[w] \in Window /\ win'[w].made = win[w].made
             /\ win'[w].under = IF w \in ws THEN win[w].under \cup Calling ELSE win[w].under
             /\ w \in ws /\ win[w].open => win'[w].shows = Blank
             /\ w \notin ws => win'[w] = win[w]
  <2>1. win[w] \in Window
    BY <1>1, SeqWith
  <2>. QED
    BY <1>4, <2>1, CloseWindowFacts
<1>6. win' \in Seq(Window) /\ DOMAIN win' = DOMAIN win
  <2>1. win' \in [1 .. Len(win) -> Window]
    BY <1>4, <1>5
  <2>. QED
    BY <1>1, <2>1
<1>7. TypeOK'
  <2>1. page' \in [Pages -> Page]
    BY <1>3 DEF Closing
  <2>. QED
    BY <1>6, <2>1 DEF IInv, TypeOK, Closing, Disconnect
<1>8. nav' = nav /\ observed' = observed \ ws /\ listening' = (listening /\ observed \ ws # {}) /\ detached' = detached
  BY DEF Closing, Disconnect
<1>9. ASSUME NEW q \in Pages, page[q].win # 0
      PROVE  page[q].win \in 1 .. Len(win) /\ (page[q].win \in ws <=> q \in ps)
  <2>1. page[q].win \in ws => q \in ps
    BY <1>9, PagesHold
  <2>. QED
    BY <1>1, <1>9, <2>1, PagesHold
<1>. HIDE DEF ws
<1>10. Sited'
  <2>1. ASSUME NEW q \in Pages PROVE PageSited(q)'
    <3>1. q \in ps => page[q].late = 0
      BY PagesHold
    <3>2. page'[q].state = "open" => page[q].win # 0 /\ q \notin ps
      BY <1>3, PagesHold
    <3>3. page[q].win # 0 /\ q \notin ps => win'[page[q].win] = win[page[q].win]
      BY <1>5, <1>9
    <3>4. PageSited(q) /\ (q \in ps => page[q].state = "open")
      BY <1>1
    <3>. QED
      BY <1>3, <1>6, <3>1, <3>2, <3>3, <3>4 DEF PageSited
  <2>2. WindowsOwn'
    BY <1>3 DEF IInv, Sited, WindowsOwn, Holds
  <2>3. ASSUME NEW n \in Navs PROVE NavSited(n)'
    BY <1>1, <1>3, <1>5, <1>6, <1>8 DEF IInv, Sited, NavSited
  <2>4. ASSUME NEW n \in Navs PROVE NavHeld(n)'
    <3>. SUFFICES ASSUME nav[n].state = "content" PROVE NavHeld(n)'
      BY <1>8 DEF NavHeld
    <3>. DEFINE q == nav[n].page
    <3>1. q \in Pages /\ n \in Calling /\ NavHeld(n)
      BY DEF IInv, Sited, NavSited, Busy, Calling
    <3>2. /\ page[q].win # 0
          /\ \/ page[q].state = "open" /\ page[q].win = nav[n].win
             \/ n \in win[page[q].win].under
      BY <3>1 DEF NavHeld
    <3>3. page'[q].win = page[q].win /\ page'[q].state = IF q \in ps THEN "closing" ELSE page[q].state
      BY <1>3, <3>1
    <3>4. page[q].win \in 1 .. Len(win) /\ (page[q].win \in ws <=> q \in ps)
      BY <1>9, <3>1, <3>2
    <3>5. win'[page[q].win].under = IF page[q].win \in ws THEN win[page[q].win].under \cup Calling
                                                          ELSE win[page[q].win].under
      BY <1>5, <3>4
    <3>. HIDE DEF q
    <3>6. /\ page'[q].win # 0
          /\ \/ page'[q].state = "open" /\ page'[q].win = nav[n].win
             \/ n \in win'[page'[q].win].under
      BY <3>1, <3>2, <3>3, <3>4, <3>5
    <3>. QED
      BY <1>8, <3>6 DEF NavHeld, q
  <2>5. UnderSited'
    <3>. SUFFICES ASSUME NEW w \in DOMAIN win, NEW m \in win'[w].under PROVE nav[m].state # "none"
      BY <1>6, <1>8 DEF UnderSited
    <3>1. m \in win[w].under \/ m \in Calling
      BY <1>1, <1>5
    <3>. QED
      BY <3>1 DEF IInv, Sited, UnderSited, Calling
  <2>. QED
    BY <2>1, <2>2, <2>3, <2>4, <2>5 DEF Sited
<1>11. Counted'
  <2>1. \A q \in Pages : Flight(q)' = Flight(q)
    BY <1>8 DEF Flight
  <2>. QED
    BY <1>3, <2>1 DEF IInv, Counted
<1>12. ASSUME NEW q \in Pages PROVE ShowsOwn(q)'
  <2>1. CASE page[q].win = 0
    BY <2>1, <1>3 DEF ShowsOwn
  <2>2. CASE page[q].win # 0 /\ q \in ps
    <3>1. win[page[q].win].open
      BY <1>1, <2>2 DEF PageSited
    <3>2. win'[page[q].win].shows = Blank
      BY <1>5, <1>9, <2>2, <3>1
    <3>. QED
      BY <1>3, <3>2 DEF ShowsOwn
  <2>3. CASE page[q].win # 0 /\ q \notin ps
    <3>1. win'[page[q].win] = win[page[q].win]
      BY <1>5, <1>9, <2>3
    <3>2. page'[q].win = page[q].win /\ page'[q].state = page[q].state
      BY <1>3, <2>3
    <3>3. ShowsOwn(q)
      BY DEF IInv
    <3>. QED
      BY <1>8, <2>3, <3>1, <3>2, <3>3 DEF ShowsOwn
  <2>. QED
    BY <2>1, <2>2, <2>3
<1>13. ObserversExact'
  <2>1. ASSUME NEW v PROVE v \in observed' <=> Routed(v)'
    <3>1. v \in observed <=> Routed(v)
      BY ObserversByWindow DEF IInv
    <3>2. v \in ws <=> \E p \in ps : page[p].win = v
      BY DEF ws
    <3>3. Routed(v) /\ v \notin ws <=> Routed(v)'
      BY <1>3, <3>2, PagesHold DEF Routed
    <3>. QED
      BY <1>8, <3>1, <3>3
  <2>2. listening' <=> observed' # {}
    BY <1>8 DEF IInv, ObserversExact
  <2>. QED
    BY <2>1, <2>2, ObserversByWindow
<1>. QED
  BY <1>7, <1>8, <1>10, <1>11, <1>12, <1>13 DEF IInv, DetachedLocation

LEMMA PageClosedSound ==
  ASSUME IInv, NEW p \in Pages, PageClosed(p)
  PROVE  IInv'
<1>1. page \in [Pages -> Page] /\ page[p].state = "closing" /\ 0 \notin DOMAIN win
  BY WindowNumbers DEF IInv, TypeOK, PageClosed
<1>2. page' = [page EXCEPT ![p] = [page[p] EXCEPT !.state = "closed", !.win = 0]]
  BY <1>1 DEF PageClosed
<1>3. /\ page' \in [Pages -> Page] /\ page'[p].state = "closed" /\ page'[p].win = 0 /\ page'[p].pending = page[p].pending
      /\ page'[p].late = page[p].late /\ page'[p].context = page[p].context
      /\ \A q \in Pages : q # p => page'[q] = page[q]
  BY <1>1, <1>2 DEF Page
<1>4. UNCHANGED <<win, nav, context, observed, listening, policy, abouts, detached>> /\ Idle
  BY DEF PageClosed
<1>5. TypeOK'
  BY <1>3, <1>4 DEF IInv, TypeOK
<1>6. Sited'
  <2>1. ASSUME NEW q \in Pages PROVE PageSited(q)'
    BY <1>1, <1>3, <1>4 DEF IInv, Sited, PageSited
  <2>2. WindowsOwn'
    BY <1>3 DEF IInv, Sited, WindowsOwn, Holds
  <2>3. ASSUME NEW n \in Navs PROVE NavSited(n)' /\ NavHeld(n)'
    <3>1. nav'[n].state # "content"
      BY <1>4 DEF Idle
    <3>2. NavSited(n)'
      BY <1>3, <1>4 DEF IInv, Sited, NavSited
    <3>. QED
      BY <3>1, <3>2 DEF NavHeld
  <2>4. UnderSited'
    BY <1>4 DEF IInv, Sited, UnderSited
  <2>. QED
    BY <2>1, <2>2, <2>3, <2>4 DEF Sited
<1>7. Counted'
  <2>1. \A q \in Pages : Flight(q)' = Flight(q) /\ page'[q].pending = page[q].pending
    BY <1>3, <1>4 DEF Flight
  <2>. QED
    BY <2>1 DEF IInv, Counted
<1>8. \A q \in Pages : ShowsOwn(q)'
  BY <1>3, <1>4 DEF IInv, ShowsOwn
<1>9. ObserversExact'
  <2>1. ASSUME NEW v PROVE Routed(v)' <=> Routed(v)
    BY <1>1, <1>3 DEF Routed
  <2>. QED
    BY <1>4, <2>1, ObserversByWindow DEF IInv
<1>. QED
  BY <1>4, <1>5, <1>6, <1>7, <1>8, <1>9 DEF IInv, DetachedLocation

-----------------------------------------------------------------------------
(* Navigations that arrive, call back, write and end.                        *)

(* A navigation that reaches its next stage, its window with it.             *)
LEMMA StageSound ==
  ASSUME IInv, NEW n \in Navs, NEW s \in Busy, nav[n].state \in Busy, nav' = [nav EXCEPT ![n].state = s],
         win' \in Seq(Window), DOMAIN win' = DOMAIN win,
         \A w \in DOMAIN win : win'[w].made = win[w].made /\ win'[w].under = win[w].under /\ win'[w].open = win[w].open,
         \A p \in Pages : ShowsOwn(p)', NavHeld(n)',
         UNCHANGED <<page, context, observed, listening, policy, abouts, detached>>
  PROVE  IInv'
<1>1. nav \in [Navs -> Nav]
  BY DEF IInv, TypeOK
<1>2. /\ nav' \in [Navs -> Nav] /\ nav'[n].state = s /\ nav'[n].page = nav[n].page /\ nav'[n].win = nav[n].win
      /\ nav'[n].url = nav[n].url /\ \A m \in Navs : m # n => nav'[m] = nav[m]
  BY <1>1 DEF Nav
<1>3. TypeOK'
  BY <1>2 DEF IInv, TypeOK
<1>4. Sited'
  <2>1. ASSUME NEW q \in Pages PROVE PageSited(q)'
    BY PagesHold DEF IInv, Sited, PageSited
  <2>2. WindowsOwn'
    BY DEF IInv, Sited, WindowsOwn, Holds
  <2>3. ASSUME NEW m \in Navs PROVE NavSited(m)'
    BY <1>2 DEF IInv, Sited, NavSited
  <2>4. ASSUME NEW m \in Navs, m # n PROVE NavHeld(m)'
    <3>1. NavHeld(m) /\ nav'[m] = nav[m] /\ (nav[m].state = "content" => nav[m].page \in Pages)
      BY <1>2, <2>4 DEF IInv, Sited, NavSited, Busy
    <3>. QED
      BY <3>1, PagesHold DEF NavHeld
  <2>5. UnderSited'
    <3>. SUFFICES ASSUME NEW w \in DOMAIN win, NEW m \in win[w].under PROVE nav'[m].state # "none"
      BY DEF UnderSited
    <3>1. nav[m].state # "none" /\ m \in Navs
      <4>1. win[w] \in Window
        BY SeqWith DEF IInv, TypeOK
      <4>. QED
        BY <4>1 DEF IInv, Sited, UnderSited, Window
    <3>. QED
      BY <1>2, <3>1 DEF Busy
  <2>. QED
    BY <2>1, <2>2, <2>3, <2>4, <2>5 DEF Sited
<1>5. Counted'
  <2>1. \A q \in Pages : Flight(q)' = Flight(q)
    BY <1>2 DEF Flight
  <2>. QED
    BY <2>1 DEF IInv, Counted
<1>6. ObserversExact'
  BY DEF IInv, ObserversExact
<1>. QED
  BY <1>3, <1>4, <1>5, <1>6 DEF IInv, DetachedLocation

(* What a window shows stays its page's own when a navigation under way goes *)
(* on: its page and its URL stay.                                            *)
LEMMA ShowsKept ==
  ASSUME IInv, NEW n \in Navs, NEW s, nav' = [nav EXCEPT ![n].state = s], NEW q \in Pages,
         page'[q].win = page[q].win, page'[q].state = page[q].state,
         page[q].win # 0 =>
           LET w == page[q].win IN win'[w].made = win[w].made /\ win'[w].under = win[w].under /\ win'[w].shows = win[w].shows
  PROVE  ShowsOwn(q)'
<1>1. nav \in [Navs -> Nav]
  BY DEF IInv, TypeOK
<1>2. \A m \in Navs : nav'[m].page = nav[m].page /\ nav'[m].url = nav[m].url
  BY <1>1 DEF Nav
<1>3. page[q].win # 0 => page[q].win \in DOMAIN win /\ win[page[q].win] \in Window
  BY PagesHold, SeqWith DEF IInv, TypeOK
<1>4. page[q].win # 0 => win[page[q].win].under \subseteq Navs
  BY <1>3 DEF Window
<1>. QED
  BY <1>2, <1>4 DEF IInv, ShowsOwn

LEMMA NavArrivesSound ==
  ASSUME IInv, NEW n \in Navs, NavArrives(n)
  PROVE  IInv'
<1>. DEFINE p == nav[n].page
            w == page[p].win
            x == [win[w] EXCEPT !.url = nav[n].url]
<1>1. /\ p \in Pages /\ win \in Seq(Window) /\ nav[n].url \in URLs /\ nav[n].state = "fetching" /\ NavSited(n)
      /\ page[p].state = "open" /\ w = nav[n].win /\ w \in DOMAIN win /\ w # 0
  <2>1. nav \in [Navs -> Nav] /\ NavSited(n) /\ nav[n].state = "fetching"
    BY DEF NavArrives, IInv, TypeOK, Sited
  <2>2. p \in Pages /\ nav[n].win \in DOMAIN win /\ nav[n].url \in URLs
    BY <2>1 DEF NavSited, Busy, Nav
  <2>. QED
    BY <2>1, <2>2, PagesHold DEF NavArrives, Writes, IsCurrent, IInv, TypeOK
<1>2. win' = [win EXCEPT ![w] = x] /\ nav' = [nav EXCEPT ![n].state = "content"]
  BY DEF NavArrives
<1>3. UNCHANGED <<page, context, observed, listening, policy, abouts, detached>>
  BY DEF NavArrives
<1>4. win[w] \in Window
  BY <1>1, SeqWith
<1>5. x \in Window /\ x.made = win[w].made /\ x.under = win[w].under /\ x.open = win[w].open /\ x.shows = win[w].shows
  BY <1>1, <1>4 DEF Window
<1>. HIDE DEF x
<1>6. win' \in Seq(Window) /\ DOMAIN win' = DOMAIN win /\ \A v \in DOMAIN win : win'[v] = IF v = w THEN x ELSE win[v]
  BY <1>1, <1>2, <1>5, SeqWith
<1>7. \A q \in Pages : ShowsOwn(q)'
  BY <1>2, <1>3, <1>5, <1>6, PagesHold, ShowsKept
<1>8. NavHeld(n)'
  <2>1. nav'[n].page = p /\ nav'[n].win = nav[n].win
    BY <1>2 DEF IInv, TypeOK, Nav
  <2>. QED
    BY <1>1, <1>3, <2>1 DEF NavHeld
<1>. QED
  BY <1>1, <1>2, <1>3, <1>5, <1>6, <1>7, <1>8, StageSound DEF Busy

LEMMA WriteHTMLSound ==
  ASSUME IInv, NEW n \in Navs, WriteHTML(n)
  PROVE  IInv'
<1>. DEFINE p == nav[n].page
            w == page[p].win
            x == [win[w] EXCEPT !.shows = nav[n].url.doc]
<1>1. /\ p \in Pages /\ win \in Seq(Window) /\ nav \in [Navs -> Nav] /\ nav[n].url \in URLs
      /\ nav[n].state = "content" /\ NavSited(n) /\ NavHeld(n)
  <2>1. nav \in [Navs -> Nav] /\ NavSited(n) /\ NavHeld(n) /\ nav[n].state = "content"
    BY DEF WriteHTML, IInv, TypeOK, Sited
  <2>. QED
    BY <2>1 DEF NavSited, Busy, Nav, IInv, TypeOK
<1>2. win' = [win EXCEPT ![w] = x] /\ nav' = [nav EXCEPT ![n].state = "scripts"]
  BY DEF WriteHTML
<1>3. UNCHANGED <<page, context, observed, listening, policy, abouts, detached>>
  BY DEF WriteHTML
<1>4. w # 0 /\ w \in DOMAIN win /\ win[w] \in Window
  BY <1>1, PagesHold, SeqWith DEF NavHeld
<1>5. x \in Window /\ x.made = win[w].made /\ x.under = win[w].under /\ x.open = win[w].open /\ x.shows = nav[n].url.doc
  BY <1>1, <1>4, UrlFacts DEF Window
<1>. HIDE DEF x
<1>6. win' \in Seq(Window) /\ DOMAIN win' = DOMAIN win /\ \A v \in DOMAIN win : win'[v] = IF v = w THEN x ELSE win[v]
  BY <1>1, <1>2, <1>4, <1>5, SeqWith
<1>7. nav'[n].state = "scripts" /\ nav'[n].page = p /\ nav'[n].url = nav[n].url
  BY <1>1, <1>2 DEF Nav
<1>8. ASSUME NEW q \in Pages PROVE ShowsOwn(q)'
  <2>1. CASE q = p
    <3>1. CASE page[p].state = "open" /\ w = nav[n].win
      <4>1. win[w].made = nav[n].url
        BY <1>1, <3>1 DEF NavSited, Busy
      <4>. QED
        BY <1>3, <1>4, <1>5, <1>6, <2>1, <3>1, <4>1 DEF ShowsOwn
    <3>2. CASE n \in win[w].under
      BY <1>3, <1>4, <1>5, <1>6, <1>7, <2>1, <3>2 DEF ShowsOwn
    <3>. QED
      BY <1>1, <3>1, <3>2 DEF NavHeld
  <2>2. CASE q # p
    <3>1. page[q].win # 0 => page[q].win # w /\ page[q].win \in DOMAIN win
      BY <1>1, <2>2, PagesHold
    <3>. QED
      BY <1>2, <1>3, <1>6, <3>1, ShowsKept
  <2>. QED
    BY <2>1, <2>2
<1>9. NavHeld(n)'
  BY <1>7 DEF NavHeld
<1>. QED
  BY <1>1, <1>2, <1>3, <1>5, <1>6, <1>8, <1>9, StageSound DEF Busy

(* One that ends is taken off the count of its page.                         *)
LEMMA NavFinishesSound ==
  ASSUME IInv, NEW n \in Navs, NavFinishes(n)
  PROVE  IInv'
<1>0. nav' = [nav EXCEPT ![n].state = "ended"] /\ nav[n].state \in Busy
      /\ UNCHANGED <<win, context, observed, listening, policy, abouts, detached>>
  BY DEF NavFinishes, Ends, Busy
<1>1. /\ nav[n].page \in Pages /\ page[nav[n].page].state # "none"
      /\ page \in [Pages -> Page] /\ nav \in [Navs -> Nav]
  BY <1>0 DEF IInv, TypeOK, Sited, NavSited
<1>. PICK p \in Pages : p = nav[n].page
  BY <1>1
<1>2. IsFiniteSet(Flight(p)) /\ page[p].pending = Cardinality(Flight(p)) /\ n \in Flight(p)
  BY <1>0, <1>1 DEF IInv, Counted, Flight
<1>3. /\ IsFiniteSet(Flight(p) \ {n}) /\ Cardinality(Flight(p) \ {n}) = page[p].pending - 1
      /\ page[p].pending - 1 \in Nat
  <2>. DEFINE F == Flight(p)
  <2>. HIDE DEF F
  <2>1. IsFiniteSet(F \ {n}) /\ Cardinality(F \ {n}) = Cardinality(F) - 1
    BY <1>2, FS_RemoveElement DEF F
  <2>2. Cardinality(F \ {n}) \in Nat
    BY <2>1, FS_CardinalityType
  <2>. QED
    BY <1>2, <2>1, <2>2 DEF F
<1>4. page' = [page EXCEPT ![p] = [[page[p] EXCEPT !.completion = None] EXCEPT !.pending = @ - 1]]
  BY <1>1 DEF NavFinishes, NavEnds, Flushed
<1>5. /\ page' \in [Pages -> Page] /\ page'[p].pending = page[p].pending - 1
      /\ \A q \in Pages : q # p => page'[q] = page[q]
      /\ \A q \in Pages : /\ page'[q].state = page[q].state /\ page'[q].win = page[q].win
                           /\ page'[q].late = page[q].late /\ page'[q].context = page[q].context
  <2>. DEFINE r == [[page[p] EXCEPT !.completion = None] EXCEPT !.pending = @ - 1]
  <2>1. page[p] \in Page
    BY <1>1
  <2>2. /\ r \in Page /\ r.pending = page[p].pending - 1 /\ r.state = page[p].state
        /\ r.win = page[p].win /\ r.late = page[p].late /\ r.context = page[p].context
    BY <1>3, <2>1 DEF Page
  <2>. HIDE DEF r
  <2>3. page' = [page EXCEPT ![p] = r]
    BY <1>4 DEF r
  <2>. QED
    BY <1>1, <2>2, <2>3
<1>6. nav' \in [Navs -> Nav] /\ nav'[n].state = "ended" /\ nav'[n].page = p /\ \A m \in Navs : m # n => nav'[m] = nav[m]
  BY <1>0, <1>1 DEF Nav
<1>7. TypeOK'
  BY <1>0, <1>5, <1>6 DEF IInv, TypeOK
<1>8. Sited'
  <2>1. (\A q \in Pages : PageSited(q)') /\ WindowsOwn'
    BY <1>0, <1>5 DEF IInv, Sited, PageSited, WindowsOwn, Holds
  <2>2. ASSUME NEW m \in Navs, m # n PROVE NavSited(m)'
    BY <1>0, <1>5, <1>6, <2>2 DEF IInv, Sited, NavSited
  <2>3. ASSUME NEW m \in Navs, m # n PROVE NavHeld(m)'
    <3>1. NavHeld(m) /\ nav'[m] = nav[m] /\ (nav[m].state = "content" => nav[m].page \in Pages)
      BY <1>6, <2>3 DEF IInv, Sited, NavSited, Busy
    <3>. QED
      BY <1>0, <1>5, <3>1 DEF NavHeld
  <2>4. NavSited(n)' /\ NavHeld(n)'
    BY <1>6 DEF NavSited, NavHeld, Busy
  <2>5. UnderSited'
    <3>. SUFFICES ASSUME NEW w \in DOMAIN win, NEW m \in win[w].under PROVE nav'[m].state # "none"
      BY <1>0 DEF UnderSited
    <3>1. nav[m].state # "none" /\ m \in Navs
      <4>1. win[w] \in Window
        BY SeqWith DEF IInv, TypeOK
      <4>. QED
        BY <4>1 DEF IInv, Sited, UnderSited, Window
    <3>. QED
      BY <1>6, <3>1
  <2>. QED
    BY <2>1, <2>2, <2>3, <2>4, <2>5 DEF Sited
<1>9. Counted'
  <2>1. Flight(p)' = Flight(p) \ {n}
    <3>1. ASSUME NEW m \in Navs PROVE m \in Flight(p)' <=> m \in Flight(p) \ {n}
      BY <1>6 DEF Flight, Busy
    <3>. QED
      BY <3>1 DEF Flight
  <2>2. \A q \in Pages : q # p => Flight(q)' = Flight(q)
    BY <1>6 DEF Flight
  <2>3. IsFiniteSet(Flight(p))' /\ (page[p].pending = Cardinality(Flight(p)))'
    BY <1>3, <1>5, <2>1
  <2>4. ASSUME NEW q \in Pages, q # p PROVE IsFiniteSet(Flight(q))' /\ (page[q].pending = Cardinality(Flight(q)))'
    BY <1>5, <2>2, <2>4 DEF IInv, Counted
  <2>. QED
    BY <2>3, <2>4 DEF Counted
<1>10. \A q \in Pages : ShowsOwn(q)'
  BY <1>0, <1>5, ShowsKept
<1>11. ObserversExact'
  <2>1. ASSUME NEW v PROVE Routed(v)' <=> Routed(v)
    BY <1>5 DEF Routed
  <2>. QED
    BY <1>0, <2>1, ObserversByWindow DEF IInv
<1>. QED
  BY <1>0, <1>7, <1>8, <1>9, <1>10, <1>11 DEF IInv, DetachedLocation

-----------------------------------------------------------------------------
(* Pages and windows that are minted, and navigations that start.            *)

LEMMA MintedFacts ==
  ASSUME TypeOK, NEW w \in Window, NEW v \in Window
  PROVE  /\ Append(win, w) \in Seq(Window) /\ win \o <<v, w>> \in Seq(Window)
         /\ DOMAIN Append(win, w) = DOMAIN win \cup {Len(win) + 1}
         /\ DOMAIN (win \o <<v, w>>) = DOMAIN win \cup {Len(win) + 1, Len(win) + 2}
         /\ Append(win, w)[Len(win) + 1] = w
         /\ (win \o <<v, w>>)[Len(win) + 1] = v /\ (win \o <<v, w>>)[Len(win) + 2] = w
         /\ \A i \in DOMAIN win : Append(win, w)[i] = win[i] /\ (win \o <<v, w>>)[i] = win[i]
         /\ Len(win) + 1 \notin DOMAIN win /\ Len(win) + 2 \notin DOMAIN win /\ Len(win) \in Nat
BY DEF TypeOK

LEMMA NewPageSound ==
  ASSUME IInv, NEW c \in Contexts, NEW p \in Pages, NewPage(c, p)
  PROVE  IInv'
<1>. DEFINE w == [NewWindow(AboutBlank) EXCEPT !.history = NewList]
            r1 == [NoPage EXCEPT !.state = "open"]
            r2 == [r1 EXCEPT !.context = c]
            k == Len(win) + 1
            r == [r2 EXCEPT !.win = k]
<1>1. TypeOK /\ page \in [Pages -> Page] /\ PageSited(p) /\ page[p].state = "none" /\ Len(win) \in Nat
  BY WindowNumbers DEF IInv, TypeOK, Sited, NewPage
<1>2. w \in Window /\ w.shows = Blank /\ w.under = Calling /\ w.open
  BY NewWindowFacts, NewListTyped, UrlFacts DEF Window
<1>3. r \in Page /\ r.state = "open" /\ r.win = Len(win) + 1 /\ r.context = c /\ r.pending = 0 /\ r.late = 0
  <2>. HIDE DEF r1, r2, r
  <2>1. PageIs(r1, "open", NoPage.context, NoPage.win, 0, NoPage.history, NoPage.pending, NoPage.completion)
    BY NoPageTyped DEF Page, PageIs, r1, NoPage
  <2>2. PageIs(r2, "open", c, r1.win, 0, r1.history, r1.pending, r1.completion)
    BY <2>1 DEF Page, PageIs, r2
  <2>3. k \in Nat
    BY <1>1
  <2>. HIDE DEF k
  <2>4. PageIs(r, "open", c, k, 0, r1.history, r1.pending, r1.completion)
    BY <2>2, <2>3 DEF Page, PageIs, r
  <2>. QED
    BY <2>1, <2>2, <2>4 DEF PageIs, NoPage, k
<1>. HIDE DEF w
<1>4. win' = Append(win, w) /\ page' = [page EXCEPT ![p] = r]
  BY DEF NewPage, w
<1>. HIDE DEF r
<1>5. page' \in [Pages -> Page] /\ page'[p] = r /\ \A q \in Pages \ {p} : page'[q] = page[q]
  BY <1>1, <1>3, <1>4
<1>6. TypeOK' /\ DetachedLocation'
  BY <1>1, <1>2, <1>4, <1>5, MintedFacts DEF NewPage, IInv, TypeOK, Observe, DetachedLocation
<1>7. page[p].win = 0 /\ 0 \notin observed
  BY <1>1, PagesHold DEF PageSited
<1>8. page[p].pending = 0
  <2>1. Flight(p) = {}
    BY <1>1 DEF Flight, IInv, Sited, NavSited
  <2>. QED
    BY <2>1, FS_EmptySet DEF IInv, Counted
<1>9. Seats(p, Len(win) + 1)
  <2>1. observed' = (observed \ {page[p].win}) \cup {Len(win) + 1} /\ listening' = TRUE /\ nav' = nav
    BY <1>7 DEF NewPage, Observe
  <2>2. \A q \in Pages \ {p} : Keeps(q)
    BY <1>5 DEF Keeps
  <2>3. /\ Len(win) + 1 \in DOMAIN win' /\ Len(win) + 1 \notin DOMAIN win /\ DOMAIN win \subseteq DOMAIN win'
        /\ win'[Len(win) + 1] = w /\ \A v \in DOMAIN win : win'[v] = win[v]
        /\ DOMAIN win' = DOMAIN win \cup {Len(win) + 1}
    BY <1>1, <1>2, <1>4, MintedFacts
  <2>. QED
    BY <1>1, <1>2, <1>3, <1>5, <1>8, <2>1, <2>2, <2>3 DEF Seats, Stays
<1>. QED
  BY <1>6, <1>9, SeatsSound

LEMMA OpenPageSound ==
  ASSUME IInv, NEW p \in Pages, NEW q \in Pages, NEW n \in Navs, NEW url \in URLs, OpenPage(p, q, n, url)
  PROVE  IInv'
<1>. DEFINE v == [NewWindow(AboutBlank) EXCEPT !.history = NewList, !.open = FALSE]
            w == NewWindow(url)
            r1 == [NoPage EXCEPT !.state = "open"]
            r2 == [r1 EXCEPT !.context = page[p].context]
            k == Len(win) + 2
            r3 == [r2 EXCEPT !.win = k]
            r4 == [r3 EXCEPT !.history = Push(NoPage.history, Entry(url, FALSE))]
            r5 == [r4 EXCEPT !.pending = 1]
            r == [r5 EXCEPT !.completion = n]
            f == [state |-> "fetching", page |-> q, win |-> Len(win) + 2, url |-> url]
<1>1. /\ TypeOK /\ page \in [Pages -> Page] /\ PageSited(p) /\ PageSited(q) /\ nav \in [Navs -> Nav]
      /\ page[p].state # "none" /\ page[q].state = "none" /\ nav[n].state = "none" /\ Len(win) \in Nat
  <2>1. Holds(p) # {} /\ PageSited(p) /\ page[p].state \in {"none", "open", "closing", "closed"}
    BY DEF OpenPage, IInv, Sited, TypeOK, Page
  <2>2. page[p].state # "none"
    BY <2>1 DEF Holds, PageSited
  <2>. QED
    BY <2>2, WindowNumbers DEF IInv, TypeOK, Sited, OpenPage
<1>2. /\ v \in Window /\ v.under = Calling
      /\ w \in Window /\ w.shows = Blank /\ w.made = url /\ w.under = Calling /\ w.open
  BY NewWindowFacts, NewListTyped, UrlFacts DEF Window
<1>3. /\ r \in Page /\ r.state = "open" /\ r.win = Len(win) + 2 /\ r.context \in Contexts /\ r.pending = 1 /\ r.late = 0
  <2>. HIDE DEF r1, r2, r3, r4, r5, r
  <2>1. Push(NoPage.history, Entry(url, FALSE)) \in History
    BY NewListTyped, EntryTyped, PushTyped DEF NoPage
  <2>2. page[p].context \in Contexts
    BY <1>1 DEF PageSited
  <2>3. r1 \in Page /\ r1.late = 0 /\ r1.state = "open"
    BY NoPageTyped DEF Page, r1, NoPage
  <2>4. r2 \in Page /\ r2.late = 0 /\ r2.state = "open" /\ r2.context = page[p].context
    BY <2>2, <2>3 DEF Page, PageIs, r2
  <2>0. k \in Nat
    BY <1>1
  <2>. HIDE DEF k
  <2>5. r3 \in Page /\ r3.late = 0 /\ r3.state = "open" /\ r3.context = page[p].context /\ r3.win = k
    BY <2>0, <2>4 DEF Page, PageIs, r3
  <2>6. r4 \in Page /\ r4.late = 0 /\ r4.state = "open" /\ r4.context = page[p].context /\ r4.win = k
    BY <2>1, <2>5 DEF Page, PageIs, r4
  <2>7. /\ r5 \in Page /\ r5.late = 0 /\ r5.state = "open" /\ r5.context = page[p].context /\ r5.win = k
        /\ r5.pending = 1
    BY <2>6 DEF Page, PageIs, r5
  <2>8. r \in Page /\ r.late = 0 /\ r.state = "open" /\ r.win = k /\ r.context \in Contexts /\ r.pending = 1
    BY <2>2, <2>7 DEF Page, PageIs, r
  <2>. QED
    BY <2>8 DEF k
<1>4. f \in Nav
  BY <1>1 DEF Nav, Busy
<1>. HIDE DEF v, w
<1>5. win' = win \o <<v, w>> /\ page' = [page EXCEPT ![q] = r] /\ nav' = [nav EXCEPT ![n] = f]
  BY DEF OpenPage, v, w
<1>. HIDE DEF r
<1>6. page' \in [Pages -> Page] /\ page'[q] = r /\ \A o \in Pages \ {q} : page'[o] = page[o]
  BY <1>1, <1>3, <1>5
<1>7. TypeOK' /\ DetachedLocation'
  BY <1>1, <1>2, <1>4, <1>5, <1>6, MintedFacts DEF OpenPage, IInv, TypeOK, Observe, DetachedLocation
<1>8. page[q].win = 0 /\ 0 \notin observed
  BY <1>1, PagesHold DEF PageSited
<1>9. page[q].pending = 0
  <2>1. Flight(q) = {}
    BY <1>1 DEF Flight, IInv, Sited, NavSited
  <2>. QED
    BY <2>1, FS_EmptySet DEF IInv, Counted
<1>10. Seats(q, Len(win) + 2)
  <2>1. observed' = (observed \ {page[q].win}) \cup {Len(win) + 2} /\ listening' = TRUE
    BY <1>8 DEF OpenPage, Observe
  <2>2. \A o \in Pages \ {q} : Keeps(o)
    BY <1>6 DEF Keeps
  <2>3. /\ Len(win) + 2 \in DOMAIN win' /\ Len(win) + 2 \notin DOMAIN win /\ DOMAIN win \subseteq DOMAIN win'
        /\ win'[Len(win) + 2] = w /\ \A i \in DOMAIN win : win'[i] = win[i]
        /\ DOMAIN win' = DOMAIN win \cup {Len(win) + 1, Len(win) + 2} /\ win'[Len(win) + 1] = v
    BY <1>1, <1>2, <1>5, MintedFacts
  <2>4. nav' = [nav EXCEPT ![n] = [state |-> "fetching", page |-> q, win |-> Len(win) + 2, url |-> win'[Len(win) + 2].made]]
        /\ page'[q].pending = page[q].pending + 1
    <3>1. win'[Len(win) + 2].made = url
      BY <1>2, <2>3
    <3>2. page'[q].pending = 0 + 1
      BY <1>3, <1>6
    <3>. QED
      BY <1>5, <1>9, <3>1, <3>2
  <2>. QED
    BY <1>1, <1>2, <1>3, <1>6, <2>1, <2>2, <2>3, <2>4 DEF Seats, Stays
<1>. QED
  BY <1>7, <1>10, SeatsSound

LEMMA HistorySet ==
  ASSUME NEW r \in Page, NEW h \in History
  PROVE  PageIs([r EXCEPT !.history = h], r.state, r.context, r.win, r.late, h, r.pending, r.completion)
BY DEF Page, PageIs

LEMMA NavigateSound ==
  ASSUME IInv, NEW p \in Pages, NEW n \in Navs, NEW url \in URLs, NEW history \in History, NEW push \in BOOLEAN,
         page[p].win # 0, Navigate(p, n, url, history, push)
  PROVE  IInv'
<1>. DEFINE old == page[p].win
            pg == [page[p] EXCEPT !.history = history]
            pushed(pop, h) == IF push THEN Push(h, Entry(url, pop)) ELSE history
            w == NewWindow(url)
            k == Len(win) + 1
<1>1. /\ TypeOK /\ page \in [Pages -> Page] /\ page[p] \in Page /\ win \in Seq(Window) /\ PageSited(p)
      /\ old \in DOMAIN win /\ win[old] \in Window /\ Len(win) \in Nat /\ nav \in [Navs -> Nav]
      /\ page[p].state \in {"open", "closing"} /\ abouts \in Seq(Pages)
  <2>1. page[p] \in Page /\ PageSited(p) /\ old \in DOMAIN win
    BY PagesHold DEF IInv, TypeOK, Sited
  <2>2. page[p].state \in {"open", "closing"}
    BY <2>1 DEF PageSited, Page
  <2>. QED
    BY <2>1, <2>2, WindowNumbers, SeqWith DEF IInv, TypeOK
<1>2. \A pop \in BOOLEAN, h \in History : pushed(pop, h) \in History
  BY EntryTyped, PushTyped
<1>3. pg \in Page /\ \A h \in History : [pg EXCEPT !.history = h] = [page[p] EXCEPT !.history = h]
  BY <1>1 DEF Page
<1>4. DetachedLocation'
  BY DEF Navigate, IInv, DetachedLocation
<1>5. CASE IsHashNavigation(Frame(p).url, url)
  <2>. DEFINE h == pushed(TRUE, MarkPopState(history))
              r == [[pg EXCEPT !.history = h] EXCEPT !.completion = None]
              mirror == IF push THEN [win[old] EXCEPT !.history = Push(@, Entry(url, TRUE))] ELSE win[old]
              x == [mirror EXCEPT !.url = url]
  <2>1. page' = [page EXCEPT ![p] = r]
    BY <1>5 DEF Navigate, Flushed
  <2>2. win' = [win EXCEPT ![old] = x]
    BY <1>5 DEF Navigate, Frame
  <2>3. UNCHANGED <<nav, observed, listening, context, policy, abouts, detached>>
    BY <1>5 DEF Navigate
  <2>4. h \in History
    BY <1>2, MarkTyped
  <2>. HIDE DEF h, pg
  <2>5. r \in Page /\ r.state = page[p].state /\ r.win = old /\ r.late = page[p].late /\ r.context = page[p].context /\ r.pending = page[p].pending
    BY <1>1, <1>3, <2>4 DEF Page, pg
  <2>6. x \in Window /\ x.made = win[old].made /\ x.shows = win[old].shows /\ x.under = win[old].under /\ x.open = win[old].open
    <3>1. Push(win[old].history, Entry(url, TRUE)) \in History
      BY <1>1, EntryTyped, PushTyped DEF Window
    <3>. QED
      BY <1>1, <3>1 DEF Window
  <2>. HIDE DEF r, x
  <2>7. win' \in Seq(Window) /\ DOMAIN win' = DOMAIN win
    BY <1>1, <2>2, <2>6, SeqWith
  <2>8. TypeOK'
    BY <1>1, <2>1, <2>3, <2>5, <2>7 DEF TypeOK
  <2>9. Quiet
    BY <1>1, <2>1, <2>2, <2>3, <2>5, <2>6, <2>7 DEF Quiet, Keeps, Stays
  <2>. QED
    BY <1>4, <2>8, <2>9, QuietSound
<1>6. CASE ~IsHashNavigation(Frame(p).url, url) /\ policy # "open"
  <2>. DEFINE x == [win[old] EXCEPT !.url = url]
  <2>1. page' = [page EXCEPT ![p] = pg] /\ UNCHANGED <<nav, observed, listening, context, policy, abouts, detached>>
    BY <1>6 DEF Navigate
  <2>2. win' = [win EXCEPT ![old] = x] \/ win' = win
    BY <1>6 DEF Navigate
  <2>3. x \in Window /\ x.made = win[old].made /\ x.shows = win[old].shows /\ x.under = win[old].under /\ x.open = win[old].open
    BY <1>1 DEF Window
  <2>4. /\ pg.state = page[p].state /\ pg.win = old /\ pg.late = page[p].late
        /\ pg.context = page[p].context /\ pg.pending = page[p].pending
    <3>1. PageIs(pg, page[p].state, page[p].context, old, page[p].late, history, page[p].pending, page[p].completion)
      BY <1>1, HistorySet
    <3>. HIDE DEF pg
    <3>. QED
      BY <3>1 DEF PageIs
  <2>. HIDE DEF x, pg
  <2>5. win' \in Seq(Window) /\ DOMAIN win' = DOMAIN win
    <3>1. CASE win' = [win EXCEPT ![old] = x]
      BY <1>1, <2>3, <3>1, SeqWith
    <3>. QED
      BY <1>1, <2>2, <3>1
  <2>6. TypeOK'
    BY <1>1, <1>3, <2>1, <2>5 DEF TypeOK
  <2>7. Quiet
    BY <1>1, <2>1, <2>2, <2>3, <2>4, <2>5 DEF Quiet, Keeps, Stays
  <2>. QED
    BY <1>4, <2>6, <2>7, QuietSound
<1>7. CASE ~IsHashNavigation(Frame(p).url, url) /\ policy = "open" /\ url.doc \in Unsupported
  <2>. DEFINE h == pushed(FALSE, history)
              r == [pg EXCEPT !.history = h]
              x == IF push THEN [win[old] EXCEPT !.history = Push(@, Entry(url, FALSE))] ELSE win[old]
  <2>1. page' = [page EXCEPT ![p] = r] /\ win' = [win EXCEPT ![old] = x]
        /\ UNCHANGED <<nav, observed, listening, context, policy, abouts, detached>>
    BY <1>7, BrowserAssumption DEF Navigate, Frame
  <2>2. h \in History
    BY <1>2
  <2>. HIDE DEF h, pg
  <2>3. /\ r \in Page /\ r.state = page[p].state /\ r.win = old /\ r.late = page[p].late
        /\ r.context = page[p].context /\ r.pending = page[p].pending
    BY <1>1, <1>3, <2>2 DEF Page, pg
  <2>4. /\ x \in Window /\ x.made = win[old].made /\ x.shows = win[old].shows
        /\ x.under = win[old].under /\ x.open = win[old].open
    <3>1. Push(win[old].history, Entry(url, FALSE)) \in History
      BY <1>1, EntryTyped, PushTyped DEF Window
    <3>. QED
      BY <1>1, <3>1 DEF Window
  <2>. HIDE DEF r, x
  <2>5. win' \in Seq(Window) /\ DOMAIN win' = DOMAIN win
    BY <1>1, <2>1, <2>4, SeqWith
  <2>6. TypeOK'
    BY <1>1, <2>1, <2>3, <2>5 DEF TypeOK
  <2>7. Quiet
    BY <1>1, <2>1, <2>3, <2>4, <2>5 DEF Quiet, Keeps, Stays
  <2>. QED
    BY <1>4, <2>6, <2>7, QuietSound
<1>8. CASE ~IsHashNavigation(Frame(p).url, url) /\ policy = "open" /\ url.doc \notin Unsupported
  <2>. DEFINE left == [win EXCEPT ![old] = CloseWindow(@)]
              h == pushed(FALSE, history)
              m == [pg EXCEPT !.history = h]
              late == IF page[p].state = "open" THEN 0 ELSE k
              r1 == Seated(m)
              r2 == [r1 EXCEPT !.pending = @ + 1, !.completion = n]
              f == [state |-> "fetching", page |-> p, win |-> k, url |-> url]
  <2>1. ReplaceWindow(p, url) /\ UNCHANGED <<context, policy, detached>>
    BY <1>8 DEF Navigate
  <2>2. win' = Append(left, w)
    BY <2>1 DEF ReplaceWindow
  <2>3. \/ nav' = nav /\ page' = [page EXCEPT ![p] = r1] /\ abouts' = Append(abouts, p)
        \/ nav[n].state = "none" /\ nav' = [nav EXCEPT ![n] = f] /\ page' = [page EXCEPT ![p] = r2] /\ abouts' = abouts
    <3>1. CASE url.doc = Blank
      <4>1. nav' = nav /\ page' = [page EXCEPT ![p] = r1] /\ abouts' = Append(abouts, p)
        BY <1>8, <3>1 DEF Navigate
      <4>. QED
        BY <4>1
    <3>2. CASE url.doc # Blank
      <4>1. nav[n].state = "none" /\ nav' = [nav EXCEPT ![n] = f] /\ page' = [page EXCEPT ![p] = r2] /\ abouts' = abouts
        BY <1>8, <3>2 DEF Navigate
      <4>. QED
        BY <4>1
    <3>. QED
      BY <3>1, <3>2
  <2>4. abouts' \in Seq(Pages)
    <3>. HIDE DEF r1, r2, f
    <3>1. abouts' = Append(abouts, p) \/ abouts' = abouts
      BY <2>3
    <3>. QED
      BY <1>1, <3>1
  <2>5. /\ w \in Window /\ w.made = url /\ w.shows = Blank /\ w.under = Calling /\ w.open
        /\ left[old] = CloseWindow(win[old]) /\ CloseWindow(win[old]) \in Window
        /\ CloseWindow(win[old]).made = win[old].made
        /\ CloseWindow(win[old]).under = win[old].under \cup Calling
    BY <1>1, NewWindowFacts, CloseWindowFacts
  <2>6. h \in History
    BY <1>2
  <2>. HIDE DEF h, pg, w
  <2>7. /\ r1 \in Page /\ r1.state = page[p].state /\ r1.win = k /\ r1.late = late
        /\ r1.context = page[p].context /\ r1.pending = page[p].pending
    <3>. HIDE DEF m
    <3>1. PageIs(pg, page[p].state, page[p].context, old, page[p].late, history, page[p].pending, page[p].completion)
      BY <1>1, HistorySet DEF pg
    <3>2. PageIs(m, page[p].state, page[p].context, old, page[p].late, h, page[p].pending, page[p].completion)
      BY <2>6, <3>1 DEF Page, PageIs, m
    <3>3. k \in Nat /\ late \in Nat
      BY <1>1
    <3>4. r1 = [m EXCEPT !.win = k, !.late = late]
      BY <3>2 DEF Seated, PageIs
    <3>. HIDE DEF k, late, r1
    <3>5. [m EXCEPT !.win = k, !.late = late] \in Page
      BY <3>2, <3>3 DEF Page, PageIs
    <3>. QED
      BY <3>2, <3>3, <3>4, <3>5 DEF Page, PageIs
  <2>. HIDE DEF r1, m
  <2>8. /\ r2 \in Page /\ r2.state = page[p].state /\ r2.win = k /\ r2.late = late
        /\ r2.context = page[p].context /\ r2.pending = page[p].pending + 1
    <3>1. page[p].pending + 1 \in Nat /\ r1.pending \in Nat
      BY <1>1, <2>7 DEF Page
    <3>2. r2 = [r1 EXCEPT !.pending = page[p].pending + 1, !.completion = n]
      BY <2>7 DEF Page
    <3>. HIDE DEF r2, late, k
    <3>3. [r1 EXCEPT !.pending = page[p].pending + 1, !.completion = n] \in Page
      BY <2>7, <3>1 DEF Page
    <3>. QED
      BY <2>7, <3>1, <3>2, <3>3 DEF Page
  <2>. HIDE DEF r2
  <2>9. f \in Nav /\ page[p].context \in Contexts
    BY <1>1 DEF Nav, Busy, PageSited
  <2>10. left \in Seq(Window) /\ DOMAIN left = DOMAIN win
    BY <1>1, <2>5, SeqWith
  <2>11. \A v \in DOMAIN win : left[v] = IF v = old THEN CloseWindow(win[old]) ELSE win[v]
    BY <1>1
  <2>. HIDE DEF left
  <2>12. /\ win' \in Seq(Window) /\ DOMAIN win' = DOMAIN win \cup {k} /\ k \notin DOMAIN win /\ win'[k] = w
         /\ \A v \in DOMAIN win : win'[v] = left[v]
    <3>1. Len(left) = Len(win) /\ k = Len(left) + 1
      BY <1>1, <2>10
    <3>. QED
      BY <1>1, <2>2, <2>5, <2>10, <3>1
  <2>13. TypeOK'
    BY <1>1, <2>1, <2>3, <2>4, <2>7, <2>8, <2>9, <2>12 DEF TypeOK, ReplaceWindow, Reobserve
  <2>14. Seats(p, k)
    <3>1. \A v \in DOMAIN win : /\ win'[v].made = win[v].made /\ (v # old => Stays(v))
                               /\ win[v].under \subseteq win'[v].under /\ win'[v].under \subseteq Calling \cup win[v].under
      BY <2>5, <2>11, <2>12 DEF Stays
    <3>2. \A q \in Pages \ {p} : Keeps(q)
      BY <1>1, <2>3 DEF Keeps
    <3>3. page'[p] \in {r1, r2}
      BY <1>1, <2>3
    <3>4. /\ page'[p].state = page[p].state /\ page'[p].win = k /\ page'[p].late = late
          /\ page'[p].context = page[p].context
      BY <2>7, <2>8, <3>3
    <3>5. \/ nav' = nav /\ page'[p].pending = page[p].pending
          \/ /\ nav[n].state = "none" /\ page'[p].pending = page[p].pending + 1
             /\ nav' = [nav EXCEPT ![n] = [state |-> "fetching", page |-> p, win |-> k, url |-> win'[k].made]]
      BY <1>1, <2>3, <2>5, <2>7, <2>8, <2>12
    <3>6. observed' = (observed \ {page[p].win}) \cup {k} /\ listening' = TRUE
      BY <2>1 DEF ReplaceWindow, Reobserve
    <3>. QED
      BY <1>1, <2>5, <2>9, <2>12, <3>1, <3>2, <3>4, <3>5, <3>6 DEF Seats
  <2>. QED
    BY <1>4, <2>13, <2>14, SeatsSound
<1>. QED
  BY <1>5, <1>6, <1>7, <1>8

-----------------------------------------------------------------------------
(* Steps that leave windows, places and counts alone.                        *)

LEMMA ContextStepsSound ==
  ASSUME IInv, NEW c \in Contexts,
         NewIncognitoContext(c) \/ ContextClosed(c) \/ \E p \in Pages : SetCookie(p)
  PROVE  IInv'
<1>1. context \in [Contexts -> Context] /\ \A p \in Pages : PageSited(p)
  BY DEF IInv, TypeOK, Sited
<1>2. \A d \in Contexts :
        /\ [context[d] EXCEPT !.state = "open"] \in Context
        /\ [context[d] EXCEPT !.cookies = TRUE] \in Context
        /\ [state |-> "closed", cookies |-> FALSE, awaits |-> {}] \in Context
  BY <1>1 DEF Context
<1>3. context' \in [Contexts -> Context]
  <2>1. CASE NewIncognitoContext(c)
    BY <1>1, <1>2, <2>1 DEF NewIncognitoContext
  <2>2. ASSUME NEW p \in Pages, SetCookie(p) PROVE context' \in [Contexts -> Context]
    <3>1. Holds(p) # {} /\ page[p].state \in {"none", "open", "closing", "closed"}
      BY <2>2 DEF SetCookie, IInv, TypeOK, Page
    <3>2. page[p].context \in Contexts
      BY <1>1, <3>1 DEF PageSited, Holds
    <3>. QED
      BY <1>1, <1>2, <2>2, <3>2 DEF SetCookie
  <2>3. CASE ContextClosed(c)
    BY <1>1, <1>2, <2>3 DEF ContextClosed
  <2>. QED
    BY <2>1, <2>2, <2>3
<1>4. UNCHANGED <<win, page, nav, observed, listening, policy, abouts, detached>>
  BY DEF NewIncognitoContext, SetCookie, ContextClosed
<1>5. TypeOK' /\ DetachedLocation'
  BY <1>3, <1>4 DEF IInv, TypeOK, DetachedLocation
<1>6. Quiet
  BY <1>4 DEF Quiet, Keeps, Stays
<1>. QED
  BY <1>5, <1>6, QuietSound

LEMMA WaiterStepsSound ==
  ASSUME IInv, NEW p \in Pages,
         NothingToNavigate(p) \/ AboutEnds(p) \/ (\E k \in Waiters : WaitForNavigation(p, k))
  PROVE  IInv'
<1>. DEFINE r == [page[p] EXCEPT !.completion = None]
<1>1. page \in [Pages -> Page]
  BY DEF IInv, TypeOK
<1>2. r \in Page /\ r.state = page[p].state /\ r.win = page[p].win /\ r.late = page[p].late /\ r.context = page[p].context
      /\ r.pending = page[p].pending
  BY <1>1 DEF Page
<1>3. page' = page \/ page' = [page EXCEPT ![p] = r]
  BY DEF NothingToNavigate, AboutEnds, WaitForNavigation, Flushed
<1>4. UNCHANGED <<win, nav, context, observed, listening, policy, detached>>
  BY DEF NothingToNavigate, AboutEnds, WaitForNavigation
<1>. DEFINE fewer == SubSeq(abouts, 1, Len(abouts) - 1)
<1>7. abouts' \in Seq(Pages)
  <2>1. abouts' = abouts \/ (abouts # <<>> /\ abouts' = fewer)
    BY DEF NothingToNavigate, AboutEnds, WaitForNavigation
  <2>2. abouts \in Seq(Pages)
    BY DEF IInv, TypeOK
  <2>3. abouts # <<>> => fewer \in Seq(Pages)
    BY <2>2
  <2>. QED
    BY <2>1, <2>2, <2>3
<1>. HIDE DEF fewer
<1>. HIDE DEF r
<1>5. TypeOK' /\ DetachedLocation'
  BY <1>1, <1>2, <1>3, <1>4, <1>7 DEF IInv, TypeOK, DetachedLocation
<1>6. Quiet
  BY <1>1, <1>2, <1>3, <1>4 DEF Quiet, Keeps, Stays
<1>. QED
  BY <1>5, <1>6, QuietSound

LEMMA ClosesSound ==
  ASSUME IInv, NEW c \in Contexts, CloseContext(c) \/ CloseBrowser \/ \E p \in Pages : ClosePage(p)
  PROVE  IInv'
<1>1. context \in [Contexts -> Context]
  BY DEF IInv, TypeOK
<1>2. \A d \in Contexts : OpenPages(d) \in SUBSET Pages /\ \A q \in OpenPages(d) : page[q].state = "open"
  BY DEF OpenPages
<1>3. \A d \in Contexts, ps \in SUBSET Pages :
        [[context[d] EXCEPT !.state = "closing"] EXCEPT !.awaits = ps] \in Context
  BY <1>1 DEF Context
<1>4. ASSUME NEW p \in Pages, ClosePage(p) PROVE IInv'
  <2>1. Closing({p}) /\ page[p].state = "open" /\ context' = context
    BY <1>4 DEF ClosePage
  <2>. QED
    BY <1>1, <2>1, ClosingSound
<1>5. CASE CloseContext(c)
  <2>1. Closing(OpenPages(c))
    BY <1>5 DEF CloseContext
  <2>2. context' = [context EXCEPT ![c] = [[context[c] EXCEPT !.state = "closing"] EXCEPT !.awaits = OpenPages(c)]]
    BY <1>1, <1>5 DEF CloseContext
  <2>3. context' \in [Contexts -> Context]
    BY <1>1, <1>2, <1>3, <2>2
  <2>. QED
    BY <1>2, <2>1, <2>3, ClosingSound
<1>6. CASE CloseBrowser
  <2>. DEFINE ps == UNION {OpenPages(c1) : c1 \in {d \in Contexts : context[d].state = "open"}}
  <2>1. Closing(ps) /\ ps \in SUBSET Pages /\ \A q \in ps : page[q].state = "open"
    <3>1. Closing(ps)
      BY <1>6 DEF CloseBrowser
    <3>2. \A q \in ps : q \in Pages /\ page[q].state = "open"
      BY DEF OpenPages
    <3>. QED
      BY <3>1, <3>2
  <2>2. context' = [d \in Contexts |-> IF context[d].state = "open"
                      THEN [[context[d] EXCEPT !.state = "closing"] EXCEPT !.awaits = OpenPages(d)]
                      ELSE context[d]]
    BY <1>6 DEF CloseBrowser
  <2>3. context' \in [Contexts -> Context]
    BY <1>1, <1>2, <1>3, <2>2
  <2>. HIDE DEF ps
  <2>. QED
    BY <2>1, <2>3, ClosingSound
<1>. QED
  BY <1>4, <1>5, <1>6

-----------------------------------------------------------------------------
(* Navigations asked for.                                                    *)

LEMMA OpenPageTyped ==
  ASSUME IInv, NEW p \in Pages
  PROVE  /\ page[p].history \in History /\ Current(page[p].history).url \in URLs
         /\ page[p].history.current \in Int
BY CurrentTyped DEF IInv, TypeOK, Page, History

LEMMA MoveToSound ==
  ASSUME IInv, NEW p \in Pages, NEW n \in Navs, NEW d \in Int, NEW isPopState \in BOOLEAN,
         AtOffset(page[p].history, d), MoveTo(p, n, d, isPopState)
  PROVE  IInv'
<1>. DEFINE l == [page[p].history EXCEPT !.current = @ + d]
            old == page[p].win
            r == [page[p] EXCEPT !.history = l]
            x == [win[old] EXCEPT !.url = Current(l).url]
<1>1. l \in History /\ Current(l).url \in URLs
  BY OpenPageTyped, MoveTyped, CurrentTyped
<1>2. CASE ~isPopState /\ old # 0
  <2>1. Navigate(p, n, Current(l).url, l, FALSE)
    BY <1>2 DEF MoveTo
  <2>. HIDE DEF l
  <2>. QED
    BY <1>1, <1>2, <2>1, NavigateSound
<1>3. CASE isPopState \/ old = 0
  <2>1. page \in [Pages -> Page] /\ page[p] \in Page /\ win \in Seq(Window)
    BY DEF IInv, TypeOK
  <2>2. page' = [page EXCEPT ![p] = r] /\ win' = (IF old # 0 THEN [win EXCEPT ![old] = x] ELSE win)
        /\ UNCHANGED <<nav, context, observed, listening, policy, abouts, detached>>
    BY <1>3 DEF MoveTo
  <2>. HIDE DEF l
  <2>3. r \in Page /\ r.state = page[p].state /\ r.win = old /\ r.late = page[p].late
        /\ r.context = page[p].context /\ r.pending = page[p].pending
    BY <1>1, <2>1 DEF Page
  <2>4. ASSUME old # 0
        PROVE  /\ old \in DOMAIN win /\ x \in Window /\ x.made = win[old].made /\ x.shows = win[old].shows
               /\ x.under = win[old].under /\ x.open = win[old].open
    <3>1. old \in DOMAIN win
      BY <2>4, PagesHold
    <3>2. win[old] \in Window
      BY <2>1, <3>1, SeqWith
    <3>. QED
      BY <1>1, <3>1, <3>2 DEF Window
  <2>. HIDE DEF r, x
  <2>5. win' \in Seq(Window) /\ DOMAIN win' = DOMAIN win
    BY <2>1, <2>2, <2>4, SeqWith
  <2>6. TypeOK' /\ DetachedLocation'
    BY <2>1, <2>2, <2>3, <2>5 DEF IInv, TypeOK, DetachedLocation
  <2>7. Quiet
    BY <2>1, <2>2, <2>3, <2>4, <2>5 DEF Quiet, Keeps, Stays
  <2>. QED
    BY <2>6, <2>7, QuietSound
<1>. QED
  BY <1>2, <1>3

LEMMA NavigationSound ==
  ASSUME IInv, NEW p \in Pages, NEW n \in Navs, NEW url \in URLs, NEW d \in Int,
         \/ Goto(p, n, url) \/ Reload(p, n) \/ GoBackOrForward(p, n, d) \/ GoSteps(p, n, d)
  PROVE  IInv'
<1>1. CASE Goto(p, n, url)
  BY <1>1, OpenPageTyped, NavigateSound DEF Goto
<1>2. CASE Reload(p, n)
  BY <1>2, OpenPageTyped, NavigateSound DEF Reload
<1>3. CASE GoBackOrForward(p, n, d)
  <2>. DEFINE l == page[p].history
              isPopState == /\ l.items[l.current + d].popState
                            /\ Origin(l.items[l.current + d].url) = Origin(Current(l).url)
  <2>1. AtOffset(l, d) /\ MoveTo(p, n, d, isPopState)
    BY <1>3 DEF GoBackOrForward
  <2>2. isPopState \in BOOLEAN
    OBVIOUS
  <2>. HIDE DEF isPopState
  <2>. QED
    BY <2>1, <2>2, MoveToSound
<1>4. CASE GoSteps(p, n, d)
  <2>. DEFINE l == page[p].history
              left == IF d < 0 THEN l.current + d + 1 .. l.current ELSE l.current .. l.current + d - 1
              isPopState == \A i \in left : /\ l.items[i].popState
                                            /\ Origin(l.items[i].url) = Origin(Current(l).url)
  <2>1. AtOffset(l, d) /\ MoveTo(p, n, d, isPopState)
    BY <1>4 DEF GoSteps
  <2>2. isPopState \in BOOLEAN
    OBVIOUS
  <2>. HIDE DEF isPopState
  <2>. QED
    BY <2>1, <2>2, MoveToSound
<1>. QED
  BY <1>1, <1>2, <1>3, <1>4

LEMMA DetachedSteps ==
  ASSUME IInv, DetachedMoves \/ DetachedReplaces
  PROVE  IInv'
<1>1. DetachedSound(detached)
  BY DEF IInv, TypeOK, DetachedLocation, DetachedSound
<1>2. DetachedSound(detached') /\ UNCHANGED <<win, page, nav, context, observed, listening, policy, abouts>>
  BY <1>1, UrlFacts, DetachedMovesSound DEF DetachedMoves, DetachedReplaces, InWindow
<1>3. TypeOK' /\ DetachedLocation'
  BY <1>2 DEF IInv, TypeOK, DetachedLocation, DetachedSound
<1>4. Quiet
  BY <1>2 DEF Quiet, Keeps, Stays
<1>. QED
  BY <1>3, <1>4, QuietSound

-----------------------------------------------------------------------------
(* Every step.                                                               *)

LEMMA IInvNext == IInv /\ [Next]_<<world, bvars>> => IInv'
<1>. SUFFICES ASSUME IInv, [Next]_<<world, bvars>> PROVE IInv'
  OBVIOUS
<1>1. CASE UNCHANGED <<world, bvars>>
  <2>1. Quiet
    BY <1>1 DEF bvars, Quiet, Keeps, Stays
  <2>2. TypeOK' /\ DetachedLocation'
    BY <1>1 DEF bvars, IInv, TypeOK, DetachedLocation
  <2>. QED
    BY <2>1, <2>2, QuietSound
<1>2. CASE Answers
  BY <1>2, NavArrivesSound, WriteHTMLSound, NavFinishesSound, WaiterStepsSound DEF Answers
<1>3. ASSUME NEW c \in Contexts, NEW p \in Pages, NewPage(c, p)
      PROVE  IInv'
  BY <1>3, NewPageSound
<1>4. ASSUME NEW p \in Pages, NEW n \in Navs, NEW url \in URLs, NEW d \in Int,
             Goto(p, n, url) \/ Reload(p, n) \/ GoBackOrForward(p, n, d) \/ GoSteps(p, n, d)
      PROVE  IInv'
  BY <1>4, NavigationSound
<1>5. ASSUME NEW p \in Pages, NothingToNavigate(p) \/ (\E k \in Waiters : WaitForNavigation(p, k))
      PROVE  IInv'
  BY <1>5, WaiterStepsSound
<1>6. ASSUME NEW p \in Pages, NEW q \in Pages, NEW n \in Navs, NEW url \in URLs, OpenPage(p, q, n, url)
      PROVE  IInv'
  BY <1>6, OpenPageSound
<1>7. ASSUME NEW c \in Contexts,
             \/ CloseContext(c) \/ CloseBrowser \/ NewIncognitoContext(c) \/ ContextClosed(c)
             \/ \E p \in Pages : ClosePage(p) \/ PageClosed(p) \/ SetCookie(p)
      PROVE  IInv'
  BY <1>7, ClosesSound, PageClosedSound, ContextStepsSound
<1>8. CASE DetachedMoves \/ DetachedReplaces
  BY <1>8, DetachedSteps
<1>9. DefaultContext \in Contexts /\ AboutBlank \in URLs /\ Plain \subseteq URLs
  BY BrowserAssumption, UrlFacts
<1>10. CASE Navigation
  <2>1. CASE \E p \in Pages, n \in Navs, url \in URLs : Goto(p, n, url)
    BY <1>4, <2>1
  <2>2. CASE \E p \in Pages, n \in Navs : Reload(p, n)
    BY <1>4, <1>9, <2>2
  <2>3. CASE \E p \in Pages, n \in Navs, d \in Int : GoBackOrForward(p, n, d) \/ GoSteps(p, n, d)
    BY <1>4, <1>9, <2>3
  <2>. QED
    BY <1>5, <1>6, <1>10, <2>1, <2>2, <2>3 DEF Navigation
<1>11. CASE \E p \in Pages, n \in Navs : Reload(p, n) \/ GoBackOrForward(p, n, -1)
  BY <1>4, <1>9, <1>11
<1>12. CASE \E p \in Pages : \/ NothingToNavigate(p) \/ ClosePage(p) \/ PageClosed(p)
                             \/ \E k \in Waiters : WaitForNavigation(p, k)
  BY <1>5, <1>7, <1>9, <1>12
<1>13. CASE Lifecycle
  BY <1>3, <1>7, <1>9, <1>13 DEF Lifecycle
<1>. QED
  BY <1>1, <1>2, <1>3, <1>4, <1>6, <1>8, <1>9, <1>10, <1>11, <1>12, <1>13 DEF Next

-----------------------------------------------------------------------------
(* The theorems.                                                             *)

LEMMA IInvAlways == Spec => []IInv
BY IInvInit, IInvNext, PTL DEF Spec

(* Whatever happens, what the browser holds is of its kind: the histories of *)
(* pages and windows have a current entry, and a count is never below zero   *)
(* (BrowserFrame, #navigate and HistoryItemList).                            *)
THEOREM BrowserTyped == Spec => []TypeOK
<1>1. IInv => TypeOK
  BY DEF IInv
<1>. QED
  BY <1>1, IInvAlways, PTL

(* However navigations of a frame overlap, arrive, fail or are left by what  *)
(* the program does when they call it back, its count is that of the ones    *)
(* under way: the finally of #navigate takes each off once.                  *)
THEOREM PendingAlwaysExact == Spec => []PendingExact
<1>1. IInv => PendingExact
  BY DEF IInv, Counted, PendingExact, Flight, Busy
<1>. QED
  BY <1>1, IInvAlways, PTL

(* The answer of a navigation that was overtaken on its way is never written *)
(* into the window of the next, nor into a page that closed meanwhile: the   *)
(* check of #navigate after its await is enough for that, because windows    *)
(* are never reused.  It does not cover the callback that runs between the   *)
(* check and #writeHTML: what the window of a page then shows is the         *)
(* document of a navigation of that page in whose callback it was made, or   *)
(* closed.                                                                   *)
THEOREM LoadedAlwaysByOwn == Spec => []LoadedByOwn
<1>1. IInv => LoadedByOwn
  BY DEF IInv, ShowsOwn, LoadedByOwn, Frame
<1>. QED
  BY <1>1, IInvAlways, PTL

(* The exception observer holds the windows of the open pages through every  *)
(* replacement and closing, and beside them only the last window a           *)
(* navigation made for a page after it was closed, which #replaceWindow      *)
(* observes and nothing disconnects; the listeners of the process are        *)
(* installed exactly while it holds one.                                     *)
THEOREM ObserversAlwaysExact == Spec => []ObserversExact
<1>1. IInv => ObserversExact
  BY DEF IInv
<1>. QED
  BY <1>1, IInvAlways, PTL

(* A window without a page stays at the URL of its current history entry,    *)
(* through assignments, fragments, pushState and replaceState.               *)
THEOREM DetachedAlwaysAtEntry == Spec => []DetachedLocation
<1>1. IInv => DetachedLocation
  BY DEF IInv
<1>. QED
  BY <1>1, IInvAlways, PTL
=============================================================================
