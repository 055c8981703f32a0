---------------------------- MODULE BrowserFrames ----------------------------
(***************************************************************************)
(* Browser, contexts, pages and the frame of a page, with its navigations: *)
(* src/js/facade/extensions/browser.js.  A navigation replaces the window  *)
(* of its frame before it fetches, so that several windows of one frame,   *)
(* and several navigations, are under way at once; and it calls the        *)
(* program back before it writes what it fetched, which may do anything.   *)
(***************************************************************************)
EXTENDS SessionHistory, FiniteSets

CONSTANTS Pages, Contexts, DefaultContext,
          Navs,       \* navigations that fetch, each used once
          MaxWindows, \* windows minted at most
          MaxHistory, \* entries of a list at most
          Waiters,    \* calls of waitForNavigation, each made once
          Unsupported, \* documents of protocols that are not navigated to
          None

ASSUME BrowserAssumption == /\ DefaultContext \in Contexts /\ None \notin Navs
                            /\ Unsupported \subseteq Docs \ {Blank}
                            /\ MaxWindows \in Nat /\ MaxHistory \in Nat

VARIABLES win,      \* the windows minted so far
          page,     \* each page with its main frame
          nav,      \* the navigations that fetch
          context,  \* the contexts: listed, closed, and their cookies
          observed, \* windows the exception observer routes errors to
          listening,\* the observer's process listeners are installed
          policy,   \* settings.navigation
          waiter,   \* the waitForNavigation promises
          abouts,   \* the pages whose navigation to about: calls back, innermost last
          detached  \* the window without a page: its url and its list

bvars == <<win, page, nav, context, observed, listening, policy, waiter, abouts, detached>>

Policies == {"open", "setURL", "refuse"}
\* late is a history variable: the window made for the page since it was closed.
NoPage == [state |-> "none", context |-> None, win |-> 0, late |-> 0, history |-> NewList,
           pending |-> 0, completion |-> None]
NoWaiter == [state |-> "none", page |-> None, on |-> None]
NoNav == [state |-> "none", page |-> None, win |-> 0, url |-> AboutBlank]

\* The navigation that calls the program back before it writes, if one does.
Calling == {n \in Navs : nav[n].state = "content"}
\* No callback runs: only then do the host's tasks and microtasks.
Idle == abouts = <<>> /\ \A n \in Navs : nav[n].state \notin {"content", "scripts"}

\* A window given a URL records it in its own history.  under is a history
\* variable: the navigation in whose callback it was made or closed.
NewWindow(url) == LocationNavigate([open |-> TRUE, url |-> AboutBlank, history |-> NewList,
                                    made |-> url, shows |-> Blank, under |-> Calling], url)
CloseWindow(w) == [w EXCEPT !.open = FALSE, !.under = @ \cup Calling,
                            !.shows = IF w.open THEN Blank ELSE @]
\* The windows of page p, the one made since it was closed included.
Holds(p) == {page[p].win, page[p].late} \ {0}

BrowserInit ==
  /\ win = <<>>
  /\ page = [p \in Pages |-> NoPage]
  /\ nav = [n \in Navs |-> NoNav]
  /\ context = [c \in Contexts |-> [state |-> IF c = DefaultContext THEN "open" ELSE "none",
                                    cookies |-> FALSE, awaits |-> {}]]
  /\ observed = {} /\ listening = FALSE
  /\ policy \in Policies
  /\ waiter = [k \in Waiters |-> NoWaiter]
  /\ abouts = <<>>
  /\ detached = [url |-> AboutBlank, history |-> NewList]

-----------------------------------------------------------------------------
(* The exception observer: the first window installs the process listeners, *)
(* the last one removes them.                                               *)

\* Mutant: the listeners stay when the last window goes.
DisconnectListening(ws) == observed' = observed \ ws /\ listening' = listening
Disconnect(ws) == /\ observed' = observed \ ws
                  /\ listening' = (listening /\ observed \ ws # {})
Observe(w) == observed' = observed \cup {w} /\ listening' = TRUE
Reobserve(old, new) == observed' = (observed \ {old}) \cup {new} /\ listening' = TRUE

-----------------------------------------------------------------------------
(* Pages and contexts.                                                      *)

\* A context that was closed still makes pages.
NewPage(c, p) ==
  /\ context[c].state # "none" /\ page[p].state = "none" /\ Len(win) < MaxWindows
  /\ win' = Append(win, [NewWindow(AboutBlank) EXCEPT !.history = NewList])
  /\ page' = [page EXCEPT ![p] = [NoPage EXCEPT !.state = "open", !.context = c, !.win = Len(win) + 1]]
  /\ Observe(Len(win) + 1)
  /\ UNCHANGED <<nav, context, policy, waiter, abouts, detached>>

NewIncognitoContext(c) ==
  /\ context[c].state = "none" /\ context[DefaultContext].state = "open"
  /\ context' = [context EXCEPT ![c].state = "open"]
  /\ UNCHANGED <<win, page, nav, observed, listening, policy, waiter, abouts, detached>>

\* document.cookie of a frame's window writes to the store of its context.
SetCookie(p) ==
  /\ \E w \in Holds(p) : win[w].open
  /\ context' = [context EXCEPT ![page[p].context].cookies = TRUE]
  /\ UNCHANGED <<win, page, nav, observed, listening, policy, waiter, abouts, detached>>

\* The windows of closing pages are unobserved and closed at once, which
\* aborts what they load; the pages are closed when that has settled.
Closing(ps) ==
  LET ws == {page[p].win : p \in ps} IN
  /\ page' = [p \in Pages |-> IF p \in ps THEN [page[p] EXCEPT !.state = "closing"] ELSE page[p]]
  /\ win' = [w \in DOMAIN win |-> IF w \in ws THEN CloseWindow(win[w]) ELSE win[w]]
  /\ Disconnect(ws)
  /\ waiter' = [k \in Waiters |-> IF waiter[k].page \in ps /\ waiter[k].on = None /\ waiter[k].state = "pending"
                                   THEN [waiter[k] EXCEPT !.state = "dropped"] ELSE waiter[k]]
  /\ UNCHANGED <<nav, policy, abouts, detached>>

OpenPages(c) == {p \in Pages : page[p].context = c /\ page[p].state = "open"}

ClosePage(p) == page[p].state = "open" /\ Closing({p}) /\ UNCHANGED context

\* The default context is only closed by the browser.
CloseContext(c) ==
  /\ context[c].state = "open" /\ c # DefaultContext
  /\ Closing(OpenPages(c))
  /\ context' = [context EXCEPT ![c].state = "closing", ![c].awaits = OpenPages(c)]

CloseBrowser ==
  /\ context[DefaultContext].state = "open"
  /\ Closing(UNION {OpenPages(c) : c \in {d \in Contexts : context[d].state = "open"}})
  /\ context' = [c \in Contexts |-> IF context[c].state = "open"
                                      THEN [context[c] EXCEPT !.state = "closing", !.awaits = OpenPages(c)]
                                      ELSE context[c]]

PageClosed(p) ==
  /\ Idle /\ page[p].state = "closing"
  /\ page' = [page EXCEPT ![p].state = "closed", ![p].win = 0]
  /\ UNCHANGED <<win, nav, context, observed, listening, policy, waiter, abouts, detached>>

\* The cookie store is cleared once the pages the context closed are closed.
ContextClosed(c) ==
  /\ Idle /\ context[c].state = "closing" /\ \A p \in context[c].awaits : page[p].state = "closed"
  /\ context' = [context EXCEPT ![c] = [state |-> "closed", cookies |-> FALSE, awaits |-> {}]]
  /\ UNCHANGED <<win, page, nav, observed, listening, policy, waiter, abouts, detached>>

-----------------------------------------------------------------------------
(* Navigation of the frame of page p.                                       *)

Frame(p) == win[page[p].win]

\* flushNavWaiters(): resolves the one promise the frame still holds, and the
\* waiters that came when nothing was pending.
Flush(p) ==
  waiter' = [k \in Waiters |->
    IF /\ waiter[k].state = "pending" /\ waiter[k].page = p
       /\ waiter[k].on \in {None, page[p].completion}
      THEN [waiter[k] EXCEPT !.state = "resolved"] ELSE waiter[k]]
Flushed(pg) == [pg EXCEPT !.completion = None]

\* waitForNavigation(): with a navigation pending, the promise of the latest
\* one, or null when that was flushed already.
WaitForNavigation(p, k) ==
  /\ page[p].state # "none" /\ waiter[k].state = "none"
  /\ waiter' = [waiter EXCEPT ![k] =
       [state |-> IF page[p].pending > 0 /\ page[p].completion = None THEN "resolved" ELSE "pending",
        page |-> p, on |-> IF page[p].pending > 0 THEN page[p].completion ELSE None]]
  /\ UNCHANGED <<win, page, nav, context, observed, listening, policy, abouts, detached>>

\* replaceWindow(): the old window is closed, the new one observed, of a
\* closed page as of an open one.
ReplaceWindow(p, url) ==
  /\ Len(win) < MaxWindows
  /\ win' = Append([win EXCEPT ![page[p].win] = CloseWindow(@)], NewWindow(url))
  /\ Reobserve(page[p].win, Len(win) + 1)
Seated(pg) == [pg EXCEPT !.win = Len(win) + 1, !.late = IF pg.state = "open" THEN 0 ELSE Len(win) + 1]

\* navigate(): history is the frame's list with the move already made, or the
\* list before a push.  The way to about: calls the program back before the
\* waiters are flushed.  A javascript: URL is not in URLs: it changes nothing
\* here, and what its script does later are calls of the program like any other.
Navigate(p, n, url, history, push) ==
  LET pushed(pop, old) == IF push THEN Push(old, Entry(url, pop)) ELSE history
      pg == [page[p] EXCEPT !.history = history]
      moved == [pg EXCEPT !.history = pushed(FALSE, history)]
      mirrored(w, pop) == IF push THEN [w EXCEPT !.history = Push(@, Entry(url, pop))] ELSE w
      hash == IsHashNavigation(Frame(p).url, url)
      away == ~hash /\ policy = "open"
  IN
  /\ push => Len(history.items) < MaxHistory /\ Len(Frame(p).history.items) < MaxHistory
  /\ UNCHANGED <<context, policy, detached>>
  /\ \/ /\ hash
        /\ page' = [page EXCEPT ![p] = Flushed([pg EXCEPT !.history = pushed(TRUE, MarkPopState(history))])]
        /\ win' = [win EXCEPT ![page[p].win] = [mirrored(Frame(p), TRUE) EXCEPT !.url = url]]
        /\ Flush(p)
        /\ UNCHANGED <<nav, observed, listening, abouts>>
     \/ /\ ~hash /\ policy # "open"
        /\ page' = [page EXCEPT ![p] = pg]
        /\ win' = IF policy = "setURL" THEN [win EXCEPT ![page[p].win].url = url] ELSE win
        /\ UNCHANGED <<nav, observed, listening, waiter, abouts>>
     \/ /\ away /\ url.doc \in Unsupported
        /\ page' = [page EXCEPT ![p] = moved]
        /\ win' = [win EXCEPT ![page[p].win] = mirrored(Frame(p), FALSE)]
        /\ UNCHANGED <<nav, observed, listening, waiter, abouts>>
     \/ /\ away /\ url.doc = Blank
        /\ ReplaceWindow(p, url)
        /\ page' = [page EXCEPT ![p] = Seated(moved)]
        /\ abouts' = Append(abouts, p)
        /\ UNCHANGED <<nav, waiter>>
     \/ /\ away /\ url.doc \notin Unsupported \cup {Blank}
        /\ nav[n].state = "none"
        /\ ReplaceWindow(p, url)
        /\ page' = [page EXCEPT ![p] = [Seated(moved) EXCEPT !.pending = @ + 1, !.completion = n]]
        /\ nav' = [nav EXCEPT ![n] = [state |-> "fetching", page |-> p, win |-> Len(win) + 1, url |-> url]]
        /\ UNCHANGED <<waiter, abouts>>

\* The end of the callback on the way to about:, which skips the flush when it throws.
AboutEnds(p) ==
  /\ abouts # <<>> /\ abouts[Len(abouts)] = p
  /\ abouts' = SubSeq(abouts, 1, Len(abouts) - 1)
  /\ \/ page' = [page EXCEPT ![p] = Flushed(@)] /\ Flush(p)
     \/ UNCHANGED <<page, waiter>>
  /\ UNCHANGED <<win, nav, context, observed, listening, policy, detached>>

\* Nothing asks whether the page was closed: a navigation goes on until the
\* frame has lost its window, whose URL it then fails to read.
Goto(p, n, url) ==
  /\ page[p].win # 0
  /\ Navigate(p, n, url, page[p].history, TRUE)

Reload(p, n) ==
  /\ page[p].win # 0
  /\ Navigate(p, n, Current(page[p].history).url, page[p].history, FALSE)

\* The move along the history, made before the window is looked at: a pop
\* state changes the URL without a fetch.
MoveTo(p, n, d, isPopState) ==
  LET l == [page[p].history EXCEPT !.current = @ + d]
      hasWindow == page[p].win # 0
  IN
  IF isPopState \/ ~hasWindow
    THEN /\ page' = [page EXCEPT ![p].history = l]
         /\ win' = IF hasWindow THEN [win EXCEPT ![page[p].win].url = Current(l).url] ELSE win
         /\ UNCHANGED <<nav, context, observed, listening, policy, waiter, abouts, detached>>
    ELSE Navigate(p, n, Current(l).url, l, FALSE)

\* goBack and goForward look at the entry they move to.
GoBackOrForward(p, n, d) ==
  LET l == page[p].history IN
  /\ page[p].state # "none" /\ AtOffset(l, d)
  /\ MoveTo(p, n, d, /\ l.items[l.current + d].popState
                     /\ Origin(l.items[l.current + d].url) = Origin(Current(l).url))

\* goSteps looks at every entry it leaves, the one it moves to excepted.
GoSteps(p, n, d) ==
  LET l == page[p].history
      left == IF d < 0 THEN l.current + d + 1 .. l.current ELSE l.current .. l.current + d - 1
  IN
  /\ page[p].state # "none" /\ d # 0 /\ AtOffset(l, d)
  /\ MoveTo(p, n, d, \A i \in left : /\ l.items[i].popState
                                     /\ Origin(l.items[i].url) = Origin(Current(l).url))

\* A move beyond either end, which is always at hand, flushes the waiters in
\* the next animation frame of the window it was asked in.
NothingToNavigate(p) ==
  /\ Idle /\ \E w \in Holds(p) : win[w].open
  /\ page' = [page EXCEPT ![p] = Flushed(@)] /\ Flush(p)
  /\ UNCHANGED <<win, nav, context, observed, listening, policy, abouts, detached>>

\* The finally block of a navigation, on the frame it started in.
\* Mutant: a navigation that ends stays counted.
NavEndsCounted(n) == page' = [page EXCEPT ![nav[n].page] = Flushed(@)] /\ Flush(nav[n].page)
NavEnds(n) ==
  LET p == nav[n].page
  IN  page' = [page EXCEPT ![p] = [Flushed(page[p]) EXCEPT !.pending = @ - 1]] /\ Flush(p)

\* The text arrived: it is taken unless the frame has another window now, or
\* is closing.
IsCurrent(n) == page[nav[n].page].state = "open" /\ page[nav[n].page].win = nav[n].win
\* Mutant: only a closed frame is looked for.
IsFrameOpen(n) == page[nav[n].page].state = "open"
Writes(n) == IsCurrent(n)

\* The program is called back with the window before the text is written.
NavArrives(n) ==
  /\ Idle /\ nav[n].state = "fetching" /\ Writes(n)
  /\ win' = [win EXCEPT ![page[nav[n].page].win].url = nav[n].url]
  /\ nav' = [nav EXCEPT ![n].state = "content"]
  /\ UNCHANGED <<page, context, observed, listening, policy, waiter, abouts, detached>>

\* It returned: the text is written into the window the frame has now, and
\* the scripts of the text are run, which are calls of the program again.
WriteHTML(n) ==
  /\ nav[n].state = "content" /\ abouts = <<>>
  /\ win' = [win EXCEPT ![page[nav[n].page].win].shows = nav[n].url.doc]
  /\ nav' = [nav EXCEPT ![n].state = "scripts"]
  /\ UNCHANGED <<page, context, observed, listening, policy, waiter, abouts, detached>>

\* The end of a navigation: the network fails, the timeout or an abort of the
\* window's work strikes, the text comes too late, the callback throws, or the
\* scripts have run or thrown.
Ends(n) == \/ nav[n].state = "fetching" /\ Idle
           \/ nav[n].state \in {"content", "scripts"} /\ abouts = <<>>
NavFinishes(n) ==
  /\ Ends(n)
  /\ nav' = [nav EXCEPT ![n].state = "ended"]
  /\ NavEnds(n)
  /\ UNCHANGED <<win, context, observed, listening, policy, abouts, detached>>

\* window.open in a page: _self navigates its own frame, any other target
\* opens a page of the same context and navigates that; the click of an anchor
\* is a navigation of its frame.
OpenPage(p, q, n, url) ==
  /\ Holds(p) # {} /\ page[q].state = "none"
  /\ url.doc \notin Unsupported \cup {Blank} /\ nav[n].state = "none" /\ policy = "open" /\ Len(win) + 1 < MaxWindows
  /\ win' = win \o <<[NewWindow(AboutBlank) EXCEPT !.history = NewList, !.open = FALSE], NewWindow(url)>>
  /\ page' = [page EXCEPT ![q] = [NoPage EXCEPT !.state = "open", !.context = page[p].context,
                                    !.win = Len(win) + 2, !.history = Push(@, Entry(url, FALSE)),
                                    !.pending = 1, !.completion = n]]
  /\ nav' = [nav EXCEPT ![n] = [state |-> "fetching", page |-> q, win |-> Len(win) + 2, url |-> url]]
  /\ Observe(Len(win) + 2)
  /\ UNCHANGED <<context, policy, waiter, abouts, detached>>

-----------------------------------------------------------------------------
(* Location and History of a window without a page.                          *)

InWindow(w) == detached' = w /\ UNCHANGED <<win, page, nav, context, observed, listening, policy, waiter, abouts>>
DetachedMoves ==
  /\ Len(detached.history.items) < MaxHistory
  /\ \/ \E url \in URLs : InWindow(LocationNavigate(detached, url))
     \/ \E h \in Hashes : InWindow(SetHash(detached, h))
     \/ \E url \in URLs : InWindow(PushState(detached, url))
DetachedReplaces == \E url \in URLs : InWindow(ReplaceState(detached, url))

-----------------------------------------------------------------------------
Lifecycle ==
  \/ \E c \in Contexts, p \in Pages : NewPage(c, p)
  \/ \E c \in Contexts : NewIncognitoContext(c) \/ CloseContext(c) \/ ContextClosed(c)
  \/ \E p \in Pages : ClosePage(p) \/ PageClosed(p) \/ SetCookie(p)
  \/ CloseBrowser
Navigation ==
  \/ \E p \in Pages, n \in Navs, url \in URLs : Goto(p, n, url)
  \/ \E p \in Pages, n \in Navs : Reload(p, n)
  \/ \E p \in Pages, n \in Navs, d \in {-1, 1} : GoBackOrForward(p, n, d)
  \/ \E p \in Pages, n \in Navs, d \in -2..2 : GoSteps(p, n, d)
  \/ \E p \in Pages : NothingToNavigate(p) \/ \E k \in Waiters : WaitForNavigation(p, k)
  \/ \E p, q \in Pages, n \in Navs, url \in URLs : OpenPage(p, q, n, url)
Answers == \/ \E n \in Navs : NavArrives(n) \/ WriteHTML(n) \/ NavFinishes(n)
           \/ \E p \in Pages : AboutEnds(p)
=============================================================================
