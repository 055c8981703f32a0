------------------------------ MODULE MCBrowser ------------------------------
(* A browser with its pages, in worlds that use some of its operations most. *)
EXTENDS BrowserFrames, TLC

CONSTANTS Worlds

MCOriginOf == [d \in Docs |-> d]
Plain == [doc : Docs \ Unsupported, hash : {0}]

VARIABLE world

Init == world \in Worlds /\ BrowserInit

\* "history": one page whose navigations follow one another; "races": they
\* overlap, and the page closes; "lifecycle": contexts and pages come and go;
\* "detached": a window without a page.
Next ==
  /\ UNCHANGED world
  /\ \/ world # "detached" /\ Answers
     \/ world = "history" /\ \E p \in Pages : NewPage(DefaultContext, p) /\ \A q \in Pages : page[q].state = "none"
     \/ world = "history" /\ (\A n \in Navs : nav[n].state # "fetching") /\ Navigation /\ UNCHANGED waiter
     \/ world = "races" /\ \E p \in Pages : NewPage(DefaultContext, p) /\ \A q \in Pages : page[q].state = "none"
     \/ world = "races" /\ \E p \in Pages, n \in Navs, url \in Plain : Goto(p, n, url)
     \/ world = "races" /\ \E p \in Pages, n \in Navs : Reload(p, n) \/ GoBackOrForward(p, n, -1)
     \/ world = "races" /\ \E p \in Pages : \/ NothingToNavigate(p) \/ ClosePage(p) \/ PageClosed(p)
                                            \/ \E k \in Waiters : WaitForNavigation(p, k)
     \/ world = "lifecycle" /\ Lifecycle
     \/ world = "lifecycle" /\ \E p, q \in Pages, n \in Navs, url \in Plain : OpenPage(p, q, n, url)
     \/ world = "detached" /\ (DetachedMoves \/ DetachedReplaces)

Symmetry == Permutations(Navs) \cup Permutations(Docs \ (Unsupported \cup {Blank}))

Spec == Init /\ [][Next]_<<world, bvars>>
-----------------------------------------------------------------------------
(* A frame counts exactly its navigations under way: every one that starts is *)
(* taken off once, however it ends, whatever replaced it and whatever the      *)
(* program did when it was called back (#navigate).                            *)
PendingExact ==
  \A p \in Pages : page[p].pending =
    Cardinality({n \in Navs : nav[n].state \in {"fetching", "content", "scripts"} /\ nav[n].page = p})

(* The window of an open page shows the document it was made for: the answer  *)
(* of a navigation that was overtaken while it was on its way is never        *)
(* written into the newer window, nor into a page that closed meanwhile.  The *)
(* one way round is the callback before the content: the document goes into   *)
(* the window the page has after it (#navigate, #writeHTML), so that a window *)
(* made, or closed, in the callback of a navigation of its own page may show  *)
(* that navigation's document.                                                *)
LoadedByOwn ==
  \A p \in Pages : page[p].win # 0 =>
    LET w == Frame(p) IN
    \/ w.shows = Blank
    \/ page[p].state = "open" /\ w.shows = w.made.doc
    \/ \E n \in w.under : nav[n].page = p /\ w.shows = nav[n].url.doc

(* Errors are routed to the windows of the open pages, whatever replaced      *)
(* them, to the last window a navigation made for a page that was closed      *)
(* already, which nothing takes off, and to no other; the process listeners   *)
(* are there while one is (BrowserExceptionObserver, #replaceWindow).         *)
ObserversExact ==
  /\ observed = {page[p].win : p \in {q \in Pages : page[q].state = "open"}}
                \cup {page[p].late : p \in {q \in Pages : page[q].late # 0}}
  /\ listening <=> observed # {}

(* Without a page, a window's URL is that of its current history entry.       *)
DetachedLocation == detached.url = Current(detached.history).url

-----------------------------------------------------------------------------
(* docs/browser.md:89 gives waitForNavigation() as "Wait for navigation": a   *)
(* promise taken while a navigation is pending is still the frame's to        *)
(* resolve, or resolved, when none is.  A second navigation overwrites the    *)
(* resolver of the first, whose waiters then wait for ever.                   *)
WaitersKept ==
  \A k \in Waiters : waiter[k].state = "pending" /\ waiter[k].on # None =>
    page[waiter[k].page].pending > 0
=============================================================================
