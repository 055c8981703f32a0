# A verification of mad-dom

mad-dom is a DOM for Bun: a Rust core (`src/crates/mad-dom-core`) holds the
nodes of a document, a Node-API binding (`src/crates/mad-dom-bun`) exposes it,
and a JavaScript facade (`src/js`) gives it the happy-dom API. This directory
holds TLA+ modules translated from that code, the TLC configurations that check
them on small instances, and theorems about them that TLAPS checks for every
instance.

## 1. The system

### Components, their state and operations

| component | state it keeps | operations |
| --- | --- | --- |
| Node arena (`arena/`) | slots with a generation, a stack of free slots, a live count | allocate, remove, get, check |
| Tree mutation API (`dom/mutation.rs`) | five relation fields in every node | append_child, insert_before, remove_child, replace_child; primitives detach and link_detached_chain_between |
| Document and payloads (`dom/document.rs`, `text_content.rs`, `character_data.rs`) | the root, the payloads, the structure and attribute generations | create_*, children, is_descendant_of, set_text_content, split_text |
| HTML apply path (`html/apply.rs`) | none of its own | load_html, inner/outerHTML, ensure_html_skeleton |
| Query index (`selectors/live.rs`, `query.rs`) | mode; lists by id, class, tag, and of all elements | subtree and element attached or detached, attribute changed, mode changes; live collections, getElementById |
| Mutation observers, Core (`dom/mutation_observer.rs`) | per observer and target: options, queued records, microtask flag | observe, disconnect, take records, queue a record, pending deliveries |
| Mutation observers, binding (`mutation_observer_api.rs`, `mutation-observer.js`) | callback registry, document link of each observer, the scheduler; the host's microtask queue | schedule, deliver, drop, disconnect at close |
| Ranges (`dom/range.rs`, `range_api.rs`) | boundary points | delete/extract/clone/insert/surround |
| Custom elements (`dom/custom_elements.rs`) | registry, custom marks, reaction queue, suppression flag | define, upgrade, enqueue, drain |
| Cross-document (`dom/cross_document.rs`) | none of its own; two arenas | clone, import, adopt |
| Shadow trees, templates (`shadow_root.rs`, `template.rs`, `html_element.rs`) | host links, contents fragments | attach_shadow, is_connected |
| Events (`dom/events.rs`, `events.js`) | listeners of every node, dispatch state | add, remove, dispatch |
| Binding handles (`handle.rs`) | the document behind a lock, weak wrapper cache with mint stamps, token table, epochs and their views | wrap, mint, drop, token entries, destroy |
| Facade caches (`node.js`, `attribute-cache.js`, `live-collections.js`, `attribute-nodes.js`, `child-nodelist.js`) | memos, attributes and counts stamped with epochs; Attr objects; the reserve of element tokens | reads, createElement |
| Window tasks and timers (`window-tasks.js`, `timers.js`) | task tokens, waiters, idle and debug timers, host timers | start, end, track, waitUntilComplete, abort; setTimeout and its kin |
| Window, Browser (`window.js`, `browser.js`, `window-platform.js`) | pages, contexts, frames, closed flags | open, navigate, close |
| Fetch, XHR (`fetch.js`, `xhr.js`, `sync-fetch.js`) | requests in flight, bodies | send, abort, answer |
| Forms (`form.rs`, `forms.js`) | dirty values and flags of controls | checked, selected, click, reset, submit, validity |
| Styles (`cssom.js`) | declarations, rules and sheets, the computed style of an element | setProperty, removeProperty, rule parsing, matchMedia, computed reads |
| SVG and geometry (`svg.js`, `dom-matrix.js`, `dom-geometry.js`) | lists bound to attributes, units, transforms, matrices | list edits, conversions, multiplications, inverse |
| Element classes (`hdunit-nodes.js`) | nothing beside Core, except the cache of labels | reflected properties, insertions, tables, normalize, labels |
| Parser, serializer, selectors | payload data | string and table work |

### How they interact

A facade call enters the binding, which checks the thread, takes the document's
lock and calls Core. Core's mutation API validates first and then goes through
two chokepoints only, `detach` and `link_detached_chain_between`. Each of them,
besides writing the links, maintains the query index, queues observer records and
enqueues custom element reactions. When the lock is released the binding publishes
the new epochs and asks the facade to queue one microtask for each observation
that became pending. Everything runs on one thread. What interleaves is calls,
microtasks, host timers, finalizers of collected wrappers, and re-entrant calls
from callbacks.

### What is hard, and what makes each part correct

* **Arena.** A handle outlives its node. It must never be accepted for the node
  that took the slot, through any number of reuses and the retirement of slots.
* **Tree.** Five fields in several nodes change at each step, and validations
  are skipped by shortcuts that rely on all earlier calls having been right. The
  relations mirror each other, there is no cycle, a refused call changes
  nothing, and the lists of children are what the DOM standard says.
* **Index.** Lists that are kept up to date one element at a time while the tree
  already has its final shape. They hold the right elements, in document order.
* **Observers.** Records are decided and worded at different moments of a
  mutation; deliveries race takeRecords, disconnect, close, destroy and
  collection. The records tell the change, each delivery happens once, and none
  is forgotten.
* **Handles and epochs.** Weak caches, late finalizers, values that wrap.
  A memo, a count or a token never answers for what Core no longer holds.
* **Window tasks, fetch and XHR.** A waiter must be released, exactly when nothing
  is left to do, whatever is aborted meanwhile; an answer that comes after an
  abort or a close changes nothing.
* **Browser.** Navigations of a frame overlap and outlive their windows, start on
  pages that are closing, and call the program back before they write. An answer
  that was overtaken on its way is not shown, and what was counted is counted off.
* **Events and signals.** Core keeps the listeners and the binding the callbacks,
  while listeners come and go during a dispatch and dispatches nest, across
  documents too. The two tables agree, and a signal made of others follows each
  of them once.
* **Facade objects.** One attribute is read and written through several objects
  (lists, items, declarations, reflected properties, radios of a group): what one
  of them keeps of a text that another has overwritten must not be read, and where
  the code does read it the properties say so.

`PROJECT.json` lists the components with their status, and each hazard at the
line where it bites, with the properties that would catch it.

## 2. The modules

| module | models | kind |
| --- | --- | --- |
| `Arena` | `arena/mod.rs` | state machine |
| `TreeOps` | relation fields, `detach`, `link_detached_chain_between`, `is_descendant_of`; `children` and the capped walk step by step | operators |
| `DomTree` | `mutation.rs`, `set_text_content`, `split_text`, creation | state machine over `TreeOps` |
| `DomForest` | what the mutation API promises, on lists of children | abstract specification |
| `ForestOps` | a tree as lists of children: owner, order, insertion | operators |
| `QueryIndex` | `selectors/live.rs`, `query.rs` and the mutations that drive them | state machine over `ForestOps` |
| `MutationObservers` | `mutation_observer.rs`, its chokepoints, `mutation_observer_api.rs` | state machine over `ForestOps` |
| `WindowTasks` | `window-tasks.js`, `timers.js` | state machine |
| `Fetch` | the requests of `fetch.js` and `xhr.js` over the tasks of a window | state machine over `WindowTasks` |
| `SessionHistory` | `HistoryItemList`, `Location`, `History` of `window-platform.js` | operators |
| `BrowserFrames` | `browser.js` | state machine over `SessionHistory` |
| `Events` | `events.rs`, `events_api.rs`, `events.js` | state machine |
| `Navigation` | the navigation getters and the token reserve of `node.js` | two state machines |
| `NodeCaches` | `attribute-cache.js`, `live-collections.js` | state machine |
| `AttributeNodes`, `ChildNodeLists` | `attribute-nodes.js`, `child-nodelist.js` | state machines |
| `FormControls` | `forms.js`, `form.rs` | three state machines |
| `FetchBodies`, `FetchHeaders`, `AbortSignals` | bodies, headers and abort signals of `fetch.js` | state machines |
| `CssProperties`, `CssSheets` | `cssom.js`: declarations; rules, sheets, computed styles | state machines |
| `SvgLists`, `SvgElements`, `SvgValues` | `svg.js`: lists of attributes, animated properties, units and transforms | state machines |
| `DomMatrix`, `DomGeometry` | `dom-matrix.js`, `dom-geometry.js` | state machines |
| `Reflections`, `ChildNodes`, `Labels` | `hdunit-nodes.js`: reflected properties, insertions and tables, labels | state machines |
| `Lists` | what a filtering loop keeps of a list | operator |
| `ArenaProofs`, `DomTreeProofs`, `ForestProofs`, `QueryIndexProofs`, `ObserverProofs`, `WindowProofs`, `BrowserProofs` | theorems about the state machines | proofs |
| `ListProofs` | lemmas about lists, and induction over naturals and lists | proofs |
| `MCArena`, `MCDomTree`, `MCQueryIndex`, `MCMutationObservers`, `MCWindow`, `MCBrowser`, `MCFacade` | instances for TLC | |

The components build on each other: `DomTree` has the pointers, and is shown to
implement the list view `DomForest`; `QueryIndex` and `MutationObservers` sit on
the list view, which is why they need no pointers.

### Arena

`slots`, `free`, `len` and `allocated` are the fields of the struct. `allocate`
is two actions: `AllocateReused` pops retired slots until it finds one that it
can recycle, and `AllocateFresh` appends one. `minted` is a history variable:
every handle returned, with the serial number of the node it was returned for.

### DomTree, TreeOps and DomForest

`tree` holds the five relation fields of all nodes, as a record of functions;
`live` is what the arena accepts; `result` says whether the last call was
refused. Each public call is one action, with the guards in `InsertRejected`
and `ReplaceRejected`, the early returns in `InsertInPlace`, and the writes of
the two primitives in `Detach` and `LinkChain`. Node types are gathered in
four kinds: `Text` stands for all types without children, `DocumentFragment`
also for shadow roots, which insertion treats alike.

`DomForest` knows only lists: insert takes nodes out of wherever they are and
puts them before a reference, replace and remove do what their names say.
`ListSemantics` maps `kids` to what `Children`, the walk of `Document::children`,
reads off the pointers: each step is some call of `DomForest` or changes nothing.
A step does not carry its arguments, so `CallsExact` adds, of each state and all
arguments, that an insertion or a replacement is refused exactly if `DomForest`
refuses the same call, and otherwise leaves the lists that this call leaves. `WalkExact`
ties the declarative `IsDescendantOf`, which the proofs use, to the capped loop
of the code.

### QueryIndex

`kids` is the tree, `attrs` the id and class tokens of each element, `mode` and
`index` the `QueryIndex` struct. A mutation drops the entries of what it
detaches in the tree before, and lists what it attaches in the tree after
(`Relink`), as the chokepoints do. The place of an element in a list is found by
a binary search (`partition_point`), whose result in an unordered list is any
boundary: `Listed` is a set, `Entered` what a list may become when several elements
enter, and the index a nondeterministic choice, list by list (`Outcomes`).
`Define` is the swap of `define_custom_element`, which bypasses the chokepoints.

### MutationObservers

`watch` holds the observations with their queues and microtask flags,
`microtasks` the deliveries the facade has queued, `callbacks` the binding's
registry, and `phase` whether the window is closed and its document destroyed.
A mutation builds a log of records, each with the tree it was queued in, because
interest is decided then (`Detached` queues before the links are cut, `Linked`
after they are made, and `ReplaceChild` writes its own records in the final
tree). `DeliveriesTo` are the observations of one observer that wait for a
microtask, in the order of the loop that looks for them. `Mutate` is an entry that schedules, and `MutateOnly` one that does not.
`view` is a history variable: for each observation, the children of its target
as the records handed over so far tell them.

### WindowTasks and Fetch

`owner` is the `WindowTasks` object of each window (tasks, waiters, idle and debug
timers), `job` each timer or microtask, `run` the callback that is running.
JavaScript runs to completion: a host callback starts only when no callback runs,
and a program's call happens between two callbacks or inside one. `Fetch` adds
`fetch`, `xhr` and `send`. A fetch is two computations, since the promise of the
caller is the race of `sendFetch` with an abort, and `sendFetch` goes on after it
lost; the body of the response is a third, with a task of its own. `AbortWindow`
is `abort` with the cancel callbacks of every task. `clearTimer` ends the task of
the window it is called on and does not look whose timer it clears: a timer that
is cleared through another window never runs and leaves its task open, and who waits for
that window waits on. This is what the world `strangers` of `MCWindow` does,
and what `TasksBacked` and `WaitersReleased` except by name.

### SessionHistory and BrowserFrames

A navigation replaces the window of its frame first and fetches afterwards, so
`win` is the sequence of all windows ever made and a page points at one of them;
`nav` holds the fetches that are under way, each with the window it was made for.
Its end is three steps: `NavArrives` checks that the frame still has the window,
sets its URL and calls the program (`beforeContentCallback`); whatever the program
may do, a navigation, a close or a new page included, happens then; and `WriteHTML`
writes into the window the frame has by now, and runs the scripts of the text, which
may do anything again before `NavFinishes` counts the navigation off. On the way to
`about:` the same callback runs (`abouts` is the stack of those), and `AboutEnds`
flushes the waiters. The host's own steps wait until no callback runs (`Idle`).
No navigation asks whether its page was closed: it is taken while the page still
has a window to read the URL of, and a history that has none is moved without one
(`MoveTo`). `late` is a history variable, the window made for a page after it was
closed, and so is `under`, the navigations in whose callback a window was made or
closed. A response is taken to land on the URL that was asked for, and a
`javascript:` URL to change nothing by itself. `waiter` holds the
promises of `waitForNavigation`, each with the resolver it hangs on, which the
next navigation overwrites. `detached` is the history of a window without page.

### Events

`events` holds the listeners that Core knows of a target, the callbacks that the
binding keeps by id, those of them that wait for the end of a dispatch, the stack of
dispatches under way with their paths, taken when they start, the abort listener of
each call made under a signal, and the handler slots (`onclick`). One node is in a
document of its own: dispatches are counted for all documents together, and each
document lets go of its own callbacks. A listener is called by
`Invoke` and returns by `Return`, and anything that a program may do happens
between the two, nested dispatches included. The root of the path may be a shadow root, past
which only a composed event goes. `payload` copies the fields of UI events.

### Navigation, NodeCaches, AttributeNodes and ChildNodeLists

`nav` is a tree with what its wrappers remember. A memo counts at the epoch it was
made for. `FirstChild` is the ladder of the code: a leaf answers itself; one
snapshot of the whole subtree is tried per epoch, cut off after `SnapshotLimit`
nodes; then one at each child of a node where it broke off; then two children at
a time. `NextSibling` reads a chunk after two links of a row were followed. `pool`
is the reserve of tokens for one element name. `cached` has two elements, the
epochs of Core and the facade's copies of them, what the facade keeps, and a
write whose observers run before it returns. `named` is one element with its
Attr objects and its token list, `row` one parent with iterations over its
children. Wrappers are taken to live as long as the behaviour.

### FormControls, FetchBodies, FetchHeaders and AbortSignals

`form` has the radios, a checkbox, and a click that is being dispatched while the
program may write; `choice` a single select and its options; `validation` one
input with its limits. `body` holds requests and responses that share, branch
(`tee`) and read streams of chunks; `headers` lists of entries with one object
made from another; `signals` abort signals with what listens to each. `any()` is given a list, in which a
signal may be twice.

### Styles, SVG, geometry and element classes

Values are taken from small sets of words and numbers, and a text is the sequence
of its words: serialization and parsing are modelled as what they do to such
sequences (what is lost, refused or completed), never as the identity. Rotations are quarter turns and coordinates integers or exact
fractions, so that matrices are exact. In `SvgLists` an item is an object that is
free or bound to a list, and a list keeps what it parsed together with the text
it knows it by; `wrote` is a history variable, the text it was really parsed from or
last written as, which some calls do not record. In `CssProperties` the store has
longhands only, and shorthands are read back from them. In `DomMatrix` and
`DomGeometry` the plain objects given as matrices name some or all of their cells, by
the short names, the long ones or both.

### MCFacade

These modules have nothing to say to each other beyond the attribute or the epoch
they share, which each of them has. `MCFacade` runs them side by side: a
behaviour chooses a world at the start and stays there, and the variables of the
other worlds are idle. Its six properties are the conjunctions, world by world, of
those that the modules state, so that one run and one mutant stand for each group;
each of the parts has its comment where it is defined.

## 3. The runs

| run | instance | shows |
| --- | --- | --- |
| `arena` | three generations, few slots and allocations | `NoAlias`, `FreeListExact`, `LenExact` |
| `dom_tree` | 3 elements, 2 texts, a fragment | `RelationsMirror`, `Acyclic`, `KindsRespected`, `WalkExact`, `CallsExact`, `ListSemantics` |
| `query_index` | the document and 3 elements, one id, one class, two names | `IndexExact`, `SameElements`, `FirstById`, `MovesKeepOrder` |
| `query_index_order` | the same | a counterexample to `IdenticalResults` |
| `observer_records` | 3 elements, a fragment, 1 observer, 3 ways to observe | `RecordsTellChildren`, `SiblingsWereThere`, `SubtreeChangesHeard` |
| `observer_delivery` | 2 elements, 2 observers, 2 observations | `ScheduledOnce`, `ScheduledIsDrained` |
| `observers_stranded` | 2 elements, 1 observer | a counterexample to `NoneStranded` |
| `window_async` | a window, 2 jobs, a wait, a request and an XMLHttpRequest | `IdleExact`, `TasksBacked`, `ClosedIsQuiet`, `ListenersReleased`, `DroppedNeverRuns`, `WaitersReleased`, `SendsComplete` |
| `browser` | 2 pages, 2 contexts, 2 navigations, 4 windows | `PendingExact`, `LoadedByOwn`, `ObserversExact`, `DetachedLocation` |
| `browser_waiters` | one page, 2 navigations, a waiter | a counterexample to `WaitersKept` |
| `facade` | the 29 worlds of `MCFacade` | `SvgSound`, `StylesSound`, `MatrixSound`, `ListenersSound`, `NodesSound`, `FormsSound` |
| `radio_restore` | the same | a counterexample to `CancelledClickRestores` |

Each passing run also checks its module's `TypeOK` where it has one of its own to
check (`observer_delivery` does it for the observers).

### Bounds, and why they are enough

* **Arena.** `MAX_GENERATION`, `MaxSlots` and `MaxAllocations` are small enough
  to exhaust, and large enough that slots are reused, retired in the middle of the
  stack, and freshly appended after that. The theorems hold for any values.
* **DomTree.** Three elements allow each shape that the code tells apart: an
  ancestor that is not the parent, a child that is first, middle, last or only, a
  replacement next to or far from the old child, and a fragment with two
  children. The text nodes are what cannot have children; the second is the tail
  that `split_text` creates. Elements are symmetric, and so are the texts: nothing
  in the specification names one. The view leaves `result` out of the states, as
  no call reads what the one before it answered. No node of kind `Document` is in the
  instance, since the mutation API refuses it as a parent and a child; the theorems
  cover it.
* **QueryIndex.** Three elements give a subtree of two and a sibling, the least for
  an order to go wrong. Two of them have the name that can be defined. There is
  one class token, so that the intersection of several tokens' lists is not
  exercised; it is a filter over lists whose content `IndexExact` gives. `Define`
  needs an unused node for each element that it replaces. `MaxFresh` (2) bounds the
  elements that one call creates: two have the name that can be defined, and markup of two
  elements beside a third is all the nodes there are.
* **Observers.** `MaxKeys` bounds the observations that are ever registered, and
  `MaxQueued` the records queued for one before further mutations are not explored;
  a single call may queue several more. `observer_records` starts from every forest
  of the instance, so that no depth is lost to building trees. It has one observer,
  since observers do not see each other; `observer_delivery` has two, since
  they share the microtask queue. Nodes are symmetric in the first.

* **Window.** Two windows, of which `Second` is only used by a program that
  clears the timers of one through the other (`strangers`): else windows share nothing but
  the program's signals. Two jobs, so that one may clear, schedule or abort while
  the other is queued; one request and one XMLHttpRequest, each request used once.
  `MaxIterations` (1) bounds the runs of an interval. The program of a behaviour
  (`Worlds`) uses the timers, the requests or XMLHttpRequest most, or strange
  windows; `Timed` (one job) is what it may schedule beside a request, or with
  two windows. The theorems hold for any values.
* **Browser.** Two navigations are the least to overlap, four windows the least for
  a page to be replaced twice with another page open, `MaxHistory` (3) entries
  the least to push after going back. Documents and navigations are symmetric. A
  `world` restricts what a behaviour does: navigations that follow each other,
  races, the lifecycle of contexts and pages, a window without page.
* **Facade.** Every world is a short history of calls, from states that cover
  the cases the code tells apart; what goes wrong in these objects takes one call
  to set up, one to disturb it and one to read. The bounds are on calls:
  `MaxMatrixOps`, `MaxStyleOps` and `MaxAccesses` 2 each, `MaxWrites` (SVG values: a
  write, another one, and the text of the first again), `MaxCascadeOps`, `MaxToggles`, `MaxLabelWrites`, `MaxFormOps`, `MaxGeometryOps`,
  `MaxHeaderOps`, `MaxCacheOps`, `MaxTokenOps`, `MaxEventOps` 3 (a dispatch, a nested one
  and a removal, from trees in which a function already listens, under each of the
  `ListenerOptions`), `MaxRowOps`, `MaxNavOps` 4, `MaxSignalOps` 5, with at most `MaxCacheWrites` (2) and
  `MaxTreeWrites` (1) of them writes; and on sizes: `MaxItems` and
  `MaxLength` (2) of a list and of the text it is parsed from, `MaxBraces` (4) of
  a sheet, `MaxDepth` (2) of nested dispatches, `MaxMinted` (7) nodes of which
  `MaxKids` (3) below a parent, `MaxMessages` (2) made with `MaxReads` (2),
  `MaxSignals` (3: a source, one made of it, and one made of both), and `MaxSources` (3:
  two sources, one of them named twice). `Amounts`,
  `WrittenPairs`, `ListenerOptions`, `Handlers`, `Callbacks` and `Dispatched` are
  the values that calls take: `WrittenPairs` has a shorthand of each family with one
  of its longhands, an invalid value and a `var()`.
  Limits of the code are scaled down so that they are reached: `SnapshotLimit`
  (3 for 65535), `ChunkSize` (1 for 32), `SharedCountKeys` (1 for 32) and
  `TokenBatchSize` (16, above the first request of 8, with `MaxCreated` 12
  elements, so that one reserve is emptied and a larger one refilled);
  `MaxEpoch` (1) and `LastEpoch` (9) are the epochs at which Core stops counting,
  with behaviours that start there. `Starts` gives `Navigation` a row of four,
  which a snapshot breaks off in the middle of, and two levels under each kind of
  native build.

`CHECK_DEADLOCK FALSE` is set where the bounds stop a system that could go on
(allocations spent), or where it really may end: a destroyed document has nothing
more to do.

### Fairness

`MutationObservers` and `MCWindow` have liveness properties and state fairness.
For the observers it is weak fairness of `Deliver`. The host runs a queued microtask as soon as the running
task returns, and no action of the code can take a microtask from the queue. No
fairness is assumed of the program's own calls.

`MCWindow` assumes weak fairness of what the host does: a due timer fires, a queued
microtask runs, a callback that runs returns, the idle timer fires, and a request
is answered or fails at last (the platform's fetch settles; an interceptor
that never answers would hold its request, and its waiters, for ever). The debug limit and every
call of the program, abort and close among them, are free to happen or not.
`WaitersReleased` depends on the bound on intervals: a program that keeps an interval for
ever is waited for for ever, by design.

### Disagreements between code and documentation

1. `IdenticalResults`. The doc of `selectors/live.rs` (32-34) promises the same
   results with and without the index. The elements are the same
   (`SameElements`), but their order may not be. An element that is last of the
   document, apart from its own descendants, is appended to its lists even where
   such a descendant is listed already. This happens when `define` replaces
   an element with a child, and when an ancestor at the end of the document is
   given an id or a class that a descendant has. Moves do keep the order
   (`MovesKeepOrder`), and `getElementById` is right anyway (`FirstById`).
2. `NoneStranded`. The doc of `mutation_observer_api.rs` (24) says that every
   mutating entry schedules deliveries. The entries of `Range` that mutate and
   `input.value` do not: their records wait for the next mutation that does.
3. `WaitersKept`. `docs/browser.md` (89) gives `waitForNavigation()` as waiting for
   a navigation. A second navigation of the frame replaces the promise and its
   resolver (`browser.js:482`), and whoever waits for the first one waits for ever.
4. `CancelledClickRestores`. `forms.js` (1251-1252) says that a cancelled click
   restores the toggle. It sets the clicked radio back, but not the one of
   the group that checking it has unchecked.

### What else the code does not do

Some guarantees that a reader expects of the code, and in part of its comments, fail in
a known way. They have no run of their own: the property of a passing run says
exactly what does hold, the exception included.

* `LoadedByOwn`. A navigation checks that the frame still shows its window, then calls
  `beforeContentCallback` (`docs/browser.md:72-73`), and then writes into the window
  the frame has (`browser.js:491-494`, `#writeHTML`). If the callback navigates, the
  document goes into the window of the other navigation; if it closes the page, into
  the closed window, which is then not the "empty, readable DOM" of
  `window-platform.js:182`.
* `ObserversExact`. `#navigate` does not look at `#closed`. A navigation that starts
  after `close()` and before that has settled makes a window and has it observed,
  which nothing undoes: the process listeners stay, against what
  `browser.js:51-53` says of them. On a page whose close has settled a navigation fails to
  read its URL, after `goBack`, `goForward` and `goSteps` have moved the history.
  A closed context still makes pages.
* `SvgListsAgree`, `StringListAgrees`, `MatrixReads`. A number, point or length list from
  which an item was removed, and a string list that was edited, do not
  record the text they wrote: given the old text again by `setAttribute` they answer
  with what they wrote since (`svg.js:1015-1016`, `1225-1226`, `1931-1932`). The setters of a
  matrix spread the cache over the text they have just recorded
  (`svg.js:1587-1593`): it goes by the text before, and given that text again it reads
  as what the setter wrote.
* `StyleRoundTrip`. Of a group that is written as one shorthand, the importance that only
  some members have is lost in the attribute; the values never are.
* `TransformsAgree`. A matrix that reads a plain object takes all its short names (an
  `a` and no `m11`) or all its long ones (`dom-matrix.js:105-116`); a point takes
  for each cell the long name and else the short one (`dom-geometry.js:258-273`). They
  transform alike but in the cells an object names only in the kind of name that one
  of the two passes over (`Contested`). The comment of `toMatrixComponents`
  (`dom-geometry.js:246-247`) says that the short names win over the long ones; the long ones do.
* `CallbacksReleased`. Whether a dispatch runs is asked of all documents together
  (`events_api.rs:172`), and the outermost dispatch releases the callbacks of its own document
  only (`754-756`): a listener taken off in another document meanwhile is kept until
  that one dispatches.
* `SourcesReleased`. `AbortSignal.any([a, a, b])` makes two handlers on `a` and forgets the
  first (`fetch.js:1040-1052`), which stays on `a` after `b` has aborted. Harmless but for
  what it keeps alive.
* `ArgumentsInPlace`. `before`, `after` and `replaceWith` keep the node they remembered
  as their place even if it is an argument: it does not move, and comes out last of them
  (`hdunit-nodes.js:605-637`).

## 4. The theorems

All are of the form `Spec => []P`, but for `DroppedAlwaysStays` and `SubtreesAlwaysHear`
(`Spec => [][A]_vars`), and `ImplementsForest` (`Spec` implies the specification `DomForest`
of its lists),
for every value of the constants, from the assumptions that the modules name:
the bounds are natural numbers (`ArenaAssumption`, and those of the other
modules), what stands for "none" is no member of the set it is put beside
(`NullAssumption`, `TokensAssumption`), the keys of ids, classes and names do not
meet (`QueryIndexAssumption`), every node has a kind (`KindAssumption`),
`about:blank` is a document without hash (`HistoryAssumption`). No set is assumed finite
but where a `Cardinality` is part of the property, and there finiteness is part
of the invariant.

**ArenaProofs.** `TypeCorrect`, `HandlesNeverAlias`, `FreeListAlwaysExact` and
`LenAlwaysExact`. None of the last three is inductive alone. `NoAlias` needs
that no handle is ahead of its slot (`MintedBehind`): the generation a recycled
slot gets is then one that no handle of the slot carries. `FreeListExact` needs
that the entries of the free list are vacated slots (`FreeVacated`), so that
what is removed next is not on the list already. `LenExact` is carried by
cardinalities of finite sets, one element more or less at each step.

**DomTreeProofs.** `TypeCorrect`, `RelationsAlwaysMirror`, `AlwaysAcyclic` and
`KindsAlwaysRespected`, all from one inductive invariant:

    IInv == Typed /\ Good(tree) /\ KindsRespected

`Good` is coherence and acyclicity of a tree *value*, so that lemmas can be
stated of the primitives: `Detach` and `Unhook` take a good tree to a good tree,
and `LinkChain` does, if the chain is a detached, coherent run of nodes, the gap
is a pair of neighbours in the parent's list, and the parent is not below the
chain. Each action composes these. Cycles are excluded in the form "every
non-empty set of nodes has a member whose link leaves the set", which is
preserved by a relink without talking of paths. The shortcut of `pre_insert`,
that a node without children cannot be an ancestor, follows from the mirror
between `first` and `parent`: coherence and acyclicity must be proved together.

**ListProofs.** The induction theorems of the library take an operator, which no
prover here can instantiate. Sets do as well: `LeastNatural` (a
non-empty set of naturals has a least member) and `SetInduction` (a set with 0
and every successor is `Nat`) are proved once and cited with the set of those
numbers for which a claim holds; `AppendInduction` does the same for lists that
grow at their end, and gives how filters and concatenation meet (`KeepingConcat`).
`CutFacts` and `SpliceFacts` say what a list holds that lost or gained a run of elements. That a recursive function
has the value its equation gives is proved by showing that a function with this equation exists, up to each length
(`KeptExists`, `FlatExists`); for the walk of a subtree, whose equation calls itself
once for each child, the length is replaced by trees in which every set of nodes has a
lowest one (`Bottomed`, `DepthFirstUnfolds`), and what the walk lists is the least set with
its node that is closed under children (`ReachUnfolds`, `ReachLeast`). `KeepingFacts` and `FlattenFacts` are what
the proofs cite: which elements a filter and a flattening keep, and that what
was without repetition stays so. `Ahead`, one entry listed ahead of another, says
what a concatenation, a filter and a flattening do to the order of entries.

**ForestProofs.** `ImplementsForest` and `CallsAlwaysExact`: the pointers do to the
lists what `DomForest` says. What `Children` reads from a
good tree is *the* list of a node: the one sequence that starts at its first child,
follows `next` and ends (`ListFrom`, `ListUnique`, `ChildrenIsList`); it exists
because sibling chains end, and mirroring gives its members (`Kids`) and its last
one. Concatenation then replaces walking: around a child, a list is
`l \o <<c>> \o r`, with the ends of `l` and `r` in the fields of `c`
(`Around`, `Place`). `detach` turns it into `l \o r` (`DetachLists`) and
`link_detached_chain_between` turns `l \o r` into `l \o x \o r` (`LinkLists`), and both leave
all other lists alone. On the other side, `Without` and `PutBefore` of `DomForest` are
computed on the same parts. Every call composes these: the gap before a reference
(`GapBeforeIsGapOf`), the early returns (`InPlaceLists`), and the anchors of a
replacement, read before anything is detached, which are the right ones even if
the new node stood beside the old one (`AnchorsAfter`). That a call is refused when it must
be (`InsertRefused`, `ReplaceRefused`) rests on `AboveIs`, that
`is_descendant_of` and the lists agree, and on `ChildlessAboveNothing`, the
shortcut of `pre_insert`. Steps use `IInv` of `DomTreeProofs` before and after.

Of the same module, `WalkAlwaysExact`: the loop of `is_descendant_of`, which
stops after as many steps as there are live nodes, answers as `IsDescendantOf`.
The walk from a node visits ancestors until it ends (`IsWalk`); a
walk longer than the number of live nodes would visit a node twice, by counting, and then go
round for ever, which acyclicity excludes. The finite number of live nodes is
an invariant of its own here.

**QueryIndexProofs.** `TypesAlways`, `ExactAlways`, `CollectionsAlways`,
`FirstAlways` and `OrderAlwaysKept`, from the invariant

    Inv == Sound(kids, live) /\ types /\ Exact(mode, index, Present(kids), attrs)

`Sound` says that the lists of children are a forest of allocated elements, and
`Exact` that each list the mode maintains holds the elements of the document with its
key, each once. `Preorder` is recursive, and the proofs never look into it
again after `SubUnfolds` and `SubLeast`, which say of it what `ListProofs` says of such
walks. On such sets every operation of the mutation API is
one move (`Moved`): trees leave, others are linked below one node, and these were
detached, are new, or are among those that left. `MovedForest` and `MovedDocument` say what a
move does to the document; `DropExact` and `ListExact` say that the chokepoints do
the same to the lists, and `RelinkKeeps` puts both together, so that for each
operation it is left to show that it is a move. The place at which an element enters a
list does not matter for this, which is why the invariant survives the wrong
orders of finding 1. `define_custom_element` goes around the chokepoints
and is proved by itself (`UpgradeStep`, then induction over the upgraded elements in
`UpgradesKeep`): the children of the replaced element keep their entries.
Collections start from the shortest of their lists, any of which gives what a traversal finds
(`GetFinds`); counts are the same since lists without repetition and of the same
elements are equally long (`SameLength`). `getElementById` keeps, through its loop, an
entry that no other one seen precedes (`LoopLeads`), as is the head of a traversal (`FirstLeads`),
and there is only one such (`OneLeads`).

`OrderAlwaysKept` states the action property `MovesKeepOrder`, which the invariant
does not imply: the lists may be out of order, and a call that finds them in order
must leave them so. The walks before and after a call are not compared. Document
order is a relation on the tree, `Before`: one of the two is above the other, or
an earlier sibling of something above the other; `ListedBefore` and
`BeforeListed` tie it to the positions in `Preorder`. A node that does not
move keeps its siblings in order (`OrderKept`, which every move shows of itself), so what
stays in the document keeps its order (`MovedBefore`). What enters does so one
element at a time, an element ahead of those below it (`Topped`), and the place found for it is
right because the list holds nothing of its tree yet (`EnteredInLine`): this
is what fails where `define` replaces an element with children, or an ancestor is given the
key of a descendant. Every lemma about an operation concludes
`Inv' /\ KeepsOrder`.

**ObserverProofs.** `ScheduledAlwaysOnce`: an observation is marked if, and only
if, exactly one microtask is on its way to it. The invariant beside it (`IInv`) says that
keys are below the counter and used once by an observer (`WatchKept`), that
a microtask's key was handed out (`MicrotasksKept`), so that it is never taken
for one of a later observation, and that who observes is registered, once, with
a callback, and nobody does in a destroyed document (`RegistryKept`): an
observer that the registry had lost would be marked by Core and never be
scheduled. For this the calls of the tree are taken as what they do to the queues,
whatever records they tell: every action reduces to `Mutate` or `MutateOnly`.

`TypesAlways`, `RecordsAlwaysTell`, `SiblingsAlwaysThere` and `SubtreesAlwaysHear` are
about the records.
`Tale(v, rs, t)` says that the records `rs`, told to who knows the children `v`, name
siblings that are there at every removal and end with the children `t`; tales append,
split and concatenate (`TaleAppend`, `TaleBefore`, `TaleConcat`). A mutation in
progress keeps `Tells(k, s)`: for every node, the records so far are a tale from its
children in the tree `k` before the call to those in the tree reached. `DetachedFacts`
and `LinkedFacts` show this of the two primitives, which `detach` and
`link_detached_chain_between` are, with induction over the moved nodes, and every
entry of the mutation API that is made of them follows. `replace_child` is
not: it links and unlinks by hand and tells afterwards, so that its records are
compared with what it did one by one (`InsertionTells`, `RemovalTold`), the pair of records for each
child of a fragment and the reference sibling adjusted when the new node stood beside
the old one included. The invariant is

    RInv == Family(kids) /\ RestTyped /\ AllHonest(watch, kids, view) /\ AllApart(watch)

`Family`: no node is twice a child. `AllHonest`: the records still queued in an
observation of `childList` lead from what the program has seen (`view`) to the children that the target has;
`AllApart`: an observer has one observation of a target and no two observers
share a key, which is why handing the records of one over moves no other view.

`SubtreesAlwaysHear` is about who hears them. Each record is queued in the tree that the call
had reached, which may be neither the one before nor the one after it. `InPlace` says
that this makes no difference: whatever observation sees the record's target then, sees it
before the call (a removal) or after it (an addition, and every record of
`replace_child`). A removal could fail this if an earlier one had cut the target off; it
does not, because a node is never below what moves away from it: the nodes that move are
siblings or a single node (`LevelFacts`), and in trees without a cycle no parent is below
its child (`NoCycle`, `PrunedSteady`). So the invariant also has `Grounded(kids)`,
there is no cycle, which the calls keep because what is linked below a node was not above it
(`Regrown`, from `Holdable`). An observation that sees a node before and after then hears all
that is told of it, and one that sees it neither time nothing (`HeardWhere`, `InPlaceHeard`).

**WindowProofs.** `WindowTyped`, `IdleAlwaysExact`, `TasksAlwaysBacked`,
`ClosedAlwaysQuiet`, `ListenersAlwaysReleased`, and `DroppedAlwaysStays` of the steps:

    IInv == TypeOK /\ IdleExact /\ ClosedIsEmpty /\ JobsInv /\ FetchInv

`JobsInv` adds to `TasksBacked` that an id not handed out is nowhere, that the host has given
up every dropped timer (only a microtask cannot be taken back, which is why
`invoke` looks again), and that an interval has turns left while it may run.
`FetchInv` is about one request and its window: one that is in flight and was not aborted
still holds its task and its promise is open (`InFlightHolds`), which is what
the abort of a window relies on when it finds requests by their tasks; an aborted
one has no flowing body, and a body that ended has taken the listener off
(`BodyStopped`). Each action is shown to change one owner, one job or one
request in one of a few ways (`JobStepKeeps`, `RequestStepKeeps`), and abort,
which changes all the requests of a window at once, is done on its own.

**BrowserProofs.** `BrowserTyped`, `PendingAlwaysExact`, `LoadedAlwaysByOwn`,
`ObserversAlwaysExact` and `DetachedAlwaysAtEntry`, from

    IInv == TypeOK /\ Sited /\ Counted /\ (\A p \in Pages : ShowsOwn(p))
            /\ ObserversExact /\ DetachedLocation

`Sited` says where things are: a page has a window exactly while it is open or
closing, and may have one more that was made for it since (`PageSited`); no two
pages share one (`WindowsOwn`); a navigation under way has a window that was made for
what it fetches, whether or not this is still the window of its page (`NavSited`). Windows
are never reused, so that the comparison after the await of `#navigate` is
enough for the moment it is made. For the moment of the write it is not, and `NavHeld` says
what is left of it: a navigation whose callback runs will write into its own window, or
into one that was made or closed under this very callback. `ShowsOwn` follows at the
write. `Counted` says that a frame's count is the cardinality of its
navigations under way, callbacks included, with the set finite. `ObserversByWindow` says of
the observed windows one by one whose they are, so that a step is proved for the few it touches.

### What is only model-checked

* The properties of `MCFacade`. It extends `Navigation` (`Preorder`)
  and `AbortSignals` (`AbortImpl`), whose recursive operators the prover cannot
  translate; the other modules have none and can be proved about one by one.
* Liveness (`ScheduledIsDrained`, `WaitersReleased`, `SendsComplete`): the prover
  does neither fairness nor ENABLED.

No module with a theorem, nor any module that it uses, declares a recursive
operator; recursion is by functions, and the loops that only filter are `Keeping`
of `Lists`, since the prover has no rule for `SelectSeq`.

## 5. What is not modelled

Parsing, serialization and selector matching of markup, and payload text with its
UTF-16 arithmetic: sequential functions of their input that the differential tests
against happy-dom suit better. Native loading, the FFI buffers and host I/O. Shadow
trees (beyond the path of an event), custom element reactions, traversal
cursors and adoption between two documents. In what is modelled:

* characterData records are queued like attributes records, under their own flag,
  and are represented by them; attributeFilter and old values are left out. The
  code has no transient registered observers, and so neither has the model;
* one range inside one node stands for the mutations of `Range`, as to what they
  queue; a range across nodes is a sequence of such removals;
* the children of the Document node itself are reached by `QueryIndex` (as its
  root) and not by `DomTree`, whose calls refuse a Document;
* refused calls are not told apart by their error code, except where another
  object reads it;
* redirects, cookies on the wire, the virtual server and the synchronous fetch's
  child process are left out, and so are url-encoded forms, of which only the
  outcome (readable or not) is kept;
* late finalizers of collected wrappers: wrappers live as long as the behaviour;
* a radio that is given another name, or moved to another form, while it is checked;
* the `javascript:` URL as a step of its own (what its script does are calls like
  others), the URL a redirect ends at, assignments to `page.content`; the listeners that
  run when a window is closed are taken to call nothing of the browser;
* colours, gradients, the grammar of numbers, and angles other than quarter turns.

## 6. Plan

1. Proofs: the parts of `FormsSound` (`OneRadioChecked`) and of the other
   properties of the facade, module by module.
2. `Handles` (`handle.rs`): the weak wrapper cache with mint stamps against late
   drops and slot reuse.
3. `CrossDocument` over two `Arena`s: clone, import and adopt with templates,
   shadow roots, custom marks and observations; `ShadowTrees` with
   `is_connected`, whose comment (`html_element.rs:66`) is to be a run.
4. `Reactions`: the custom element queue, suppression, upgrades and drains.
5. The Document's own child list with `ensure_html_skeleton`, and NodeIterator
   under removals.
