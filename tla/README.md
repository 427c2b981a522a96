# Rapicorn in TLA+

Rapicorn is a user interface toolkit.  The widgets live in a server thread, the
*UI thread*; an application talks to them over *Aida*, a remote procedure call
layer with proxies ("handles"), remote signals and a distributed garbage
collection.  Both threads are driven by event loops, and a third one, the *display
thread*, talks to the X server.  This directory specifies the program logic of
the toolkit: threads and messages, windows and widgets, and the languages
that interfaces, settings and commands are written in.  TLC checks the
specifications on small instances; for most of those about threads and protocols, and
some others, TLAPS proves the main properties for all values of their constants
(section 4).

Paths below are relative to the root of the repository, and mostly to `src/`.  A
definition has the name the code uses wherever there is one; `PROJECT.json` gives the
source lines of each definition, and lists the hazards that the properties are for.

## 1. The parts of the system

### How they interact

```
 application thread           UI thread                      display thread
 +--------------------+ msgs +--------------------------+    +-----------------+
 | EventLoop          |----->| EventLoop                |    | X11Context      |
 |  AppSource         |      |  ServerConnectionSource  |    |                 |
 |   ClientConnection |<-----|   ServerConnection       |    |                 |
 |    handles,        | msgs |    ObjectMap, stubs      |    |                 |
 |    handlers,       |      |  WindowImpl source       |----| DisplayWindowX11| -- X server,
 |    list models,    |      |    widgets, signals      |cmds|  state, surface,|    other clients
 |    bindables       |      |    relays of models,     |----|  selections     |
 +--------------------+      |    bindings              |evts|                 |
                             +--------------------------+    +-----------------+
```

A connection is a source of the loop of its thread; its channel's eventfd is what
that loop polls.  Method calls run in `dispatch()` of the server's source, and
signal handlers in that of the client's.  The stubs connect closures to server
signals that send EMIT messages.  A window is a source, too: it handles one event,
command, resize or draw at a time.  Commands and events of the display thread travel in
queues, its draws block the UI thread.

### Components

| component | state | what is hard about it | correct when |
|---|---|---|---|
| event loop (`rcore/loop.cc`) | loops, their sources with a life cycle and two recursion flags | one mutex, released for callbacks and poll(2); callbacks and threads add, remove, destroy, quit, iterate again | source and loop agree; positions stay valid; no wakeup is missed; priorities decide, round-robin starves nobody; `quit()` ends `run()` |
| its concrete sources | expirations, pollfds and their indices | a clock that may be set; arrays that shift during poll(2); who closes a descriptor | timers fire in time; descriptors polled and closed are the source's own |
| transport (`rcore/aida.cc`) | lock-free stack, reversed list, eventfd | flush and look again against push and write | it is a first-in first-out queue; nobody sleeps in front of a message |
| calls | `blocking_for_sem_`, semaphore, `event_queue_` | the server chooses what to trigger from an unsynchronised flag | calls return; events are handled in order |
| remote objects | map of ids, live and swept references, handlers, results | collection, calls and emissions cross each other; ids are reused | handles resolve; forgotten objects are released; replies find what they answer |
| messages and values | buffers of fields refilled in place; tagged unions | nested calls and emissions; manual construction and destruction | everything is read as it was stored and freed once |
| connection registry | connections, peers, method hashes | several threads bind and connect; static constructors | pairs are symmetric, all methods are found |
| signals (`rcore/aidasignal.hh`) | ring of reference counted links | callbacks that connect, disconnect, emit, destroy | those connected are called, links are released once |
| window commands | the emission under way and its future | one turn per handler, answers come later | every command is answered, unhandled only if all refused |
| application (`ui/clientglue.cc`) | primary sources of two loops | a question to the other side while windows open and close | `run()` returns when nothing primary is left, not before |
| UI thread, display driver | start and end, queues, wakeups | two threads wait for each other | shutdown ends, with nothing left over |
| ring buffer (`rcore/thread.hh`) | two marks | stale marks, wrapping | first in, first out |
| bindings (`ui/binding.cc`) | cached value, nonces, requests | answers, notifications and edits cross | both sides come to rest with one value |
| window: resizing, drawing | sizes and regions on both threads | requests and reports cross each other | what the window shows at rest is current |
| window: pointer | entered widgets, grabs, presses | callbacks that remove, hide and close | ENTER and LEAVE, press and release are paired |
| clipboard | owners, requests, nonces, transfers | timeouts, late answers, requestors that vanish | every request is answered once; transfers go on |
| window state | properties and flags, a timer | notifications are merged and answered late | it converges to that of the X server |
| widgets | tree, cached flags, focus chain, cross links | caches of ancestors read in the middle of a change | caches are true, one focus, links are kept |
| layout | sizes and invalid flags, tables | flags passed on only if new; integer shares | what is drawn has a valid size |
| lists, scrolling | rows by index, view in pixels and fractions | the model changes behind a relay; notifications from within setters | rows shown are rows of the model; views agree |
| text editing | byte offsets into UTF-8 text | edits, clicks, replaced texts | cursor and selection are where a reader of the keys expects them |
| regions | canonical bands of boxes | coalescing | operations are those on sets of points |
| selectors | chains of combinators | backtracking | a query finds what the selector means |
| markup, factory | states of a pushed parser; scopes | pieces cut anywhere; inheritance | pieces make no difference; values take effect once |
| expressions, formats, commands | a growing block of words; scans of strings | offsets, padding, counts, ends of strings | programs mean their expressions, lists are cut at their own commas |
| settings, XML, strings | texts | each writer and reader has its own rules | what is written is read back |

## 2. Modules

Each component has a module of its own; four modules compose them for TLC.

| modules | what they are |
|---|---|
| `EventLoop` | the event loop.  An action is a stretch of code between two operations on the mutex, `pc` says where the loop thread is; `frames` is the stack of nested iterations; other threads add, remove, create, quit at any unlocked place and owe a wakeup (`owing`) |
| `LoopSources` | `TimedSource` and `PollFDSource` through prepare, poll(2), check and dispatch, with clock and descriptors |
| `Channel`, `TransportChannel`, `ThreadParts` | the abstract queue; the channel, one shared access or system call at a time; the channel as the server uses it, which implements `Channel`, with the instances of what else two threads share |
| `ClientCalls` | the channel as the client uses it, with semaphore and event queue |
| `RemoteObjects` | the protocol between both connections over the queues that `Channel` promises |
| `Values`, `Messages`, `Connections` | `Any`; `ProtoMsg` with stubs and `ProtoScope`; registry and method map |
| `Handlers`, `Signal` | the abstract list of handlers; the ring of links, which implements it.  An action is what happens between two callbacks |
| `WindowCommands` | `AsyncSignal::Emission` and the command dispatcher; shares the ring of `Signal` |
| `AppRun` | `ApplicationH::run()` and the primaries of both loops |
| `UiThread` | start, work and end of UI thread and display thread |
| `RingBuffer` | `AsyncRingBuffer`, element by element |
| `Bindings` | bindings, relay and the client's object, while the window is bound, shown and closed |
| `WindowUpdates`, `WindowEvents` | resizes and draws; pointer, grabs, buttons |
| `DisplayDriver` | what the display thread knows of its X window; transfers of large selections piece by piece |
| `Selections` | claims, requests and answers of the clipboard |
| `WidgetTree`, `CrossLinks` | tree, flags, anchors, focus; links between widgets |
| `WidgetLayout` | columns of a table; requisitions and allocations, with the resizers of window and viewport and the sizes under way to and from the X window |
| `WidgetLists`, `Scrolling` | rows and selection of a list over a relay; its view, and scroll areas with port, adjustments and sliders |
| `TextEditing` | text, cursor, selector and the keys |
| `Regions`, `Selectors`, `UiFactory`, `Markup` | banded regions; matching of selectors, and how their attributes, `nth` formulas and nested texts are read; definitions; the parser |
| `Sinfex`, `Directives`, `Strings`, `IniFiles`, `XmlNodes` | expressions; formats and command calls; string functions; settings; XML trees and records |
| `MCThreads`, `MCInterface`, `MCToolkit`, `MCLibrary` | composites, see below |
| `SequenceLemmas` | what `Append`, `Tail`, `RemoveAt`, `Reverse`, `Without` and the like do to the elements and positions of a sequence; `LeastOf`, `ShortestOf` |
| `EventLoopProofs`, `RemoteObjectsProofs`, `SignalProofs` | theorems and proofs about these modules; the first one has those of `LoopSources`, too |
| `ThreadsProofs`, `LibraryProofs` | proofs about the composites `MCThreads` and `MCToolkit`, and about `Connections` |

`ThreadParts` also holds the proofs about what it has instances of (`ClientCalls`,
`WindowUpdates`, `UiThread`, `RingBuffer`), and `Selections` its own.

A *composite* holds instances of several modules side by side.  They share no
state: the variable `part` says which of them a behaviour is about, the others stay in
one state.  `MCThreads` has what threads and callbacks do with each other,
`MCInterface` what the UI thread does by itself, `MCToolkit` the parts that keep a copy
of something else, `MCLibrary` values, connections and languages.  Each extends the
modules that are most about it, whose properties it checks as they are (`ThreadParts` and
`Signal`; `Selections` and `LoopSources`; `CrossLinks`; `Connections`), and has instances of
the others.  `LoopSources` is there in two parts, one with a timer and a clock that may be
set, one with descriptors and a clock that stands still.  Most
properties there read `part = "x" => X!Property`; the module `X` explains them.

Pure algorithms (`Regions`, the tables of `WidgetLayout`, `Selectors`, `Strings`, `Directives`) keep no
state: their variables are inputs that grow step by step, and the properties compare
the translated functions with a definition of what they are for.

Definitions whose comment begins with "mutant" are faulty variants of the
definition that follows them.  Nothing refers to them; substituted for it, they
make the property named in `PROJECT.json` fail, which shows that the property depends on
the code.

### Decisions worth knowing

*EventLoop.*  `UNDEFINED_PRIORITY` is 0.  `rr_index_` is kept modulo 6,
a common multiple of the numbers of loops up to three; no theorem depends on it.  The two
passes over the candidates of `dispatch_source_Lm()` and the turn among the loops are
one choice (`IsDispatchSource`, `IsTurn`).  A removal by the loop thread calls
`destroy()` and wakes up in one step.  What `prepare()` and `check()` answer is
open, except for the sources in `AlwaysReady`.  `destroy_loop()` is called from
callbacks of `dispatch()` and from outside of iterations.  Threads stop using a loop
when its destruction begins, unless `AddToDying`.  Ids and `run()` calls within
`run()` are left out.

*TransportChannel.*  `push()` compares pointers.  A list whose address is reused
between the read and the swap is harmless, since the swap installs what a new
read would have given; so equal contents may stand for equal pointers.

*ClientCalls.*  One client thread; calls start from the loop, or between
`check()` and `dispatch()` of `AppSource`.  Posts that nobody waited for stay in the
semaphore.

*RemoteObjects.*  `obj` in messages and the range of `denotes` are history: they
record which object an id stood for when it was sent.  `overtaken` is history too.
Assertions that abort the process set `failed`.  Client handles are a set of ids:
copies of a handle share one `OrbObject`.

*Signal.*  A callback is the number of its connection.  Callers forget an id
when they disconnect it, as the code base does; ids are addresses, and freed
addresses are allocated again.

*Values.*  A value remembers by which kind its contents were constructed, and `heap`
counts what is allocated; `want` is the meaning that was assigned.

*Messages.*  A field has a type and stands for the number of its call; every slot of
memory says who may touch it.

*UiThread, WindowUpdates, Selections, DisplayDriver.*  X server and window manager are
processes of their own that answer in their order; other clients do what
the protocols allow, or vanish.

*WindowEvents, WidgetTree, UiFactory, Regions.*  What one call causes is a function
from the state before to the state after; the order of the code's steps is the order
of its folds and compositions.

*WidgetLayout.*  The window's own resizer is queued like that of a viewport
(`ResizeContainerImpl::invalidate_parent()`) and runs also while a size is pending.  The
CONFIGURE commands, the sizes the X server will tell and the WIN_SIZE events are queues of
the display window; the window manager gives sizes of `Given`.

*Bindings.*  `crossed` is history: an edit was made before the one before had settled.  All
properties but `Settles` and `LatestStays` hold across such edits.

*Scrolling, Sinfex.*  Reals are counted in units fine enough for all
values that the instance reaches, or are fractions.  There is no rounding error.

*Strings, IniFiles, XmlNodes, Markup, Directives.*  Texts are sequences over a few
characters, one for each class the code tells apart; the two bytes of a letter stand for
UTF-8.

## 3. What is checked

| run | instance | distinct states | properties |
|---|---|---|---|
| `loop_safety` | 2 sources (one ascending), main and slave loop, `run` and `pending` outside, `iterate(true)` and `iterate_pending` nested to depth 2, 2 calls of add, 1 thread that owes a wakeup | 1.5 million | `TypeOK`, `Ownership`, `RecursionIsAllowed`, `CursorsValid`, `NothingIsMissed`, `DispatchOrder` |
| `loop_liveness` | 2 sources that are always ready, nested iterations | 109 thousand | `RoundRobin`, `QuitEndsRun` |
| `remote_objects` | 2 objects, 1 handler, 1 two-way emission at a time | 392 thousand | `MapConsistent`, `HandlesResolveInOrder`, `ReferencesAreFound`, `ForgottenIsReleased` |
| `threads` | `MCThreads` | 180 thousand | `NoLostWakeup`, `EveryMessageArrives`, `ImplementsChannel`, `CallsAreAnswered`, `HandlersAreKept`, `ImplementsHandlers`, `NothingIsLost`, `ThreadsRest`, `BindingsConverge` |
| `interface` | `MCInterface` | 496 thousand | `PointerIsTracked`, `ClipboardIsAnswered`, `RowsAreCurrent`, `QueriesFindWhatIsMeant`, `WidgetsAgree`, `LayoutIsValid`, `RegionsAreSets`, `DefinitionsAreRead`, `SourcesAreServed` |
| `toolkit` | `MCToolkit` | 262 thousand | `LinksAreKept`, `EditsAreSeen`, `DriverKeepsUp`, `ViewsFollow`, `PointerAndTimeMoveOn` |
| `library` | `MCLibrary` | 335 thousand | `ValuesCross`, `PairsMatch`, `RunEndsWhenDone`, `ProgramsMean`, `WrittenIsRead` |

Five more runs check a claim of the documentation, of a comment or of an assertion,
which the code does not keep:

| run | claim | what happens |
|---|---|---|
| `loop_claims` | a source is dispatched if either `prepare()` or `check()` returned true | `check_sources_Lm()` calls `check()` on sources that `prepare()` has flagged for dispatch, and its false answer overrides them |
| `client_wakeup` | the wakeup catches every transition from empty to full | the flag is read before the push: if the call ends in between, neither eventfd nor semaphore is triggered, and the client sleeps with a message in its queue |
| `remote_dangling` | the server keeps all instances alive that it has sent references of | a sweep inside a call overtakes queued events; the ids that they carry are reported as garbage |
| `markup_end` | `end_parse()` handles all states | a document that ends between an attribute name and its equals sign, or behind the name of a close tag, hits `assert_unreached()` |
| `incomplete_formats` | format errors return the format unmodified | a format that ends within a directive is read beyond its end, as `strchr()` finds the final NUL in any set |

### Known violations outside of these runs

Constants that leave something out exist because the code goes wrong with it.  To see
that, check the module with the constant changed:

| module and constant | what the code does |
|---|---|
| `EventLoop`, `AddToDying <- TRUE` | a source added to a loop while `destroy_loop()` has the mutex unlocked (`loop.cc:259`) stays there for good: `DeadLoopsAreEmpty` fails against "Remove all sources from a loop and prevent any further execution" |
| `RemoteObjects`, `EmitFindsHandler` | `signal_disconnect()` (`aida.cc:2136`) empties its slot first; an EMIT sent before the server unlinked fails an assertion |
| `UiThread`, `DeleteWindows <- TRUE` | the display thread's callback (`window.cc:1084`) finds the window deleted (`WakeupsHaveWindow`) |
| `UiThread`, `LateShows <- TRUE` | a window shown by a callback while the thread ends stays |
| `WindowUpdates`, `ShrinkBack <- TRUE` | a window that shrinks back before the display caught up discards exposes (`displaywindow-x11.cc:442`); `DrawsValidLayout` fails against "Execute resizes right before GUI updates" of `window.hh:36` |
| `WindowEvents`, `RemoveWhilePressed <- TRUE` | `remove_grab()` (`window.cc:857`) is called without a grab and throws |
| `Bindings`, `Settles` without `crossed` | two edits that overtake each other set each other off for good, against "settling bindings may require extra round trips" of `testbind.py:33` |
| `Bindings`, `CutsOff <- TRUE` | a window that closes while an answer is on the way resets the binding that asked; the answer stays cached (`binding.cc:61-69`), and the next binding takes it for the client's value (`RequestsEnd`, then `Converged`) |
| `Bindings`, two bindings of one path | the path is passed by reference to the cached request, which the first binding erases (`binding.cc:68`): the second compares with freed memory and may keep its old value (`Converged`) |
| `Bindings`, `OwnContext <- {"b"}` | a widget with a data context of its own is reset when that of its window is set, as its context is bound already (`binding.cc:130`): `BoundToContext` |
| `Selections`, `ClaimsRace`, `FocusMoves` | a failed first claim reads `offer->nonce` through NULL (`FailedClaimsAreTold`, against `displaywindow-x11.cc:1389`); owners of moved focus are not told |
| `WidgetLists`, `Hurried`, `SwitchesModel`, `RowSelects`, `EarlyFocus` | rows asked for while others arrive, another model, selection from within a row and focus before the first fill leave stale rows, or crash |
| `WidgetLists`, `BrowseSelectsRow` | in BROWSE mode no row is selected until one was toggled in another mode: `change_selection()` (`listarea.cc:568`) compares with `focus_row()` when the focus has moved there already (`listarea.cc:672`), against "always select a single row" of `interfaces.idl:595`; `SelectionFitsMode` has what does hold |
| `WidgetTree`, `MovesSubtrees <- TRUE` | the anchor info that widgets of a subtree have cached outlives the move, and `get_window()` (`widget.cc:1204`) answers from it |
| `WidgetLayout`, `Shows` with the viewport | a size group keeps an old size: `invalidate()` (`widget.cc:1384`) passes on only flags that were clear, against "Group name for widgets requesting the same horizontal size" of `interfaces.idl:301` |
| `WidgetLayout`, `WindowGrows` | a window that wants more is not always asked to grow, against "grow display window if needed" of `window.cc:296`: `idle_sizing()` (`container.cc:888`) of the window lays out with the old size and clears the flags while a size is pending; and CONFIGURE answers with the size there is (`displaywindow-x11.cc:1172`).  `DrawnIsLaidOut` has what does hold: leaves get what they want if the window has room |
| `Regions`, `ContainsTellsCoverage` | `_rapicorn_region_region_in()` (`regionimpl.c:1900`) looks boxes up in the wrong operand |
| `Values`, `Careful <- FALSE` | a held LOCAL object leaks (`aida.cc:615`); `set_seq`, `set_rec`, `set_any` and `operator=` given a part of the variable read freed contents, in spite of the comment at `aida.cc:739`.  `EqualIsExact` fails against `aida.hh:460` |
| `TextEditing`, `Careful <- FALSE` | `load_markup()` (`text-pango.cc:890`) leaves cursor and selector beyond the text |
| `AppRun`, `Runs <- 2` | a second `run()` without primaries does not end, against `clientglue.cc:212` |
| `Connections`, `OneAtATime <- FALSE` | two clients get one server, an assertion fails (`aida.cc:2186`) |
| `XmlNodes`, a comment in front of the root | the offset of the first tag counts only from the end of the last comment (`markup.cc:1817`), so the caller looks for the root in the wrong place |
| `IniFiles`, `QuotedNewlinesCount` | a `\n` between quotes is not a newline, against `inifile.cc:25` |
| `Sinfex`, `SumsJoinTexts` | a sum of texts that begins and ends with a quote is unquoted once more, so it is not the concatenation that `ui/sinfex.cc:264` announces |
| `DisplayDriver`, `MaskIsRequested` | when a requestor is gone and its window id is used again, the stake of the old window is taken for the new one's, and the events of `displaywindow-x11.cc:1733` are not selected |
| `Strings`, `ValidTextConverts` | text that does not fit into the output buffer at once is refused: `E2BIG` counts as "fatal" (`strings.cc:1279`) |
| `Selectors`, texts of attributes | `INCLUDES` looks at the first occurrence of a word only (`strstr()`), so `x-x x` has no word `x`; a value shorter than the argument may match `\|=` and `^=` when case is ignored; numbers beyond 64 bits may be accepted after they wrapped, against `selector.cc:73` |
| `Directives`, `ArgumentsFit` | a precision without `*` passes one number too many or too few for `c` and `p` |

### Bounds

`MaxAdds`, `MaxDepth` and `MaxOwing` of `EventLoop` bound additions, nesting and
threads between unlock and wakeup.  A source added twice already meets its old
self in the recursion flags and in `poll_sources_`; depth 2 is the
least at which `was_dispatching_` and the loops of an outer iteration matter; one
late wakeup can come at any time.  The theorems do not depend on them.  Two or three
messages are enough for the reversal to matter, for a message in each of the three places
of a channel and for producers to race; the theorems cover any number.  In
`RemoteObjects` two objects are needed for ids to be reused for another object,
`FreeLength` is 1 instead of 31 so that reuse begins with the second free slot, and
`MaxQueue` bounds only messages that nobody waits for.  In `Signal`, two links beside
the head and a nested emission are enough for a link to be removed while an outer and an
inner emission hold it; the theorems cover any number of links and emissions.

Other bounds count what comes from outside: changes of the X server (`MaxChanges`),
edits (`MaxEdits`, `MaxEvents`), calls (`MaxCalls`), transfers, steps.  They are as large as the
run allows and at least what makes two such things cross each other.  `Bindings` has
`MaxRebinds` 4: a window is bound and shown, closed, and bound again with messages of the
first time under way.  `Toolkit` has `MaxSteps` 4: a link is undone, changed and made again, and a
skid is pressed, its range changed, and dragged.  Inputs of
algorithms are bounded by size (`MaxLength`, `MaxNodes`, `MaxColumns`, `Width` and
`Height`), each large enough for every branch to be taken and its result used by the
next one: three bands of a region merge, five characters open and close a quote around
an escape, three columns leave a rest when shared.  `Sinfex` with 4 nodes has operators
within operators and strings that need padding.  `Directives` counts 64 bit numbers
modulo 256 with 15 for the largest `int`, which keeps the condition that the code's test for
overflow relies on (`10 * Limit < Modulus`).

### Fairness

`FairSpec` of `EventLoop`: the loop thread runs (weak fairness), every callback
ends (strong fairness for each depth, as a callback may iterate the loop in
between), and threads that owe a wakeup send it.  That a thread runs on is the
scheduler's promise; that callbacks end is what the loop asks of its sources.
Channels: a thread inside `send_msg()` runs on, and the consumer keeps
polling and dispatching, which its source does as long as the loop runs.
`ClientCalls`: in addition the server answers; the application is free to stop calling.
`RemoteObjects`: both sides keep dispatching, and application code owes nothing.
`WindowCommands`: the dispatcher runs and handlers answer their futures; without
that a command may wait forever, by design.  `WindowUpdates` and `UiThread`: both
threads handle what is in their queues, and the X server answers.  `Bindings`:
messages are delivered.  `AppRun`: both threads run.  No user, window manager or
application is assumed to do anything.  Deadlock is checked for the event loop.  The
other runs may stop: with inputs used up, or after an assertion failed.

## 4. What is proved

Of `EventLoop`, for all sets of sources and loops, priorities and bounds:
`TypeCorrect`, `OwnershipHolds`, `CursorsHold` and `RecursionIsAllowedHolds` (with
`RecursionFlagsHold` and `NoUnallowedRecursionHolds`).  They follow from one inductive
invariant, `IInv`, in three layers, each proved with the help of those before it:

1. `StructInv`: types, which loops exist (`LoopListExact`), where
   `destroy_loop()` can be (`DestroyPlace`), that the frames agree with `pc`, and that
   cursors are valid.  The latter needs that no loop dies inside an iteration, which
   in turn needs that `destroy_loop()` of the main loop happens outside.
2. `Ownership`: `loop_` and the lists agree; its steps are `PushSource`
   and `Unlink`, by the lemmas on removal from a sequence without duplicates.
3. `RecursionInv`: the flags count dispatches on the stack.  `OldFlags` says what
   the locals saved by each `dispatch_source_Lm()` are, since returns restore the
   flags from them; `CollectedAreEligible` carries the test of
   `collect_sources_Lm()` through the unlocked callbacks to the dispatch.

A second invariant, proved on top of `IInv`, is about the selection that an
iteration makes (`SelectionHolds`).  Its part `WakeupInv` says, of an iteration that
nobody has disturbed since it took its snapshot of the loops (a disturbance leaves
the eventfd readable, or owes the write): the snapshot has every live loop
(`SnapshotIsAll`), a loop without a source to dispatch has collected everything
eligible (`EverythingGathered`), what was asked has declined or its loop is going to
dispatch (`EverythingAsked`), and `run()` is still wanted (`RunIsWanted`).  So
`NoLostWakeupHolds`: a loop thread asleep in poll(2) has asked every source.
`NothingIsMissedHolds` adds that dead loops have no sources; it assumes `~AddToDying`, the
window of `destroy_loop()` listed above, which the wakeup does not depend on.
`PrioritiesBound` and `AscensionNoted` say what the two passes over the sources have
written into `dispatch_priority_` and `priority_ascension` so far; with them each
dispatch obeys the priorities (`DispatchOrderHolds`, an action property).  That the
round robin finds a loop within one turn is the lemma `EveryTurn`.

Of `ThreadParts`, for any producers and messages: `TypeCorrect`, `WakeupsArrive`
(no lost wakeup) and `Refinement` (it implements `Channel`).  The invariant
adds to the types that the receiver looks at the stack only when its other
places are empty (`DrainOrder`), that a sleeping receiver left nothing behind but
what a producer will announce (`SleepsOnEmpty`), and that messages about to be
pushed are new (`FreshMessages`).  `WakeupsArrive` holds because the flush comes
before the second look: after it, the next push finds an empty stack and writes.
For the refinement, the abstract queue is the message looked at, the private
list and the reversed stack; the compare-and-swap of a push appends to it,
the return of `get_msg()` looks or takes, and a return of NULL happens at the
read of an empty stack.

Of `RemoteObjects`, for any objects, handlers, ids and queues: `MapIsConsistent`,
`HandlesResolveWhileInOrder` and `RequestsFindTheirs`.  The inductive invariant adds to
the types and to the object map (`MapExact`) that at most one message of each
conversation is under way, in whichever queue: a collection (`OneCollection`), a
request (`OneRequest`), a two-way emission (`OneEmission`).  `EmittersStay` says why
`disconnect` finds its emitter: a connected handler keeps a handle, so no report can give
the emitter's id away, and a report that could is behind the request.  `InOrder` is about
ids: as long as no sweep was served ahead of queued events, every id in a message
resolves to the object it was sent for, and an id in a report is used neither by a handle
nor by what is under way, unless it was sent again since the sweep.  Without
`overtaken` that fails, which `remote_dangling` shows.

Of `LoopSources` (in `EventLoopProofs`), for any timers, watches, descriptors, intervals,
resolutions and ends of the clock: `SourcesAreServedInTime`, with `DescriptorsStaySafe` for its
part about descriptors.

- Descriptors: `FdsOwned` says that a watch owns the descriptor it holds, and holds none once it
  left the loop.  `PollFDsKnown` follows an index from `prepare()` to `check()`: the entry it
  points at is the watch's own and of the descriptor it still has, since sources that are
  added and removed during poll(2) do not change the array.
- Timers: `waited` counts for how long poll(2) has waited since a timer fired, or since the
  clock was last set back.  `TimersBound` adds to it what is left, or an interval if that is more, which only a clock
  set back can cause: two intervals at most.  When more than an interval is left, the wait so far and what
  poll(2) still waits are one interval at most; then the next `prepare()` clamps the
  expiration, and the second interval begins.  `TimeoutBound` says what this means for a
  timeout, which is rounded to milliseconds.

Of `Connections` (in `LibraryProofs`), for any threads, protocols and modules: `PairsAlwaysMatch`, under
`OneAtATime` (its violation is listed above).  Besides the registry and the
method table, the invariant follows a thread through `connect()`: the server it found
stays free until it attaches (`Pending`), since nobody else is at work (`OneIsBusy`)
and protocols have one server (`ServersDiffer`).

Of `Signal`, for any addresses, connections and depth of emissions that callbacks
begin: `HandlersAreAlwaysKept` (the ring is closed and reference counts are exact) and
`HandlersAreImplemented` (`Signal` implements `Handlers`).  The invariant `SignalInv`
(`SignalInvariant`) states the ring as a sequence without duplicates whose neighbours
point at each other (`RingClosed`), with removed links pointing nowhere.  `References`
counts who holds a link; since an emission's array holds each link in it, no address in
an array is allocated again, and an emission that finds a link removed skips the link
that it collected and no other.  `HandlersKnown` ties ids to links.  In the
refinement, the callbacks along the ring are the list of handlers, and an emission is its
running callback with those of the links still to come that are set.  A disconnect
empties one link and so takes one handler out of all lists.  `Without` is a
recursive function; what the steps need of it (`WithoutConcat` and
others) is proved by looking at the shortest sequence that would be a counterexample
(`ShortestOf`).

Of `CrossLinks` (in `LibraryProofs`), for any links, calls and nesting: `LinksAreAlwaysKept`.  The heart
of the invariant is `OwnersRely`: the flag `mutable` of a call on the stack says
whether the owner still relies on the link whose callback runs; and `AddressesDiffer`, since
the code finds links by the address of their callback, also in nested calls.

Of `Selections`, for any editors, types, and numbers of claims and requests:
`PastesAreAnsweredOnce` and `RequestsAreRepliedOnce` without further hypotheses, and
`ClipboardIsAlwaysAnswered` under `~FocusMoves` and `~ClaimsRace` (what goes wrong with them
is listed above).  `AnswersInv` says that contents are asked for in the order of their
nonces, behind the request under way (`PastesInOrder`), and that a request of the X
server is in exactly one place (`RequestsInPlace`); `ConvertsBound` counts
conversions per paste, so that ids do not run out.  `OwnersInv` compares times: no claim in
the queue of commands is older than a SELECTION_CLEAR that is on its way to us
(`TimesInOrder`), and the server's owner is us exactly if no event takes our
offer back (`OwnerIsUs`).

Of the other parts of `ThreadParts`, for all values of their constants:

- `RingBuffer`: `FifoHolds`, for every capacity and every split of reads and writes.  The
  invariant orders the two marks and the copies of them that a read and a write under
  way have made (`MarksInOrder`, distances around the buffer): a stale mark shows less
  room or less content than there is, never more.  `ElementsInPlace` says what lies
  between the reader and the writer.
- `UiThread`: `ThreadsEnd`.  `Stages` says what each stage of one thread implies for
  the others; `DisplaySide`, for each answer the UI thread waits for, what the display
  thread has left to do and which windows it then has.
- `WindowUpdates`: `WindowIsDrawn`.  Before both threads rest the widgets are not
  current; the invariant says what is still to come: a window with another size, or one
  that waits for a size, will be told one (`WaitsForSize`), and every area is
  drawn by a command that no later one overwrites, or is exposed, or will be
  (`AllIsDrawn`).
- `ClientCalls`: `CallsInOrder`.  The events handled, the one in hand and those set aside in
  `event_queue_`, in this order, are the events received; at most one answer is under way
  (`OneAnswer`).

Of `WindowCommands` (in `ThreadsProofs`): `CommandsAreKept`.  An emission under way is to
the ring what an emission of `Signal` is, so its invariant is `SignalInv` in an instance of
`SignalProofs`, whose lemmas about linking and unlinking are used again, with
`EmissionKnown` for the future of the running handler.  `NothingIsLostHolds` puts these together: a
behaviour of the composite `MCThreads` is one of each part (`PartsRun`).

Of `DisplayDriver` and `Scrolling` (in `LibraryProofs`), for any changing properties and changes,
windows, lengths of data, pieces and ranges: `DriverAlwaysKeepsUp` and
`PointerAndTimeAlwaysMoveOn`, of the composite `MCToolkit`.

- `DriverInv`: as long as the window lives, the last event under way that carries a value
  carries the server's, or there is none and the driver has it (`Leads`).  A changed
  property has a notification under way or is queued with the timer armed, or the
  driver's copy is current; what the UI thread was told may lag only while more
  configures are pending.  `TimesInOrder` orders the times under way, behind that of the window.
- `IncrInv`: a transfer to a window that was never destroyed is at one of five stages
  (`Stage`): none, ended, announced, a piece waiting to be read, or its deletion waiting
  to be noticed, and then nothing else is (`Once`, `Sole`).  `Staked`: a window has a stake for
  each transfer to it, and as long as it has any, its events are selected.  It excludes windows
  whose id is used again, for which this fails (`MaskIsRequested` above).
- `SkidInv`: the skid shows the value of the vertical adjustment between all steps.

Assumptions of the proofs are the named ASSUMEs of the modules: the main loop is a
loop, the null values differ from the values, bounds are natural numbers, sets of addresses
and sources are finite, the names for nobody and the user are not those of sources, a skid
moves by at least one pixel.
No fairness is used.  Where an argument needs a least or last element, `LeastOf` of
`SequenceLemmas` takes the place of induction, and `ShortestOf` where it is a sequence.

Only model-checked:

- liveness, which is beyond what the proof system covers: `EveryMessageArrives`,
  `CallsAreAnswered`, `ThreadsRest`, `BindingsConverge`, `RoundRobin`, `QuitEndsRun`,
  `ForgottenIsReleased`, `RunEndsWhenDone`;
- what recursive operators compute: matching (`QueriesFindWhatIsMeant`), layout (`LayoutIsValid`),
  regions (`RegionsAreSets`), definitions and languages (`DefinitionsAreRead`, `ProgramsMean`,
  `WrittenIsRead`), and values within values (`ValuesCross`).  For all inputs that
  needs induction over data, which the prover does not offer; a least counterexample replaces
  it only for a function as simple as `Without`.  The bisection that places the
  rows of a list (`ViewsFollow`) and the bytes of a text (`EditsAreSeen`) are of this kind, too;
- the tree of widgets and what walks over it: `WidgetsAgree`, `PointerIsTracked`, `RowsAreCurrent`.

## 5. Hazards without a property

Small things met while reading, which no model covers because they have no effect on
modelled state, or because they need a program that nobody would write:

- `displaywindow-x11.cc:660`: the motion history of `XGetMotionEvents()` may be older than events already queued.
- `run()` resets `has_quit_` when it returns: nested in a `dispatch()` of another
  `run()` it swallows the outer `quit()` (`loop.cc:388`); `wakeup()` and `add()` read
  `main_loop_` and `id_` unlocked (`loop.cc:292`, `loop.cc:198`).
- `signal_connect()` reads `shandler->cid` after `call_remote()`, in which a handler may
  have disconnected it (`aida.cc:2123`); a call answered by an invalid reply leaks it.
- `unlink()` destroys a closure that may be running (`aidasignal.hh:78`); connection ids are
  addresses and may name a later link (`aidasignal.hh:117`).
- `uithread.cc:154` sets `done` before it locks; `exit()` on the UI thread joins itself
  (`uithread.cc:205`); `DisplayWindow::push_event()` (`displaywindow.cc:48`) puts events in front of the queue.
- A definition of the factory that is based on itself loops forever; `"a > + b"` is accepted
  as a selector; the comparators that sort the focus order (`container.cc:464`) are no strict
  weak order.
- `binding.cc:72`: an answer with an error is only logged: the binding keeps the value it has; `evaluator.cc:82` tests with `||` where both conditions
  are needed.
- `xmlnode.cc:120`: the loop of `steal_children()` counts up from the end, beyond the
  children; nothing calls it.  `inifile.cc:116`: `"\\" + p[0]` is pointer arithmetic, where
  a backslash and a character were meant.
- Entities of markup are matched by prefix and numbers truncated to `uint`; bytes left over
  at the end of a document are dropped; the recap of elements escapes quotes as `\'`.
- Negative widths and precisions given by arguments are not treated as printf does;
  idents of commands are canonified on registration but looked up as they are; commands of
  a base class override those of the derived one.

## 6. Not modelled

Painting, pixmaps and images, fonts and line layout (pango and cairo do them): data
without a protocol of its own.  Keyboard layouts and window manager hints.  Property
systems and styles of the widget classes, colours and stock items: tables.  The
interface compiler itself, a batch program; only its stubs are there.  Files, hashes,
regular expressions, start-up of the process, language bindings, tools, vendored
code.  Of modelled components `PROJECT.json` says what is left out.

## 7. Plan

Next, in this order:

1. Theorems about `WindowEvents` (`PointerIsTracked`) and `WidgetLists` (`RowsAreCurrent`),
   which declare no RECURSIVE operator.
2. An abstract collector for the garbage collection (objects in use are never released,
   unused ones finally are), implemented by `RemoteObjects`.
3. Pseudo elements; the focus order of containers; property lists.

## 8. Running it

```
tlc -config EventLoopSafety.cfg EventLoop.tla      # and the other runs of PROJECT.json
tlapm EventLoopProofs.tla                          # and RemoteObjectsProofs, SignalProofs, ThreadParts,
                                                   # ThreadsProofs, LibraryProofs, Selections, SequenceLemmas
```
