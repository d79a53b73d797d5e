# NetRider in TLA+

A verification project for the NetRider browser: TLA+ models of the parts of
the program that keep state, TLC configurations that check them on small
instances, and TLAPS proofs of the properties that matter most.

NetRider (`Tools/netrider`) is a tabbed browser. It uses FLTK for its windows
and the WebKit2 API of the WebKitNix port for its pages. The rest of the
repository is the WebKit engine, an imported code base; of it, the parts that
NetRider drives directly and whose protocol it depends on are in scope: the
back/forward list on both sides of the process boundary, downloads, and the run
loop.

## 1. Inventory

NetRider runs in one thread. FLTK's event loop dispatches clicks, keys and
timers; a timer (`Timer_CB`, every 10 ms) runs one iteration of the GLib loop,
in which the messages of the web processes are handled and the page callbacks
run. `main` starts two chains of this timer. Modal windows (questions, file
choosers, menus) run a nested FLTK loop; the chain whose callback opened one then
stands still, and the other one goes on delivering page callbacks. A second
question is refused while one is open, but a file chooser and a question can be
open at once: "Save as..." answers through a page callback (`getsource`) that opens
the chooser, and a script may ask meanwhile. Then both chains wait. Every tab has its
own web context and therefore a web process of its own. The web processes send
asynchronous messages, and synchronous ones whose sender does nothing until the
reply comes (moving the list, the policy for a response, the destination of a
download, the questions of scripts).

| Component | State | Operations | What makes it correct |
|---|---|---|---|
| Tab bar | `BrowserGroup`, `browserwin`, `view`, `lasttab`, `currenttab`, the tab on display, labels | open (click on "+", Ctrl-T, link), select, close (right click, Ctrl-W) with a question, label changes | the current tab exists, the first and the "+" tab stay, a closed tab is never used again, array bounds |
| History, bookmarks | `URL[]`, `bookmarks[]`, bookmark windows with a copy of the list | title received, add, edit, sort, delete, load | no neighbouring duplicates, windows and array agree, sort is a sort |
| Preferences | `netrider.prefs` | write at exit, read at start | what was saved is restored; no stale keys; crash between writes |
| Back/forward list | `m_entries`, `m_currentIndex`, `m_hasCurrentIndex`, `m_page` | add, go to, clear, close | its assertions, order, each dropped item reported once |
| Back/forward protocol | item maps in both processes, current and provisional item, messages under way | go back or forward, load, reload, stop, commit, failure, item added or removed, crash, reattach, close | an item named in a message is known to its receiver; identifiers never collide; the list stands at the page on display; a synchronous message is answered |
| Page callbacks | title, location field, status bar, hover text of a tab | title, progress, document finished, mouse over element | results reach the tab they belong to |
| Downloads, save-as | `downloadfilename`, `bytesdownloaded`, `download_ref`, `savetargetas` per tab; the proxies of each context; the downloads of each process | start, response, data, destination, finish, fail, cancel, crash; policy decision | a message finds its proxy; counts and names belong to one download; the flag is used by its request; a transfer can be stopped |
| Scrollbars | bar widths and ranges, `maxscrollx/y` | resize, answer to a size query, drag | bars match the page in the end |
| Event loop | two timer chains, the stack of their calls, the function queue and its idle sources, the windows on display and their loops | timer, dispatch, perform, print, windows opened and closed | functions run in order, each once, also while a question is open; no wake-up is lost; every chain returns |
| Input, find, print, translation, FTP page, start-up copy | little or none | | see section 6 |

The behaviours that are hard to test: all page callbacks act on "the current
tab", whichever page raised them; handlers read state before a modal question
and use it after; closed tabs leave pointers behind; fixed arrays at their
limits; answers of asynchronous queries applied late; exits in the middle of
saving. `PROJECT.json` lists them as hazards, each at its line and with the
properties that cover it.

## 2. Modules

| Module | Models | Kind |
|---|---|---|
| `Tabs` | class `BrowserTabs` and the tab part of `GUI` | component |
| `TabsProofs` | | proofs about `Tabs` |
| `Store` | history, bookmarks, bookmark windows | component |
| `StoreProofs` | | proofs about `Store` |
| `Prefs` | `writePrefs`, `readPrefs`, exit, crash, start | extends `Store` |
| `PrefsProofs` | | proofs about `Prefs` |
| `BackForwardList` | `WebBackForwardList` | component |
| `BackForward` | what a back/forward list promises | abstract specification |
| `BackForwardListProofs` | | proofs about `BackForwardList` |
| `PageHistory` | `WebPageProxy`, `WebProcessProxy`, `WebPage`, `WebBackForwardListProxy`, the main frame's `HistoryController` and `FrameLoader`, and the connection | extends `BackForwardList` |
| `PageHistoryProofs` | | proofs about `PageHistory` |
| `MessageLoop` | what callbacks may expect of the event loop | abstract specification |
| `EventLoop` | FLTK timeouts, `Timer_CB`, WTF's `RunLoop`, modal windows | component, implements `MessageLoop` |
| `EventLoopProofs` | | proofs about `EventLoop` |
| `Downloads` | download client, policy client, `DownloadProxyMap`, `DownloadManager` | extends `MessageLoop` |
| `DownloadsProofs`, `DownloadFieldsProofs` | | proofs about `Downloads`: proxies and flags, the fields of a tab |
| `MC...` | | instances for TLC |

Operators whose names contain an underscore (`SetLabel_LastTab`) are mutants:
faulty versions of the definition that follows them. No specification uses
them; each shows that a property notices that fault.

### Tabs

A tab is an `Fl_Group` on the heap, modelled by its address; `live` holds the
addresses that have not been deleted, and `ConstructTab` takes any other one,
as `new` may. The arrays are functions over `0 .. MAXVIEWS`, one cell longer
than in the program, because `ConstructTab` can write that cell: behind
`browserwin` it is `GUI::stat_bar`. `win[a]` is the number of the
`HtmlBrowser` a group was built with. `rtab` and `wtab` are the local
variables of the two handlers that wait for an answer. Clicks and keys need
`NoQuestion`, since FLTK gives a modal window all input; `ReceiveTitle` does
not, since callbacks run in the nested loop. `Navigate` stands for all handlers
that write "Loading..." into the current tab's label. The search of
`TabCallback` is `FirstIndexOf`. Its case "not found" stays in `LeftPress`
although it never happens (`TabsFound`).

Not in the model: the geometry of the tabs, the text buffers behind the
labels, `pixelbuffer` (written once, never read).

### Store

`URL` and `bookmarks` are adjacent members of `GUI`, and some handlers index
them with -1 or `MAXBOOKMARKS`, so they are one function `mem` over cells;
the last cell is what lies behind `bookmarks`, with arbitrary content at start.
Texts are numbers; 0 is the empty text. A bookmark window has its own lines
(`rows`) and selection (`sel`). Edit dialogs are not modal and outlive their
window, so `edit` counts them per window. FLTK's `Fl_Browser` is external:
operations on line 0 are ignored, removing the selected line clears the
selection, a sort keeps the selected position. `ExchangeSort` and `Pass` are the
two loops of `cb_sort_bookmark`, each a function from the rounds that are over
to the lines at that point.

### Prefs

The file has a count and keys per list; keys are overwritten and never removed.
`SaveHistory` and `SaveBookmarks` are the two points at which FLTK writes the
file; `Crash` may come between them. `Start` clears the arrays and reads the
file. The loop over the bookmarks has no bound in the program; in the model it
ends at the cell behind the array at the latest.

### BackForwardList

Translated from `WebBackForwardList.cpp`. `added` records the items the web
process has added, `removed` counts the `DidRemoveBackForwardItem` messages for
each item. New identifiers are greater than all earlier ones (`Fresh`): the web
process counts up, and a new process starts from the highest identifier the UI
process has seen. `BackForward` is the same list as a user sees it: a page, the
pages behind it and the pages before it. `ImplementsHistory` states that the list
implements it, with the mapping in `Abstract`. `Dropped` is what one addition
removes, in the order of the messages about it.

### PageHistory

One tab: the list of `BackForwardList`, the page and process proxies that
keep it, the web process, and a FIFO channel each way. `BackForwardList`'s
actions are conjuncts of the handlers here, so its history variables keep
their meaning; what that module assumes of identifiers (`Fresh`) is here a
consequence of the code that hands them out, and a property (`NewItemIsNew`).

A command of the user to a page with a process is a message; to a page whose
process has died it is `reattachToWebProcess`, which starts a process, sends it
the session and the highest identifier in use, and then the command. In the web
process `Page::goToItem` is three steps, because up to two synchronous messages
lie between them: `goToItem` stops the load under way, which for a back/forward
load moves the cursor back to the page on display (`stopAllLoaders`);
`setCurrentItem` moves the cursor to the item; `loadItem` begins the load.
Without a page on display nothing is stopped
(`shouldStopLoadingForHistoryItem`). `m_loadType` with
`m_provisionalItem` is the provisional load; `EndProvisionalLoad` is what
`checkLoadCompleteForThisFrame` does when it ends without a commit. A dead
process keeps what it had written to the connection, up to any prefix, and
loses what was sent to it; the UI process sees the end of the connection behind
those messages.

`highestUsedItemID` is one for all tabs in the program and only grows; other
tabs can only leave gaps between the identifiers of this one.

`EndProvisionalLoad` moves the cursor back only if no provisional item is set and
a page is on display. `stopAllLoaders` clears the item first, so a load that is
stopped, by the user, by `close` or because he goes to another item, is taken back.
One that fails by itself, or gives way to a new page or a reload
(`ShouldNotClearProvisionalItem`), still has its item set, and one that is stopped
before any page was displayed has nowhere to go back to: the cursor then stays on
its item until the next commit, and `abandoned` is that item. `CursorExplained` says
where the cursor is in every case: at the page on display, or at `abandoned`.

Not in the model: subframes and the copies of items for them, navigation within
a document and `pushState`, deferred loads, refusals by the policy client,
updates of items that are already known, `BackForwardClear` (NetRider does not
send it) and a session that cannot be decoded.

### EventLoop and MessageLoop

`MessageLoop` is the view of a callback: a queue, handled one message after the
other in order, and at most one question on display, which does not hold up the
messages behind the one that asked. `EventLoop` is how this comes about.
`frames` is the stack of calls that run a GLib iteration, each with the idle
sources it has still to dispatch (`ready`) and the functions its `performWork`
may still take (`left`). They are calls of `Timer_CB` and at most one of
`cb_print`, which runs iterations from a click. `loops` is the stack of FLTK loops
that windows run, each with the number of frames below it, and `shown` the windows
on the screen. The user can close any window, but a handler goes on only when its
loop is the innermost (`endLoop`).

FLTK and GLib are external, modelled by what the code relies on. A timeout is
removed before its callback runs and set again at its end. `fl_choice`,
`fl_alert` and `fl_input` run FLTK's loop until the answer; called while a question
is open they return 0 at once. `fl_file_chooser` has no such test: `getsource`,
performed as any function, opens it whatever is open, and a question may be asked
over it. A GLib iteration that is interrupted by an inner one dispatches nothing
more, because the inner one has cleared the list of pending dispatches; the
sources stay attached.

So a chooser can hold one chain and a question the other (`HeldUp`). Nothing is
then handled until the user closes one of them; that is what the program does, and
`ImplementsMessageLoop` promises progress only if the user does not leave it so.
Order, and one question at a time, it promises without condition.

### Downloads

The tabs are fixed; `currenttab` changes. `m_functionQueue` is the queue of
`MessageLoop`, through which the messages of all processes come. A synchronous
message and its handler are one step that is possible when the queue is empty:
its sender waits and what was queued comes first. A download is its number,
and so is its file name. `home` is the tab whose process carries it out,
`phase` how far it is, `cancels` the requests to stop that are under way.

A process that is told to make a response a download ("accepted") does so next,
unless it dies first (`startWithHandle`).

Two behaviours are undefined in the program. "Stop transfer" uses the reference of
the current tab unchecked; if it was never set or its proxy has been deleted, the
model lets the call do nothing, stop any other download that has a proxy (one that
was allocated at that address), or end the behaviour. The end of a question about a
finished download whose proxy has been deleted because its process died meanwhile
ends the behaviour or leaves the map unchanged.
`DownloadProxy::didCancel` does not test whether its context still exists; that
it is never called without one is `ProxyKnown`.

Three things the program does although a reader might not expect them, and
which the properties therefore leave open. A download that ends while the
question about another one is shown overwrites the static buffer with the path,
so that "Yes" opens the second file (`SoleDownloadExact` holds only while one
download has callbacks). A response to another load that arrives while its tab
is current takes the save-as flag (`SaveTargetKept` names this case). A script
that asks while a question is shown gets the answer "no".

A dead process is not started again here; that is in `PageHistory`.

## 3. Runs

| Run | Instance | Shows |
|---|---|---|
| `tabs` | `MAXVIEWS` = 4, 5 addresses (symmetric), titles "Home" and "+" | all safety properties of the tab bar |
| `tabs_own_window` | same | violated: a reused address selects the number of a closed tab |
| `tabs_status_bar` | same | violated: the limit is off by one and the status bar pointer is overwritten |
| `tabs_ctrl_w` | same | violated: Ctrl-W closes a tab that is not on display |
| `store` | 3 history entries, 3 bookmarks, 1 window | no neighbouring duplicates, sort is correct, window and array stay in step (a delete without a selection: one line off) |
| `store_delete` | 2 and 2 | violated: delete does not clear the last entry of a full list |
| `prefs` | 2 history entries, 2 bookmarks, no window | restore after exit and after a crash |
| `prefs_retrieved` | same | violated: a bookmark without an address hides the ones behind it |
| `back_forward_list` | 6 items, capacity 3 | assertions, order, conservation of items, refinement of `BackForward` |
| `page_history` | identifiers 3, 5, 7, 9, capacity 2, channels that take a message when empty, 1 crash | items are known where they are named, identifiers are new, both processes agree, the cursor is right; every synchronous message is answered and every dropped item forgotten |
| `event_loop` | 2 chains, 3 functions of which 1 asks and 1 opens a chooser, queue of 2, 3 sources | no chain is lost or runs twice, no wake-up is lost; every chain returns; refinement of `MessageLoop`, fairness included |
| `downloads` | 2 tabs, 2 downloads of 1 piece, 1 change of tab, 1 crash, save-as before the first download | messages find their proxies, a sole download has exact fields, the save-as flag is kept, a transfer can be stopped |

Bounds. Four slots are enough for a first tab, a tab in the middle, a closed
tab, a tab at its address and the tab at the limit. One address more than tabs
can be alive lets the allocator choose to reuse or not. Three history entries
make a neighbouring pair that no out-of-range index touches; three bookmarks
make a list that can be full, and three lines are the least for which a single
pass does not sort. One window is enough to be out of step, because adding a
bookmark changes the array without the window. At most one edit dialog per
window (`MAXEDITS`). Capacity 3 leaves an item on either side of the current
one; six items let the list overflow and branch off repeatedly.

In `page_history` capacity 2 makes the third page drop the first, four
identifiers let that happen before and after a crash, and the bound on a channel
applies when a message is sent on its own: a handler that sends several (a
reattachment, a commit, the items dropped by one addition) sends them all. One
crash is enough for a message of the old process to meet the new list; the
second process starts from the state the first one left in the UI process. In
`event_loop` two chains and a queue of two are enough for a question that is asked
while a chooser is open, a chooser opened while a question or another chooser is,
and a question asked over another; messages keep arriving, so there are always
functions behind them. Three kinds of function show the order; a source beyond the
length of the queue finds it empty. (With a queue of three and four sources the run
passes too, but takes close to five minutes.) In `downloads` two tabs and two downloads give every
combination of same and other tab, current and other download; one piece
distinguishes a count that was reset from one that was not; the fields of
save-as are not touched by downloads that are under way, so the flag is tested
with none before it.

The tab bar, the store, the preferences, the event loop and the downloads never
stop, and deadlock is checked. A closed back/forward list has nothing left to
do, and neither has the page that owns it, so these two runs do not check
deadlock.

Fairness. `event_loop` assumes weak fairness of the thread: a callback that runs
comes to its next step. It assumes strong fairness of the timers, because clicks can
open and close windows between any two timeouts: FLTK looks for timeouts that are
due whenever its loop gets control, in the loop of a window as well, so a user
cannot keep them from firing for ever. Nothing is assumed of the user, so a window
may stay open for ever. `downloads` assumes that messages are handled, which is what
`event_loop` shows (`ImplementsMessageLoop` includes the fairness of `MessageLoop`)
as long as the user does not leave file choosers open until all chains wait, and that
a web process reads its messages. `page_history` assumes, under the same condition,
that both run loops take the next message. No run assumes anything of pages and
servers, or more of the user.
One chain of timeouts would not be enough: with a single timer
(`Init_OneTimer`) an unanswered question stops all messages.

The violated properties state what a comment or the help page says. Each is
listed under findings in `PROJECT.json`, with that text.

## 4. Proofs

`TabsProofs` proves, for every `MAXVIEWS >= 2` and every set of addresses and
titles, all properties of the run `tabs`. The inductive invariant strengthens
them by `SlotsFilled`: the slots up to `lasttab` hold addresses, the ones above
are empty, the current number is below `lasttab`, and the "+" tab was built
with the number `lasttab`. None of the properties is inductive alone: that the
current tab is alive needs that a question is never about the first tab, which
needs that the "+" tab keeps its label, which needs that the current tab is not
the "+" tab. That a stale slot never leads to the first tab rests on
`TabsFound`: a live address is stored under the number it was built with.
Each action has a lemma; the two ways to delete a tab share one.

`BackForwardListProofs` proves, for every capacity of at least one and every
set of identifiers, everything the run `back_forward_list` checks. `BaseIsStretch` is the heart: what `addItem` keeps is a
stretch of the old list that ends with the current item, and the new item goes
right behind it. Order needs that every item in the list was added before;
conservation needs order, because a repeated item would be reported twice.
`ListIsHistory` is the refinement of `BackForward`: each operation has a lemma
that splits the new list at the new index and finds the two halves to be what the
user's step says; a call that changes nothing is a stutter.

`PageHistoryProofs` proves all invariants of the run `page_history` for every
capacity, channels of any length and any number of crashes. The inductive
invariant `PageIInv` says of every message under way what its receiver will find.
`Agree` is `MapsAgree` item by item, with the items in the session that a new
process is yet to read (`Coming`) and those on their way into (`Arriving`) and out
of (`Leaving`) the maps. `ArrivalsNew` and `Counted` order the identifiers along
one line: list, channel, last one of the web process; together with the highest
identifier that a new process is given this makes every arrival new, also behind
a crash. `GoToKnown` says that the item the user asked for is not dropped by a
message before it. `CursorFollows` says where the cursor is heading: to the item
asked for, then to the item of the load, and without a load to where the page
stands. Between the stop of the old load and the question for the new item it says
nothing, as the reset may have been asked for or not. It is what is left of
`CursorExplained` while messages are under way.
`ProcessesDriveList` then shows that what the two processes do to the list is a
behaviour of `BackForwardList` (its assumption `Fresh` included), and with
`ListIsHistory` that a tab implements `BackForward` through both processes
(`ProcessesImplementHistory`).

`StoreProofs` proves everything the run `store` checks, for arrays of any size of
at least two and any number of windows.

- `TitlesDiffer`: `HistoryInv` adds that a selection is never below 0, so that a
  handler without a selection reaches no further than the oldest entry.
- `SortIsCorrect`: an induction over two nested loops. The induction theorems of
  the library take operators, which the provers cannot instantiate, so the
  induction is on sets: `LeastNumber` (a set of numbers has a least one) gives
  `LoopInduction`, and `LoopExists` gives the values of a loop whose step is a
  function. `Passed` is the invariant of the inner loop (line t is not behind any
  line it was compared with, lines before it are untouched, those behind it are
  the same ones as before), and the outer loop keeps that the lines up to t are
  sorted and behind nothing that follows them. That `After` is a strict weak order
  (`AfterOrder`), although a line without a name comes last, is a lemma.
- `WindowsStayInStep`: `StoreInv` keeps the selection within the lines, and one
  lemma for each of edit, delete and sort shows that the cells written are the
  ones the changed lines stand for. A delete without a selection shifts the whole
  array by one place and leaves the lines, which is all that can be said of it.

`PrefsProofs` proves everything the run `prefs` checks. `FileInv` says that what is
counted in the file has an address, in whichever session it was written; that the
history in the file is the one in memory from the first write to the next start;
and that the bookmarks are after the second. `RestartStable` needs only the first
of these, `RestoreFaithful` all. The count of `writePrefs` is characterised once
(`CountEnds`, `EndUnique`), and `CountCut` shows that its missing bound does no
harm to what is read back.

`EventLoopProofs` proves, for every non-empty set of chains, every set of
functions and every length of the queue, the invariants of the run
`event_loop`, and the safety part of the refinement of `MessageLoop`
(`LoopKeepsOrder`: initial states map to initial states and every step to a
step or a stutter). `NoLostWakeup` is not inductive: when a question suspends a
`performWork`, the functions it was going to take need sources of their own.
`SourcePerFunction` says that they have them: there are as many sources as
functions, except that the first function may be covered by a `performWork`
that has used up its source and is about to take it. That the count of sources
does not become negative needs `SourcesReady`: the innermost iteration has no more to
dispatch than is attached, and those it has interrupted have nothing. `ChainsDistinct`
is kept by `FramesOK` and `LoopsOK`: a chain is armed or on the stack once, a call is
put on the stack only when FLTK is in control, that is when the call below it waits
in a loop, and the loops are in the order of the calls. The stack may have any height
that the number of chains allows.

`DownloadsProofs` proves `ProxyKnown` and `SaveTargetKept` for any number of
tabs, downloads, pieces of data, changes of tab and crashes, and a queue of any
length. `ProxyKnown` needs to know which messages can still come: a download
that a process works on has its proxy (`ActiveKnown`), the message that ends a
download is the last one about it (`FinalOver`, `FinalLast`), no message about
the download in the open question is left (`DialogKnown`) and its proxy is there
until the end of the process is handled (`DialogProxy`), a new number was
never used (`NumberNew`), and `DidClose` comes from a dead process, behind all its
other messages (`CloseDead`, `CloseLast`). `FinalLast` rests on the test in `cancelDownload` whether the
download still exists: without it a cancel that crosses the end of a download
sends a second last message.

`DownloadFieldsProofs` proves `SoleDownloadExact` and the types of `Downloads` in
the same generality. Relative to the invariant above, `FieldInv` says that the
count in the tab and the pieces still queued make up what was sent (`SoleCount`),
that the name is set once the program was asked for it (`SoleNamed`), and why the
reset of the fields in `didStart` never comes too late (`StartFirst`): the
question for the file name is synchronous, so what was queued before it has been
handled. The bound of the counts in `TypeOK` holds for tabs with several
downloads, too; `CountBounded` compares them with the set of all pieces that were
sent (`Pieces`).

Assumptions: only the `ASSUME`s of the component modules, on sizes and types
of the constants. TLC evaluates them in the runs.

Every invariant and every action property that a passing run checks is proved.
Only model-checked: all liveness (`ChainsReturn`, `Answered`, `Forgotten`,
`StopWorks` and the fairness part of `ImplementsMessageLoop`), which is out of
reach of the prover.

## 5. Plan

Done: `Tabs`, `Store`, `Prefs`, `BackForwardList`, `PageHistory`, `EventLoop` and
`Downloads` with their abstract specifications and proofs.

Left: `checkurl` as an operator, checked against a reference definition; and what
of the history survives a restart. A page without a title before an entry without
an address is restored before empty entries, whose name it shares, so that
`NoAdjacentTwins` is a property of one session; with titles that are not empty it
should hold across sessions.

## 6. Not modelled

Printing (page images and an external command), find in page (one text handed
to WebKit), translation (a text file read at start), the FTP directory page
(its caller is compiled out), the translation of input events (stateless
tables), window geometry, and the rest of the WebKit engine.

The scrollbars: a resize of the page view asks the web process for the scroll
position, and the answer sets widths and ranges of the current tab's bars.
Drawing a tab resizes its view, so an answer that was applied to the wrong tab
lasts until that tab is drawn. Which answers come depends on the layout of the
page by the engine, and what is set is geometry of FLTK widgets.
