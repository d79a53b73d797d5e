---- MODULE Tabs ----
(***************************************************************************)
(* The tab bar of NetRider (class BrowserTabs and the tab part of class    *)
(* GUI, Tools/netrider/netrider.cpp).                                      *)
(*                                                                         *)
(* A tab is an Fl_Group that holds one HtmlBrowser window; groups live on  *)
(* the C++ heap, so a group is an address and `delete' makes the address   *)
(* available to the next `new'.  Three parallel arrays are indexed by the  *)
(* number of the tab: BrowserGroup (the groups), browserwin (the windows)  *)
(* and view (the WebKit objects).  A closed tab leaves its pointers in the *)
(* arrays, and numbers are never reused.  The last tab is the "+" tab.     *)
(*                                                                         *)
(* The two questions the program asks before it closes a tab (fl_choice)   *)
(* run a nested event loop: page callbacks are delivered while a question  *)
(* is open, but clicks and keys only reach the question.                   *)
(***************************************************************************)
EXTENDS Naturals

CONSTANTS
    MAXVIEWS,   \* size of the arrays BrowserGroup, browserwin and view
    Addr,       \* addresses the allocator may return for an Fl_Group
    Titles,     \* the page titles; "+" may be one of them
    NULL        \* the null pointer

ASSUME MaxViewsAssumption == MAXVIEWS \in Nat /\ MAXVIEWS >= 2

ASSUME NullAssumption == NULL \notin Addr

VARIABLES
    lasttab,        \* GUI::lasttab, the number of the "+" tab
    currenttab,     \* GUI::currenttab
    BrowserGroup,   \* BrowserTabs::BrowserGroup and the cell behind it
    browserwin,     \* GUI::browserwin and the cell behind it, GUI::stat_bar
    view,           \* the numbers i for which view[i] is not null
    live,           \* addresses of the groups that have not been deleted
    label,          \* the label of the group at an address
    win,            \* the number of the HtmlBrowser the group was built with
    shown,          \* Fl_Tabs::value(), the group on display
    rtab,           \* the group a right click asks about, NULL: no question
    wtab            \* the tab Ctrl-W asks about, 0: no question

vars == <<lasttab, currenttab, BrowserGroup, browserwin, view, live, label,
          win, shown, rtab, wtab>>

Index == 0 .. MAXVIEWS        \* MAXVIEWS is the cell behind the arrays

Labels == {"+", "New Tab", "Loading..."} \cup Titles

\* What a cell of browserwin points to: the HtmlBrowser built for that
\* number, nothing, or (the cell behind the array) the status bar.
StatBar == MAXVIEWS + 1

NoWin == MAXVIEWS + 2

TypeOK ==
    /\ lasttab \in 1 .. MAXVIEWS
    /\ currenttab \in 0 .. MAXVIEWS - 1
    /\ BrowserGroup \in [Index -> Addr \cup {NULL}]
    /\ browserwin \in [Index -> Index \cup {StatBar, NoWin}]
    /\ view \subseteq 0 .. MAXVIEWS - 1
    /\ live \subseteq Addr
    /\ label \in [Addr -> Labels]
    /\ win \in [Addr -> Index]
    /\ shown \in Addr
    /\ rtab \in Addr \cup {NULL}
    /\ wtab \in 0 .. MAXVIEWS - 1

-----------------------------------------------------------------------------
(* Start: create_layout builds tab 0 and the "+" tab, main makes view[0].  *)

Init ==
    \E first, plus \in Addr :
        /\ first # plus
        /\ lasttab = 1
        /\ currenttab = 0
        /\ BrowserGroup = [i \in Index |->
               IF i = 0 THEN first ELSE IF i = 1 THEN plus ELSE NULL]
        /\ browserwin = [i \in Index |->
               IF i <= 1 THEN i ELSE IF i = MAXVIEWS THEN StatBar ELSE NoWin]
        /\ view = {0}
        /\ live = {first, plus}
        /\ label = [a \in Addr |-> IF a = plus THEN "+" ELSE "New Tab"]
        /\ win = [a \in Addr |-> IF a = plus THEN 1 ELSE 0]
        /\ shown = first
        /\ rtab = NULL
        /\ wtab = 0

-----------------------------------------------------------------------------
(* Helpers. *)

\* Mutant of NoQuestion: the question of Ctrl-W is not modal.
NoQuestion_OnlyClicks == rtab = NULL

\* No question is open: the main window receives clicks and keys.
NoQuestion == rtab = NULL /\ wtab = 0

\* Mutant of ConstructTab: the array is written before lasttab is incremented.
ConstructTab_OldSlot(new) ==
    /\ new \in Addr \ live
    /\ lasttab' = lasttab + 1
    /\ BrowserGroup' = [BrowserGroup EXCEPT ![lasttab] = new]
    /\ browserwin' = [browserwin EXCEPT ![lasttab + 1] = lasttab + 1]
    /\ live' = live \cup {new}
    /\ win' = [win EXCEPT ![new] = lasttab + 1]

\* ConstructTab(tabs, "+"): a new last tab, at an address the allocator picks
\* among those not in use.
ConstructTab(new) ==
    /\ new \in Addr \ live
    /\ lasttab' = lasttab + 1
    /\ BrowserGroup' = [BrowserGroup EXCEPT ![lasttab + 1] = new]
    /\ browserwin' = [browserwin EXCEPT ![lasttab + 1] = lasttab + 1]
    /\ live' = live \cup {new}
    /\ win' = [win EXCEPT ![new] = lasttab + 1]

\* Mutant of OpenedTab: the number of the new "+" tab.
OpenedTab_New == lasttab + 1

\* The number of the tab that has just been the "+" tab: it becomes the
\* current one and receives the new WebKit object.
OpenedTab == lasttab

\* The search `for i: if (tab == BrowserGroup[i]) ... break'.
FirstIndexOf(tab, i) ==
    /\ BrowserGroup[i] = tab
    /\ \A j \in 0 .. i - 1 : BrowserGroup[j] # tab

-----------------------------------------------------------------------------
(* TabCallback, run when a tab has been clicked or was selected with       *)
(* Fl_Tabs::value().                                                       *)

\* The "+" branch.  The clicked tab gets the label newlabel.
PressPlus(tab, newlabel) ==
    /\ label[tab] = "+"
    /\ lasttab < MAXVIEWS
    /\ \E new \in Addr :
         /\ ConstructTab(new)
         /\ label' = [label EXCEPT ![tab] = newlabel, ![new] = "+"]
    /\ currenttab' = OpenedTab
    /\ view' = view \cup {OpenedTab}
    /\ shown' = tab
    /\ UNCHANGED <<rtab, wtab>>

\* The "+" branch when `lasttab >= MAXVIEWS': the "+" tab stays on display.
PlusRefused(tab) ==
    /\ label[tab] = "+"
    /\ lasttab >= MAXVIEWS
    /\ shown' = tab
    /\ UNCHANGED <<lasttab, currenttab, BrowserGroup, browserwin, view, live,
                   win, rtab, wtab>>

\* Mutant of RightPress: the first tab may be closed, too.
RightPress_AnyTab(tab) ==
    /\ label[tab] # "+"
    /\ shown' = tab
    /\ rtab' = tab
    /\ UNCHANGED <<lasttab, currenttab, BrowserGroup, browserwin, view, live,
                   label, win, wtab>>

\* The right mouse button: Fl_Tabs has already put the tab on display.
RightPress(tab) ==
    /\ label[tab] # "+"
    /\ shown' = tab
    /\ rtab' = IF tab = BrowserGroup[0] THEN NULL ELSE tab
    /\ UNCHANGED <<lasttab, currenttab, BrowserGroup, browserwin, view, live,
                   label, win, wtab>>

\* Any other button selects the tab, by its first number in the array.
LeftPress(tab) ==
    /\ label[tab] # "+"
    /\ shown' = tab
    /\ \/ \E i \in 0 .. MAXVIEWS - 1 : FirstIndexOf(tab, i) /\ currenttab' = i
       \/ /\ \A i \in 0 .. MAXVIEWS - 1 : BrowserGroup[i] # tab
          /\ UNCHANGED currenttab
    /\ UNCHANGED <<lasttab, BrowserGroup, browserwin, view, live, label, win,
                   rtab, wtab>>

LeftClick ==
    /\ NoQuestion
    /\ \E tab \in live :
         \/ PressPlus(tab, "New Tab")
         \/ PlusRefused(tab) /\ UNCHANGED label
         \/ LeftPress(tab)

RightClick ==
    /\ NoQuestion
    /\ \E tab \in live :
         \/ PressPlus(tab, "New Tab")
         \/ PlusRefused(tab) /\ UNCHANGED label
         \/ RightPress(tab)

\* Mutant of CloseClicked: the deleted tab stays on display.
CloseClicked_StillShown(yes) ==
    /\ rtab # NULL
    /\ IF yes
       THEN currenttab' = 0 /\ live' = live \ {rtab}
       ELSE UNCHANGED <<currenttab, live>>
    /\ rtab' = NULL
    /\ UNCHANGED <<lasttab, BrowserGroup, browserwin, view, label, win, shown, wtab>>

\* Answer to `Do you want to close the ... Tab?' after a right click.
CloseClicked(yes) ==
    /\ rtab # NULL
    /\ IF yes
       THEN /\ shown' = BrowserGroup[0]
            /\ currenttab' = 0
            /\ live' = live \ {rtab}
       ELSE UNCHANGED <<shown, currenttab, live>>
    /\ rtab' = NULL
    /\ UNCHANGED <<lasttab, BrowserGroup, browserwin, view, label, win, wtab>>

-----------------------------------------------------------------------------
(* Keys: Ctrl-T and Ctrl-W of MyGlWindow::handle_key.  Ctrl-T selects      *)
(* BrowserGroup[lasttab] and calls TabCallback; that tab always has the    *)
(* label "+" (invariant PlusTab), so only the "+" branch applies.          *)

CtrlT ==
    /\ NoQuestion
    /\ LET plus == BrowserGroup[lasttab] IN
         \/ PressPlus(plus, "New Tab")
         \/ PlusRefused(plus) /\ UNCHANGED label

CtrlW ==
    /\ NoQuestion
    /\ currenttab # 0
    /\ currenttab # lasttab
    /\ wtab' = currenttab
    /\ UNCHANGED <<lasttab, currenttab, BrowserGroup, browserwin, view, live,
                   label, win, shown, rtab>>

\* Mutant of CloseCurrent: the current number is not reset.
CloseCurrent_StillCurrent(yes) ==
    /\ wtab # 0
    /\ IF yes
       THEN shown' = BrowserGroup[0] /\ live' = live \ {BrowserGroup[wtab]}
       ELSE UNCHANGED <<shown, live>>
    /\ wtab' = 0
    /\ UNCHANGED <<lasttab, currenttab, BrowserGroup, browserwin, view, label,
                   win, rtab>>

\* Answer to `Do you want to close the current Tab?'.
CloseCurrent(yes) ==
    /\ wtab # 0
    /\ IF yes
       THEN /\ shown' = BrowserGroup[0]
            /\ currenttab' = 0
            /\ live' = live \ {BrowserGroup[wtab]}
       ELSE UNCHANGED <<shown, currenttab, live>>
    /\ wtab' = 0
    /\ UNCHANGED <<lasttab, BrowserGroup, browserwin, view, label, win, rtab>>

-----------------------------------------------------------------------------
(* Labels: everything that navigates writes `Loading...', a page title     *)
(* arrives at any moment; both go to the current tab.                      *)

\* Mutant of SetLabel: the wrong one of the two static counters.
SetLabel_LastTab(text) ==
    label' = [label EXCEPT ![BrowserGroup[lasttab]] = text]

\* The label of the current tab.
SetLabel(text) ==
    label' = [label EXCEPT ![BrowserGroup[currenttab]] = text]

\* openURL_in_newtab: the "+" tab is opened, relabelled and loaded; at the
\* limit the current tab is relabelled and loaded, behind the "+" tab.
OpenURLInNewTab ==
    /\ NoQuestion
    /\ LET plus == BrowserGroup[lasttab] IN
         \/ PressPlus(plus, "Loading...")
         \/ PlusRefused(plus) /\ SetLabel("Loading...")

\* cb_loc, cb_search, HistoryCallback, bookmarks_cb.
Navigate ==
    /\ NoQuestion
    /\ SetLabel("Loading...")
    /\ UNCHANGED <<lasttab, currenttab, BrowserGroup, browserwin, view, live,
                   win, shown, rtab, wtab>>

\* didReceiveTitleForFrame, from the page of any view, closed tabs included.
ReceiveTitle ==
    /\ \E title \in Titles : SetLabel(title)
    /\ UNCHANGED <<lasttab, currenttab, BrowserGroup, browserwin, view, live,
                   win, shown, rtab, wtab>>

-----------------------------------------------------------------------------
Next ==
    \/ LeftClick
    \/ RightClick
    \/ \E yes \in BOOLEAN : CloseClicked(yes)
    \/ CtrlT
    \/ CtrlW
    \/ \E yes \in BOOLEAN : CloseCurrent(yes)
    \/ OpenURLInNewTab
    \/ Navigate
    \/ ReceiveTitle

Spec == Init /\ [][Next]_vars

-----------------------------------------------------------------------------
(* Safety.  All of these hold although closed tabs leave their pointers in *)
(* the arrays and the allocator may hand the address of a closed tab to a  *)
(* new one.                                                                *)

\* The last tab exists, is the "+" tab and has no WebKit object yet, while
\* every number below it has one: `view[GUI::currenttab]->uiPage()', which
\* nearly every callback evaluates, is never a null dereference.
PlusTab ==
    /\ BrowserGroup[lasttab] \in live
    /\ label[BrowserGroup[lasttab]] = "+"
    /\ view = 0 .. lasttab - 1
    /\ currenttab \in view

\* `The first tab cannot be closed': its group is never deleted, and no other
\* number of the array ever points to it while it is current, so that Ctrl-W
\* on tab number 3 cannot delete tab 0.
FirstTabKept ==
    /\ BrowserGroup[0] \in live
    /\ win[BrowserGroup[0]] = 0
    /\ BrowserGroup[currenttab] = BrowserGroup[0] => currenttab = 0

\* The group that `BrowserGroup[GUI::currenttab]->label(...)' dereferences, in
\* every title and navigation callback, has not been deleted and is not the
\* "+" tab: a title never turns the "+" tab into an ordinary one.
CurrentTabAlive ==
    /\ BrowserGroup[currenttab] \in live
    /\ BrowserGroup[currenttab] # BrowserGroup[lasttab]

\* The tab a close question is about is still there when the user answers,
\* whatever callbacks ran meanwhile, and it is neither the first tab nor the
\* "+" tab: `delete' never frees a group twice.  Only one question is open.
CloseTargetValid ==
    /\ rtab # NULL =>
         /\ rtab \in live
         /\ rtab \notin {BrowserGroup[0], BrowserGroup[lasttab]}
         /\ wtab = 0
    /\ wtab # 0 =>
         /\ BrowserGroup[wtab] \in live
         /\ BrowserGroup[wtab] \notin {BrowserGroup[0], BrowserGroup[lasttab]}
         /\ currenttab = wtab

\* Every tab on the bar is in the array under the number it was built with, so
\* the linear search of TabCallback always finds the clicked tab, even after
\* the address was used by a tab that has been closed.
TabsFound ==
    /\ shown \in live
    /\ \A a \in live : win[a] <= lasttab /\ BrowserGroup[win[a]] = a

\* Numbers are never reused: a slot of the arrays is filled once, and the
\* WebKit object of a tab, closed or not, is never replaced or dropped.
SlotsWrittenOnce ==
    [][/\ view \subseteq view'
       /\ \A i \in 0 .. MAXVIEWS - 1 :
            BrowserGroup[i] # NULL => BrowserGroup'[i] = BrowserGroup[i]]_vars

-----------------------------------------------------------------------------
(* What the comments and the help page say, and the code does not do.      *)

\* `For each tab there is a browser window object and a WebKit object': the
\* current number denotes the browser window inside the selected tab.
OwnWindow == win[BrowserGroup[currenttab]] = browserwin[currenttab]

\* `the class GUI ... is a group for the menu bar, the tabs, the status bar':
\* building tabs leaves the status bar pointer alone.
StatBarKept == browserwin[MAXVIEWS] = StatBar

\* `Ctrl-W - close current tab': the tab the question is about is the one on
\* display.
CtrlWClosesShown == wtab # 0 => BrowserGroup[wtab] = shown
====
