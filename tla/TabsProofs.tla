---- MODULE TabsProofs ----
(***************************************************************************)
(* Proofs about the tab bar, for every size of the arrays, every heap and  *)
(* every set of page titles.                                               *)
(*                                                                         *)
(* None of the safety properties is inductive alone: that the current tab  *)
(* is alive needs that a close question is never about the first tab,      *)
(* which needs that the "+" tab keeps its label, which needs that the      *)
(* current tab is not the "+" tab.  The conjunction IInv is inductive; it  *)
(* only adds the ranges of the numbers, and that tabs on the bar were      *)
(* built with pairwise different numbers (part of TabsFound).              *)
(***************************************************************************)
EXTENDS Tabs, TLAPS

\* The slots in use are exactly the ones up to the "+" tab.
SlotsFilled ==
    /\ currenttab < lasttab
    /\ \A i \in 0 .. lasttab : BrowserGroup[i] \in Addr
    /\ \A i \in Index : i > lasttab => BrowserGroup[i] = NULL
    /\ win[BrowserGroup[lasttab]] = lasttab

\* The inductive invariant.
IInv ==
    /\ TypeOK
    /\ SlotsFilled
    /\ PlusTab
    /\ FirstTabKept
    /\ CurrentTabAlive
    /\ CloseTargetValid
    /\ TabsFound

-----------------------------------------------------------------------------
\* After start-up there are tab 0, current and on display, and the "+" tab.
LEMMA InitIInv == Init => IInv
<1> SUFFICES ASSUME Init PROVE IInv
  OBVIOUS
<1>1. PICK first, plus \in Addr :
        /\ first # plus
        /\ lasttab = 1
        /\ currenttab = 0
        /\ BrowserGroup = [i \in Index |->
               IF i = 0 THEN first ELSE IF i = 1 THEN plus ELSE NULL]
        /\ browserwin = [i \in Index |->
               IF i <= 1 THEN i ELSE IF i = MAXVIEWS THEN StatBar ELSE NoWin]
        /\ view = {0}
        /\ live = {first, plus}
        /\ label = [a \in Addr |-> IF a = plus THEN "+" ELSE "New Tab"]
        /\ win = [a \in Addr |-> IF a = plus THEN 1 ELSE 0]
        /\ shown = first
        /\ rtab = NULL
        /\ wtab = 0
  BY DEF Init
<1>2. /\ first # plus
      /\ lasttab = 1 /\ currenttab = 0 /\ view = {0}
      /\ live = {first, plus} /\ shown = first
      /\ rtab = NULL /\ wtab = 0
  BY <1>1
<1>3. BrowserGroup[0] = first /\ BrowserGroup[1] = plus
      /\ BrowserGroup \in [Index -> Addr \cup {NULL}]
      /\ \A i \in Index : i > 1 => BrowserGroup[i] = NULL
  <2>1. BrowserGroup = [i \in Index |->
          IF i = 0 THEN first ELSE IF i = 1 THEN plus ELSE NULL]
    BY <1>1
  <2> QED
    BY <2>1, MaxViewsAssumption DEF Index
<1>4. browserwin \in [Index -> Index \cup {StatBar, NoWin}]
  BY <1>1
<1>5. label \in [Addr -> Labels] /\ label[plus] = "+"
  <2>1. label = [a \in Addr |-> IF a = plus THEN "+" ELSE "New Tab"]
    BY <1>1
  <2> QED
    BY <2>1 DEF Labels
<1>6. win \in [Addr -> Index] /\ win[first] = 0 /\ win[plus] = 1
  <2>1. win = [a \in Addr |-> IF a = plus THEN 1 ELSE 0]
    BY <1>1
  <2> QED
    BY <2>1, <1>2, MaxViewsAssumption DEF Index
<1>7. TypeOK
  BY <1>2, <1>3, <1>4, <1>5, <1>6, MaxViewsAssumption DEF TypeOK
<1>8. SlotsFilled
  BY <1>2, <1>3, <1>6 DEF SlotsFilled
<1>9. PlusTab
  <2>1. view = 0 .. lasttab - 1
    BY <1>2
  <2> QED
    BY <1>2, <1>3, <1>5, <2>1 DEF PlusTab
<1>10. FirstTabKept /\ CurrentTabAlive /\ CloseTargetValid
  BY <1>2, <1>3, <1>6 DEF FirstTabKept, CurrentTabAlive, CloseTargetValid
<1>11. TabsFound
  BY <1>2, <1>3, <1>6 DEF TabsFound
<1> QED
  BY <1>7, <1>8, <1>9, <1>10, <1>11 DEF IInv

-----------------------------------------------------------------------------
\* Opening the "+" tab (clicked, Ctrl-T, or a link opened in a new tab).  The
\* allocator returns an address that is not in use, so the new "+" tab differs
\* from every tab on the bar, whatever stale pointers the array holds.
LEMMA PressPlusIInv ==
  ASSUME IInv, NoQuestion,
         NEW tab \in live, NEW newlabel \in Labels, newlabel # "+",
         PressPlus(tab, newlabel)
  PROVE  IInv'
<1>1. PICK new \in Addr :
        /\ ConstructTab(new)
        /\ label' = [label EXCEPT ![tab] = newlabel, ![new] = "+"]
  BY DEF PressPlus
<1>2. /\ new \notin live
      /\ lasttab' = lasttab + 1
      /\ BrowserGroup' = [BrowserGroup EXCEPT ![lasttab + 1] = new]
      /\ browserwin' = [browserwin EXCEPT ![lasttab + 1] = lasttab + 1]
      /\ live' = live \cup {new}
      /\ win' = [win EXCEPT ![new] = lasttab + 1]
  BY <1>1 DEF ConstructTab
<1>3. /\ lasttab < MAXVIEWS
      /\ currenttab' = lasttab
      /\ view' = view \cup {lasttab}
      /\ shown' = tab
      /\ rtab' = NULL /\ wtab' = 0
  BY DEF PressPlus, OpenedTab, NoQuestion
<1>4. TypeOK /\ SlotsFilled /\ PlusTab /\ FirstTabKept /\ TabsFound
  BY DEF IInv
<1>5. lasttab \in 1 .. MAXVIEWS - 1 /\ lasttab + 1 \in Index
  BY <1>3, <1>4, MaxViewsAssumption DEF TypeOK, Index
<1>6. /\ BrowserGroup'[lasttab + 1] = new
      /\ \A i \in 0 .. lasttab : BrowserGroup'[i] = BrowserGroup[i]
  BY <1>2, <1>4, <1>5 DEF TypeOK, Index
<1>7. /\ label'[new] = "+"
      /\ win'[new] = lasttab + 1
      /\ \A a \in live : win'[a] = win[a]
  BY <1>1, <1>2, <1>4 DEF TypeOK
<1>8. TypeOK'
  <2>1. label' \in [Addr -> Labels]
    BY <1>1, <1>4 DEF TypeOK, Labels
  <2>2. /\ BrowserGroup' \in [Index -> Addr \cup {NULL}]
        /\ browserwin' \in [Index -> Index \cup {StatBar, NoWin}]
        /\ win' \in [Addr -> Index]
    BY <1>2, <1>4, <1>5 DEF TypeOK
  <2> QED
    BY <1>2, <1>3, <1>4, <1>5, <2>1, <2>2, MaxViewsAssumption DEF TypeOK
<1>9. SlotsFilled'
  <2>1. \A i \in Index : i > lasttab' => BrowserGroup'[i] = NULL
    BY <1>2, <1>4, <1>5 DEF SlotsFilled, TypeOK, Index
  <2> QED
    BY <1>2, <1>3, <1>4, <1>5, <1>6, <1>7, <2>1 DEF SlotsFilled, TypeOK
<1>10. PlusTab'
  <2>1. view' = 0 .. lasttab' - 1
    BY <1>2, <1>3, <1>4, <1>5 DEF PlusTab
  <2> QED
    BY <1>2, <1>3, <1>5, <1>6, <1>7, <2>1 DEF PlusTab
<1>11. BrowserGroup[0] \in live /\ BrowserGroup[lasttab] \in live
       /\ win[BrowserGroup[0]] = 0 /\ win[BrowserGroup[lasttab]] = lasttab
  BY <1>4 DEF FirstTabKept, PlusTab, SlotsFilled
<1>12. FirstTabKept'
  BY <1>2, <1>3, <1>5, <1>6, <1>7, <1>11 DEF FirstTabKept
<1>13. CurrentTabAlive'
  BY <1>2, <1>3, <1>5, <1>6, <1>11 DEF CurrentTabAlive
<1>14. CloseTargetValid'
  BY <1>3 DEF CloseTargetValid
<1>15. TabsFound'
  <2>1. ASSUME NEW a \in live'
        PROVE  win'[a] <= lasttab' /\ BrowserGroup'[win'[a]] = a
    <3>1. CASE a = new
      BY <3>1, <1>2, <1>5, <1>6, <1>7
    <3>2. CASE a \in live
      <4>1. win[a] \in 0 .. lasttab /\ BrowserGroup[win[a]] = a
        BY <3>2, <1>4 DEF TabsFound, TypeOK, Index
      <4> QED
        BY <3>2, <4>1, <1>2, <1>5, <1>6, <1>7
    <3> QED
      BY <3>1, <3>2, <1>2
  <2> QED
    BY <2>1, <1>2, <1>3 DEF TabsFound
<1> QED
  BY <1>8, <1>9, <1>10, <1>12, <1>13, <1>14, <1>15 DEF IInv

\* Relabelling the current tab leaves the "+" tab alone.
LEMMA SetLabelIInv ==
  ASSUME IInv, NEW text \in Labels, SetLabel(text),
         UNCHANGED <<lasttab, currenttab, BrowserGroup, browserwin, view, live,
                     win, rtab, wtab>>,
         shown' \in live
  PROVE  IInv'
<1>1. TypeOK'
  BY DEF IInv, TypeOK, SetLabel
<1>2. label'[BrowserGroup[lasttab]] = "+"
  BY DEF IInv, TypeOK, SetLabel, CurrentTabAlive, PlusTab, SlotsFilled
<1>3. SlotsFilled' /\ PlusTab' /\ FirstTabKept'
  BY <1>2 DEF IInv, SlotsFilled, PlusTab, FirstTabKept
<1>4. CurrentTabAlive' /\ CloseTargetValid' /\ TabsFound'
  BY DEF IInv, CurrentTabAlive, CloseTargetValid, TabsFound
<1> QED
  BY <1>1, <1>3, <1>4 DEF IInv

\* Deleting a tab that is neither the first nor the "+" tab, after jumping to
\* the first tab.
LEMMA DeleteIInv ==
  ASSUME IInv, NEW tab \in live,
         tab # BrowserGroup[0], tab # BrowserGroup[lasttab],
         shown' = BrowserGroup[0], currenttab' = 0, live' = live \ {tab},
         rtab' = NULL, wtab' = 0,
         UNCHANGED <<lasttab, BrowserGroup, browserwin, view, label, win>>
  PROVE  IInv'
<1>1. TypeOK'
  BY MaxViewsAssumption DEF IInv, TypeOK, FirstTabKept
<1>2. SlotsFilled'
  BY DEF IInv, TypeOK, SlotsFilled
<1>3. PlusTab' /\ FirstTabKept'
  BY DEF IInv, TypeOK, PlusTab, FirstTabKept
<1>4. CurrentTabAlive'
  BY DEF IInv, TypeOK, CurrentTabAlive, FirstTabKept, PlusTab, SlotsFilled
<1>5. CloseTargetValid'
  BY DEF CloseTargetValid
<1>6. TabsFound'
  BY DEF IInv, TabsFound, FirstTabKept
<1> QED
  BY <1>1, <1>2, <1>3, <1>4, <1>5, <1>6 DEF IInv

\* A click on an ordinary tab selects its first number in the array, which is
\* at most the number it was built with, hence not the number of the "+" tab.
LEMMA LeftPressIInv ==
  ASSUME IInv, NoQuestion, NEW tab \in live, LeftPress(tab)
  PROVE  IInv'
<1>1. /\ label[tab] # "+"
      /\ shown' = tab
      /\ UNCHANGED <<lasttab, BrowserGroup, browserwin, view, live, label, win,
                     rtab, wtab>>
  BY DEF LeftPress
<1>2. win[tab] \in 0 .. lasttab - 1 /\ BrowserGroup[win[tab]] = tab
  <2>1. win[tab] \in 0 .. lasttab /\ BrowserGroup[win[tab]] = tab
    BY DEF IInv, TypeOK, TabsFound, Index
  <2>2. win[tab] # lasttab
    BY <1>1, <2>1 DEF IInv, PlusTab
  <2> QED
    BY <2>1, <2>2 DEF IInv, TypeOK
<1>3. PICK i \in 0 .. MAXVIEWS - 1 : FirstIndexOf(tab, i) /\ currenttab' = i
  BY <1>2, MaxViewsAssumption DEF LeftPress, IInv, TypeOK
<1>4. i \in 0 .. lasttab - 1 /\ BrowserGroup[i] = tab
  <2>1. ~ (win[tab] \in 0 .. i - 1)
    BY <1>2, <1>3 DEF FirstIndexOf
  <2> QED
    BY <1>2, <1>3, <2>1 DEF FirstIndexOf, IInv, TypeOK
<1>5. tab = BrowserGroup[0] => i = 0
  BY <1>3 DEF FirstIndexOf
<1>6. TypeOK'
  BY <1>1, <1>3 DEF IInv, TypeOK
<1>7. SlotsFilled' /\ PlusTab'
  BY <1>1, <1>3, <1>4 DEF IInv, TypeOK, SlotsFilled, PlusTab
<1>8. FirstTabKept'
  BY <1>1, <1>3, <1>4, <1>5 DEF IInv, FirstTabKept
<1>9. CurrentTabAlive'
  BY <1>1, <1>3, <1>4 DEF IInv, CurrentTabAlive, PlusTab
<1>10. CloseTargetValid' /\ TabsFound'
  BY <1>1 DEF IInv, CloseTargetValid, TabsFound, NoQuestion
<1> QED
  BY <1>6, <1>7, <1>8, <1>9, <1>10 DEF IInv

\* A right click displays the tab and may open a question about it.
LEMMA RightPressIInv ==
  ASSUME IInv, NoQuestion, NEW tab \in live, RightPress(tab)
  PROVE  IInv'
<1>1. TypeOK' /\ SlotsFilled' /\ PlusTab'
  BY DEF IInv, RightPress, TypeOK, SlotsFilled, PlusTab
<1>2. FirstTabKept' /\ CurrentTabAlive' /\ TabsFound'
  BY DEF IInv, RightPress, FirstTabKept, CurrentTabAlive, TabsFound
<1>3. CloseTargetValid'
  BY DEF IInv, RightPress, NoQuestion, CloseTargetValid, PlusTab
<1> QED
  BY <1>1, <1>2, <1>3 DEF IInv

\* At the limit the "+" tab is only displayed.
LEMMA PlusRefusedIInv ==
  ASSUME IInv, NEW tab \in live, PlusRefused(tab), UNCHANGED label
  PROVE  IInv'
<1>1. TypeOK' /\ SlotsFilled' /\ PlusTab'
  BY DEF IInv, PlusRefused, TypeOK, SlotsFilled, PlusTab
<1>2. FirstTabKept' /\ CurrentTabAlive' /\ TabsFound' /\ CloseTargetValid'
  BY DEF IInv, PlusRefused, FirstTabKept, CurrentTabAlive, TabsFound,
         CloseTargetValid
<1> QED
  BY <1>1, <1>2 DEF IInv

-----------------------------------------------------------------------------
\* Every step of the tab bar preserves the invariant.
LEMMA NextIInv == IInv /\ [Next]_vars => IInv'
<1> SUFFICES ASSUME IInv, [Next]_vars PROVE IInv'
  OBVIOUS
<1>a. {"+", "New Tab", "Loading..."} \subseteq Labels /\ Titles \subseteq Labels
  BY DEF Labels
<1>b. BrowserGroup[lasttab] \in live
  BY DEF IInv, PlusTab
<1>1. CASE LeftClick
  BY <1>1, <1>a, PressPlusIInv, PlusRefusedIInv, LeftPressIInv DEF LeftClick
<1>2. CASE RightClick
  BY <1>2, <1>a, PressPlusIInv, PlusRefusedIInv, RightPressIInv DEF RightClick
<1>3. ASSUME NEW yes \in BOOLEAN, CloseClicked(yes) PROVE IInv'
  <2>1. rtab # NULL /\ rtab' = NULL
        /\ UNCHANGED <<lasttab, BrowserGroup, browserwin, view, label, win, wtab>>
    BY <1>3 DEF CloseClicked
  <2>2. rtab \in live /\ rtab # BrowserGroup[0] /\ rtab # BrowserGroup[lasttab]
        /\ wtab = 0
    BY <2>1 DEF IInv, CloseTargetValid
  <2>3. CASE yes
    <3>1. shown' = BrowserGroup[0] /\ currenttab' = 0 /\ live' = live \ {rtab}
      BY <1>3, <2>3 DEF CloseClicked
    <3> QED
      BY <2>1, <2>2, <3>1, DeleteIInv
  <2>4. CASE ~ yes
    <3>1. UNCHANGED <<shown, currenttab, live>>
      BY <1>3, <2>4 DEF CloseClicked
    <3>2. TypeOK' /\ SlotsFilled' /\ PlusTab'
      BY <2>1, <3>1 DEF IInv, TypeOK, SlotsFilled, PlusTab
    <3>3. FirstTabKept' /\ CurrentTabAlive' /\ TabsFound' /\ CloseTargetValid'
      BY <2>1, <2>2, <3>1
      DEF IInv, FirstTabKept, CurrentTabAlive, TabsFound, CloseTargetValid
    <3> QED
      BY <3>2, <3>3 DEF IInv
  <2> QED
    BY <2>3, <2>4
<1>4. CASE CtrlT
  BY <1>4, <1>a, <1>b, PressPlusIInv, PlusRefusedIInv DEF CtrlT
<1>5. CASE CtrlW
  <2>1. TypeOK' /\ SlotsFilled' /\ PlusTab'
    BY <1>5 DEF IInv, CtrlW, TypeOK, SlotsFilled, PlusTab
  <2>2. FirstTabKept' /\ CurrentTabAlive' /\ TabsFound'
    BY <1>5 DEF IInv, CtrlW, FirstTabKept, CurrentTabAlive, TabsFound
  <2>3. CloseTargetValid'
    BY <1>5
    DEF IInv, CtrlW, NoQuestion, CloseTargetValid, FirstTabKept, CurrentTabAlive
  <2> QED
    BY <2>1, <2>2, <2>3 DEF IInv
<1>6. ASSUME NEW yes \in BOOLEAN, CloseCurrent(yes) PROVE IInv'
  <2>1. wtab # 0 /\ wtab' = 0
        /\ UNCHANGED <<lasttab, BrowserGroup, browserwin, view, label, win, rtab>>
    BY <1>6 DEF CloseCurrent
  <2>2. /\ BrowserGroup[wtab] \in live
        /\ BrowserGroup[wtab] # BrowserGroup[0]
        /\ BrowserGroup[wtab] # BrowserGroup[lasttab]
        /\ rtab = NULL
    BY <2>1 DEF IInv, CloseTargetValid
  <2>3. CASE yes
    <3>1. /\ shown' = BrowserGroup[0]
          /\ currenttab' = 0
          /\ live' = live \ {BrowserGroup[wtab]}
      BY <1>6, <2>3 DEF CloseCurrent
    <3> QED
      BY <2>1, <2>2, <3>1, DeleteIInv
  <2>4. CASE ~ yes
    <3>1. UNCHANGED <<shown, currenttab, live>>
      BY <1>6, <2>4 DEF CloseCurrent
    <3>2. TypeOK' /\ SlotsFilled' /\ PlusTab'
      BY <2>1, <3>1, MaxViewsAssumption DEF IInv, TypeOK, SlotsFilled, PlusTab
    <3>3. FirstTabKept' /\ CurrentTabAlive' /\ TabsFound' /\ CloseTargetValid'
      BY <2>1, <2>2, <3>1
      DEF IInv, FirstTabKept, CurrentTabAlive, TabsFound, CloseTargetValid
    <3> QED
      BY <3>2, <3>3 DEF IInv
  <2> QED
    BY <2>3, <2>4
<1>7. CASE OpenURLInNewTab
  <2>1. CASE PressPlus(BrowserGroup[lasttab], "Loading...")
    BY <1>7, <2>1, <1>a, <1>b, PressPlusIInv DEF OpenURLInNewTab
  <2>2. CASE PlusRefused(BrowserGroup[lasttab]) /\ SetLabel("Loading...")
    BY <2>2, <1>a, <1>b, SetLabelIInv DEF PlusRefused
  <2> QED
    BY <1>7, <2>1, <2>2 DEF OpenURLInNewTab
<1>8. CASE Navigate
  <2>1. shown' \in live
    BY <1>8 DEF Navigate, IInv, TabsFound
  <2> QED
    BY <1>8, <1>a, <2>1, SetLabelIInv DEF Navigate
<1>9. CASE ReceiveTitle
  <2>1. shown' \in live
    BY <1>9 DEF ReceiveTitle, IInv, TabsFound
  <2>2. PICK title \in Titles : SetLabel(title)
    BY <1>9 DEF ReceiveTitle
  <2> QED
    BY <1>9, <1>a, <2>1, <2>2, SetLabelIInv DEF ReceiveTitle
<1>10. CASE UNCHANGED vars
  <2>1. TypeOK' /\ SlotsFilled' /\ PlusTab'
    BY <1>10 DEF vars, IInv, TypeOK, SlotsFilled, PlusTab
  <2>2. FirstTabKept' /\ CurrentTabAlive' /\ TabsFound' /\ CloseTargetValid'
    BY <1>10
    DEF vars, IInv, FirstTabKept, CurrentTabAlive, TabsFound, CloseTargetValid
  <2> QED
    BY <2>1, <2>2 DEF IInv
<1> QED
  BY <1>1, <1>2, <1>3, <1>4, <1>5, <1>6, <1>7, <1>8, <1>9, <1>10 DEF Next

\* The invariant holds in every reachable state.
THEOREM Invariance == Spec => []IInv
<1>1. Init => IInv
  BY InitIInv
<1>2. IInv /\ [Next]_vars => IInv'
  BY NextIInv
<1> QED
  BY <1>1, <1>2, PTL DEF Spec

\* Type correctness; in particular `lasttab' never exceeds MAXVIEWS, so the
\* arrays are overrun by one cell at most.
THEOREM TypeCorrect == Spec => []TypeOK
<1>1. IInv => TypeOK
  BY DEF IInv
<1> QED
  BY <1>1, Invariance, PTL

\* The last tab stays the "+" tab, and every number below it has its WebKit
\* object, however tabs are opened, closed, titled and reopened.
THEOREM PlusTabStays == Spec => []PlusTab
<1>1. IInv => PlusTab
  BY DEF IInv
<1> QED
  BY <1>1, Invariance, PTL

\* The first tab is never deleted, and Ctrl-W never reaches it through another
\* number.
THEOREM FirstTabNeverClosed == Spec => []FirstTabKept
<1>1. IInv => FirstTabKept
  BY DEF IInv
<1> QED
  BY <1>1, Invariance, PTL

\* No callback that writes to the current tab writes to a deleted group.
THEOREM NoUseAfterClose == Spec => []CurrentTabAlive
<1>1. IInv => CurrentTabAlive
  BY DEF IInv
<1> QED
  BY <1>1, Invariance, PTL

\* Closing a tab never deletes a group twice, nor the first or the "+" tab.
THEOREM NoDoubleDelete == Spec => []CloseTargetValid
<1>1. IInv => CloseTargetValid
  BY DEF IInv
<1> QED
  BY <1>1, Invariance, PTL

\* The search of TabCallback always finds the clicked tab.
THEOREM SearchSucceeds == Spec => []TabsFound
<1>1. IInv => TabsFound
  BY DEF IInv
<1> QED
  BY <1>1, Invariance, PTL

\* Opening a tab fills the next free slot and leaves all others alone.
LEMMA OpenWritesFreeSlot ==
  ASSUME IInv, NEW tab, NEW newlabel, PressPlus(tab, newlabel)
  PROVE  /\ view \subseteq view'
         /\ \A i \in 0 .. MAXVIEWS - 1 :
              BrowserGroup[i] # NULL => BrowserGroup'[i] = BrowserGroup[i]
<1>1. PICK new \in Addr : ConstructTab(new)
  BY DEF PressPlus
<1>2. BrowserGroup' = [BrowserGroup EXCEPT ![lasttab + 1] = new]
  BY <1>1 DEF ConstructTab
<1>3. view \subseteq view'
  BY DEF PressPlus
<1>4. \A i \in Index : BrowserGroup[i] # NULL => i <= lasttab
  BY MaxViewsAssumption DEF IInv, TypeOK, SlotsFilled, Index
<1> QED
  BY <1>2, <1>3, <1>4, MaxViewsAssumption DEF IInv, TypeOK, Index

\* No step replaces a group or a WebKit object once it is in the arrays.
THEOREM SlotsNeverReused == Spec => SlotsWrittenOnce
<1> DEFINE Kept ==
      /\ view \subseteq view'
      /\ \A i \in 0 .. MAXVIEWS - 1 :
           BrowserGroup[i] # NULL => BrowserGroup'[i] = BrowserGroup[i]
<1>1. IInv /\ [Next]_vars => [Kept]_vars
  <2> SUFFICES ASSUME IInv, Next PROVE Kept
    OBVIOUS
  <2>1. CASE UNCHANGED <<BrowserGroup, view>>
    BY <2>1
  <2>2. CASE \E tab \in live : PressPlus(tab, "New Tab")
    BY <2>2, OpenWritesFreeSlot
  <2>3. CASE \/ PressPlus(BrowserGroup[lasttab], "New Tab")
             \/ PressPlus(BrowserGroup[lasttab], "Loading...")
    BY <2>3, OpenWritesFreeSlot
  <2> QED
    BY <2>1, <2>2, <2>3
    DEF Next, LeftClick, RightClick, CloseClicked, CtrlT, CtrlW, CloseCurrent,
        OpenURLInNewTab, Navigate, ReceiveTitle, PlusRefused, LeftPress,
        RightPress
<1> QED
  BY <1>1, Invariance, PTL DEF Spec, SlotsWrittenOnce
====
