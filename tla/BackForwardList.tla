---- MODULE BackForwardList ----
(***************************************************************************)
(* WebBackForwardList (Source/WebKit2/UIProcess): the back/forward list of *)
(* the page behind a tab, kept in the UI process and driven by messages of *)
(* the web process (an item is added when a page commits, gone to when a   *)
(* back or forward navigation commits) and by WebPageProxy::close.         *)
(*                                                                         *)
(* For each item it drops, the list sends DidRemoveBackForwardItem, upon   *)
(* which the web process drops the item from its own maps.                 *)
(***************************************************************************)
EXTENDS Naturals, Sequences, SequencesExt

CONSTANTS
    ItemID,         \* the identifiers of items
    m_capacity      \* DefaultCapacity

ASSUME CapacityAssumption == m_capacity \in Nat \ {0}

\* Identifiers are counted up from 3 on; 0 is no identifier but what a lookup of an
\* unknown item returns.
ASSUME ItemAssumption == ItemID \subseteq Nat \ {0}

VARIABLES
    m_page,             \* whether the list still has its page
    m_entries,          \* the items, oldest first
    m_hasCurrentIndex,
    m_currentIndex,     \* zero based
    added,              \* the items the web process has added so far
    removed             \* how often DidRemoveBackForwardItem was sent per item

vars == <<m_page, m_entries, m_hasCurrentIndex, m_currentIndex, added, removed>>

TypeOK ==
    /\ m_page \in BOOLEAN
    /\ m_entries \in Seq(ItemID)
    /\ m_hasCurrentIndex \in BOOLEAN
    /\ m_currentIndex \in 0 .. m_capacity - 1
    /\ added \subseteq ItemID
    /\ removed \in [ItemID -> Nat]

Init ==
    /\ m_page = TRUE
    /\ m_entries = << >>
    /\ m_hasCurrentIndex = FALSE
    /\ m_currentIndex = 0
    /\ added = {}
    /\ removed = [i \in ItemID |-> 0]

-----------------------------------------------------------------------------
\* backForwardRemovedItem for each item of a set.
SendRemoved(items) ==
    removed' = [i \in ItemID |-> IF i \in items THEN removed[i] + 1 ELSE removed[i]]

\* The items of a list.
Items(s) == {s[k] : k \in 1 .. Len(s)}

\* The identifiers that generateHistoryItemID can still return: it counts up.
Fresh(item) == \A a \in added : a < item

\* Mutant of WithoutForward: nothing is tossed.
WithoutForward_KeepsAll == m_entries

\* `Toss everything in the forward list'; without a current item the list is
\* emptied.
WithoutForward ==
    IF m_hasCurrentIndex THEN SubSeq(m_entries, 1, m_currentIndex + 1) ELSE << >>

\* Mutants of TossFirst: the list may grow past its capacity, or stops growing
\* one item before it.
TossFirst_Never == FALSE

TossFirst_Early ==
    /\ m_hasCurrentIndex
    /\ Len(WithoutForward) = m_capacity - 1
    /\ m_currentIndex # 0 \/ m_capacity = 1

\* `Toss the first item if the list is getting too big, as long as we're not
\* using it (or even if we are, if we only want 1 entry)'.
TossFirst ==
    /\ m_hasCurrentIndex
    /\ Len(WithoutForward) = m_capacity
    /\ m_currentIndex # 0 \/ m_capacity = 1

\* The list before the new item is inserted.
Base == IF TossFirst THEN Tail(WithoutForward) ELSE WithoutForward

\* The items addItem drops, in the order in which it reports them: the forward
\* list from its end, then the first item.
Dropped ==
    Reverse(SubSeq(m_entries, Len(WithoutForward) + 1, Len(m_entries)))
        \o (IF TossFirst THEN <<Head(WithoutForward)>> ELSE << >>)

\* The place for the new item.
NewIndex ==
    IF ~m_hasCurrentIndex \/ Base = << >> THEN 0
    ELSE IF TossFirst THEN (m_currentIndex - 1) + 1 ELSE m_currentIndex + 1

\* addItem; the calls it ignores (no item, page closed) change nothing.
AddItem(item) ==
    /\ m_page
    /\ Fresh(item)
    /\ m_hasCurrentIndex' = TRUE
    /\ m_currentIndex' = NewIndex
    /\ m_entries' = InsertAt(Base, NewIndex + 1, item)
    /\ added' = added \cup {item}
    /\ SendRemoved(Items(Dropped))
    /\ UNCHANGED m_page

\* goToItem: the first position of the item; an item that is not in the list
\* (any more) is ignored.
GoToItem(item) ==
    /\ m_page
    /\ m_hasCurrentIndex
    /\ \E index \in 0 .. Len(m_entries) - 1 :
         /\ m_entries[index + 1] = item
         /\ \A j \in 0 .. index - 1 : m_entries[j + 1] # item
         /\ m_currentIndex' = index
    /\ UNCHANGED <<m_page, m_entries, m_hasCurrentIndex, added, removed>>

\* Mutant of Clear: the index is not reset.
Clear_KeepsIndex ==
    /\ m_page
    /\ Len(m_entries) > 1
    /\ m_hasCurrentIndex
    /\ m_entries' = <<m_entries[m_currentIndex + 1]>>
    /\ SendRemoved(Items(m_entries) \ {m_entries[m_currentIndex + 1]})
    /\ UNCHANGED <<m_page, m_hasCurrentIndex, m_currentIndex, added>>

\* Mutant of Clear: the list is shrunk to its first item.
Clear_ToFirst ==
    /\ m_page
    /\ Len(m_entries) > 1
    /\ m_hasCurrentIndex
    /\ m_entries' = <<m_entries[1]>>
    /\ m_currentIndex' = 0
    /\ SendRemoved(Items(m_entries) \ {m_entries[1]})
    /\ UNCHANGED <<m_page, m_hasCurrentIndex, added>>

\* clear: only the current item stays.  (It also empties a list that has items
\* but no current one; ListConsistent says that there is no such list.)
Clear ==
    /\ m_page
    /\ Len(m_entries) > 1
    /\ m_hasCurrentIndex
    /\ m_entries' = <<m_entries[m_currentIndex + 1]>>
    /\ m_currentIndex' = 0
    /\ SendRemoved(Items(m_entries) \ {m_entries[m_currentIndex + 1]})
    /\ UNCHANGED <<m_page, m_hasCurrentIndex, added>>

\* Mutant of PageClosed: the web process is not told.
PageClosed_Silent ==
    /\ m_page
    /\ m_page' = FALSE
    /\ m_entries' = << >>
    /\ m_hasCurrentIndex' = FALSE
    /\ UNCHANGED <<m_currentIndex, added, removed>>

\* pageClosed, once (WebPageProxy::close returns early when already closed).
PageClosed ==
    /\ m_page
    /\ SendRemoved(Items(m_entries))
    /\ m_page' = FALSE
    /\ m_entries' = << >>
    /\ m_hasCurrentIndex' = FALSE
    /\ UNCHANGED <<m_currentIndex, added>>

Next ==
    \/ \E item \in ItemID : AddItem(item) \/ GoToItem(item)
    \/ Clear
    \/ PageClosed

Spec == Init /\ [][Next]_vars

-----------------------------------------------------------------------------
(* What the queries answer.                                                *)

\* The null pointer.
NoItem == 0

currentItem == IF m_page /\ m_hasCurrentIndex THEN m_entries[m_currentIndex + 1] ELSE NoItem

backListCount == IF m_page /\ m_hasCurrentIndex THEN m_currentIndex ELSE 0

forwardListCount ==
    IF m_page /\ m_hasCurrentIndex THEN Len(m_entries) - (m_currentIndex + 1) ELSE 0

-----------------------------------------------------------------------------
(* Properties.                                                             *)

\* The assertions of every member function: the current index is inside the
\* list, a list without a current index is empty, the capacity is kept, and a
\* closed list has no current item (the destructor's assertion).
ListConsistent ==
    /\ m_hasCurrentIndex => m_currentIndex < Len(m_entries)
    /\ ~m_hasCurrentIndex => m_entries = << >>
    /\ Len(m_entries) <= m_capacity
    /\ ~m_page => ~m_hasCurrentIndex

\* The list is in the order in which the pages were visited, also after going
\* back and branching off; so no item is in it twice and the search of goToItem
\* has one answer.
Chronological ==
    /\ \A j, k \in 1 .. Len(m_entries) : j < k => m_entries[j] < m_entries[k]
    /\ Items(m_entries) \subseteq added

\* The web process is told to forget an item exactly once, and exactly when it
\* has left the list: its item map neither leaks an item nor loses one that the
\* user can still go back to.
ItemConservation ==
    \A i \in ItemID :
        removed[i] = IF i \in added /\ i \notin Items(m_entries) THEN 1 ELSE 0

\* A page that is being displayed keeps its item while the list is in use: no
\* addition or clear drops the current item, unless the capacity is 1.
CurrentKept ==
    [][m_hasCurrentIndex /\ m_page' /\ m_capacity > 1
         => m_entries[m_currentIndex + 1] \in Items(m_entries')]_vars

-----------------------------------------------------------------------------
(* The list as the user sees it.                                           *)

Abstract == INSTANCE BackForward WITH
    Page <- ItemID,
    Capacity <- m_capacity,
    None <- NoItem,
    back <- SubSeq(m_entries, 1, backListCount),
    current <- currentItem,
    forward <- SubSeq(m_entries, Len(m_entries) - forwardListCount + 1, Len(m_entries))

\* addItem, goToItem, clear and pageClosed do to the list what a user expects of
\* back and forward: one step of the abstract history, or none.
ImplementsHistory == Abstract!History
====
