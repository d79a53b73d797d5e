---- MODULE PageHistoryProofs ----
(***************************************************************************)
(* Proofs about PageHistory, for every capacity of the list, every set of  *)
(* identifiers, any number of crashes and channels of any length.          *)
(***************************************************************************)
EXTENDS PageHistory, BackForwardListProofs

\* The first message to a process, as long as it has not been handled.
Uncreated == toWeb # << >> /\ toWeb[1].name = "CreateWebPage"

\* A page without a process has nothing on its way.
ProcessSeen ==
    /\ running => m_isValid
    /\ ~m_isValid => toUI = << >>
    /\ ~running => toWeb = << >>

\* Nothing but the first message is CreateWebPage, and a process has done nothing
\* before it.
CreateFirst ==
    /\ \A k \in 2 .. Len(toWeb) : toWeb[k].name # "CreateWebPage"
    /\ Uncreated => /\ toWeb[1].highest = highestUsedItemID
                    /\ toUI = << >>
                    /\ uniqueHistoryItemID = 1
                    /\ idToHistoryItemMap = {}
                    /\ m_currentItem = NoItem
                    /\ m_provisionalItem = NoItem
                    /\ m_loadType = "None"
                    /\ requestedItem = NoItem
                    /\ targetItem = NoItem
                    /\ abandoned = NoItem

\* The identifiers the UI process has seen are not above its highest one, and that
\* one and those on their way are not above the last one of the web process.
Counted ==
    /\ \A i \in added \cup backForwardListItemMap : i <= highestUsedItemID
    /\ running /\ ~Uncreated => highestUsedItemID <= uniqueHistoryItemID
    /\ running => \A k \in 1 .. Len(toUI) :
                    toUI[k].name # "BackForwardGoToItem" => toUI[k].item <= uniqueHistoryItemID

\* What is said about an item on its way into the list: it is an identifier, it is
\* above everything in the list and before it in the channel, and the process
\* proxy knows it or will in time.
Arrives(k) ==
    /\ toUI[k].item \in ItemID
    /\ Fresh(toUI[k].item)
    /\ k = 1 => toUI[k].item \in backForwardListItemMap
    /\ k > 1 => toUI[k - 1] = Msg("AddBackForwardItem", toUI[k].item)
    /\ \A j \in 1 .. k - 1 : toUI[j].name = "BackForwardAddItem" => toUI[j].item < toUI[k].item

ArrivalsNew ==
    \A k \in 1 .. Len(toUI) :
        /\ toUI[k].name = "BackForwardAddItem" => Arrives(k)
        /\ toUI[k].name = "AddBackForwardItem" => toUI[k].item \in ItemID

\* The process proxy knows the items of the list.
ListKnown == Items(m_entries) \subseteq backForwardListItemMap

\* What the web process is told to drop was in the list, and an open page was not
\* told to close.
RemovedAdded ==
    \A k \in 1 .. Len(toWeb) :
        /\ toWeb[k].name = "DidRemoveBackForwardItem" => toWeb[k].item \in added
        /\ toWeb[k].name = "Close" => ~m_page

\* What is on its way to either process: items of the session that comes first,
\* items to drop, items to add.
Coming(i) == Uncreated /\ i \in toWeb[1].items

Leaving(i) ==
    \E k \in 1 .. Len(toWeb) : toWeb[k].name = "DidRemoveBackForwardItem" /\ toWeb[k].item = i

Arriving(i) ==
    \E k \in 1 .. Len(toUI) : toUI[k].name = "BackForwardAddItem" /\ toUI[k].item = i

\* An item the user asked for is in the map of the web process, or in the session
\* that comes first, and is not dropped before.
GoToKnown ==
    \A k \in 1 .. Len(toWeb) :
        toWeb[k].name = "GoToItem" =>
            /\ toWeb[k].item \in idToHistoryItemMap \/ Coming(toWeb[k].item)
            /\ \A j \in 1 .. k - 1 :
                 toWeb[j].name = "DidRemoveBackForwardItem" => toWeb[j].item # toWeb[k].item

\* MapsAgree, item by item.
Agree ==
    m_page /\ running =>
        \A i \in ItemID :
            (i \in idToHistoryItemMap \/ Coming(i)) /\ ~Leaving(i)
                <=> i \in Items(m_entries) \/ Arriving(i)

\* The messages that move the cursor of the list.
Moves(message) == message.name \in {"BackForwardAddItem", "BackForwardGoToItem"}

\* The cursor will come to the item, unless the item has left the list.
Heading(item) ==
    \/ item \notin idToHistoryItemMap
    \/ /\ \A k \in 1 .. Len(toUI) : ~Moves(toUI[k])
       /\ item \in Items(m_entries) => currentItem = item
    \/ \E k \in 1 .. Len(toUI) :
         /\ Moves(toUI[k]) /\ toUI[k].item = item
         /\ \A j \in k + 1 .. Len(toUI) : ~Moves(toUI[j])

\* Where the cursor is going at each stage of a back/forward load, and without one.
GoingTo ==
    IF targetItem # NoItem THEN targetItem
    ELSE IF m_loadType = "BackForward" THEN m_provisionalItem
    ELSE Standing

\* Page::goToItem may have asked for a move back before it asks for the next item;
\* until then nothing is said.
CursorFollows == m_page /\ running => requestedItem # NoItem \/ Heading(GoingTo)

\* A back/forward load has its item, and none is left over from before.
LoadHasItem == m_loadType = "BackForward" => m_provisionalItem # NoItem /\ abandoned = NoItem

\* The inductive invariant.
PageIInv ==
    /\ IInv
    /\ PageTypeOK
    /\ ProcessSeen
    /\ CreateFirst
    /\ Counted
    /\ ArrivalsNew
    /\ ListKnown
    /\ RemovedAdded
    /\ GoToKnown
    /\ Agree
    /\ LoadHasItem
    /\ CursorFollows

-----------------------------------------------------------------------------
(* Channels.                                                               *)

WebMessage == Message(ToWebNames) \cup CreateMessage
UIMessage == Message(ToUINames)

\* t is s without its first message.
Taken(s, t) ==
    /\ Len(s) >= 1 /\ Len(t) = Len(s) - 1
    /\ \A k \in 1 .. Len(t) : t[k] = s[k + 1]

\* t is s with the messages of m behind it.
Put(s, m, t) ==
    /\ Len(t) = Len(s) + Len(m)
    /\ \A k \in 1 .. Len(s) : t[k] = s[k]
    /\ \A k \in 1 .. Len(m) : t[Len(s) + k] = m[k]

\* Receiving takes the first message.
LEMMA TailTakes ==
    ASSUME NEW S, NEW s \in Seq(S), s # << >>
    PROVE  /\ Tail(s) \in Seq(S) /\ Len(s) \in Nat /\ Len(Tail(s)) \in Nat
           /\ Head(s) = s[1] /\ s[1] \in S
           /\ Taken(s, Tail(s))
<1>1. Len(s) \in Nat /\ Len(s) >= 1
  BY EmptySeq
<1>2. /\ Tail(s) \in Seq(S)
      /\ Len(Tail(s)) = Len(s) - 1
      /\ \A i \in 1 .. Len(Tail(s)) : Tail(s)[i] = s[i + 1]
  BY HeadTailProperties
<1>3. Head(s) = s[1] /\ s[1] \in S
  BY <1>1
<1> QED
  BY <1>1, <1>2, <1>3 DEF Taken

\* Sending puts messages behind the others.
LEMMA ConcatPuts ==
    ASSUME NEW S, NEW s \in Seq(S), NEW m \in Seq(S)
    PROVE  /\ s \o m \in Seq(S)
           /\ Len(s) \in Nat /\ Len(m) \in Nat /\ Len(s \o m) \in Nat
           /\ Put(s, m, s \o m)
<1>1. /\ s \o m \in Seq(S)
      /\ Len(s \o m) = Len(s) + Len(m)
      /\ \A i \in 1 .. Len(s) + Len(m) : (s \o m)[i] = IF i <= Len(s) THEN s[i] ELSE m[i - Len(s)]
  BY ConcatProperties
<1>2. Len(s) \in Nat /\ Len(m) \in Nat
  OBVIOUS
<1>3. ASSUME NEW k \in 1 .. Len(m) PROVE (s \o m)[Len(s) + k] = m[k]
  <2>1. Len(s) + k \in 1 .. Len(s) + Len(m) /\ ~(Len(s) + k <= Len(s)) /\ (Len(s) + k) - Len(s) = k
    BY <1>2
  <2>2. (s \o m)[Len(s) + k] = m[(Len(s) + k) - Len(s)]
    BY <1>1, <2>1
  <2> QED
    BY <2>1, <2>2
<1>4. \A k \in 1 .. Len(s) : (s \o m)[k] = s[k]
  BY <1>1, <1>2
<1> QED
  BY <1>1, <1>2, <1>3, <1>4 DEF Put

\* A message of one channel or the other.
LEMMA MsgTypes ==
    /\ \A name \in ToWebNames \ {"CreateWebPage"}, i \in ItemOrNone : Msg(name, i) \in WebMessage
    /\ \A name \in ToUINames, i \in ItemOrNone : Msg(name, i) \in UIMessage
    /\ \A items \in SUBSET ItemID, h \in ItemOrNone : CreateMsg(items, h) \in WebMessage
<1>1. ASSUME NEW name \in ToWebNames \ {"CreateWebPage"}, NEW i \in ItemOrNone
      PROVE  Msg(name, i) \in WebMessage
  BY DEF Msg, WebMessage, Message
<1>2. ASSUME NEW name \in ToUINames, NEW i \in ItemOrNone PROVE Msg(name, i) \in UIMessage
  BY DEF Msg, UIMessage, Message, ToUINames
<1>3. ASSUME NEW items \in SUBSET ItemID, NEW h \in ItemOrNone
      PROVE  CreateMsg(items, h) \in WebMessage
  BY DEF CreateMsg, WebMessage, CreateMessage
<1> QED
  BY <1>1, <1>2, <1>3

\* What a message holds.
LEMMA MsgFields ==
    /\ \A m \in WebMessage :
         \/ m.name = "CreateWebPage" /\ m.items \subseteq ItemID /\ m.highest \in ItemOrNone
         \/ m.name # "CreateWebPage" /\ m.item \in ItemOrNone
    /\ \A m \in UIMessage : m.name \in ToUINames /\ m.item \in ItemOrNone
<1>1. ASSUME NEW m \in Message(ToWebNames) PROVE m.name # "CreateWebPage" /\ m.item \in ItemOrNone
  BY DEF Message
<1>2. ASSUME NEW m \in CreateMessage
      PROVE  m.name = "CreateWebPage" /\ m.items \subseteq ItemID /\ m.highest \in ItemOrNone
  BY DEF CreateMessage
<1>3. ASSUME NEW m \in UIMessage PROVE m.name \in ToUINames /\ m.item \in ItemOrNone
  BY DEF UIMessage, Message
<1> QED
  BY <1>1, <1>2, <1>3 DEF WebMessage

\* The types the proofs start from.
LEMMA PageTypes ==
    ASSUME PageTypeOK
    PROVE  /\ toWeb \in Seq(WebMessage) /\ Len(toWeb) \in Nat
           /\ toUI \in Seq(UIMessage) /\ Len(toUI) \in Nat
           /\ backForwardListItemMap \subseteq Nat /\ idToHistoryItemMap \subseteq Nat
           /\ highestUsedItemID \in Nat /\ uniqueHistoryItemID \in Nat
           /\ \A k \in 1 .. Len(toWeb) : toWeb[k] \in WebMessage
           /\ \A k \in 1 .. Len(toUI) :
                /\ toUI[k] \in UIMessage /\ toUI[k].name \in ToUINames
                /\ toUI[k].item \in ItemOrNone /\ toUI[k].item \in Nat
<1>0. ItemOrNone \subseteq Nat
  BY ItemAssumption DEF ItemOrNone, NoItem
<1>1. toWeb \in Seq(WebMessage) /\ toUI \in Seq(UIMessage)
  BY DEF PageTypeOK, WebMessage, UIMessage
<1>2. Len(toWeb) \in Nat /\ Len(toUI) \in Nat
  BY <1>1
<1>3. /\ \A k \in 1 .. Len(toWeb) : toWeb[k] \in WebMessage
      /\ \A k \in 1 .. Len(toUI) : toUI[k] \in UIMessage
  BY <1>1
<1>4. highestUsedItemID \in Nat /\ uniqueHistoryItemID \in Nat
  BY <1>0 DEF PageTypeOK
<1>5. backForwardListItemMap \subseteq Nat /\ idToHistoryItemMap \subseteq Nat
  BY ItemAssumption DEF PageTypeOK
<1> QED
  BY <1>0, <1>1, <1>2, <1>3, <1>4, <1>5, MsgFields

\* MapsAgree follows from its form item by item.
LEMMA AgreeIsMapsAgree ==
    ASSUME IInv, PageTypeOK, CreateFirst, ArrivalsNew, Agree
    PROVE  MapsAgree
<1> SUFFICES ASSUME m_page, running
             PROVE  (idToHistoryItemMap \cup SessionItems) \ ItemsOf(toWeb, "DidRemoveBackForwardItem")
                      = Items(m_entries) \cup ItemsOf(toUI, "BackForwardAddItem")
  BY DEF MapsAgree
<1>1. /\ Len(toWeb) \in Nat /\ toWeb \in Seq(WebMessage)
      /\ \A k \in 1 .. Len(toWeb) : toWeb[k] \in WebMessage
  BY PageTypes
<1>2. \A i : i \in SessionItems <=> Coming(i)
  <2>1. CASE Uncreated
    <3>1. 1 \in 1 .. Len(toWeb)
      BY <1>1, <2>1, EmptySeq DEF Uncreated
    <3>2. Named(toWeb, "CreateWebPage") = {1}
      <4>1. \A k \in 1 .. Len(toWeb) : k = 1 \/ k \in 2 .. Len(toWeb)
        BY <1>1
      <4> QED
        BY <2>1, <3>1, <4>1 DEF Named, Uncreated, CreateFirst
    <3>3. SessionItems = toWeb[1].items
      BY <3>2 DEF SessionItems
    <3> QED
      BY <2>1, <3>3 DEF Coming
  <2>2. CASE ~Uncreated
    <3>1. \A k \in 1 .. Len(toWeb) : toWeb[k].name # "CreateWebPage"
      <4>1. \A k \in 1 .. Len(toWeb) : (k = 1 \/ k \in 2 .. Len(toWeb)) /\ toWeb # << >>
        BY <1>1
      <4> QED
        BY <2>2, <4>1 DEF Uncreated, CreateFirst
    <3>2. SessionItems = {}
      BY <3>1 DEF SessionItems, Named
    <3> QED
      BY <2>2, <3>2 DEF Coming
  <2> QED
    BY <2>1, <2>2
<1>3. \A i : i \in ItemsOf(toWeb, "DidRemoveBackForwardItem") <=> Leaving(i)
  BY DEF ItemsOf, Named, Leaving
<1>4. \A i : i \in ItemsOf(toUI, "BackForwardAddItem") <=> Arriving(i)
  BY DEF ItemsOf, Named, Arriving
<1>5. \A i : i \in idToHistoryItemMap \/ Coming(i) => i \in ItemID
  <2>1. \A i : Coming(i) => i \in ItemID
    <3> SUFFICES ASSUME NEW i, Coming(i) PROVE i \in ItemID
      OBVIOUS
    <3>1. 1 \in 1 .. Len(toWeb) /\ toWeb[1].name = "CreateWebPage" /\ i \in toWeb[1].items
      BY <1>1, EmptySeq DEF Coming, Uncreated
    <3> QED
      BY <1>1, <3>1, MsgFields
  <2> QED
    BY <2>1 DEF PageTypeOK
<1>6. \A i : i \in Items(m_entries) \/ Arriving(i) => i \in ItemID
  BY DEF Items, IInv, TypeOK, Arriving, ArrivalsNew, Arrives
<1> QED
  BY <1>2, <1>3, <1>4, <1>5, <1>6 DEF Agree

-----------------------------------------------------------------------------
(* Steps of the web process that leave its map alone.                      *)

\* The parts of the invariant that do not speak of loads.
SharedInv ==
    /\ IInv
    /\ ProcessSeen
    /\ CreateFirst
    /\ Counted
    /\ ArrivalsNew
    /\ ListKnown
    /\ RemovedAdded
    /\ GoToKnown
    /\ Agree

\* A step of a process that has been given its session: it may take a message that
\* removes no item and may ask the list to move.
LoadStep ==
    /\ running /\ ~Uncreated
    /\ UNCHANGED <<listVars, uiVars, running, mapVars>>
    /\ \/ toWeb' = toWeb
       \/ toWeb # << >> /\ Head(toWeb).name # "DidRemoveBackForwardItem" /\ toWeb' = Tail(toWeb)
    /\ \/ toUI' = toUI
       \/ \E i \in ItemOrNone : toUI' = Append(toUI, Msg("BackForwardGoToItem", i))

\* What such a step does to the channels.
LEMMA LoadStepChannels ==
    ASSUME PageIInv, LoadStep
    PROVE  /\ toWeb' \in Seq(WebMessage) /\ Len(toWeb') \in Nat
           /\ \E d \in {0, 1} :
                /\ Len(toWeb') + d = Len(toWeb)
                /\ \A k \in 1 .. Len(toWeb') : toWeb'[k] = toWeb[k + d]
                /\ d = 1 => toWeb[1].name # "DidRemoveBackForwardItem"
           /\ toUI' \in Seq(UIMessage) /\ Len(toUI') \in Nat /\ Len(toUI) <= Len(toUI')
           /\ \A k \in 1 .. Len(toUI) : toUI'[k] = toUI[k]
           /\ \A k \in 1 .. Len(toUI') :
                k \in 1 .. Len(toUI) \/ toUI'[k].name = "BackForwardGoToItem"
           /\ ~Uncreated'
<1>1. /\ toWeb \in Seq(WebMessage) /\ Len(toWeb) \in Nat
      /\ toUI \in Seq(UIMessage) /\ Len(toUI) \in Nat
  BY PageTypes DEF PageIInv
<1>2. /\ toWeb' \in Seq(WebMessage) /\ Len(toWeb') \in Nat
      /\ \E d \in {0, 1} :
           /\ Len(toWeb') + d = Len(toWeb)
           /\ \A k \in 1 .. Len(toWeb') : toWeb'[k] = toWeb[k + d]
           /\ d = 1 => toWeb[1].name # "DidRemoveBackForwardItem"
  <2>1. CASE toWeb' = toWeb
    BY <1>1, <2>1
  <2>2. CASE toWeb # << >> /\ Head(toWeb).name # "DidRemoveBackForwardItem" /\ toWeb' = Tail(toWeb)
    <3>1. /\ Tail(toWeb) \in Seq(WebMessage) /\ Len(Tail(toWeb)) \in Nat
          /\ Head(toWeb) = toWeb[1] /\ Taken(toWeb, Tail(toWeb))
      BY <1>1, <2>2, TailTakes
    <3>2. /\ Len(toWeb') + 1 = Len(toWeb)
          /\ \A k \in 1 .. Len(toWeb') : toWeb'[k] = toWeb[k + 1]
          /\ toWeb[1].name # "DidRemoveBackForwardItem"
      BY <1>1, <2>2, <3>1 DEF Taken
    <3> QED
      BY <2>2, <3>1, <3>2
  <2> QED
    BY <2>1, <2>2 DEF LoadStep
<1>3. /\ toUI' \in Seq(UIMessage) /\ Len(toUI') \in Nat /\ Len(toUI) <= Len(toUI')
      /\ \A k \in 1 .. Len(toUI) : toUI'[k] = toUI[k]
      /\ \A k \in 1 .. Len(toUI') :
           k \in 1 .. Len(toUI) \/ toUI'[k].name = "BackForwardGoToItem"
  <2>1. CASE toUI' = toUI
    BY <1>1, <2>1
  <2>2. ASSUME NEW i \in ItemOrNone, toUI' = Append(toUI, Msg("BackForwardGoToItem", i))
        PROVE  <1>3!:
    <3>1. Msg("BackForwardGoToItem", i) \in UIMessage
      BY MsgTypes DEF ToUINames
    <3>2. /\ toUI' \in Seq(UIMessage)
          /\ Len(toUI') = Len(toUI) + 1
          /\ \A k \in 1 .. Len(toUI) : toUI'[k] = toUI[k]
          /\ toUI'[Len(toUI) + 1] = Msg("BackForwardGoToItem", i)
      BY <1>1, <2>2, <3>1, AppendProperties
    <3>3. Msg("BackForwardGoToItem", i).name = "BackForwardGoToItem"
      BY DEF Msg
    <3>4. \A k \in 1 .. Len(toUI') : k \in 1 .. Len(toUI) \/ k = Len(toUI) + 1
      BY <1>1, <3>2
    <3> QED
      BY <1>1, <3>2, <3>3, <3>4
  <2> QED
    BY <2>1, <2>2 DEF LoadStep
<1>4. ~Uncreated'
  <2> SUFFICES ASSUME toWeb' # << >>, toWeb'[1].name = "CreateWebPage" PROVE FALSE
    BY DEF Uncreated
  <2>1. PICK d \in {0, 1} :
           /\ Len(toWeb') + d = Len(toWeb)
           /\ \A k \in 1 .. Len(toWeb') : toWeb'[k] = toWeb[k + d]
    BY <1>2
  <2>2. 1 \in 1 .. Len(toWeb')
    BY <1>2, EmptySeq
  <2>3. toWeb[1 + d].name = "CreateWebPage" /\ toWeb # << >>
    BY <1>1, <1>2, <2>1, <2>2
  <2>4. CASE d = 0
    BY <2>3, <2>4 DEF LoadStep, Uncreated
  <2>5. CASE d = 1
    <3>1. 1 + d \in 2 .. Len(toWeb)
      BY <1>1, <2>1, <2>2, <2>5
    <3> QED
      BY <2>3, <3>1 DEF PageIInv, CreateFirst
  <2> QED
    BY <2>4, <2>5
<1> QED
  BY <1>2, <1>3, <1>4

\* The list alone.
LEMMA ListFrame ==
    ASSUME IInv, UNCHANGED listVars
    PROVE  /\ IInv'
           /\ m_page' = m_page /\ m_entries' = m_entries /\ added' = added
           /\ currentItem' = currentItem
           /\ Items(m_entries)' = Items(m_entries)
<1>1. /\ m_page' = m_page /\ m_entries' = m_entries /\ added' = added /\ removed' = removed
      /\ m_hasCurrentIndex' = m_hasCurrentIndex /\ m_currentIndex' = m_currentIndex
  BY DEF listVars, vars
<1>2. IInv'
  BY <1>1 DEF IInv, TypeOK, ListConsistent, Chronological, ItemConservation, Items
<1>3. currentItem' = currentItem /\ Items(m_entries)' = Items(m_entries)
  BY <1>1 DEF currentItem, Items
<1> QED
  BY <1>1, <1>2, <1>3

\* A step of this kind keeps what does not depend on loads.
LEMMA LoadStepShared ==
    ASSUME PageIInv, LoadStep
    PROVE  SharedInv'
<1>1. /\ Len(toWeb) \in Nat /\ Len(toUI) \in Nat
      /\ toWeb \in Seq(WebMessage) /\ toUI \in Seq(UIMessage)
  BY PageTypes DEF PageIInv
<1>2. PICK d \in {0, 1} :
        /\ Len(toWeb') + d = Len(toWeb)
        /\ \A k \in 1 .. Len(toWeb') : toWeb'[k] = toWeb[k + d]
        /\ d = 1 => toWeb[1].name # "DidRemoveBackForwardItem"
  BY LoadStepChannels
<1>3. /\ Len(toWeb') \in Nat /\ Len(toUI') \in Nat /\ Len(toUI) <= Len(toUI')
      /\ \A k \in 1 .. Len(toUI) : toUI'[k] = toUI[k]
      /\ \A k \in 1 .. Len(toUI') :
           k \in 1 .. Len(toUI) \/ toUI'[k].name = "BackForwardGoToItem"
      /\ ~Uncreated' /\ ~Uncreated
  BY LoadStepChannels DEF LoadStep
<1>4. /\ UNCHANGED listVars
      /\ m_isValid' = m_isValid /\ backForwardListItemMap' = backForwardListItemMap
      /\ highestUsedItemID' = highestUsedItemID
      /\ running' = running /\ uniqueHistoryItemID' = uniqueHistoryItemID
      /\ idToHistoryItemMap' = idToHistoryItemMap
      /\ running
  BY DEF LoadStep, uiVars, mapVars
<1>5. /\ IInv'
      /\ m_page' = m_page /\ m_entries' = m_entries /\ added' = added
      /\ Items(m_entries)' = Items(m_entries)
  BY <1>4, ListFrame DEF PageIInv
<1>6. \A k \in 1 .. Len(toWeb') : k + d \in 1 .. Len(toWeb) /\ toWeb'[k] = toWeb[k + d]
  BY <1>1, <1>2, <1>3
<1>7. ProcessSeen'
  BY <1>4 DEF PageIInv, ProcessSeen
<1>8. CreateFirst'
  <2>1. ASSUME NEW k \in 2 .. Len(toWeb') PROVE toWeb'[k].name # "CreateWebPage"
    <3>1. k \in 1 .. Len(toWeb') /\ k + d \in 2 .. Len(toWeb)
      BY <1>1, <1>2, <1>3
    <3> QED
      BY <1>6, <3>1 DEF PageIInv, CreateFirst
  <2> QED
    BY <1>3, <2>1 DEF CreateFirst
<1>9. Counted'
  <2>1. \A k \in 1 .. Len(toUI') :
          toUI'[k].name # "BackForwardGoToItem" => toUI'[k].item <= uniqueHistoryItemID'
    BY <1>3, <1>4 DEF PageIInv, Counted
  <2>2. highestUsedItemID' <= uniqueHistoryItemID'
    BY <1>3, <1>4 DEF PageIInv, Counted
  <2>3. \A i \in added' \cup backForwardListItemMap' : i <= highestUsedItemID'
    BY <1>4, <1>5 DEF PageIInv, Counted
  <2> QED
    BY <2>1, <2>2, <2>3 DEF Counted
<1>10. ArrivalsNew'
  <2> SUFFICES ASSUME NEW k \in 1 .. Len(toUI'), toUI'[k].name # "BackForwardGoToItem"
               PROVE  /\ toUI'[k].name = "BackForwardAddItem" => Arrives(k)'
                      /\ toUI'[k].name = "AddBackForwardItem" => toUI'[k].item \in ItemID
    BY DEF ArrivalsNew
  <2>1. k \in 1 .. Len(toUI) /\ toUI'[k] = toUI[k]
    BY <1>3
  <2>2. ASSUME toUI[k].name = "BackForwardAddItem" PROVE Arrives(k)'
    <3>1. Arrives(k)
      BY <2>1, <2>2 DEF PageIInv, ArrivalsNew
    <3>2. \A j \in 1 .. k - 1 : toUI'[j] = toUI[j]
      BY <1>1, <1>3, <2>1
    <3>3. k > 1 => k - 1 \in 1 .. k - 1
      BY <2>1
    <3> QED
      BY <1>4, <1>5, <2>1, <3>1, <3>2, <3>3 DEF Arrives, Fresh
  <2> QED
    BY <2>1, <2>2 DEF PageIInv, ArrivalsNew
<1>11. ListKnown'
  BY <1>4, <1>5 DEF PageIInv, ListKnown
<1>12. RemovedAdded'
  BY <1>5, <1>6 DEF PageIInv, RemovedAdded
<1>13. GoToKnown'
  <2> SUFFICES ASSUME NEW k \in 1 .. Len(toWeb'), toWeb'[k].name = "GoToItem"
               PROVE  /\ toWeb'[k].item \in idToHistoryItemMap'
                      /\ \A j \in 1 .. k - 1 :
                           toWeb'[j].name = "DidRemoveBackForwardItem" => toWeb'[j].item # toWeb'[k].item
    BY DEF GoToKnown
  <2>1. k + d \in 1 .. Len(toWeb) /\ toWeb'[k] = toWeb[k + d]
    BY <1>6
  <2>2. \A j \in 1 .. k - 1 : j \in 1 .. Len(toWeb') /\ j + d \in 1 .. (k + d) - 1
    BY <1>2, <1>3
  <2> QED
    BY <1>3, <1>4, <1>6, <2>1, <2>2 DEF PageIInv, GoToKnown, Coming
<1>14. Agree'
  <2>1. ASSUME NEW i PROVE Leaving(i)' <=> Leaving(i)
    <3>1. ASSUME Leaving(i)' PROVE Leaving(i)
      BY <1>6, <3>1 DEF Leaving
    <3>2. ASSUME Leaving(i) PROVE Leaving(i)'
      <4>1. PICK k \in 1 .. Len(toWeb) :
              toWeb[k].name = "DidRemoveBackForwardItem" /\ toWeb[k].item = i
        BY <3>2 DEF Leaving
      <4>2. k - d \in 1 .. Len(toWeb') /\ (k - d) + d = k
        BY <1>1, <1>2, <1>3, <4>1
      <4> QED
        BY <1>6, <4>1, <4>2 DEF Leaving
    <3> QED
      BY <3>1, <3>2
  <2>2. ASSUME NEW i PROVE Arriving(i)' <=> Arriving(i)
    <3>1. \A k \in 1 .. Len(toUI) : k \in 1 .. Len(toUI')
      BY <1>1, <1>3
    <3> QED
      BY <1>3, <3>1 DEF Arriving
  <2> QED
    BY <1>3, <1>4, <1>5, <2>1, <2>2 DEF PageIInv, Agree, Coming
<1> QED
  BY <1>5, <1>7, <1>8, <1>9, <1>10, <1>11, <1>12, <1>13, <1>14 DEF SharedInv

\* A process that has done something, or is about to handle another message, has
\* been given its session.
LEMMA HasSession ==
    ASSUME PageIInv,
           \/ m_currentItem # NoItem \/ m_loadType # "None"
           \/ targetItem # NoItem \/ requestedItem # NoItem
           \/ toWeb # << >> /\ Head(toWeb).name # "CreateWebPage"
    PROVE  ~Uncreated
<1>1. CASE toWeb # << >> /\ Head(toWeb).name # "CreateWebPage"
  <2>1. toWeb \in Seq(WebMessage)
    BY PageTypes DEF PageIInv
  <2>2. Head(toWeb) = toWeb[1]
    BY <1>1, <2>1, TailTakes
  <2> QED
    BY <1>1, <2>2 DEF Uncreated
<1> QED
  BY <1>1 DEF PageIInv, CreateFirst

\* The types of what belongs to the loads.
LoadTypesOK ==
    /\ webPage \in BOOLEAN /\ waiting \in BOOLEAN
    /\ m_currentItem \in ItemOrNone /\ m_provisionalItem \in ItemOrNone
    /\ m_loadType \in LoadTypes
    /\ requestedItem \in ItemOrNone /\ targetItem \in ItemOrNone /\ abandoned \in ItemOrNone

\* Types after such a step.
LEMMA LoadStepTypes ==
    ASSUME PageIInv, LoadStep, LoadTypesOK', crashes' = crashes
    PROVE  PageTypeOK'
<1>1. toWeb' \in Seq(WebMessage) /\ toUI' \in Seq(UIMessage)
  BY LoadStepChannels
<1>2. /\ m_isValid' = m_isValid /\ backForwardListItemMap' = backForwardListItemMap
      /\ highestUsedItemID' = highestUsedItemID
      /\ running' = running /\ uniqueHistoryItemID' = uniqueHistoryItemID
      /\ idToHistoryItemMap' = idToHistoryItemMap
  BY DEF LoadStep, uiVars, mapVars
<1>3. PageTypeOK
  BY DEF PageIInv
<1> QED
  BY <1>1, <1>2, <1>3 DEF PageTypeOK, LoadTypesOK, WebMessage, UIMessage

\* The cursor is heading for an item after such a step: because it was before and
\* nothing was sent, or because the list is asked to go there.
LEMMA HeadingAfter ==
    ASSUME PageIInv, LoadStep, NEW i \in ItemOrNone,
           \/ toUI' = toUI /\ Heading(i)
           \/ toUI' = Append(toUI, Msg("BackForwardGoToItem", i))
           \/ i \notin idToHistoryItemMap
    PROVE  Heading(i)'
<1>1. idToHistoryItemMap' = idToHistoryItemMap /\ UNCHANGED listVars
  BY DEF LoadStep, mapVars
<1>2. currentItem' = currentItem /\ Items(m_entries)' = Items(m_entries)
  BY <1>1, ListFrame DEF PageIInv
<1>3. CASE toUI' = toUI /\ Heading(i)
  BY <1>1, <1>2, <1>3 DEF Heading
<1>4. CASE toUI' = Append(toUI, Msg("BackForwardGoToItem", i))
  <2>1. toUI \in Seq(UIMessage) /\ Len(toUI) \in Nat
    BY PageTypes DEF PageIInv
  <2>2. Msg("BackForwardGoToItem", i) \in UIMessage
    BY MsgTypes DEF ToUINames
  <2>3. Len(toUI') = Len(toUI) + 1 /\ toUI'[Len(toUI) + 1] = Msg("BackForwardGoToItem", i)
    BY <1>4, <2>1, <2>2, AppendProperties
  <2>4. Moves(toUI'[Len(toUI) + 1]) /\ toUI'[Len(toUI) + 1].item = i
    BY <2>3 DEF Moves, Msg
  <2>5. /\ Len(toUI) + 1 \in 1 .. Len(toUI')
        /\ \A j \in (Len(toUI) + 1) + 1 .. Len(toUI') : FALSE
    BY <2>1, <2>3
  <2>6. \A k \in 1 .. Len(toUI') : Moves(toUI[k])' <=> Moves(toUI'[k])
    BY DEF Moves
  <2> QED
    BY <2>4, <2>5, <2>6 DEF Heading
<1>5. CASE i \notin idToHistoryItemMap
  BY <1>1, <1>5 DEF Heading
<1> QED
  BY <1>3, <1>4, <1>5

\* What is left to show of such a step: types, and where the cursor is heading.
LEMMA LoadStepIInv ==
    ASSUME PageIInv, LoadStep, LoadTypesOK', LoadHasItem', crashes' = crashes,
           NEW g \in ItemOrNone, GoingTo' = g,
           m_page /\ running => requestedItem' # NoItem \/ Heading(g)'
    PROVE  PageIInv'
<1>1. SharedInv'
  BY LoadStepShared
<1>2. PageTypeOK'
  BY LoadStepTypes
<1>3. CursorFollows'
  <2>1. Heading(GoingTo)' <=> Heading(g)'
    BY DEF Heading
  <2>2. m_page' = m_page /\ running' = running
    BY DEF LoadStep, listVars, vars
  <2> QED
    BY <2>1, <2>2 DEF CursorFollows
<1> QED
  BY <1>1, <1>2, <1>3 DEF SharedInv, PageIInv

\* What is known of the loads before a step.
LEMMA LoadItems ==
    ASSUME PageIInv
    PROVE  /\ LoadTypesOK /\ GoingTo \in ItemOrNone
           /\ m_page /\ running /\ requestedItem = NoItem => Heading(GoingTo)
           /\ NoItem \in ItemOrNone /\ NoItem \notin idToHistoryItemMap
<1>1. LoadTypesOK
  BY DEF PageIInv, PageTypeOK, LoadTypesOK
<1>2. GoingTo \in ItemOrNone
  BY <1>1 DEF LoadTypesOK, GoingTo, Standing
<1>3. NoItem \in ItemOrNone /\ NoItem \notin idToHistoryItemMap
  BY ItemAssumption DEF ItemOrNone, NoItem, PageIInv, PageTypeOK
<1> QED
  BY <1>1, <1>2, <1>3 DEF PageIInv, CursorFollows

\* A step that asks for nothing and leaves the cursor where it is going.
LEMMA StillGoing ==
    ASSUME PageIInv, LoadStep, LoadTypesOK', LoadHasItem', crashes' = crashes, toUI' = toUI,
           GoingTo' = GoingTo, requestedItem = NoItem
    PROVE  PageIInv'
<1>1. PICK g \in ItemOrNone : g = GoingTo
  BY LoadItems
<1>2. GoingTo' = g
  BY <1>1
<1>3. m_page /\ running => Heading(g)
  BY <1>1, LoadItems
<1>4. m_page /\ running => Heading(g)'
  BY <1>3, HeadingAfter
<1> QED
  BY <1>2, <1>4, LoadStepIInv

\* stopAllLoaders preserves the invariant wherever it is called: the cursor of a
\* back/forward load goes back to the displayed page, if there is one.
LEMMA stopAllLoadersStep ==
    ASSUME PageIInv, stopAllLoaders, Idle,
           toWeb # << >>, Head(toWeb).name \notin {"CreateWebPage", "DidRemoveBackForwardItem"},
           toWeb' = Tail(toWeb),
           UNCHANGED <<listVars, uiVars, running, mapVars, m_currentItem, targetItem, crashes>>,
           webPage' \in BOOLEAN, requestedItem' \in ItemOrNone
    PROVE  PageIInv'
<1>1. /\ running /\ requestedItem = NoItem /\ targetItem = NoItem /\ targetItem' = NoItem
      /\ m_provisionalItem' = NoItem /\ m_loadType' = "None" /\ m_currentItem' = m_currentItem
      /\ crashes' = crashes
  BY DEF stopAllLoaders, Idle
<1>2. ~Uncreated
  BY HasSession
<1>3. LoadTypesOK /\ NoItem \in ItemOrNone /\ "None" \in LoadTypes
  BY LoadItems DEF LoadTypes
<1>4. LoadHasItem'
  BY <1>1 DEF LoadHasItem
<1>5. GoingTo' = IF abandoned' = NoItem THEN m_currentItem ELSE abandoned'
  BY <1>1 DEF GoingTo, Standing
<1>6. CASE m_loadType = "BackForward" /\ m_currentItem # NoItem
  <2>1. PICK c \in ItemOrNone : c = m_currentItem
    BY <1>3 DEF LoadTypesOK
  <2>2. PICK i \in ItemOrNone : i = IF c \in idToHistoryItemMap THEN c ELSE NoItem
    BY <1>3
  <2>3. /\ toUI' = Append(toUI, Msg("BackForwardGoToItem", i)) /\ waiting' = TRUE
        /\ abandoned' = abandoned
    BY <1>6, <2>1, <2>2 DEF stopAllLoaders, EndProvisionalLoad, sendSyncGoToItem
  <2>4. LoadStep
    BY <1>1, <1>2, <2>3 DEF LoadStep
  <2>5. Heading(c)'
    <3>1. CASE c \in idToHistoryItemMap
      BY <2>2, <2>3, <2>4, <3>1, HeadingAfter
    <3>2. CASE c \notin idToHistoryItemMap
      BY <2>4, <3>2, HeadingAfter
    <3> QED
      BY <3>1, <3>2
  <2>6. abandoned = NoItem
    BY <1>6 DEF PageIInv, LoadHasItem
  <2>7. GoingTo' = c
    BY <1>5, <2>1, <2>3, <2>6
  <2>8. LoadTypesOK'
    BY <1>1, <1>3, <2>3 DEF LoadTypesOK
  <2> QED
    BY <1>1, <1>4, <2>4, <2>5, <2>7, <2>8, LoadStepIInv
<1>7. CASE ~(m_loadType = "BackForward" /\ m_currentItem # NoItem)
  <2>1. /\ toUI' = toUI /\ waiting' = waiting
        /\ abandoned' = IF m_loadType = "BackForward" THEN m_provisionalItem ELSE abandoned
    BY <1>7 DEF stopAllLoaders, EndProvisionalLoad
  <2>2. LoadStep
    BY <1>1, <1>2, <2>1 DEF LoadStep
  <2>3. m_loadType = "BackForward" => m_provisionalItem # NoItem
    BY DEF PageIInv, LoadHasItem
  <2>4. GoingTo' = GoingTo
    BY <1>1, <1>5, <2>1, <2>3 DEF GoingTo, Standing
  <2>5. LoadTypesOK'
    BY <1>1, <1>3, <2>1 DEF LoadTypesOK
  <2> QED
    BY <1>1, <1>4, <2>1, <2>2, <2>4, <2>5, StillGoing
<1> QED
  BY <1>6, <1>7

\* WebPage::goBack and its like preserve the invariant.
LEMMA goToItemStep ==
    ASSUME PageIInv, goToItem
    PROVE  PageIInv'
<1>1. Idle /\ toWeb # << >> /\ Head(toWeb).name = "GoToItem" /\ toWeb' = Tail(toWeb)
  BY DEF goToItem, ReceiveInWeb
<1>2. /\ UNCHANGED <<listVars, uiVars, running, mapVars>>
      /\ UNCHANGED <<m_currentItem, targetItem, crashes>> /\ webPage' = webPage
  BY DEF goToItem
<1>3. LoadTypesOK /\ requestedItem = NoItem
  BY <1>1, LoadItems DEF Idle
<1>4. requestedItem' \in ItemOrNone
  BY <1>3 DEF goToItem, PageIInv, PageTypeOK, LoadTypesOK, ItemOrNone
<1>5. CASE stopAllLoaders
  BY <1>1, <1>2, <1>3, <1>4, <1>5, stopAllLoadersStep DEF LoadTypesOK
<1>6. CASE UNCHANGED <<m_provisionalItem, m_loadType, abandoned, toUI, waiting>>
  <2>1. LoadStep
    BY <1>1, <1>2, <1>6, HasSession DEF LoadStep, Idle
  <2>2. LoadTypesOK' /\ GoingTo' = GoingTo
    BY <1>2, <1>3, <1>4, <1>6 DEF LoadTypesOK, GoingTo, Standing
  <2>3. LoadHasItem'
    BY <1>6 DEF PageIInv, LoadHasItem
  <2> QED
    BY <1>2, <1>3, <1>6, <2>1, <2>2, <2>3, StillGoing
<1> QED
  BY <1>5, <1>6 DEF goToItem

\* HistoryController::goToItem asks the list to go to the item.
LEMMA setCurrentItemStep ==
    ASSUME PageIInv, setCurrentItem
    PROVE  PageIInv'
<1>1. /\ running /\ requestedItem # NoItem /\ requestedItem' = NoItem /\ waiting' = TRUE
      /\ targetItem' = requestedItem
      /\ UNCHANGED <<listVars, uiVars, toWeb, running, webPage, mapVars, m_currentItem,
                     m_provisionalItem, m_loadType, abandoned, crashes>>
  BY DEF setCurrentItem, sendSyncGoToItem
<1>2. LoadTypesOK /\ NoItem \in ItemOrNone
  BY LoadItems
<1>3. PICK r \in ItemOrNone : r = requestedItem
  BY <1>2 DEF LoadTypesOK
<1>4. PICK i \in ItemOrNone : i = IF r \in idToHistoryItemMap THEN r ELSE NoItem
  BY <1>2
<1>5. toUI' = Append(toUI, Msg("BackForwardGoToItem", i))
  BY <1>3, <1>4 DEF setCurrentItem, sendSyncGoToItem
<1>6. LoadStep
  BY <1>1, <1>5, HasSession DEF LoadStep
<1>7. Heading(r)'
  <2>1. CASE r \in idToHistoryItemMap
    BY <1>4, <1>5, <1>6, <2>1, HeadingAfter
  <2>2. CASE r \notin idToHistoryItemMap
    BY <1>6, <2>2, HeadingAfter
  <2> QED
    BY <2>1, <2>2
<1>8. LoadTypesOK' /\ LoadHasItem' /\ GoingTo' = r
  BY <1>1, <1>2, <1>3 DEF LoadTypesOK, LoadHasItem, GoingTo, PageIInv
<1> QED
  BY <1>1, <1>6, <1>7, <1>8, LoadStepIInv

\* The rest of HistoryController::goToItem preserves the invariant.
LEMMA loadItemStep ==
    ASSUME PageIInv, loadItem
    PROVE  PageIInv'
<1>1. /\ running /\ targetItem # NoItem /\ toUI' = toUI /\ waiting' = waiting /\ webPage' = webPage
      /\ m_provisionalItem' = targetItem /\ m_loadType' = "BackForward" /\ targetItem' = NoItem
      /\ m_currentItem' = m_currentItem /\ requestedItem' = requestedItem /\ abandoned' = NoItem
      /\ crashes' = crashes
  BY DEF loadItem
<1>2. LoadStep
  BY HasSession DEF LoadStep, loadItem
<1>3. LoadTypesOK /\ NoItem \in ItemOrNone /\ "BackForward" \in LoadTypes
  BY LoadItems DEF LoadTypes
<1>4. LoadTypesOK' /\ LoadHasItem' /\ GoingTo' = targetItem /\ GoingTo = targetItem
  BY <1>1, <1>3 DEF LoadTypesOK, LoadHasItem, GoingTo
<1>5. PICK g \in ItemOrNone : g = targetItem
  BY <1>3 DEF LoadTypesOK
<1>6. GoingTo' = g /\ GoingTo = g
  BY <1>4, <1>5
<1>7. m_page /\ running => requestedItem # NoItem \/ Heading(g)
  BY <1>6 DEF PageIInv, CursorFollows
<1>8. m_page /\ running => requestedItem' # NoItem \/ Heading(g)'
  BY <1>1, <1>2, <1>7, HeadingAfter
<1> QED
  BY <1>1, <1>2, <1>4, <1>6, <1>8, LoadStepIInv

\* A load that ends with an error while the provisional item stays, because the load
\* failed or because a new one begins, leaves the cursor where it is going.
LEMMA EndsInPlace ==
    ASSUME PageIInv, EndProvisionalLoad(m_provisionalItem), Idle, ~Uncreated,
           \/ toWeb' = toWeb
           \/ toWeb # << >> /\ Head(toWeb).name # "DidRemoveBackForwardItem" /\ toWeb' = Tail(toWeb),
           m_loadType' \in LoadTypes, m_loadType' # "BackForward",
           UNCHANGED <<listVars, uiVars, running, webPage, mapVars, m_currentItem,
                       m_provisionalItem, requestedItem, targetItem, crashes>>
    PROVE  PageIInv'
<1>1. m_loadType = "BackForward" => m_provisionalItem # NoItem
  BY DEF PageIInv, LoadHasItem
<1>2. /\ toUI' = toUI /\ waiting' = waiting
      /\ abandoned' = IF m_loadType = "BackForward" THEN m_provisionalItem ELSE abandoned
  BY <1>1 DEF EndProvisionalLoad
<1>3. running /\ requestedItem = NoItem /\ targetItem = NoItem
  BY DEF Idle
<1>4. LoadStep
  BY <1>2, <1>3 DEF LoadStep
<1>5. LoadTypesOK
  BY LoadItems
<1>6. LoadTypesOK' /\ LoadHasItem'
  BY <1>2, <1>5 DEF LoadTypesOK, LoadHasItem
<1>7. GoingTo' = GoingTo
  BY <1>1, <1>2, <1>3 DEF GoingTo, Standing
<1> QED
  BY <1>2, <1>3, <1>4, <1>6, <1>7, StillGoing

\* A new load that ends the one under way, wherever it is asked for.
LEMMA StartLoadStep ==
    ASSUME PageIInv, NEW type \in {"Standard", "Reload"}, StartLoad(type), Idle, ~Uncreated,
           \/ toWeb' = toWeb
           \/ toWeb # << >> /\ Head(toWeb).name # "DidRemoveBackForwardItem" /\ toWeb' = Tail(toWeb)
    PROVE  PageIInv'
<1>1. m_loadType' \in LoadTypes /\ m_loadType' # "BackForward"
  BY DEF StartLoad, LoadTypes
<1> QED
  BY <1>1, EndsInPlace DEF StartLoad

\* WebPage::loadURL preserves the invariant.
LEMMA loadURLStep ==
    ASSUME PageIInv, loadURL
    PROVE  PageIInv'
<1>1. Idle /\ toWeb # << >> /\ Head(toWeb).name = "LoadURL" /\ toWeb' = Tail(toWeb)
  BY DEF loadURL, ReceiveInWeb
<1>2. PICK type \in {"Standard", "Reload"} : StartLoad(type)
  BY DEF loadURL, NewLoadTypes
<1> QED
  BY <1>1, <1>2, HasSession, StartLoadStep

\* WebPage::reload preserves the invariant.
LEMMA reloadFrameStep ==
    ASSUME PageIInv, reloadFrame
    PROVE  PageIInv'
<1>1. Idle /\ toWeb # << >> /\ Head(toWeb).name = "Reload" /\ toWeb' = Tail(toWeb)
  BY DEF reloadFrame, ReceiveInWeb
<1>2. CASE StartLoad("Reload")
  BY <1>1, <1>2, HasSession, StartLoadStep
<1>3. CASE UNCHANGED <<listVars, uiVars, toUI, webVars, crashes>>
  <2>1. /\ UNCHANGED <<listVars, uiVars, running, mapVars>> /\ UNCHANGED loadVars
        /\ toUI' = toUI /\ crashes' = crashes /\ webPage' = webPage /\ waiting' = waiting
    BY <1>3 DEF webVars
  <2>2. LoadStep /\ requestedItem = NoItem
    BY <1>1, <2>1, HasSession DEF LoadStep, Idle
  <2>3. LoadTypesOK' /\ GoingTo' = GoingTo
    BY <2>1, LoadItems DEF loadVars, LoadTypesOK, GoingTo, Standing
  <2>4. LoadHasItem'
    BY <2>1 DEF loadVars, PageIInv, LoadHasItem
  <2> QED
    BY <2>1, <2>2, <2>3, <2>4, StillGoing
<1> QED
  BY <1>2, <1>3 DEF reloadFrame

\* A link followed preserves the invariant.
LEMMA followLinkStep ==
    ASSUME PageIInv, followLink
    PROVE  PageIInv'
<1>1. Idle /\ m_currentItem # NoItem /\ toWeb' = toWeb
  BY DEF followLink
<1>2. PICK type \in {"Standard", "Reload"} : StartLoad(type)
  BY DEF followLink, NewLoadTypes
<1> QED
  BY <1>1, <1>2, HasSession, StartLoadStep

\* A load that fails preserves the invariant.
LEMMA mainReceivedErrorStep ==
    ASSUME PageIInv, mainReceivedError
    PROVE  PageIInv'
<1>1. ~Uncreated
  BY HasSession DEF mainReceivedError
<1>2. m_loadType' \in LoadTypes /\ m_loadType' # "BackForward"
  BY DEF mainReceivedError, LoadTypes
<1> QED
  BY <1>1, <1>2, EndsInPlace DEF mainReceivedError

\* Stopping preserves the invariant.
LEMMA stopLoadingStep ==
    ASSUME PageIInv, stopLoading
    PROVE  PageIInv'
<1>1. Idle /\ toWeb # << >> /\ Head(toWeb).name = "StopLoading" /\ toWeb' = Tail(toWeb)
  BY DEF stopLoading, ReceiveInWeb
<1>2. webPage' \in BOOLEAN /\ requestedItem' \in ItemOrNone
  BY LoadItems DEF stopLoading, LoadTypesOK
<1> QED
  BY <1>1, <1>2, stopAllLoadersStep DEF stopLoading

\* The commit of a back/forward load preserves the invariant.
LEMMA commitBackForwardLoadStep ==
    ASSUME PageIInv, commitBackForwardLoad
    PROVE  PageIInv'
<1>1. /\ UNCHANGED <<listVars, uiVars, running, mapVars>> /\ toWeb' = toWeb /\ toUI' = toUI
      /\ webPage' = webPage /\ m_loadType' = "None" /\ crashes' = crashes /\ waiting' = waiting
      /\ m_currentItem' = m_provisionalItem /\ m_provisionalItem' = NoItem
      /\ targetItem' = targetItem /\ targetItem = NoItem
      /\ requestedItem' = requestedItem /\ requestedItem = NoItem
      /\ abandoned' = NoItem /\ m_loadType = "BackForward" /\ running
  BY DEF commitBackForwardLoad, Idle
<1>2. LoadStep
  BY <1>1, HasSession DEF LoadStep
<1>3. LoadTypesOK /\ NoItem \in ItemOrNone /\ "None" \in LoadTypes
  BY LoadItems DEF LoadTypes
<1>4. LoadTypesOK' /\ LoadHasItem' /\ GoingTo' = GoingTo
  BY <1>1, <1>3 DEF LoadTypesOK, LoadHasItem, GoingTo, Standing
<1> QED
  BY <1>1, <1>2, <1>4, StillGoing

\* The commit of a reload preserves the invariant.
LEMMA commitReloadStep ==
    ASSUME PageIInv, commitReload
    PROVE  PageIInv'
<1>1. /\ UNCHANGED <<listVars, uiVars, running, mapVars>> /\ toWeb' = toWeb /\ toUI' = toUI
      /\ webPage' = webPage /\ m_loadType' = "None" /\ crashes' = crashes /\ waiting' = waiting
      /\ UNCHANGED <<m_currentItem, m_provisionalItem, targetItem, requestedItem, abandoned>>
      /\ requestedItem = NoItem /\ m_loadType = "Reload" /\ running
  BY DEF commitReload, Idle
<1>2. LoadStep
  BY <1>1, HasSession DEF LoadStep
<1>3. LoadTypesOK /\ "None" \in LoadTypes
  BY LoadItems DEF LoadTypes
<1>4. LoadTypesOK' /\ LoadHasItem' /\ GoingTo' = GoingTo
  BY <1>1, <1>3 DEF LoadTypesOK, LoadHasItem, GoingTo, Standing
<1> QED
  BY <1>1, <1>2, <1>4, StillGoing

\* WebPage::close preserves the invariant.
LEMMA closeWebPageStep ==
    ASSUME PageIInv, closeWebPage
    PROVE  PageIInv'
<1>1. Idle /\ toWeb # << >> /\ Head(toWeb).name = "Close" /\ toWeb' = Tail(toWeb)
  BY DEF closeWebPage, ReceiveInWeb
<1>2. webPage' \in BOOLEAN /\ requestedItem' \in ItemOrNone
  BY LoadItems DEF closeWebPage, LoadTypesOK
<1> QED
  BY <1>1, <1>2, stopAllLoadersStep DEF closeWebPage

\* Where the loads stay as they are, the cursor goes where it went if every item it
\* may be heading for stays one.
LEMMA FollowsStill ==
    ASSUME CursorFollows, UNCHANGED loadVars, m_page' = m_page, running' = running,
           \A i : (m_page /\ running /\ Heading(i)) => Heading(i)'
    PROVE  CursorFollows'
<1>1. PICK g : g = GoingTo
  OBVIOUS
<1>2. GoingTo' = g /\ requestedItem' = requestedItem
  BY <1>1 DEF loadVars, GoingTo, Standing
<1>3. (m_page /\ running /\ Heading(g)) => Heading(g)'
  OBVIOUS
<1>4. Heading(GoingTo)' <=> Heading(g)'
  BY <1>2 DEF Heading
<1> QED
  BY <1>1, <1>2, <1>3, <1>4 DEF CursorFollows

-----------------------------------------------------------------------------
(* Steps of the web process that change its map.                           *)

\* The first message of W is taken and it is not about a removal: what is left to be
\* removed stays.
LEMMA TakenLeaving ==
    ASSUME PageTypeOK, Taken(toWeb, toWeb'), Len(toWeb') \in Nat, NEW i,
           toWeb[1].name # "DidRemoveBackForwardItem" \/ toWeb[1].item # i
    PROVE  Leaving(i)' <=> Leaving(i)
<1>1. Len(toWeb) \in Nat
  BY PageTypes
<1>2. \A k \in 1 .. Len(toWeb') : k + 1 \in 1 .. Len(toWeb) /\ toWeb'[k] = toWeb[k + 1]
  BY <1>1 DEF Taken
<1>3. ASSUME Leaving(i)' PROVE Leaving(i)
  BY <1>2, <1>3 DEF Leaving
<1>4. ASSUME Leaving(i) PROVE Leaving(i)'
  <2>1. PICK k \in 1 .. Len(toWeb) :
          toWeb[k].name = "DidRemoveBackForwardItem" /\ toWeb[k].item = i
    BY <1>4 DEF Leaving
  <2>2. k - 1 \in 1 .. Len(toWeb') /\ (k - 1) + 1 = k
    BY <1>1, <2>1 DEF Taken
  <2> QED
    BY <1>2, <2>1, <2>2 DEF Leaving
<1> QED
  BY <1>3, <1>4

\* A new identifier is odd and not below the ones in use.
LEMMA HighestTaken ==
    ASSUME NEW h \in Nat, uniqueHistoryItemID = 1, setHighestItemIDFromUIProcess(h)
    PROVE  /\ uniqueHistoryItemID' \in Nat /\ uniqueHistoryItemID' % 2 = 1
           /\ h <= uniqueHistoryItemID'
<1>1. CASE h <= 1
  BY <1>1 DEF setHighestItemIDFromUIProcess
<1>2. CASE ~(h <= 1) /\ h % 2 = 1
  BY <1>2 DEF setHighestItemIDFromUIProcess
<1>3. CASE ~(h <= 1) /\ h % 2 # 1
  BY <1>3 DEF setHighestItemIDFromUIProcess
<1> QED
  BY <1>1, <1>2, <1>3

\* The constructor of WebPage preserves the invariant.
LEMMA CreateWebPageStep ==
    ASSUME PageIInv, CreateWebPage
    PROVE  PageIInv'
<1>0. PageTypeOK /\ CreateFirst /\ IInv
  BY DEF PageIInv
<1>1. Idle /\ toWeb # << >> /\ Head(toWeb).name = "CreateWebPage" /\ toWeb' = Tail(toWeb)
  BY DEF CreateWebPage, ReceiveInWeb
<1>2. /\ toWeb \in Seq(WebMessage) /\ Len(toWeb) \in Nat
      /\ toUI \in Seq(UIMessage) /\ Len(toUI) \in Nat
      /\ highestUsedItemID \in Nat /\ uniqueHistoryItemID \in Nat
  BY <1>0, PageTypes
<1>3. /\ toWeb' \in Seq(WebMessage) /\ Len(toWeb') \in Nat
      /\ Head(toWeb) = toWeb[1] /\ toWeb[1] \in WebMessage /\ Taken(toWeb, toWeb')
  BY <1>1, <1>2, TailTakes
<1>4. Uncreated
  BY <1>1, <1>3 DEF Uncreated
<1>5. /\ toWeb[1].highest = highestUsedItemID /\ toUI = << >> /\ uniqueHistoryItemID = 1
      /\ idToHistoryItemMap = {} /\ m_currentItem = NoItem /\ m_provisionalItem = NoItem
      /\ m_loadType = "None" /\ targetItem = NoItem /\ abandoned = NoItem
  BY <1>0, <1>4 DEF CreateFirst
<1>6. toWeb[1].items \subseteq ItemID
  BY <1>1, <1>3, MsgFields
<1>7. /\ webPage' = TRUE /\ idToHistoryItemMap' = toWeb[1].items
      /\ UNCHANGED listVars /\ toUI' = toUI /\ running' = running /\ running
      /\ m_isValid' = m_isValid /\ backForwardListItemMap' = backForwardListItemMap
      /\ highestUsedItemID' = highestUsedItemID
      /\ m_currentItem' = m_currentItem /\ m_provisionalItem' = m_provisionalItem
      /\ m_loadType' = m_loadType /\ targetItem' = targetItem /\ abandoned' = abandoned
      /\ requestedItem' = requestedItem
      /\ waiting' = waiting /\ crashes' = crashes
  BY <1>1, <1>3, <1>5 DEF CreateWebPage, uiVars, loadVars, Idle
<1>8. /\ uniqueHistoryItemID' \in Nat /\ uniqueHistoryItemID' % 2 = 1
      /\ highestUsedItemID <= uniqueHistoryItemID'
  BY <1>2, <1>3, <1>5, HighestTaken DEF CreateWebPage
<1>9. /\ IInv'
      /\ m_page' = m_page /\ m_entries' = m_entries /\ added' = added
      /\ Items(m_entries)' = Items(m_entries)
  BY <1>0, <1>7, ListFrame
<1>10. \A k \in 1 .. Len(toWeb') : k + 1 \in 2 .. Len(toWeb) /\ toWeb'[k] = toWeb[k + 1]
  BY <1>2, <1>3 DEF Taken
<1>11. \A k \in 1 .. Len(toWeb') : toWeb'[k].name # "CreateWebPage"
  BY <1>0, <1>10 DEF CreateFirst
<1>12. ~Uncreated'
  BY <1>3, <1>11, EmptySeq DEF Uncreated
<1>13. PageTypeOK'
  BY <1>0, <1>3, <1>6, <1>7, <1>8, <1>2 DEF PageTypeOK, WebMessage, UIMessage
<1>14. ProcessSeen'
  BY <1>7 DEF PageIInv, ProcessSeen
<1>15. CreateFirst'
  <2>1. \A k \in 2 .. Len(toWeb') : k \in 1 .. Len(toWeb')
    BY <1>3
  <2> QED
    BY <1>11, <1>12, <2>1 DEF CreateFirst
<1>16. Len(toUI') = 0
  BY <1>5, <1>7
<1>17. Counted'
  <2>1. \A i \in added' \cup backForwardListItemMap' : i <= highestUsedItemID'
    BY <1>7, <1>9 DEF PageIInv, Counted
  <2>2. highestUsedItemID' <= uniqueHistoryItemID'
    BY <1>7, <1>8
  <2>3. \A k \in 1 .. Len(toUI') : FALSE
    BY <1>16
  <2> QED
    BY <2>1, <2>2, <2>3 DEF Counted
<1>18. ArrivalsNew'
  BY <1>16 DEF ArrivalsNew
<1>19. ListKnown'
  BY <1>7, <1>9 DEF PageIInv, ListKnown
<1>20. RemovedAdded'
  <2>1. \A k \in 1 .. Len(toWeb') : k + 1 \in 1 .. Len(toWeb) /\ toWeb'[k] = toWeb[k + 1]
    BY <1>2, <1>10
  <2> QED
    BY <1>9, <2>1 DEF PageIInv, RemovedAdded
<1>21. GoToKnown'
  <2> SUFFICES ASSUME NEW k \in 1 .. Len(toWeb'), toWeb'[k].name = "GoToItem"
               PROVE  /\ toWeb'[k].item \in idToHistoryItemMap'
                      /\ \A j \in 1 .. k - 1 :
                           toWeb'[j].name = "DidRemoveBackForwardItem" => toWeb'[j].item # toWeb'[k].item
    BY DEF GoToKnown
  <2>1. k + 1 \in 1 .. Len(toWeb) /\ toWeb'[k] = toWeb[k + 1]
    BY <1>2, <1>10
  <2>2. /\ toWeb[k + 1].item \in toWeb[1].items
        /\ \A j \in 1 .. (k + 1) - 1 :
             toWeb[j].name = "DidRemoveBackForwardItem" => toWeb[j].item # toWeb[k + 1].item
    BY <1>5, <2>1 DEF PageIInv, GoToKnown, Coming
  <2>3. \A j \in 1 .. k - 1 : /\ j \in 1 .. Len(toWeb') /\ j + 1 \in 1 .. (k + 1) - 1
                              /\ toWeb'[j] = toWeb[j + 1]
    BY <1>3, <1>10
  <2> QED
    BY <1>7, <2>1, <2>2, <2>3
<1>22. Agree'
  <2>1. \A i : Leaving(i)' <=> Leaving(i)
    BY <1>0, <1>1, <1>3, TakenLeaving
  <2>2. \A i : Arriving(i)' <=> Arriving(i)
    BY <1>7 DEF Arriving
  <2>3. \A i : (i \in idToHistoryItemMap' \/ Coming(i)') <=> (i \in idToHistoryItemMap \/ Coming(i))
    BY <1>4, <1>5, <1>7, <1>12 DEF Coming
  <2> QED
    BY <1>7, <1>9, <2>1, <2>2, <2>3 DEF PageIInv, Agree
<1>23. LoadHasItem'
  BY <1>5, <1>7 DEF LoadHasItem
<1>24. CursorFollows'
  <2>1. GoingTo' = NoItem
    BY <1>5, <1>7 DEF GoingTo, Standing
  <2>2. NoItem \notin idToHistoryItemMap'
    BY <1>6, <1>7, ItemAssumption DEF NoItem
  <2> QED
    BY <2>1, <2>2 DEF CursorFollows, Heading
<1> QED
  BY <1>9, <1>13, <1>14, <1>15, <1>17, <1>18, <1>19, <1>20, <1>21, <1>22, <1>23, <1>24 DEF PageIInv

\* WebBackForwardListProxy::removeItem preserves the invariant.
LEMMA didRemoveBackForwardItemStep ==
    ASSUME PageIInv, didRemoveBackForwardItem
    PROVE  PageIInv'
<1>0. PageTypeOK /\ CreateFirst /\ IInv
  BY DEF PageIInv
<1>1. /\ Idle /\ toWeb # << >> /\ Head(toWeb).name = "DidRemoveBackForwardItem"
      /\ toWeb' = Tail(toWeb)
  BY DEF didRemoveBackForwardItem, ReceiveInWeb
<1>2. /\ toWeb \in Seq(WebMessage) /\ Len(toWeb) \in Nat
      /\ toUI \in Seq(UIMessage) /\ Len(toUI) \in Nat
  BY <1>0, PageTypes
<1>3. /\ toWeb' \in Seq(WebMessage) /\ Len(toWeb') \in Nat
      /\ Head(toWeb) = toWeb[1] /\ toWeb[1] \in WebMessage /\ Taken(toWeb, toWeb')
  BY <1>1, <1>2, TailTakes
<1>4. ~Uncreated
  BY <1>1, HasSession
<1>5. /\ idToHistoryItemMap' = idToHistoryItemMap \ {toWeb[1].item}
      /\ UNCHANGED listVars /\ toUI' = toUI /\ running' = running /\ running
      /\ m_isValid' = m_isValid /\ backForwardListItemMap' = backForwardListItemMap
      /\ highestUsedItemID' = highestUsedItemID /\ uniqueHistoryItemID' = uniqueHistoryItemID
      /\ m_currentItem' = m_currentItem /\ m_provisionalItem' = m_provisionalItem
      /\ m_loadType' = m_loadType /\ targetItem' = targetItem /\ abandoned' = abandoned
      /\ requestedItem' = requestedItem
      /\ waiting' = waiting /\ crashes' = crashes /\ webPage' = webPage
  BY <1>1, <1>3 DEF didRemoveBackForwardItem, uiVars, loadVars, Idle
<1>6. /\ IInv'
      /\ m_page' = m_page /\ m_entries' = m_entries /\ added' = added
      /\ Items(m_entries)' = Items(m_entries) /\ currentItem' = currentItem
  BY <1>0, <1>5, ListFrame
<1>7. \A k \in 1 .. Len(toWeb') : k + 1 \in 2 .. Len(toWeb) /\ toWeb'[k] = toWeb[k + 1]
  BY <1>2, <1>3 DEF Taken
<1>8. \A k \in 1 .. Len(toWeb') : toWeb'[k].name # "CreateWebPage"
  BY <1>0, <1>7 DEF CreateFirst
<1>9. ~Uncreated'
  BY <1>3, <1>8, EmptySeq DEF Uncreated
<1>10. PageTypeOK'
  BY <1>0, <1>2, <1>3, <1>5 DEF PageTypeOK, WebMessage, UIMessage
<1>11. ProcessSeen'
  BY <1>5 DEF PageIInv, ProcessSeen
<1>12. CreateFirst'
  <2>1. \A k \in 2 .. Len(toWeb') : k \in 1 .. Len(toWeb')
    BY <1>3
  <2> QED
    BY <1>8, <1>9, <2>1 DEF CreateFirst
<1>13. Counted'
  BY <1>4, <1>5, <1>6, <1>9 DEF PageIInv, Counted
<1>14. ArrivalsNew'
  <2>1. \A k \in 1 .. Len(toUI) : Arrives(k) => Arrives(k)'
    BY <1>5, <1>6 DEF Arrives, Fresh
  <2> QED
    BY <1>5, <2>1 DEF PageIInv, ArrivalsNew
<1>15. ListKnown'
  BY <1>5, <1>6 DEF PageIInv, ListKnown
<1>16. \A k \in 1 .. Len(toWeb') : k + 1 \in 1 .. Len(toWeb) /\ toWeb'[k] = toWeb[k + 1]
  BY <1>2, <1>7
<1>17. RemovedAdded'
  BY <1>6, <1>16 DEF PageIInv, RemovedAdded
<1>18. GoToKnown'
  <2> SUFFICES ASSUME NEW k \in 1 .. Len(toWeb'), toWeb'[k].name = "GoToItem"
               PROVE  /\ toWeb'[k].item \in idToHistoryItemMap'
                      /\ \A j \in 1 .. k - 1 :
                           toWeb'[j].name = "DidRemoveBackForwardItem" => toWeb'[j].item # toWeb'[k].item
    BY DEF GoToKnown
  <2>1. k + 1 \in 1 .. Len(toWeb) /\ toWeb'[k] = toWeb[k + 1] /\ 1 \in 1 .. (k + 1) - 1
    BY <1>3, <1>16
  <2>2. /\ toWeb[k + 1].item \in idToHistoryItemMap
        /\ \A j \in 1 .. (k + 1) - 1 :
             toWeb[j].name = "DidRemoveBackForwardItem" => toWeb[j].item # toWeb[k + 1].item
    BY <1>4, <2>1 DEF PageIInv, GoToKnown, Coming
  <2>3. \A j \in 1 .. k - 1 : /\ j \in 1 .. Len(toWeb') /\ j + 1 \in 1 .. (k + 1) - 1
                              /\ toWeb'[j] = toWeb[j + 1]
    BY <1>3, <1>16
  <2>4. toWeb[1].item # toWeb[k + 1].item
    BY <1>1, <1>3, <2>1, <2>2
  <2> QED
    BY <1>5, <2>1, <2>2, <2>3, <2>4
<1>19. Agree'
  <2>1. Leaving(toWeb[1].item)
    <3>1. 1 \in 1 .. Len(toWeb)
      BY <1>2, <1>3 DEF Taken
    <3> QED
      BY <1>1, <1>3, <3>1 DEF Leaving
  <2>2. \A i : i # toWeb[1].item => (Leaving(i)' <=> Leaving(i))
    BY <1>0, <1>3, TakenLeaving
  <2>3. \A i : Arriving(i)' <=> Arriving(i)
    BY <1>5 DEF Arriving
  <2> QED
    BY <1>4, <1>5, <1>6, <1>9, <2>1, <2>2, <2>3 DEF PageIInv, Agree, Coming
<1>20. LoadHasItem'
  BY <1>5 DEF PageIInv, LoadHasItem
<1>21. CursorFollows'
  <2>1. \A i : Heading(i) => Heading(i)'
    BY <1>5, <1>6 DEF Heading
  <2> QED
    BY <1>5, <1>6, <2>1, FollowsStill DEF PageIInv, loadVars
<1> QED
  BY <1>6, <1>10, <1>11, <1>12, <1>13, <1>14, <1>15, <1>17, <1>18, <1>19, <1>20, <1>21 DEF PageIInv

\* The commit of a page with an item of its own preserves the invariant.
LEMMA commitStandardLoadStep ==
    ASSUME PageIInv, commitStandardLoad
    PROVE  PageIInv'
<1>0. PageTypeOK /\ CreateFirst /\ IInv
  BY DEF PageIInv
<1>1. /\ toWeb \in Seq(WebMessage) /\ Len(toWeb) \in Nat
      /\ toUI \in Seq(UIMessage) /\ Len(toUI) \in Nat
      /\ highestUsedItemID \in Nat /\ uniqueHistoryItemID \in Nat
      /\ \A k \in 1 .. Len(toUI) : toUI[k].item \in Nat
  BY <1>0, PageTypes
<1>2. running /\ requestedItem = NoItem /\ targetItem = NoItem /\ m_loadType = "Standard"
  BY DEF commitStandardLoad, Idle
<1>3. ~Uncreated
  BY <1>2, HasSession
<1>4. PICK x \in ItemID : x = uniqueHistoryItemID + 2
  BY DEF commitStandardLoad
<1> DEFINE m == <<Msg("AddBackForwardItem", x), Msg("BackForwardAddItem", x)>>
<1>5. /\ uniqueHistoryItemID' = x /\ idToHistoryItemMap' = idToHistoryItemMap \cup {x}
      /\ m_currentItem' = x /\ toUI' = toUI \o m
      /\ m_loadType' = "None" /\ abandoned' = NoItem
  BY <1>4 DEF commitStandardLoad
<1>6. /\ UNCHANGED listVars /\ toWeb' = toWeb /\ running' = running
      /\ m_isValid' = m_isValid /\ backForwardListItemMap' = backForwardListItemMap
      /\ highestUsedItemID' = highestUsedItemID
      /\ m_provisionalItem' = m_provisionalItem
      /\ targetItem' = targetItem /\ requestedItem' = requestedItem
      /\ waiting' = waiting /\ crashes' = crashes /\ webPage' = webPage
  BY DEF commitStandardLoad, uiVars
<1>7. x \in Nat /\ x \in ItemOrNone /\ uniqueHistoryItemID < x /\ x % 2 = 1
  <2>1. uniqueHistoryItemID % 2 = 1
    BY <1>0 DEF PageTypeOK
  <2> QED
    BY <1>1, <1>4, <2>1 DEF ItemOrNone
<1>below. \A a \in Nat : a <= uniqueHistoryItemID => a < x /\ a <= x
  BY <1>1, <1>7
<1>8. /\ toUI' \in Seq(UIMessage) /\ Len(toUI') \in Nat /\ Len(toUI') = Len(toUI) + 2
      /\ \A k \in 1 .. Len(toUI) : toUI'[k] = toUI[k]
      /\ toUI'[Len(toUI) + 1] = Msg("AddBackForwardItem", x)
      /\ toUI'[Len(toUI) + 2] = Msg("BackForwardAddItem", x)
  <2>1. Msg("AddBackForwardItem", x) \in UIMessage /\ Msg("BackForwardAddItem", x) \in UIMessage
    BY <1>7, MsgTypes DEF ToUINames
  <2>2. /\ m \in Seq(UIMessage) /\ Len(m) = 2
        /\ m[1] = Msg("AddBackForwardItem", x) /\ m[2] = Msg("BackForwardAddItem", x)
    BY <2>1
  <2> HIDE DEF m
  <2>3. toUI \o m \in Seq(UIMessage) /\ Len(toUI \o m) \in Nat /\ Put(toUI, m, toUI \o m)
    BY <1>1, <2>2, ConcatPuts
  <2> QED
    BY <1>1, <1>5, <2>2, <2>3 DEF Put
<1> HIDE DEF m
<1>9. /\ toUI'[Len(toUI) + 1].name = "AddBackForwardItem" /\ toUI'[Len(toUI) + 1].item = x
      /\ toUI'[Len(toUI) + 2].name = "BackForwardAddItem" /\ toUI'[Len(toUI) + 2].item = x
  BY <1>8 DEF Msg
<1>10. \A k \in 1 .. Len(toUI') : k \in 1 .. Len(toUI) \/ k = Len(toUI) + 1 \/ k = Len(toUI) + 2
  BY <1>1, <1>8
<1>11. /\ IInv'
       /\ m_page' = m_page /\ m_entries' = m_entries /\ added' = added
       /\ Items(m_entries)' = Items(m_entries)
  BY <1>0, <1>6, ListFrame
<1>12. highestUsedItemID <= uniqueHistoryItemID
  BY <1>2, <1>3 DEF PageIInv, Counted
<1>13. added \subseteq Nat /\ \A a \in added : a < x
  <2>1. added \subseteq Nat
    BY <1>0, ItemAssumption DEF IInv, TypeOK
  <2>2. \A a \in added : a <= highestUsedItemID
    BY DEF PageIInv, Counted
  <2> QED
    BY <1>1, <1>7, <1>12, <2>1, <2>2
<1>14. \A k \in 1 .. Len(toUI) :
         toUI[k].name # "BackForwardGoToItem" => toUI[k].item <= uniqueHistoryItemID
  BY <1>2 DEF PageIInv, Counted
<1>15. ~Uncreated'
  BY <1>3, <1>6 DEF Uncreated
<1>16. PageTypeOK'
  <2>1. /\ m_currentItem' \in ItemOrNone /\ idToHistoryItemMap' \subseteq ItemID
        /\ uniqueHistoryItemID' \in Nat /\ uniqueHistoryItemID' % 2 = 1
        /\ m_loadType' \in LoadTypes /\ abandoned' \in ItemOrNone
    BY <1>0, <1>5, <1>7 DEF PageTypeOK, LoadTypes, ItemOrNone
  <2> QED
    BY <1>0, <1>1, <1>6, <1>8, <2>1 DEF PageTypeOK, WebMessage, UIMessage
<1>17. ProcessSeen'
  BY <1>2, <1>6 DEF PageIInv, ProcessSeen
<1>18. CreateFirst'
  BY <1>0, <1>6, <1>15 DEF CreateFirst
<1>19. Counted'
  <2>1. \A i \in added' \cup backForwardListItemMap' : i <= highestUsedItemID'
    BY <1>6, <1>11 DEF PageIInv, Counted
  <2>2. highestUsedItemID' <= uniqueHistoryItemID'
    BY <1>1, <1>5, <1>6, <1>7, <1>12
  <2>3. ASSUME NEW k \in 1 .. Len(toUI'), toUI'[k].name # "BackForwardGoToItem"
        PROVE  toUI'[k].item <= uniqueHistoryItemID'
    <3>1. CASE k \in 1 .. Len(toUI)
      <4>1. toUI'[k] = toUI[k] /\ toUI[k].item <= uniqueHistoryItemID /\ toUI[k].item \in Nat
        BY <1>1, <1>8, <1>14, <2>3, <3>1
      <4> QED
        BY <1>5, <1>below, <4>1
    <3>2. CASE k = Len(toUI) + 1 \/ k = Len(toUI) + 2
      BY <1>5, <1>7, <1>9, <3>2
    <3> QED
      BY <1>10, <3>1, <3>2
  <2> QED
    BY <2>1, <2>2, <2>3 DEF Counted
<1>20. ArrivalsNew'
  <2> SUFFICES ASSUME NEW k \in 1 .. Len(toUI')
               PROVE  /\ toUI'[k].name = "BackForwardAddItem" => Arrives(k)'
                      /\ toUI'[k].name = "AddBackForwardItem" => toUI'[k].item \in ItemID
    BY DEF ArrivalsNew
  <2>1. CASE k \in 1 .. Len(toUI)
    <3>1. ASSUME toUI[k].name = "BackForwardAddItem" PROVE Arrives(k)'
      <4>1. Arrives(k)
        BY <2>1, <3>1 DEF PageIInv, ArrivalsNew
      <4>2. \A j \in 1 .. k - 1 : toUI'[j] = toUI[j]
        BY <1>1, <1>8, <2>1
      <4>3. k > 1 => k - 1 \in 1 .. k - 1
        BY <2>1
      <4>4. toUI'[k] = toUI[k]
        BY <1>8, <2>1
      <4> QED
        BY <1>6, <1>11, <4>1, <4>2, <4>3, <4>4 DEF Arrives, Fresh
    <3> QED
      BY <1>8, <2>1, <3>1 DEF PageIInv, ArrivalsNew
  <2>2. CASE k = Len(toUI) + 1
    BY <1>9, <2>2
  <2>3. CASE k = Len(toUI) + 2
    <3>1. Fresh(toUI[k].item)'
      BY <1>9, <1>11, <1>13, <2>3 DEF Fresh
    <3>2. toUI'[k].item \in ItemID /\ ~(k = 1)
      BY <1>1, <1>9, <2>3
    <3>3. toUI'[k - 1] = Msg("AddBackForwardItem", toUI'[k].item)
      <4>1. k - 1 = Len(toUI) + 1
        BY <1>1, <2>3
      <4> QED
        BY <1>8, <1>9, <2>3, <4>1
    <3>4. ASSUME NEW j \in 1 .. k - 1, toUI'[j].name = "BackForwardAddItem"
          PROVE  toUI'[j].item < toUI'[k].item
      <4>1. j \in 1 .. Len(toUI) \/ j = Len(toUI) + 1
        <5>1. Len(toUI) \in Nat /\ k - 1 = Len(toUI) + 1
          BY <1>1, <2>3
        <5> QED
          BY <5>1
      <4>2. j \in 1 .. Len(toUI)
        BY <1>9, <3>4, <4>1
      <4>3. toUI'[j] = toUI[j] /\ toUI[j].item <= uniqueHistoryItemID /\ toUI[j].item \in Nat
        BY <1>1, <1>8, <1>14, <3>4, <4>2
      <4> QED
        BY <1>below, <1>9, <2>3, <4>3
    <3>5. Msg("AddBackForwardItem", toUI[k].item)' = Msg("AddBackForwardItem", toUI'[k].item)
      BY DEF Msg
    <3>6. Arrives(k)'
      BY <3>1, <3>2, <3>3, <3>4, <3>5 DEF Arrives
    <3> QED
      BY <1>9, <2>3, <3>6
  <2> QED
    BY <1>10, <2>1, <2>2, <2>3
<1>21. ListKnown'
  BY <1>6, <1>11 DEF PageIInv, ListKnown
<1>22. RemovedAdded'
  BY <1>6, <1>11 DEF PageIInv, RemovedAdded
<1>23. GoToKnown'
  BY <1>3, <1>5, <1>6, <1>15 DEF PageIInv, GoToKnown, Coming
<1>24. Agree'
  <2>1. \A i : Leaving(i)' <=> Leaving(i)
    BY <1>6 DEF Leaving
  <2>2. ~Leaving(x)
    <3> SUFFICES ASSUME Leaving(x) PROVE FALSE
      OBVIOUS
    <3>1. x \in added
      BY DEF Leaving, PageIInv, RemovedAdded
    <3> QED
      BY <1>7, <1>13, <3>1
  <2>3. ASSUME NEW i PROVE Arriving(i)' <=> Arriving(i) \/ i = x
    <3>1. \A k \in 1 .. Len(toUI) : k \in 1 .. Len(toUI')
      BY <1>1, <1>8
    <3>2. Len(toUI) + 2 \in 1 .. Len(toUI')
      BY <1>1, <1>8
    <3>3. ASSUME Arriving(i)' PROVE Arriving(i) \/ i = x
      BY <1>8, <1>9, <1>10, <3>3 DEF Arriving
    <3>4. ASSUME Arriving(i) \/ i = x PROVE Arriving(i)'
      BY <1>8, <1>9, <3>1, <3>2, <3>4 DEF Arriving
    <3> QED
      BY <3>3, <3>4
  <2> QED
    BY <1>3, <1>5, <1>6, <1>11, <1>15, <2>1, <2>2, <2>3 DEF PageIInv, Agree, Coming
<1>25. LoadHasItem'
  BY <1>5 DEF LoadHasItem
<1>26. CursorFollows'
  <2>1. Heading(x)'
    <3>1. /\ Len(toUI') \in 1 .. Len(toUI')
          /\ toUI'[Len(toUI')].name = "BackForwardAddItem" /\ toUI'[Len(toUI')].item = x
          /\ \A j \in Len(toUI') + 1 .. Len(toUI') : FALSE
      BY <1>1, <1>5, <1>8, <1>9
    <3> QED
      BY <3>1 DEF Heading, Moves
  <2>2. GoingTo' = x
    BY <1>2, <1>5, <1>6 DEF GoingTo, Standing
  <2>3. Heading(GoingTo)' <=> Heading(x)'
    BY <2>2 DEF Heading
  <2> QED
    BY <2>1, <2>3 DEF CursorFollows
<1> QED
  BY <1>11, <1>16, <1>17, <1>18, <1>19, <1>20, <1>21, <1>22, <1>23, <1>24, <1>25, <1>26 DEF PageIInv

-----------------------------------------------------------------------------
(* Messages to the web process.                                            *)

\* Messages behind the others do not change what comes first.
LEMMA PutKeepsCreate ==
    ASSUME PageTypeOK, CreateFirst, NEW m \in Seq(WebMessage), toWeb' \in Seq(WebMessage),
           Put(toWeb, m, toWeb'), \A k \in 1 .. Len(m) : m[k].name # "CreateWebPage"
    PROVE  /\ Uncreated' <=> Uncreated
           /\ Uncreated => toWeb'[1] = toWeb[1]
           /\ \A k \in 2 .. Len(toWeb') : toWeb'[k].name # "CreateWebPage"
           /\ \A i : Coming(i)' <=> Coming(i)
<1>1. toWeb \in Seq(WebMessage) /\ Len(toWeb) \in Nat /\ Len(m) \in Nat /\ Len(toWeb') \in Nat
  BY PageTypes
<1>2. Len(toWeb') = Len(toWeb) + Len(m)
  BY DEF Put
<1>3. ASSUME NEW k \in 1 .. Len(toWeb')
      PROVE  \/ k \in 1 .. Len(toWeb) /\ toWeb'[k] = toWeb[k]
             \/ k > Len(toWeb) /\ toWeb'[k].name # "CreateWebPage"
  <2>1. CASE k \in 1 .. Len(toWeb)
    BY <2>1 DEF Put
  <2>2. CASE k \notin 1 .. Len(toWeb)
    <3>1. k - Len(toWeb) \in 1 .. Len(m) /\ Len(toWeb) + (k - Len(toWeb)) = k /\ k > Len(toWeb)
      BY <1>1, <1>2, <2>2
    <3>2. toWeb'[Len(toWeb) + (k - Len(toWeb))] = m[k - Len(toWeb)]
      BY <3>1 DEF Put
    <3> QED
      BY <3>1, <3>2
  <2> QED
    BY <2>1, <2>2
<1>4. \A k \in 2 .. Len(toWeb') : toWeb'[k].name # "CreateWebPage"
  <2> SUFFICES ASSUME NEW k \in 2 .. Len(toWeb') PROVE toWeb'[k].name # "CreateWebPage"
    OBVIOUS
  <2>1. k \in 1 .. Len(toWeb') /\ (k \in 1 .. Len(toWeb) => k \in 2 .. Len(toWeb))
    BY <1>1
  <2> QED
    BY <1>3, <2>1 DEF CreateFirst
<1>5. /\ toWeb # << >> <=> 1 \in 1 .. Len(toWeb)
      /\ toWeb' # << >> <=> 1 \in 1 .. Len(toWeb')
  BY <1>1, EmptySeq
<1>6. toWeb # << >> => toWeb'[1] = toWeb[1] /\ toWeb' # << >>
  BY <1>1, <1>2, <1>5 DEF Put
<1>7. toWeb = << >> => ~Uncreated'
  <2> SUFFICES ASSUME toWeb = << >>, toWeb' # << >> PROVE toWeb'[1].name # "CreateWebPage"
    BY DEF Uncreated
  <2>1. 1 \in 1 .. Len(toWeb') /\ ~(1 \in 1 .. Len(toWeb))
    BY <1>5
  <2> QED
    BY <1>3, <2>1
<1> QED
  BY <1>4, <1>6, <1>7 DEF Uncreated, Coming

\* What is left to be removed grows by the removals sent.
LEMMA PutLeaving ==
    ASSUME NEW i, NEW m \in Seq(WebMessage), Put(toWeb, m, toWeb'),
           Len(toWeb) \in Nat, Len(toWeb') \in Nat
    PROVE  Leaving(i)' <=> \/ Leaving(i)
                           \/ \E k \in 1 .. Len(m) :
                                m[k].name = "DidRemoveBackForwardItem" /\ m[k].item = i
<1>1. Len(m) \in Nat /\ Len(toWeb') = Len(toWeb) + Len(m)
  BY DEF Put
<1>2. ASSUME NEW k \in 1 .. Len(toWeb')
      PROVE  \/ k \in 1 .. Len(toWeb) /\ toWeb'[k] = toWeb[k]
             \/ \E j \in 1 .. Len(m) : toWeb'[k] = m[j]
  <2>1. CASE k \in 1 .. Len(toWeb)
    BY <2>1 DEF Put
  <2>2. CASE k \notin 1 .. Len(toWeb)
    <3>1. k - Len(toWeb) \in 1 .. Len(m) /\ Len(toWeb) + (k - Len(toWeb)) = k
      BY <1>1, <2>2
    <3>2. toWeb'[Len(toWeb) + (k - Len(toWeb))] = m[k - Len(toWeb)]
      BY <3>1 DEF Put
    <3> QED
      BY <3>1, <3>2
  <2> QED
    BY <2>1, <2>2
<1>3. \A k \in 1 .. Len(toWeb) : k \in 1 .. Len(toWeb') /\ toWeb'[k] = toWeb[k]
  BY <1>1 DEF Put
<1>4. \A k \in 1 .. Len(m) : Len(toWeb) + k \in 1 .. Len(toWeb') /\ toWeb'[Len(toWeb) + k] = m[k]
  BY <1>1 DEF Put
<1>5. ASSUME Leaving(i)'
      PROVE  \/ Leaving(i)
             \/ \E k \in 1 .. Len(m) : m[k].name = "DidRemoveBackForwardItem" /\ m[k].item = i
  BY <1>2, <1>5 DEF Leaving
<1>6. ASSUME Leaving(i) PROVE Leaving(i)'
  BY <1>3, <1>6 DEF Leaving
<1>7. ASSUME NEW k \in 1 .. Len(m), m[k].name = "DidRemoveBackForwardItem", m[k].item = i
      PROVE  Leaving(i)'
  BY <1>4, <1>7 DEF Leaving
<1> QED
  BY <1>5, <1>6, <1>7

\* An item of the list of an open page is known to its process.
LEMMA ListedIsKnown ==
    ASSUME PageIInv, m_page, running, NEW i \in Items(m_entries)
    PROVE  (i \in idToHistoryItemMap \/ Coming(i)) /\ ~Leaving(i)
<1>1. i \in ItemID
  BY DEF Items, PageIInv, IInv, TypeOK
<1> QED
  BY <1>1 DEF PageIInv, Agree

\* A command of the user that is sent preserves the invariant.
LEMMA CommandStep ==
    ASSUME PageIInv, m_page, running, NEW m \in WebMessage,
           m.name \in {"GoToItem", "LoadURL", "Reload", "StopLoading"},
           m.name = "GoToItem" => m.item \in Items(m_entries),
           toWeb' = toWeb \o <<m>>,
           UNCHANGED <<listVars, uiVars, toUI, webVars, crashes>>
    PROVE  PageIInv'
<1>0. PageTypeOK /\ CreateFirst /\ IInv
  BY DEF PageIInv
<1>1. toWeb \in Seq(WebMessage) /\ Len(toWeb) \in Nat
  BY <1>0, PageTypes
<1>2. <<m>> \in Seq(WebMessage) /\ Len(<<m>>) = 1 /\ <<m>>[1] = m
  OBVIOUS
<1>3. toWeb' \in Seq(WebMessage) /\ Len(toWeb') \in Nat /\ Put(toWeb, <<m>>, toWeb')
  BY <1>1, <1>2, ConcatPuts
<1>4. /\ Len(toWeb') = Len(toWeb) + 1
      /\ \A k \in 1 .. Len(toWeb) : toWeb'[k] = toWeb[k]
      /\ toWeb'[Len(toWeb) + 1] = m
  BY <1>1, <1>2, <1>3 DEF Put
<1>5. \A k \in 1 .. Len(toWeb') : k \in 1 .. Len(toWeb) \/ k = Len(toWeb) + 1
  BY <1>1, <1>4
<1>6. /\ Uncreated' <=> Uncreated
      /\ Uncreated => toWeb'[1] = toWeb[1]
      /\ \A k \in 2 .. Len(toWeb') : toWeb'[k].name # "CreateWebPage"
      /\ \A i : Coming(i)' <=> Coming(i)
  <2>1. \A k \in 1 .. Len(<<m>>) : <<m>>[k].name # "CreateWebPage"
    BY <1>2
  <2> QED
    BY <1>0, <1>2, <1>3, <2>1, PutKeepsCreate
<1>7. \A i : Leaving(i)' <=> Leaving(i)
  <2> SUFFICES ASSUME NEW i PROVE Leaving(i)' <=> Leaving(i)
    OBVIOUS
  <2>1. \A k \in 1 .. Len(<<m>>) : <<m>>[k].name # "DidRemoveBackForwardItem"
    BY <1>2
  <2>2. Leaving(i)' <=> \/ Leaving(i)
                        \/ \E k \in 1 .. Len(<<m>>) :
                             <<m>>[k].name = "DidRemoveBackForwardItem" /\ <<m>>[k].item = i
    BY <1>1, <1>2, <1>3, PutLeaving
  <2> QED
    BY <2>1, <2>2
<1>8. /\ UNCHANGED listVars /\ toUI' = toUI /\ running' = running
      /\ m_isValid' = m_isValid /\ backForwardListItemMap' = backForwardListItemMap
      /\ highestUsedItemID' = highestUsedItemID /\ uniqueHistoryItemID' = uniqueHistoryItemID
      /\ idToHistoryItemMap' = idToHistoryItemMap
      /\ m_currentItem' = m_currentItem /\ m_provisionalItem' = m_provisionalItem
      /\ m_loadType' = m_loadType /\ targetItem' = targetItem /\ abandoned' = abandoned
      /\ requestedItem' = requestedItem
      /\ waiting' = waiting /\ crashes' = crashes /\ webPage' = webPage
  BY DEF uiVars, webVars, mapVars, loadVars
<1>9. /\ IInv'
      /\ m_page' = m_page /\ m_entries' = m_entries /\ added' = added
      /\ Items(m_entries)' = Items(m_entries) /\ currentItem' = currentItem
  BY <1>0, <1>8, ListFrame
<1>10. PageTypeOK'
  BY <1>0, <1>3, <1>8 DEF PageTypeOK, WebMessage
<1>11. ProcessSeen'
  BY <1>8 DEF PageIInv, ProcessSeen
<1>12. CreateFirst'
  BY <1>0, <1>6, <1>8 DEF CreateFirst
<1>13. Counted'
  BY <1>6, <1>8, <1>9 DEF PageIInv, Counted
<1>14. ArrivalsNew'
  <2>1. \A k \in 1 .. Len(toUI) : Arrives(k) => Arrives(k)'
    BY <1>8, <1>9 DEF Arrives, Fresh
  <2> QED
    BY <1>8, <2>1 DEF PageIInv, ArrivalsNew
<1>15. ListKnown'
  BY <1>8, <1>9 DEF PageIInv, ListKnown
<1>16. RemovedAdded'
  BY <1>4, <1>5, <1>9 DEF PageIInv, RemovedAdded
<1>17. GoToKnown'
  <2> SUFFICES ASSUME NEW k \in 1 .. Len(toWeb'), toWeb'[k].name = "GoToItem"
               PROVE  /\ toWeb'[k].item \in idToHistoryItemMap \/ Coming(toWeb'[k].item)
                      /\ \A j \in 1 .. k - 1 :
                           toWeb'[j].name = "DidRemoveBackForwardItem" => toWeb'[j].item # toWeb'[k].item
    <3>1. \A k \in 1 .. Len(toWeb') : Coming(toWeb[k].item)' <=> Coming(toWeb'[k].item)
      BY <1>6 DEF Coming
    <3> QED
      BY <1>8, <3>1 DEF GoToKnown
  <2>1. CASE k \in 1 .. Len(toWeb)
    <3>1. toWeb'[k] = toWeb[k] /\ \A j \in 1 .. k - 1 : toWeb'[j] = toWeb[j]
      BY <1>1, <1>4, <2>1
    <3> QED
      BY <2>1, <3>1 DEF PageIInv, GoToKnown
  <2>2. CASE k = Len(toWeb) + 1
    <3>1. toWeb'[k] = m /\ m.item \in Items(m_entries)
      BY <1>4, <2>2
    <3>2. (m.item \in idToHistoryItemMap \/ Coming(m.item)) /\ ~Leaving(m.item)
      BY <3>1, ListedIsKnown
    <3>3. \A j \in 1 .. k - 1 : j \in 1 .. Len(toWeb) /\ toWeb'[j] = toWeb[j]
      BY <1>1, <1>4, <2>2
    <3> QED
      BY <3>1, <3>2, <3>3 DEF Leaving
  <2> QED
    BY <1>5, <2>1, <2>2
<1>18. Agree'
  <2>1. \A i : Arriving(i)' <=> Arriving(i)
    BY <1>8 DEF Arriving
  <2> QED
    BY <1>6, <1>7, <1>8, <1>9, <2>1 DEF PageIInv, Agree
<1>19. LoadHasItem'
  BY <1>8 DEF PageIInv, LoadHasItem
<1>20. CursorFollows'
  <2>1. \A i : Heading(i) => Heading(i)'
    BY <1>8, <1>9 DEF Heading
  <2> QED
    BY <1>8, <1>9, <2>1, FollowsStill DEF PageIInv, loadVars
<1> QED
  BY <1>9, <1>10, <1>11, <1>12, <1>13, <1>14, <1>15, <1>16, <1>17, <1>18, <1>19, <1>20 DEF PageIInv

\* A new process, with the session and a command for it, preserves the invariant.
LEMMA ReattachStep ==
    ASSUME PageIInv, IInv', m_page' = m_page, m_entries' = m_entries, added' = added,
           NEW m \in Seq(WebMessage), reattachToWebProcess(m),
           \A k \in 1 .. Len(m) : /\ m[k].name \in {"GoToItem", "LoadURL"}
                                  /\ m[k].name = "GoToItem" => m[k].item \in Items(m_entries)
    PROVE  PageIInv'
<1>0. PageTypeOK /\ IInv
  BY DEF PageIInv
<1> DEFINE first == CreateMsg(Items(m_entries), highestUsedItemID)
<1>1. /\ m_isValid' = TRUE /\ backForwardListItemMap' = Items(m_entries)
      /\ toWeb' = <<first>> \o m /\ toUI' = << >> /\ running' = TRUE
      /\ highestUsedItemID' = highestUsedItemID /\ crashes' = crashes
      /\ webPage' = FALSE /\ uniqueHistoryItemID' = 1 /\ idToHistoryItemMap' = {}
      /\ m_currentItem' = NoItem /\ m_provisionalItem' = NoItem /\ m_loadType' = "None"
      /\ requestedItem' = NoItem /\ targetItem' = NoItem /\ waiting' = FALSE /\ abandoned' = NoItem
  BY DEF reattachToWebProcess, FreshWebProcess
<1>2. Items(m_entries) \subseteq ItemID /\ Items(m_entries) \subseteq added
      /\ Items(m_entries)' = Items(m_entries)
  BY <1>0 DEF IInv, TypeOK, Chronological, Items
<1>3. first \in WebMessage
  BY <1>0, <1>2, MsgTypes DEF PageTypeOK
<1>4. /\ first.name = "CreateWebPage" /\ first.items = Items(m_entries)
      /\ first.highest = highestUsedItemID
  BY DEF CreateMsg
<1> HIDE DEF first
<1>5. <<first>> \in Seq(WebMessage) /\ Len(<<first>>) = 1 /\ <<first>>[1] = first
  BY <1>3
<1>6. /\ toWeb' \in Seq(WebMessage) /\ Len(toWeb') \in Nat /\ Len(m) \in Nat
      /\ Put(<<first>>, m, toWeb')
  BY <1>1, <1>5, ConcatPuts
<1>7. /\ Len(toWeb') = 1 + Len(m) /\ toWeb'[1] = first
      /\ \A k \in 1 .. Len(m) : toWeb'[1 + k] = m[k]
  BY <1>5, <1>6 DEF Put
<1>8. \A k \in 2 .. Len(toWeb') : k - 1 \in 1 .. Len(m) /\ toWeb'[k] = m[k - 1]
  <2> SUFFICES ASSUME NEW k \in 2 .. Len(toWeb')
               PROVE  k - 1 \in 1 .. Len(m) /\ toWeb'[k] = m[k - 1]
    OBVIOUS
  <2>1. k - 1 \in 1 .. Len(m) /\ 1 + (k - 1) = k
    BY <1>6, <1>7
  <2>2. toWeb'[1 + (k - 1)] = m[k - 1]
    BY <1>7, <2>1
  <2> QED
    BY <2>1, <2>2
<1>9. \A k \in 1 .. Len(toWeb') : k = 1 \/ k \in 2 .. Len(toWeb')
  BY <1>6
<1>10. Uncreated' /\ \A i : Coming(i)' <=> i \in Items(m_entries)
  <2>1. toWeb' # << >>
    BY <1>6, <1>7
  <2> QED
    BY <1>4, <1>7, <2>1 DEF Uncreated, Coming
<1>11. PageTypeOK'
  <2>1. /\ toUI' \in Seq(Message(ToUINames))
        /\ 1 \in Nat /\ 1 % 2 = 1 /\ NoItem \in ItemOrNone /\ "None" \in LoadTypes
    BY <1>1 DEF ItemOrNone, LoadTypes
  <2> QED
    BY <1>0, <1>1, <1>2, <1>6, <2>1 DEF PageTypeOK, WebMessage
<1>12. ProcessSeen'
  BY <1>1 DEF ProcessSeen
<1>13. CreateFirst'
  <2>1. \A k \in 2 .. Len(toWeb') : toWeb'[k].name # "CreateWebPage"
    BY <1>8
  <2> QED
    BY <1>1, <1>4, <1>7, <2>1 DEF CreateFirst
<1>14. Len(toUI') = 0
  BY <1>1
<1>15. Counted'
  <2>1. \A i \in added' \cup backForwardListItemMap' : i <= highestUsedItemID'
    BY <1>1, <1>2 DEF PageIInv, Counted
  <2> QED
    BY <1>10, <1>14, <2>1 DEF Counted
<1>16. ArrivalsNew'
  BY <1>14 DEF ArrivalsNew
<1>17. ListKnown'
  BY <1>1, <1>2 DEF ListKnown
<1>18. RemovedAdded'
  BY <1>4, <1>7, <1>8, <1>9 DEF RemovedAdded
<1>19. GoToKnown'
  <2> SUFFICES ASSUME NEW k \in 1 .. Len(toWeb'), toWeb'[k].name = "GoToItem"
               PROVE  /\ Coming(toWeb[k].item)'
                      /\ \A j \in 1 .. k - 1 : toWeb'[j].name # "DidRemoveBackForwardItem"
    BY DEF GoToKnown
  <2>1. \A j \in 1 .. k - 1 : j \in 1 .. Len(toWeb')
    BY <1>6
  <2>2. toWeb'[k].item \in Items(m_entries)
    BY <1>4, <1>7, <1>8, <1>9
  <2> QED
    BY <1>4, <1>7, <1>8, <1>9, <1>10, <2>1, <2>2 DEF Coming
<1>20. Agree'
  <2>1. \A i : ~Leaving(i)'
    BY <1>4, <1>7, <1>8, <1>9 DEF Leaving
  <2>2. \A i : ~Arriving(i)'
    BY <1>14 DEF Arriving
  <2> QED
    BY <1>1, <1>2, <1>10, <2>1, <2>2 DEF Agree
<1>21. LoadHasItem'
  BY <1>1 DEF LoadHasItem
<1>22. CursorFollows'
  BY <1>1 DEF CursorFollows, Heading
<1> QED
  BY <1>11, <1>12, <1>13, <1>15, <1>16, <1>17, <1>18, <1>19, <1>20, <1>21, <1>22 DEF PageIInv

\* The items next to the current one, and the current one, are in the list.
LEMMA Listed ==
    /\ Neighbours \subseteq Items(m_entries)
    /\ IInv /\ currentItem # NoItem => currentItem \in Items(m_entries)
<1>1. Neighbours \subseteq Items(m_entries)
  BY DEF Neighbours, Items
<1>2. ASSUME IInv, currentItem # NoItem PROVE currentItem \in Items(m_entries)
  <2>1. m_hasCurrentIndex
    BY <1>2 DEF currentItem
  <2>2. /\ m_currentIndex + 1 \in 1 .. Len(m_entries)
        /\ currentItem = m_entries[m_currentIndex + 1]
    BY <1>2, <2>1, Parts
  <2> QED
    BY <2>2 DEF Items
<1> QED
  BY <1>1, <1>2

\* The commands of a page without a process preserve the invariant.
LEMMA ReattachIInv ==
    ASSUME PageIInv,
           \/ loadURLAndReattach \/ reloadAndReattach
           \/ \E item \in ItemID : reattachToWebProcessWithItem(item)
    PROVE  PageIInv'
<1>0. IInv
  BY DEF PageIInv
<1>1. CASE loadURLAndReattach
  <2> DEFINE m == <<Msg("LoadURL", NoItem)>>
  <2>1. reattachToWebProcess(m) /\ UNCHANGED listVars
    BY <1>1 DEF loadURLAndReattach
  <2>2. Msg("LoadURL", NoItem) \in WebMessage /\ Msg("LoadURL", NoItem).name = "LoadURL"
    BY MsgTypes DEF ToWebNames, ItemOrNone, Msg
  <2>3. m \in Seq(WebMessage) /\ Len(m) = 1 /\ m[1] = Msg("LoadURL", NoItem)
    BY <2>2
  <2>4. IInv' /\ m_page' = m_page /\ m_entries' = m_entries /\ added' = added
    BY <1>0, <2>1, ListFrame
  <2> HIDE DEF m
  <2>5. \A k \in 1 .. Len(m) : m[k].name = "LoadURL"
    BY <2>2, <2>3
  <2> QED
    BY <2>1, <2>3, <2>4, <2>5, ReattachStep
<1>2. CASE reloadAndReattach
  <2>1. reattachToWebProcess(<< >>) /\ UNCHANGED listVars
    BY <1>2 DEF reloadAndReattach
  <2>2. << >> \in Seq(WebMessage) /\ \A k \in 1 .. Len(<< >>) : FALSE
    OBVIOUS
  <2>3. IInv' /\ m_page' = m_page /\ m_entries' = m_entries /\ added' = added
    BY <1>0, <2>1, ListFrame
  <2> QED
    BY <2>1, <2>2, <2>3, ReattachStep
<1>3. ASSUME NEW item \in ItemID, reattachToWebProcessWithItem(item) PROVE PageIInv'
  <2> DEFINE m == <<Msg("GoToItem", item)>>
  <2>1. reattachToWebProcess(m) /\ item \in Items(m_entries)
    BY <1>0, <1>3, Listed DEF reattachToWebProcessWithItem
  <2>2. /\ Msg("GoToItem", item) \in WebMessage /\ Msg("GoToItem", item).name = "GoToItem"
        /\ Msg("GoToItem", item).item = item
    BY MsgTypes DEF ToWebNames, ItemOrNone, Msg
  <2>3. m \in Seq(WebMessage) /\ Len(m) = 1 /\ m[1] = Msg("GoToItem", item)
    BY <2>2
  <2>4. IInv' /\ m_page' = m_page /\ m_entries' = m_entries /\ added' = added
    <3>1. CASE UNCHANGED listVars
      BY <1>0, <3>1, ListFrame
    <3>2. CASE GoToItem(item)
      BY <1>0, <3>2, GoToItemIInv DEF GoToItem
    <3> QED
      BY <1>3, <3>1, <3>2 DEF reattachToWebProcessWithItem
  <2> HIDE DEF m
  <2>5. \A k \in 1 .. Len(m) : m[k].name = "GoToItem" /\ m[k].item = item
    BY <2>2, <2>3
  <2> QED
    BY <2>1, <2>3, <2>4, <2>5, ReattachStep
<1> QED
  BY <1>1, <1>2, <1>3

\* What the two processes keep, when nothing changes.
LEMMA StutterIInv ==
    ASSUME PageIInv, UNCHANGED pageVars
    PROVE  PageIInv'
<1>0. IInv
  BY DEF PageIInv
<1>1. /\ UNCHANGED listVars /\ toUI' = toUI /\ toWeb' = toWeb /\ running' = running
      /\ m_isValid' = m_isValid /\ backForwardListItemMap' = backForwardListItemMap
      /\ highestUsedItemID' = highestUsedItemID /\ uniqueHistoryItemID' = uniqueHistoryItemID
      /\ idToHistoryItemMap' = idToHistoryItemMap
      /\ m_currentItem' = m_currentItem /\ m_provisionalItem' = m_provisionalItem
      /\ m_loadType' = m_loadType /\ targetItem' = targetItem /\ abandoned' = abandoned
      /\ requestedItem' = requestedItem
      /\ waiting' = waiting /\ crashes' = crashes /\ webPage' = webPage
  BY DEF pageVars, uiVars, webVars, mapVars, loadVars
<1>2. /\ IInv'
      /\ m_page' = m_page /\ m_entries' = m_entries /\ added' = added
      /\ Items(m_entries)' = Items(m_entries) /\ currentItem' = currentItem
  BY <1>0, <1>1, ListFrame
<1>3. PageTypeOK' /\ ProcessSeen'
  BY <1>1 DEF PageIInv, PageTypeOK, ProcessSeen
<1>4. (Uncreated' <=> Uncreated) /\ \A i : Coming(i)' <=> Coming(i)
  BY <1>1 DEF Uncreated, Coming
<1>5. CreateFirst' /\ Counted'
  BY <1>1, <1>2, <1>4 DEF PageIInv, CreateFirst, Counted
<1>6. ArrivalsNew'
  <2>1. \A k \in 1 .. Len(toUI) : Arrives(k) => Arrives(k)'
    BY <1>1, <1>2 DEF Arrives, Fresh
  <2> QED
    BY <1>1, <2>1 DEF PageIInv, ArrivalsNew
<1>7. ListKnown' /\ RemovedAdded' /\ LoadHasItem'
  BY <1>1, <1>2 DEF PageIInv, ListKnown, RemovedAdded, LoadHasItem
<1>8. GoToKnown'
  BY <1>1 DEF PageIInv, GoToKnown, Coming, Uncreated
<1>9. Agree'
  <2>1. \A i : (Arriving(i)' <=> Arriving(i)) /\ (Leaving(i)' <=> Leaving(i))
    BY <1>1 DEF Arriving, Leaving
  <2> QED
    BY <1>1, <1>2, <1>4, <2>1 DEF PageIInv, Agree
<1>10. CursorFollows'
  <2>1. \A i : Heading(i) => Heading(i)'
    BY <1>1, <1>2 DEF Heading
  <2> QED
    BY <1>1, <1>2, <2>1, FollowsStill DEF PageIInv, loadVars
<1> QED
  BY <1>2, <1>3, <1>5, <1>6, <1>7, <1>8, <1>9, <1>10 DEF PageIInv

\* The commands of the user for a page with a process preserve the invariant.
LEMMA UserCommandStep ==
    ASSUME PageIInv,
           \/ \E item \in ItemID : goBackOrForward(item)
           \/ \E name \in {"LoadURL", "Reload", "StopLoading"} : command(name)
    PROVE  PageIInv'
<1>1. ASSUME NEW m \in WebMessage,
             m.name \in {"GoToItem", "LoadURL", "Reload", "StopLoading"},
             m.name = "GoToItem" => m.item \in Items(m_entries),
             m_page, Send(<<m>>), UNCHANGED <<listVars, uiVars, toUI, webVars, crashes>>
      PROVE  PageIInv'
  <2>1. CASE running
    BY <1>1, <2>1, CommandStep DEF Send
  <2>2. CASE ~running
    BY <1>1, <2>2, StutterIInv DEF Send, pageVars
  <2> QED
    BY <2>1, <2>2
<1>2. ASSUME NEW item \in ItemID, goBackOrForward(item) PROVE PageIInv'
  <2>1. /\ Msg("GoToItem", item) \in WebMessage /\ Msg("GoToItem", item).name = "GoToItem"
        /\ Msg("GoToItem", item).item = item
    BY MsgTypes DEF ToWebNames, ItemOrNone, Msg
  <2> QED
    BY <1>1, <1>2, <2>1, Listed DEF goBackOrForward, isValid
<1>3. ASSUME NEW name \in {"LoadURL", "Reload", "StopLoading"}, command(name) PROVE PageIInv'
  <2>1. Msg(name, NoItem) \in WebMessage /\ Msg(name, NoItem).name = name
    BY MsgTypes DEF ToWebNames, ItemOrNone, Msg
  <2> QED
    BY <1>1, <1>3, <2>1 DEF command, isValid
<1> QED
  BY <1>2, <1>3

\* The invariant holds for a tab that has just been opened.
LEMMA PageInitIInv == PageInit => PageIInv
<1> SUFFICES ASSUME PageInit PROVE PageIInv
  OBVIOUS
<1>1. IInv /\ Items(m_entries) = {} /\ added = {} /\ m_page
  BY InitIInv, ItemsOfEmpty DEF PageInit, Init
<1> DEFINE first == CreateMsg({}, NoItem)
<1>2. first \in WebMessage
  BY MsgTypes DEF ItemOrNone
<1>3. first.name = "CreateWebPage" /\ first.items = {} /\ first.highest = NoItem
  BY DEF CreateMsg
<1>4. toWeb = <<first>> /\ toUI = << >>
  BY DEF PageInit
<1> HIDE DEF first
<1>5. /\ toWeb \in Seq(WebMessage) /\ Len(toWeb) = 1 /\ toWeb[1] = first /\ toWeb # << >>
      /\ toUI \in Seq(UIMessage) /\ Len(toUI) = 0
  BY <1>2, <1>4
<1>6. Uncreated /\ \A i : ~Coming(i)
  BY <1>3, <1>5 DEF Uncreated, Coming
<1>7. \A k \in 1 .. Len(toWeb) : k = 1
  BY <1>5
<1>8. PageTypeOK
  <2>1. 1 \in Nat /\ 1 % 2 = 1 /\ 0 \in Nat /\ NoItem \in ItemOrNone /\ "None" \in LoadTypes
    BY DEF ItemOrNone, LoadTypes
  <2> QED
    BY <1>5, <2>1 DEF PageTypeOK, PageInit, WebMessage, UIMessage
<1>9. ProcessSeen
  BY DEF PageInit, ProcessSeen
<1>10. CreateFirst
  <2>1. \A k \in 2 .. Len(toWeb) : FALSE
    BY <1>5
  <2> QED
    BY <1>3, <1>5, <2>1 DEF CreateFirst, PageInit
<1>11. Counted
  <2>1. \A k \in 1 .. Len(toUI) : FALSE
    BY <1>5
  <2> QED
    BY <1>1, <1>6, <2>1 DEF Counted, PageInit
<1>12. ArrivalsNew /\ \A i : ~Arriving(i)
  <2>1. \A k \in 1 .. Len(toUI) : FALSE
    BY <1>5
  <2> QED
    BY <2>1 DEF ArrivalsNew, Arriving
<1>13. ListKnown
  BY <1>1 DEF ListKnown
<1>14. RemovedAdded /\ GoToKnown /\ \A i : ~Leaving(i)
  BY <1>3, <1>5, <1>7 DEF RemovedAdded, GoToKnown, Leaving
<1>15. Agree
  BY <1>1, <1>6, <1>12, <1>14 DEF Agree, PageInit
<1>16. LoadHasItem
  BY DEF LoadHasItem, PageInit
<1>17. CursorFollows
  BY DEF CursorFollows, Heading, PageInit
<1> QED
  BY <1>1, <1>8, <1>9, <1>10, <1>11, <1>12, <1>13, <1>14, <1>15, <1>16, <1>17 DEF PageIInv

-----------------------------------------------------------------------------
(* The end of a process.                                                   *)

\* The death of the web process preserves the invariant: a part of what it sent
\* arrives.
LEMMA CrashStep ==
    ASSUME PageIInv, Crash
    PROVE  PageIInv'
<1>0. PageTypeOK /\ IInv
  BY DEF PageIInv
<1>1. /\ toUI \in Seq(UIMessage) /\ Len(toUI) \in Nat
  BY <1>0, PageTypes
<1>2. /\ running /\ running' = FALSE /\ crashes' = crashes + 1 /\ toWeb' = << >>
      /\ m_isValid' = m_isValid /\ backForwardListItemMap' = backForwardListItemMap
      /\ highestUsedItemID' = highestUsedItemID /\ UNCHANGED listVars
      /\ webPage' = FALSE /\ uniqueHistoryItemID' = 1 /\ idToHistoryItemMap' = {}
      /\ m_currentItem' = NoItem /\ m_provisionalItem' = NoItem /\ m_loadType' = "None"
      /\ requestedItem' = NoItem /\ targetItem' = NoItem /\ waiting' = FALSE /\ abandoned' = NoItem
  BY DEF Crash, FreshWebProcess, uiVars
<1>3. PICK n \in 0 .. Len(toUI) : toUI' = SubSeq(toUI, 1, n)
  BY DEF Crash
<1>4. /\ toUI' \in Seq(UIMessage) /\ Len(toUI') = n
      /\ \A k \in 1 .. Len(toUI') : k \in 1 .. Len(toUI) /\ toUI'[k] = toUI[k]
  <2>1. 1 \in 1 .. Len(toUI) + 1 /\ n \in 1 - 1 .. Len(toUI) /\ n - 1 + 1 = n
    BY <1>1
  <2>2. /\ toUI' \in Seq(UIMessage) /\ Len(toUI') = n
        /\ \A k \in 1 .. n : toUI'[k] = toUI[1 + k - 1]
    BY <1>1, <1>3, <2>1, Stretch
  <2>3. \A k \in 1 .. n : 1 + k - 1 = k /\ k \in 1 .. Len(toUI)
    BY <1>1
  <2> QED
    BY <2>2, <2>3
<1>5. /\ IInv'
      /\ m_page' = m_page /\ m_entries' = m_entries /\ added' = added
      /\ Items(m_entries)' = Items(m_entries)
  BY <1>0, <1>2, ListFrame
<1>6. ~Uncreated' /\ Len(toWeb') = 0
  BY <1>2 DEF Uncreated
<1>7. PageTypeOK'
  <2>1. /\ 1 \in Nat /\ 1 % 2 = 1 /\ NoItem \in ItemOrNone /\ "None" \in LoadTypes
        /\ toWeb' \in Seq(WebMessage)
    BY <1>2 DEF ItemOrNone, LoadTypes
  <2>2. crashes' \in Nat
    BY <1>0, <1>2 DEF PageTypeOK
  <2> QED
    BY <1>0, <1>2, <1>4, <2>1, <2>2 DEF PageTypeOK, WebMessage, UIMessage
<1>8. ProcessSeen'
  BY <1>2 DEF PageIInv, ProcessSeen
<1>9. CreateFirst'
  BY <1>6 DEF CreateFirst
<1>10. Counted'
  BY <1>2, <1>5 DEF PageIInv, Counted
<1>11. ArrivalsNew'
  <2> SUFFICES ASSUME NEW k \in 1 .. Len(toUI')
               PROVE  /\ toUI'[k].name = "BackForwardAddItem" => Arrives(k)'
                      /\ toUI'[k].name = "AddBackForwardItem" => toUI'[k].item \in ItemID
    BY DEF ArrivalsNew
  <2>1. toUI'[k] = toUI[k] /\ k \in 1 .. Len(toUI)
    BY <1>4
  <2>2. \A j \in 1 .. k - 1 : toUI'[j] = toUI[j]
    BY <1>4
  <2>3. k > 1 => k - 1 \in 1 .. k - 1
    OBVIOUS
  <2>4. Arrives(k) => Arrives(k)'
    BY <1>2, <1>5, <2>1, <2>2, <2>3 DEF Arrives, Fresh
  <2> QED
    BY <2>1, <2>4 DEF PageIInv, ArrivalsNew
<1>12. ListKnown'
  BY <1>2, <1>5 DEF PageIInv, ListKnown
<1>13. RemovedAdded' /\ GoToKnown'
  BY <1>6 DEF RemovedAdded, GoToKnown
<1>14. Agree' /\ CursorFollows' /\ LoadHasItem'
  BY <1>2 DEF Agree, CursorFollows, LoadHasItem
<1> QED
  BY <1>5, <1>7, <1>8, <1>9, <1>10, <1>11, <1>12, <1>13, <1>14 DEF PageIInv

\* The UI process sees that the web process has died.
LEMMA processDidCrashStep ==
    ASSUME PageIInv, processDidCrash
    PROVE  PageIInv'
<1>0. PageTypeOK /\ IInv
  BY DEF PageIInv
<1>1. /\ ~running /\ toUI = << >> /\ m_isValid' = FALSE
      /\ UNCHANGED listVars /\ toUI' = toUI /\ toWeb' = toWeb /\ running' = running
      /\ backForwardListItemMap' = backForwardListItemMap
      /\ highestUsedItemID' = highestUsedItemID /\ uniqueHistoryItemID' = uniqueHistoryItemID
      /\ idToHistoryItemMap' = idToHistoryItemMap
      /\ m_currentItem' = m_currentItem /\ m_provisionalItem' = m_provisionalItem
      /\ m_loadType' = m_loadType /\ targetItem' = targetItem /\ abandoned' = abandoned
      /\ requestedItem' = requestedItem
      /\ waiting' = waiting /\ crashes' = crashes /\ webPage' = webPage
  BY DEF processDidCrash, webVars, mapVars, loadVars
<1>2. /\ IInv'
      /\ m_page' = m_page /\ m_entries' = m_entries /\ added' = added
      /\ Items(m_entries)' = Items(m_entries)
  BY <1>0, <1>1, ListFrame
<1>3. toWeb' = << >> /\ Len(toWeb') = 0 /\ Len(toUI') = 0
  BY <1>1 DEF PageIInv, ProcessSeen
<1>4. PageTypeOK' /\ ProcessSeen'
  BY <1>0, <1>1, <1>3 DEF PageTypeOK, ProcessSeen
<1>5. CreateFirst' /\ RemovedAdded' /\ GoToKnown'
  BY <1>3 DEF CreateFirst, Uncreated, RemovedAdded, GoToKnown
<1>6. Counted' /\ ArrivalsNew' /\ ListKnown'
  BY <1>1, <1>2, <1>3 DEF PageIInv, Counted, ArrivalsNew, ListKnown
<1>7. Agree' /\ CursorFollows' /\ LoadHasItem'
  BY <1>1 DEF PageIInv, Agree, CursorFollows, LoadHasItem
<1> QED
  BY <1>2, <1>4, <1>5, <1>6, <1>7 DEF PageIInv

-----------------------------------------------------------------------------
(* Items that leave the list.                                              *)

\* The messages about a list of items.
LEMMA RemovalsProps ==
    ASSUME NEW items \in Seq(ItemID)
    PROVE  /\ Removals(items) \in Seq(WebMessage)
           /\ Len(Removals(items)) = Len(items) /\ Len(items) \in Nat
           /\ \A k \in 1 .. Len(items) :
                /\ Removals(items)[k].name = "DidRemoveBackForwardItem"
                /\ Removals(items)[k].item = items[k] /\ items[k] \in ItemID
<1>1. Len(items) \in Nat
  OBVIOUS
<1>2. ASSUME NEW k \in 1 .. Len(items)
      PROVE  /\ Msg("DidRemoveBackForwardItem", items[k]) \in WebMessage /\ items[k] \in ItemID
             /\ Msg("DidRemoveBackForwardItem", items[k]).name = "DidRemoveBackForwardItem"
             /\ Msg("DidRemoveBackForwardItem", items[k]).item = items[k]
  <2>1. items[k] \in ItemID
    OBVIOUS
  <2> QED
    BY <2>1, MsgTypes DEF Msg, ItemOrNone, ToWebNames
<1>3. /\ Removals(items) \in Seq(WebMessage)
      /\ Len(Removals(items)) = Len(items)
      /\ \A k \in 1 .. Len(items) : Removals(items)[k] = Msg("DidRemoveBackForwardItem", items[k])
  BY <1>1, <1>2 DEF Removals
<1> QED
  BY <1>1, <1>2, <1>3

\* What is sent is put behind the other messages, or nothing is.
LEMMA SendPuts ==
    ASSUME PageTypeOK, NEW m \in Seq(WebMessage), Send(m)
    PROVE  \E n \in Seq(WebMessage) :
             /\ n = m \/ (~running /\ n = << >>)
             /\ toWeb' \in Seq(WebMessage) /\ Len(toWeb') \in Nat
             /\ Put(toWeb, n, toWeb')
<1>1. toWeb \in Seq(WebMessage)
  BY PageTypes
<1>2. CASE running
  BY <1>1, <1>2, ConcatPuts DEF Send
<1>3. CASE ~running
  <2>1. << >> \in Seq(WebMessage) /\ Len(<< >>) = 0 /\ toWeb' = toWeb /\ Len(toWeb) \in Nat
    BY <1>1, <1>3 DEF Send
  <2>2. Put(toWeb, << >>, toWeb')
    BY <2>1 DEF Put
  <2> QED
    BY <1>1, <1>3, <2>1, <2>2
<1> QED
  BY <1>2, <1>3

\* A message of a channel to which others were added is an old or a new one.
LEMMA PutCases ==
    ASSUME NEW s, NEW m, NEW t, Len(s) \in Nat, Len(m) \in Nat, Put(s, m, t),
           NEW k \in 1 .. Len(t)
    PROVE  \/ /\ k \in 1 .. Len(s) /\ t[k] = s[k]
              /\ \A j \in 1 .. k - 1 : t[j] = s[j]
           \/ \E j \in 1 .. Len(m) : t[k] = m[j]
<1>1. CASE k \in 1 .. Len(s)
  <2>1. \A j \in 1 .. k - 1 : j \in 1 .. Len(s)
    BY <1>1
  <2> QED
    BY <1>1, <2>1 DEF Put
<1>2. CASE k \notin 1 .. Len(s)
  <2>0. Len(t) = Len(s) + Len(m)
    BY DEF Put
  <2>1. k - Len(s) \in 1 .. Len(m) /\ Len(s) + (k - Len(s)) = k
    BY <1>2, <2>0
  <2>2. t[Len(s) + (k - Len(s))] = m[k - Len(s)]
    BY <2>1 DEF Put
  <2> QED
    BY <2>1, <2>2
<1> QED
  BY <1>1, <1>2

\* Closing a tab preserves the invariant.
LEMMA closeStep ==
    ASSUME PageIInv, close
    PROVE  PageIInv'
<1>0. PageTypeOK /\ CreateFirst /\ IInv
  BY DEF PageIInv
<1>1. toWeb \in Seq(WebMessage) /\ Len(toWeb) \in Nat
  BY <1>0, PageTypes
<1>2. /\ IInv' /\ m_page' = FALSE /\ added' = added /\ Items(m_entries)' = {}
  BY <1>0, PageClosedIInv, ItemsOfEmpty DEF close, PageClosed, Items
<1>3. /\ toUI' = toUI /\ running' = running
      /\ m_isValid' = m_isValid /\ backForwardListItemMap' = backForwardListItemMap
      /\ highestUsedItemID' = highestUsedItemID /\ uniqueHistoryItemID' = uniqueHistoryItemID
      /\ idToHistoryItemMap' = idToHistoryItemMap
      /\ m_currentItem' = m_currentItem /\ m_provisionalItem' = m_provisionalItem
      /\ m_loadType' = m_loadType /\ targetItem' = targetItem /\ abandoned' = abandoned
      /\ requestedItem' = requestedItem
      /\ waiting' = waiting /\ crashes' = crashes /\ webPage' = webPage
  BY DEF close, uiVars, webVars, mapVars, loadVars
<1>4. m_entries \in Seq(ItemID) /\ Items(m_entries) \subseteq added
  BY <1>0 DEF IInv, TypeOK, Chronological
<1> DEFINE r == Removals(m_entries)
           c == <<Msg("Close", NoItem)>>
<1>5. Send(r \o c)
  BY DEF close
<1>6. /\ r \in Seq(WebMessage) /\ Len(r) \in Nat
      /\ \A k \in 1 .. Len(r) : r[k].name = "DidRemoveBackForwardItem" /\ r[k].item \in added
  <2>1. \A k \in 1 .. Len(m_entries) : m_entries[k] \in added
    BY <1>4 DEF Items
  <2> QED
    BY <1>4, <2>1, RemovalsProps
<1>7. c \in Seq(WebMessage) /\ Len(c) = 1 /\ c[1].name = "Close"
  <2>1. Msg("Close", NoItem) \in WebMessage /\ Msg("Close", NoItem).name = "Close"
    BY MsgTypes DEF ToWebNames, ItemOrNone, Msg
  <2> QED
    BY <2>1
<1> HIDE DEF r, c
<1>8. /\ r \o c \in Seq(WebMessage)
      /\ \A k \in 1 .. Len(r \o c) :
           \/ (r \o c)[k].name = "DidRemoveBackForwardItem" /\ (r \o c)[k].item \in added
           \/ (r \o c)[k].name = "Close"
  <2>1. r \o c \in Seq(WebMessage) /\ Put(r, c, r \o c)
    BY <1>6, <1>7, ConcatPuts
  <2>2. ASSUME NEW k \in 1 .. Len(r \o c)
        PROVE  (k \in 1 .. Len(r) /\ (r \o c)[k] = r[k]) \/ \E j \in 1 .. Len(c) : (r \o c)[k] = c[j]
    <3>1. Len(r) \in Nat /\ Len(c) \in Nat
      BY <1>6, <1>7
    <3> QED
      BY <2>1, <3>1, PutCases
  <2>3. \A j \in 1 .. Len(c) : c[j].name = "Close"
    BY <1>7
  <2> QED
    BY <1>6, <2>1, <2>2, <2>3
<1>9. PICK n \in Seq(WebMessage) :
        /\ n = r \o c \/ (~running /\ n = << >>)
        /\ toWeb' \in Seq(WebMessage) /\ Len(toWeb') \in Nat
        /\ Put(toWeb, n, toWeb')
  BY <1>0, <1>5, <1>8, SendPuts
<1>10. /\ Len(n) \in Nat
       /\ \A k \in 1 .. Len(n) :
            \/ n[k].name = "DidRemoveBackForwardItem" /\ n[k].item \in added
            \/ n[k].name = "Close"
  <2>1. Len(n) \in Nat
    BY <1>9
  <2>2. CASE n = r \o c
    BY <1>8, <2>1, <2>2
  <2>3. CASE n = << >>
    <3>1. \A k \in 1 .. Len(n) : FALSE
      BY <2>3
    <3> QED
      BY <2>1, <3>1
  <2> QED
    BY <1>9, <2>2, <2>3
<1>11. \A k \in 1 .. Len(toWeb') :
         \/ /\ k \in 1 .. Len(toWeb) /\ toWeb'[k] = toWeb[k]
            /\ \A j \in 1 .. k - 1 : toWeb'[j] = toWeb[j]
         \/ toWeb'[k].name = "DidRemoveBackForwardItem" /\ toWeb'[k].item \in added
         \/ toWeb'[k].name = "Close"
  <2> SUFFICES ASSUME NEW k \in 1 .. Len(toWeb')
               PROVE  \/ /\ k \in 1 .. Len(toWeb) /\ toWeb'[k] = toWeb[k]
                         /\ \A j \in 1 .. k - 1 : toWeb'[j] = toWeb[j]
                      \/ toWeb'[k].name = "DidRemoveBackForwardItem" /\ toWeb'[k].item \in added
                      \/ toWeb'[k].name = "Close"
    OBVIOUS
  <2>1. \/ /\ k \in 1 .. Len(toWeb) /\ toWeb'[k] = toWeb[k]
           /\ \A j \in 1 .. k - 1 : toWeb'[j] = toWeb[j]
        \/ \E j \in 1 .. Len(n) : toWeb'[k] = n[j]
    BY <1>1, <1>9, <1>10, PutCases
  <2> QED
    BY <1>10, <2>1
<1>12. /\ Uncreated' <=> Uncreated
       /\ Uncreated => toWeb'[1] = toWeb[1]
       /\ \A k \in 2 .. Len(toWeb') : toWeb'[k].name # "CreateWebPage"
       /\ \A i : Coming(i)' <=> Coming(i)
  <2>1. \A k \in 1 .. Len(n) : n[k].name # "CreateWebPage"
    BY <1>10
  <2> QED
    BY <1>0, <1>9, <2>1, PutKeepsCreate
<1>13. PageTypeOK'
  BY <1>0, <1>3, <1>9 DEF PageTypeOK, WebMessage
<1>14. ProcessSeen'
  <2>1. ~running => toWeb' = toWeb
    BY <1>5 DEF Send
  <2> QED
    BY <1>3, <2>1 DEF PageIInv, ProcessSeen
<1>15. CreateFirst'
  BY <1>0, <1>3, <1>12 DEF CreateFirst
<1>16. Counted'
  BY <1>2, <1>3, <1>12 DEF PageIInv, Counted
<1>17. ArrivalsNew'
  <2>1. \A k \in 1 .. Len(toUI) : Arrives(k) => Arrives(k)'
    BY <1>2, <1>3 DEF Arrives, Fresh
  <2> QED
    BY <1>3, <2>1 DEF PageIInv, ArrivalsNew
<1>18. ListKnown'
  BY <1>2 DEF ListKnown
<1>19. RemovedAdded'
  BY <1>2, <1>11 DEF PageIInv, RemovedAdded
<1>20. GoToKnown'
  <2> SUFFICES ASSUME NEW k \in 1 .. Len(toWeb'), toWeb'[k].name = "GoToItem"
               PROVE  /\ toWeb'[k].item \in idToHistoryItemMap \/ Coming(toWeb'[k].item)
                      /\ \A j \in 1 .. k - 1 :
                           toWeb'[j].name = "DidRemoveBackForwardItem" => toWeb'[j].item # toWeb'[k].item
    <3>1. \A k \in 1 .. Len(toWeb') : Coming(toWeb[k].item)' <=> Coming(toWeb'[k].item)
      BY <1>12 DEF Coming
    <3> QED
      BY <1>3, <3>1 DEF GoToKnown
  <2>1. /\ k \in 1 .. Len(toWeb) /\ toWeb'[k] = toWeb[k]
        /\ \A j \in 1 .. k - 1 : toWeb'[j] = toWeb[j]
    BY <1>11
  <2> QED
    BY <2>1 DEF PageIInv, GoToKnown
<1>21. Agree' /\ CursorFollows'
  BY <1>2 DEF Agree, CursorFollows
<1>22. LoadHasItem'
  BY <1>3 DEF PageIInv, LoadHasItem
<1> QED
  BY <1>2, <1>13, <1>14, <1>15, <1>16, <1>17, <1>18, <1>19, <1>20, <1>21, <1>22 DEF PageIInv

-----------------------------------------------------------------------------
(* Messages to the UI process.                                             *)

\* What is said about the items on their way holds for those behind the first
\* message, once that one has been handled.
LEMMA TakenArrivals ==
    ASSUME PageIInv, Taken(toUI, toUI'), Len(toUI) \in Nat, Len(toUI') \in Nat,
           \A a \in added' : a \in added \/ (toUI[1].name = "BackForwardAddItem" /\ a = toUI[1].item),
           backForwardListItemMap \subseteq backForwardListItemMap',
           toUI[1].name = "AddBackForwardItem" => toUI[1].item \in backForwardListItemMap'
    PROVE  ArrivalsNew'
<1>1. \A k \in 1 .. Len(toUI') : k + 1 \in 1 .. Len(toUI) /\ toUI'[k] = toUI[k + 1]
  BY DEF Taken
<1> SUFFICES ASSUME NEW k \in 1 .. Len(toUI')
             PROVE  /\ toUI'[k].name = "BackForwardAddItem" => Arrives(k)'
                    /\ toUI'[k].name = "AddBackForwardItem" => toUI'[k].item \in ItemID
  BY DEF ArrivalsNew
<1>2. ASSUME toUI'[k].name = "BackForwardAddItem" PROVE Arrives(k)'
  <2>1. k + 1 \in 1 .. Len(toUI) /\ toUI'[k] = toUI[k + 1]
    BY <1>1
  <2>2. Arrives(k + 1)
    BY <1>2, <2>1 DEF PageIInv, ArrivalsNew
  <2>3. k + 1 > 1 /\ (k + 1) - 1 = k /\ 1 \in 1 .. (k + 1) - 1
    OBVIOUS
  <2>4. /\ toUI'[k].item \in ItemID
        /\ \A a \in added : a < toUI'[k].item
        /\ toUI[k] = Msg("AddBackForwardItem", toUI'[k].item)
        /\ \A j \in 1 .. k : toUI[j].name = "BackForwardAddItem" => toUI[j].item < toUI'[k].item
    BY <2>1, <2>2, <2>3 DEF Arrives, Fresh
  <2>5. \A a \in added' : a < toUI'[k].item
    BY <2>3, <2>4
  <2>6. k = 1 => toUI'[k].item \in backForwardListItemMap'
    BY <2>4 DEF Msg
  <2>7. k > 1 => toUI'[k - 1] = Msg("AddBackForwardItem", toUI'[k].item)
    <3> SUFFICES ASSUME k > 1 PROVE toUI'[k - 1] = toUI[k]
      BY <2>4
    <3>1. k - 1 \in 1 .. Len(toUI') /\ (k - 1) + 1 = k
      OBVIOUS
    <3>2. toUI'[k - 1] = toUI[(k - 1) + 1]
      BY <1>1, <3>1
    <3> QED
      BY <3>1, <3>2
  <2>8. ASSUME NEW j \in 1 .. k - 1, toUI'[j].name = "BackForwardAddItem"
        PROVE  toUI'[j].item < toUI'[k].item
    <3>1. j \in 1 .. Len(toUI') /\ j + 1 \in 1 .. k
      OBVIOUS
    <3> QED
      BY <1>1, <2>4, <2>8, <3>1
  <2>9. Msg("AddBackForwardItem", toUI[k].item)' = Msg("AddBackForwardItem", toUI'[k].item)
    BY DEF Msg
  <2> QED
    BY <2>4, <2>5, <2>6, <2>7, <2>8, <2>9 DEF Arrives, Fresh
<1> QED
  BY <1>1, <1>2 DEF PageIInv, ArrivalsNew

\* The cursor still comes to the item it is heading for, once the first message has
\* been handled.
LEMMA TakenHeading ==
    ASSUME NEW i, Heading(i), Taken(toUI, toUI'), Len(toUI) \in Nat, Len(toUI') \in Nat,
           idToHistoryItemMap' = idToHistoryItemMap,
           (Moves(toUI[1]) /\ toUI[1].item = i /\ i \in Items(m_entries)') => currentItem' = i,
           ~Moves(toUI[1]) => Items(m_entries)' = Items(m_entries) /\ currentItem' = currentItem
    PROVE  Heading(i)'
<1>1. \A k \in 1 .. Len(toUI') : k + 1 \in 1 .. Len(toUI) /\ toUI'[k] = toUI[k + 1]
  BY DEF Taken
<1>2. 1 \in 1 .. Len(toUI) /\ Len(toUI') = Len(toUI) - 1
  BY DEF Taken
<1>3. CASE i \notin idToHistoryItemMap
  BY <1>3 DEF Heading
<1>4. CASE /\ \A k \in 1 .. Len(toUI) : ~Moves(toUI[k])
           /\ i \in Items(m_entries) => currentItem = i
  <2>1. \A k \in 1 .. Len(toUI') : ~Moves(toUI[k])'
    BY <1>1, <1>4 DEF Moves
  <2> QED
    BY <1>2, <1>4, <2>1 DEF Heading
<1>5. ASSUME NEW k \in 1 .. Len(toUI), Moves(toUI[k]), toUI[k].item = i,
             \A j \in k + 1 .. Len(toUI) : ~Moves(toUI[j])
      PROVE  Heading(i)'
  <2>1. CASE k = 1
    <3>1. \A j \in 1 .. Len(toUI') : ~Moves(toUI[j])'
      <4>1. \A j \in 1 .. Len(toUI') : j + 1 \in k + 1 .. Len(toUI)
        BY <1>2, <2>1
      <4> QED
        BY <1>1, <1>5, <4>1 DEF Moves
    <3>2. i \in Items(m_entries)' => currentItem' = i
      BY <1>5, <2>1
    <3> QED
      BY <3>1, <3>2 DEF Heading
  <2>2. CASE k # 1
    <3>1. k - 1 \in 1 .. Len(toUI') /\ (k - 1) + 1 = k
      BY <1>2, <2>2
    <3>2. toUI'[k - 1] = toUI[(k - 1) + 1]
      BY <1>1, <3>1
    <3>3. Moves(toUI[k - 1])' /\ toUI'[k - 1].item = i
      BY <1>5, <3>1, <3>2 DEF Moves
    <3>4. \A j \in (k - 1) + 1 .. Len(toUI') : ~Moves(toUI[j])'
      <4>1. \A j \in (k - 1) + 1 .. Len(toUI') : j \in 1 .. Len(toUI') /\ j + 1 \in k + 1 .. Len(toUI)
        BY <1>2, <3>1
      <4> QED
        BY <1>1, <1>5, <4>1 DEF Moves
    <3> QED
      BY <3>1, <3>3, <3>4 DEF Heading
  <2> QED
    BY <2>1, <2>2
<1> QED
  BY <1>3, <1>4, <1>5 DEF Heading

\* What a process whose first message to the UI process is handled can be sure of.
LEMMA Received ==
    ASSUME PageIInv, toUI # << >>, toUI' = Tail(toUI)
    PROVE  /\ toUI \in Seq(UIMessage) /\ toUI' \in Seq(UIMessage)
           /\ Len(toUI) \in Nat /\ Len(toUI') \in Nat
           /\ Head(toUI) = toUI[1] /\ 1 \in 1 .. Len(toUI) /\ Taken(toUI, toUI')
           /\ ~Uncreated /\ m_isValid
           /\ \A k \in 1 .. Len(toUI') : k + 1 \in 1 .. Len(toUI) /\ toUI'[k] = toUI[k + 1]
<1>1. toUI \in Seq(UIMessage)
  BY PageTypes DEF PageIInv
<1>2. /\ toUI' \in Seq(UIMessage) /\ Len(toUI) \in Nat /\ Len(toUI') \in Nat
      /\ Head(toUI) = toUI[1] /\ Taken(toUI, toUI')
  BY <1>1, TailTakes
<1>3. ~Uncreated /\ m_isValid
  BY DEF PageIInv, CreateFirst, ProcessSeen
<1>4. 1 \in 1 .. Len(toUI)
  BY <1>2 DEF Taken
<1>5. \A k \in 1 .. Len(toUI') : k + 1 \in 1 .. Len(toUI) /\ toUI'[k] = toUI[k + 1]
  BY <1>2 DEF Taken
<1> QED
  BY <1>1, <1>2, <1>3, <1>4, <1>5

\* A handler of the UI process preserves the invariant if it does to the list, the
\* items it knows and the messages n it sends what the first message asks for.
LEMMA ReceiveStep ==
    ASSUME PageIInv, toUI # << >>, toUI' = Tail(toUI),
           IInv', m_page' = m_page, added \subseteq added',
           \A a \in added' : a \in added \/ (toUI[1].name = "BackForwardAddItem" /\ a = toUI[1].item),
           backForwardListItemMap \subseteq backForwardListItemMap',
           backForwardListItemMap' \subseteq ItemID,
           toUI[1].name = "AddBackForwardItem" => toUI[1].item \in backForwardListItemMap',
           Items(m_entries)' \subseteq backForwardListItemMap',
           highestUsedItemID' \in ItemOrNone,
           running => highestUsedItemID' <= uniqueHistoryItemID,
           \A i \in added' \cup backForwardListItemMap' : i <= highestUsedItemID',
           NEW n \in Seq(WebMessage), toWeb' \in Seq(WebMessage), Put(toWeb, n, toWeb'),
           ~running => toWeb' = toWeb,
           \A k \in 1 .. Len(n) : n[k].name = "DidRemoveBackForwardItem" /\ n[k].item \in added',
           m_page /\ running =>
             \A i \in ItemID : i \in Items(m_entries)' \/ Arriving(i)'
                <=> /\ i \in Items(m_entries) \/ Arriving(i)
                    /\ \A k \in 1 .. Len(n) : n[k].item # i,
           \A i : (m_page /\ Moves(toUI[1]) /\ toUI[1].item = i /\ i \in Items(m_entries)')
                    => currentItem' = i,
           ~Moves(toUI[1]) => Items(m_entries)' = Items(m_entries) /\ currentItem' = currentItem,
           waiting' \in BOOLEAN,
           UNCHANGED <<m_isValid, running, webPage, mapVars, loadVars, crashes>>
    PROVE  PageIInv'
<1>0. PageTypeOK /\ CreateFirst
  BY DEF PageIInv
<1>1. /\ toWeb \in Seq(WebMessage) /\ Len(toWeb) \in Nat /\ Len(toWeb') \in Nat /\ Len(n) \in Nat
  BY <1>0, PageTypes
<1>2. /\ toUI \in Seq(UIMessage) /\ toUI' \in Seq(UIMessage)
      /\ Len(toUI) \in Nat /\ Len(toUI') \in Nat /\ Taken(toUI, toUI')
      /\ ~Uncreated /\ m_isValid
      /\ \A k \in 1 .. Len(toUI') : k + 1 \in 1 .. Len(toUI) /\ toUI'[k] = toUI[k + 1]
  BY Received
<1>3. /\ m_isValid' = m_isValid /\ running' = running /\ webPage' = webPage
      /\ uniqueHistoryItemID' = uniqueHistoryItemID /\ idToHistoryItemMap' = idToHistoryItemMap
      /\ m_currentItem' = m_currentItem /\ m_provisionalItem' = m_provisionalItem
      /\ m_loadType' = m_loadType /\ targetItem' = targetItem /\ abandoned' = abandoned
      /\ requestedItem' = requestedItem
      /\ crashes' = crashes
  BY DEF mapVars, loadVars
<1>4. /\ ~Uncreated'
      /\ \A k \in 2 .. Len(toWeb') : toWeb'[k].name # "CreateWebPage"
      /\ \A i : ~Coming(i) /\ ~Coming(i)'
  <2>1. \A k \in 1 .. Len(n) : n[k].name # "CreateWebPage"
    OBVIOUS
  <2>2. /\ Uncreated' <=> Uncreated
        /\ \A k \in 2 .. Len(toWeb') : toWeb'[k].name # "CreateWebPage"
    BY <1>0, <2>1, PutKeepsCreate
  <2> QED
    BY <1>2, <2>2 DEF Coming
<1>5. \A k \in 1 .. Len(toWeb') :
         \/ /\ k \in 1 .. Len(toWeb) /\ toWeb'[k] = toWeb[k]
            /\ \A j \in 1 .. k - 1 : toWeb'[j] = toWeb[j]
         \/ toWeb'[k].name = "DidRemoveBackForwardItem" /\ toWeb'[k].item \in added'
  <2> SUFFICES ASSUME NEW k \in 1 .. Len(toWeb')
               PROVE  \/ /\ k \in 1 .. Len(toWeb) /\ toWeb'[k] = toWeb[k]
                         /\ \A j \in 1 .. k - 1 : toWeb'[j] = toWeb[j]
                      \/ toWeb'[k].name = "DidRemoveBackForwardItem" /\ toWeb'[k].item \in added'
    OBVIOUS
  <2>1. \/ /\ k \in 1 .. Len(toWeb) /\ toWeb'[k] = toWeb[k]
           /\ \A j \in 1 .. k - 1 : toWeb'[j] = toWeb[j]
        \/ \E j \in 1 .. Len(n) : toWeb'[k] = n[j]
    BY <1>1, PutCases
  <2> QED
    BY <2>1
<1>6. PageTypeOK'
  BY <1>0, <1>2, <1>3 DEF PageTypeOK, WebMessage, UIMessage
<1>7. ProcessSeen'
  BY <1>2, <1>3 DEF PageIInv, ProcessSeen
<1>8. CreateFirst'
  BY <1>4 DEF CreateFirst
<1>9. Counted'
  <2>1. ASSUME running, NEW k \in 1 .. Len(toUI'), toUI'[k].name # "BackForwardGoToItem"
        PROVE  toUI'[k].item <= uniqueHistoryItemID'
    BY <1>2, <1>3, <2>1 DEF PageIInv, Counted
  <2> QED
    BY <1>3, <2>1 DEF Counted
<1>10. ArrivalsNew'
  BY <1>2, TakenArrivals
<1>11. ListKnown'
  BY DEF ListKnown
<1>12. RemovedAdded'
  BY <1>5 DEF PageIInv, RemovedAdded
<1>13. GoToKnown'
  <2> SUFFICES ASSUME NEW k \in 1 .. Len(toWeb'), toWeb'[k].name = "GoToItem"
               PROVE  /\ toWeb'[k].item \in idToHistoryItemMap
                      /\ \A j \in 1 .. k - 1 :
                           toWeb'[j].name = "DidRemoveBackForwardItem" => toWeb'[j].item # toWeb'[k].item
    BY <1>3 DEF GoToKnown
  <2>1. /\ k \in 1 .. Len(toWeb) /\ toWeb'[k] = toWeb[k]
        /\ \A j \in 1 .. k - 1 : toWeb'[j] = toWeb[j]
    BY <1>5
  <2>2. /\ toWeb[k].item \in idToHistoryItemMap \/ Coming(toWeb[k].item)
        /\ \A j \in 1 .. k - 1 :
             toWeb[j].name = "DidRemoveBackForwardItem" => toWeb[j].item # toWeb[k].item
    BY <2>1 DEF PageIInv, GoToKnown
  <2>3. ~Coming(toWeb[k].item)
    BY <1>2 DEF Coming
  <2> QED
    BY <2>1, <2>2, <2>3
<1>14. Agree'
  <2> SUFFICES ASSUME m_page, running, NEW i \in ItemID
               PROVE  i \in idToHistoryItemMap /\ ~Leaving(i)'
                        <=> i \in Items(m_entries)' \/ Arriving(i)'
    BY <1>3, <1>4 DEF Agree
  <2>1. i \in idToHistoryItemMap /\ ~Leaving(i) <=> i \in Items(m_entries) \/ Arriving(i)
    BY <1>4 DEF PageIInv, Agree
  <2>2. Leaving(i)' <=> \/ Leaving(i)
                        \/ \E k \in 1 .. Len(n) :
                             n[k].name = "DidRemoveBackForwardItem" /\ n[k].item = i
    BY <1>1, PutLeaving
  <2> QED
    BY <2>1, <2>2
<1>15. LoadHasItem'
  BY <1>3 DEF PageIInv, LoadHasItem
<1>16. CursorFollows'
  <2>1. ASSUME NEW i, m_page, running, Heading(i) PROVE Heading(i)'
    BY <1>2, <1>3, <2>1, TakenHeading
  <2> QED
    BY <1>3, <2>1, FollowsStill DEF PageIInv, loadVars
<1> QED
  BY <1>6, <1>7, <1>8, <1>9, <1>10, <1>11, <1>12, <1>13, <1>14, <1>15, <1>16 DEF PageIInv

\* Nothing is sent.
LEMMA NothingPut ==
    ASSUME PageTypeOK, toWeb' = toWeb
    PROVE  /\ << >> \in Seq(WebMessage) /\ Len(<< >>) = 0
           /\ toWeb' \in Seq(WebMessage) /\ Put(toWeb, << >>, toWeb')
<1>1. toWeb \in Seq(WebMessage) /\ Len(toWeb) \in Nat
  BY PageTypes
<1>2. << >> \in Seq(WebMessage) /\ Len(<< >>) = 0
  OBVIOUS
<1> QED
  BY <1>1, <1>2 DEF Put

\* Which items are on their way, once the first message has been handled.
LEMMA TakenArriving ==
    ASSUME PageIInv, toUI # << >>, toUI' = Tail(toUI), NEW i
    PROVE  Arriving(i) <=> \/ Arriving(i)'
                           \/ toUI[1].name = "BackForwardAddItem" /\ toUI[1].item = i
<1>1. /\ Len(toUI) \in Nat /\ Len(toUI') \in Nat /\ Len(toUI') = Len(toUI) - 1
      /\ 1 \in 1 .. Len(toUI)
      /\ \A k \in 1 .. Len(toUI') : k + 1 \in 1 .. Len(toUI) /\ toUI'[k] = toUI[k + 1]
  BY Received DEF Taken
<1>2. ASSUME NEW k \in 1 .. Len(toUI), toUI[k].name = "BackForwardAddItem", toUI[k].item = i, k # 1
      PROVE  Arriving(i)'
  <2>1. k - 1 \in 1 .. Len(toUI') /\ (k - 1) + 1 = k
    BY <1>1, <1>2
  <2>2. toUI'[k - 1] = toUI[(k - 1) + 1]
    BY <1>1, <2>1
  <2> QED
    BY <1>2, <2>1, <2>2 DEF Arriving
<1>3. ASSUME Arriving(i)' PROVE Arriving(i)
  BY <1>1, <1>3 DEF Arriving
<1>4. ASSUME toUI[1].name = "BackForwardAddItem", toUI[1].item = i PROVE Arriving(i)
  BY <1>1, <1>4 DEF Arriving
<1>5. ASSUME Arriving(i), ~(toUI[1].name = "BackForwardAddItem" /\ toUI[1].item = i)
      PROVE  Arriving(i)'
  BY <1>2, <1>5 DEF Arriving
<1> QED
  BY <1>3, <1>4, <1>5

\* The process proxy learns of an item.
LEMMA addBackForwardItemStep ==
    ASSUME PageIInv, addBackForwardItem
    PROVE  PageIInv'
<1>0. PageTypeOK /\ IInv
  BY DEF PageIInv
<1>1. toUI # << >> /\ Head(toUI).name = "AddBackForwardItem" /\ toUI' = Tail(toUI)
  BY DEF addBackForwardItem, ReceiveInUI
<1>2. /\ Head(toUI) = toUI[1] /\ 1 \in 1 .. Len(toUI) /\ ~Uncreated
  BY <1>1, Received
<1>3. PICK x \in ItemID : x = toUI[1].item
  BY <1>1, <1>2 DEF PageIInv, ArrivalsNew
<1>4. /\ backForwardListItemMap' = backForwardListItemMap \cup {x}
      /\ highestUsedItemID' = IF x > highestUsedItemID THEN x ELSE highestUsedItemID
      /\ UNCHANGED listVars /\ toWeb' = toWeb
      /\ UNCHANGED <<m_isValid, running, webPage, mapVars, loadVars, crashes>>
      /\ waiting' = waiting
  BY <1>2, <1>3 DEF addBackForwardItem, webVars
<1>5. x \in Nat /\ highestUsedItemID \in Nat /\ uniqueHistoryItemID \in Nat
  BY <1>0, PageTypes, ItemAssumption
<1>6. /\ IInv'
      /\ m_page' = m_page /\ m_entries' = m_entries /\ added' = added
      /\ Items(m_entries)' = Items(m_entries) /\ currentItem' = currentItem
  BY <1>0, <1>4, ListFrame
<1>7. running => highestUsedItemID' <= uniqueHistoryItemID
  <2>1. running => highestUsedItemID <= uniqueHistoryItemID /\ x <= uniqueHistoryItemID
    BY <1>1, <1>2, <1>3 DEF PageIInv, Counted
  <2> QED
    BY <1>4, <1>5, <2>1
<1>8. \A i \in added' \cup backForwardListItemMap' : i <= highestUsedItemID'
  <2>1. \A i \in added \cup backForwardListItemMap : i \in Nat /\ i <= highestUsedItemID
    <3>1. added \subseteq Nat /\ backForwardListItemMap \subseteq Nat
      BY <1>0, ItemAssumption DEF IInv, TypeOK, PageTypeOK
    <3> QED
      BY <3>1 DEF PageIInv, Counted
  <2>2. highestUsedItemID <= highestUsedItemID' /\ x <= highestUsedItemID' /\ highestUsedItemID' \in Nat
    BY <1>4, <1>5
  <2>3. \A i \in Nat : i <= highestUsedItemID => i <= highestUsedItemID'
    BY <1>5, <2>2
  <2> QED
    BY <1>4, <1>6, <2>1, <2>2, <2>3
<1>9. /\ highestUsedItemID' \in ItemOrNone /\ backForwardListItemMap' \subseteq ItemID
      /\ waiting' \in BOOLEAN
  BY <1>0, <1>4 DEF PageTypeOK, ItemOrNone
<1>10. ~Moves(toUI[1])
  BY <1>1, <1>2 DEF Moves
<1>11. \A i : Arriving(i)' <=> Arriving(i)
  BY <1>1, <1>2, TakenArriving
<1>12. /\ << >> \in Seq(WebMessage) /\ toWeb' \in Seq(WebMessage) /\ Put(toWeb, << >>, toWeb')
       /\ \A k \in 1 .. Len(<< >>) : FALSE
  BY <1>0, <1>4, NothingPut
<1>13. Items(m_entries)' \subseteq backForwardListItemMap'
  BY <1>4, <1>6 DEF PageIInv, ListKnown
<1> QED
  BY <1>1, <1>2, <1>3, <1>4, <1>6, <1>7, <1>8, <1>9, <1>10, <1>11, <1>12, <1>13, ReceiveStep

\* The list goes to an item, or stays when the item has left it.
LEMMA backForwardGoToItemStep ==
    ASSUME PageIInv, backForwardGoToItem
    PROVE  PageIInv'
<1>0. PageTypeOK /\ IInv
  BY DEF PageIInv
<1>1. toUI # << >> /\ Head(toUI).name = "BackForwardGoToItem" /\ toUI' = Tail(toUI)
  BY DEF backForwardGoToItem, ReceiveInUI
<1>2. /\ Head(toUI) = toUI[1] /\ 1 \in 1 .. Len(toUI) /\ ~Uncreated
  BY <1>1, Received
<1>3. PICK y : y = toUI[1].item
  OBVIOUS
<1>4. /\ IF m_page /\ y \in backForwardListItemMap /\ y \in Items(m_entries)
         THEN GoToItem(y) ELSE UNCHANGED listVars
      /\ waiting' = FALSE /\ toWeb' = toWeb
      /\ UNCHANGED <<m_isValid, running, webPage, mapVars, loadVars, crashes>>
      /\ backForwardListItemMap' = backForwardListItemMap /\ highestUsedItemID' = highestUsedItemID
  BY <1>2, <1>3 DEF backForwardGoToItem, uiVars
<1>5. /\ IInv'
      /\ m_page' = m_page /\ m_entries' = m_entries /\ added' = added
      /\ (m_page /\ y \in Items(m_entries)) => currentItem' = y
  <2>1. CASE m_page /\ y \in backForwardListItemMap /\ y \in Items(m_entries)
    <3>1. GoToItem(y) /\ y \in ItemID
      BY <1>0, <1>4, <2>1 DEF PageTypeOK
    <3>2. currentItem' = y
      BY <3>1 DEF GoToItem, currentItem
    <3> QED
      BY <1>0, <3>1, <3>2, GoToItemIInv DEF GoToItem
  <2>2. CASE ~(m_page /\ y \in backForwardListItemMap /\ y \in Items(m_entries))
    <3>1. UNCHANGED listVars
      BY <1>4, <2>2
    <3>2. ~(m_page /\ y \in Items(m_entries))
      BY <2>2 DEF PageIInv, ListKnown
    <3> QED
      BY <1>0, <3>1, <3>2, ListFrame
  <2> QED
    BY <2>1, <2>2
<1>6. Items(m_entries)' = Items(m_entries)
  BY <1>5 DEF Items
<1>7. /\ running => highestUsedItemID' <= uniqueHistoryItemID
      /\ \A i \in added' \cup backForwardListItemMap' : i <= highestUsedItemID'
  BY <1>2, <1>4, <1>5 DEF PageIInv, Counted
<1>8. /\ highestUsedItemID' \in ItemOrNone /\ backForwardListItemMap' \subseteq ItemID
      /\ waiting' \in BOOLEAN
  BY <1>0, <1>4 DEF PageTypeOK
<1>9. Moves(toUI[1])
  BY <1>1, <1>2 DEF Moves
<1>10. \A i : Arriving(i)' <=> Arriving(i)
  BY <1>1, <1>2, TakenArriving
<1>11. /\ << >> \in Seq(WebMessage) /\ toWeb' \in Seq(WebMessage) /\ Put(toWeb, << >>, toWeb')
       /\ \A k \in 1 .. Len(<< >>) : FALSE
  BY <1>0, <1>4, NothingPut
<1>12. Items(m_entries)' \subseteq backForwardListItemMap'
  BY <1>4, <1>6 DEF PageIInv, ListKnown
<1> QED
  BY <1>1, <1>2, <1>3, <1>4, <1>5, <1>6, <1>7, <1>8, <1>9, <1>10, <1>11, <1>12, ReceiveStep

\* addItem puts the item behind what is left of the list and goes to it.
LEMMA AddItemEffect ==
    ASSUME IInv, NEW x \in ItemID, AddItem(x)
    PROVE  /\ IInv' /\ m_page' = m_page /\ added' = added \cup {x}
           /\ Items(m_entries)' = (Items(m_entries) \ Items(Dropped)) \cup {x}
           /\ currentItem' = x
           /\ Dropped \in Seq(ItemID) /\ Items(Dropped) \subseteq Items(m_entries)
<1>1. IInv'
  BY AddItemIInv
<1>2. Base \in Seq(ItemID) /\ NewIndex = Len(Base) /\ Len(Base) \in Nat
  BY BaseIsStretch DEF IInv
<1>3. /\ m_entries' = Append(Base, x)
      /\ Len(m_entries') = Len(Base) + 1
      /\ \A i \in 1 .. Len(Base) : m_entries'[i] = Base[i]
      /\ m_entries'[Len(Base) + 1] = x
  BY <1>2, InsertAtEnd, AppendProperties DEF AddItem
<1>4. Items(m_entries)' = Items(Base) \cup {x}
  <2>1. \A k \in 1 .. Len(m_entries') : k \in 1 .. Len(Base) \/ k = Len(Base) + 1
    BY <1>2, <1>3
  <2>2. \A k \in 1 .. Len(Base) : k \in 1 .. Len(m_entries')
    BY <1>2, <1>3
  <2>3. Len(Base) + 1 \in 1 .. Len(m_entries')
    BY <1>2, <1>3
  <2> QED
    BY <1>3, <2>1, <2>2, <2>3 DEF Items
<1>5. currentItem' = x
  BY <1>2, <1>3 DEF AddItem, currentItem
<1>6. Items(Base) \subseteq Items(m_entries)
  <2>1. PICK d \in {0, 1} :
          /\ \A i \in 1 .. Len(Base) : Base[i] = m_entries[i + d]
          /\ Len(Base) + d <= Len(m_entries)
    BY BaseIsStretch DEF IInv
  <2>2. Len(m_entries) \in Nat
    BY DEF IInv, TypeOK
  <2>3. \A i \in 1 .. Len(Base) : i + d \in 1 .. Len(m_entries)
    BY <1>2, <2>1, <2>2
  <2> QED
    BY <2>1, <2>3 DEF Items
<1>7. Dropped \in Seq(ItemID) /\ Items(Dropped) = Items(m_entries) \ Items(Base)
  BY DroppedIsRest DEF IInv
<1>8. m_page' = m_page /\ added' = added \cup {x}
  BY DEF AddItem
<1> QED
  BY <1>1, <1>4, <1>5, <1>6, <1>7, <1>8

\* An item is added to the list, and the web process is told what left it.
LEMMA backForwardAddItemStep ==
    ASSUME PageIInv, backForwardAddItem
    PROVE  PageIInv'
<1>0. PageTypeOK /\ IInv
  BY DEF PageIInv
<1>1. toUI # << >> /\ Head(toUI).name = "BackForwardAddItem" /\ toUI' = Tail(toUI)
  BY DEF backForwardAddItem, ReceiveInUI
<1>2. /\ Head(toUI) = toUI[1] /\ 1 \in 1 .. Len(toUI) /\ ~Uncreated
  BY <1>1, Received
<1>3. Arrives(1)
  BY <1>1, <1>2 DEF PageIInv, ArrivalsNew
<1>4. PICK x \in ItemID : x = toUI[1].item /\ x \in backForwardListItemMap /\ Fresh(x)
  BY <1>3 DEF Arrives
<1>5. /\ IF m_page THEN AddItem(x) /\ Send(Removals(Dropped)) ELSE UNCHANGED <<listVars, toWeb>>
      /\ waiting' = waiting
      /\ UNCHANGED <<m_isValid, running, webPage, mapVars, loadVars, crashes>>
      /\ backForwardListItemMap' = backForwardListItemMap /\ highestUsedItemID' = highestUsedItemID
  BY <1>2, <1>4 DEF backForwardAddItem, uiVars, webVars
<1>6. /\ running => highestUsedItemID' <= uniqueHistoryItemID
      /\ \A i \in added \cup {x} \cup backForwardListItemMap' : i <= highestUsedItemID'
  BY <1>2, <1>4, <1>5 DEF PageIInv, Counted
<1>7. /\ highestUsedItemID' \in ItemOrNone /\ backForwardListItemMap' \subseteq ItemID
      /\ waiting' \in BOOLEAN
  BY <1>0, <1>5 DEF PageTypeOK
<1>8. Moves(toUI[1])
  BY <1>1, <1>2 DEF Moves
<1>9. CASE ~m_page
  <2>1. UNCHANGED listVars /\ toWeb' = toWeb
    BY <1>5, <1>9
  <2>2. /\ IInv'
        /\ m_page' = m_page /\ m_entries' = m_entries /\ added' = added
        /\ Items(m_entries)' = Items(m_entries)
    BY <1>0, <2>1, ListFrame
  <2>3. /\ << >> \in Seq(WebMessage) /\ toWeb' \in Seq(WebMessage) /\ Put(toWeb, << >>, toWeb')
        /\ \A k \in 1 .. Len(<< >>) : FALSE
    BY <1>0, <2>1, NothingPut
  <2>4. Items(m_entries)' \subseteq backForwardListItemMap'
    BY <1>5, <2>2 DEF PageIInv, ListKnown
  <2>5. \A i \in added' \cup backForwardListItemMap' : i <= highestUsedItemID'
    BY <1>6, <2>2
  <2>6. toUI[1].name # "AddBackForwardItem"
    BY <1>1, <1>2
  <2> QED
    BY <1>1, <1>5, <1>6, <1>7, <1>8, <1>9, <2>1, <2>2, <2>3, <2>4, <2>5, <2>6, ReceiveStep
<1>10. CASE m_page
  <2>1. AddItem(x) /\ Send(Removals(Dropped))
    BY <1>5, <1>10
  <2>2. /\ IInv' /\ m_page' = m_page /\ added' = added \cup {x}
        /\ Items(m_entries)' = (Items(m_entries) \ Items(Dropped)) \cup {x}
        /\ currentItem' = x
        /\ Dropped \in Seq(ItemID) /\ Items(Dropped) \subseteq Items(m_entries)
    BY <1>0, <2>1, AddItemEffect
  <2>3. PICK r \in Seq(WebMessage) :
          /\ r = Removals(Dropped) /\ Len(r) = Len(Dropped)
          /\ \A k \in 1 .. Len(Dropped) :
               r[k].name = "DidRemoveBackForwardItem" /\ r[k].item = Dropped[k]
    BY <2>2, RemovalsProps
  <2>4. Items(m_entries) \subseteq added
    BY <1>0 DEF IInv, Chronological
  <2>5. \A k \in 1 .. Len(r) : r[k].name = "DidRemoveBackForwardItem" /\ r[k].item \in added'
    BY <2>2, <2>3, <2>4 DEF Items
  <2>6. PICK n \in Seq(WebMessage) :
          /\ n = r \/ (~running /\ n = << >>)
          /\ toWeb' \in Seq(WebMessage) /\ Put(toWeb, n, toWeb')
    BY <1>0, <2>1, <2>3, SendPuts
  <2>7. \A k \in 1 .. Len(n) : n[k].name = "DidRemoveBackForwardItem" /\ n[k].item \in added'
    <3>1. CASE n = r
      BY <2>5, <3>1
    <3>2. CASE n = << >>
      <4>1. \A k \in 1 .. Len(n) : FALSE
        BY <3>2
      <4> QED
        BY <4>1
    <3> QED
      BY <2>6, <3>1, <3>2
  <2>8. ~running => toWeb' = toWeb
    BY <2>1 DEF Send
  <2>9. ASSUME running, NEW i \in ItemID
        PROVE  i \in Items(m_entries)' \/ Arriving(i)'
                 <=> /\ i \in Items(m_entries) \/ Arriving(i)
                     /\ \A k \in 1 .. Len(n) : n[k].item # i
    <3>1. (\A k \in 1 .. Len(n) : n[k].item # i) <=> i \notin Items(Dropped)
      BY <2>3, <2>6, <2>9 DEF Items
    <3>2. Arriving(i) <=> Arriving(i)' \/ i = x
      BY <1>1, <1>2, <1>4, TakenArriving
    <3>3. Arriving(i) => i \notin Items(m_entries)
      <4> SUFFICES ASSUME Arriving(i) PROVE i \notin added
        BY <2>4
      <4>1. Fresh(i) /\ i \in Nat
        BY ItemAssumption DEF Arriving, PageIInv, ArrivalsNew, Arrives
      <4>2. ~(i < i)
        BY <4>1
      <4> QED
        BY <4>1, <4>2 DEF Fresh
    <3> QED
      BY <2>2, <3>1, <3>2, <3>3
  <2>10. Items(m_entries)' \subseteq backForwardListItemMap'
    BY <1>4, <1>5, <2>2 DEF PageIInv, ListKnown
  <2>11. \A i \in added' \cup backForwardListItemMap' : i <= highestUsedItemID'
    BY <1>6, <2>2
  <2>12. /\ added \subseteq added' /\ toUI[1].name = "BackForwardAddItem"
         /\ \A a \in added' : a \in added \/ a = toUI[1].item
    BY <1>1, <1>2, <1>4, <2>2
  <2>13. \A i : toUI[1].item = i => currentItem' = i
    BY <1>4, <2>2
  <2> QED
    BY <1>1, <1>5, <1>6, <1>7, <1>8, <2>2, <2>6, <2>7, <2>8, <2>9, <2>10, <2>11, <2>12, <2>13,
       ReceiveStep
<1> QED
  BY <1>9, <1>10

-----------------------------------------------------------------------------
(* The invariant, and what follows from it.                                *)

\* Every step of the two processes, of the user and of the network preserves the
\* invariant.
LEMMA PageNextIInv == PageIInv /\ [PageNext]_pageVars => PageIInv'
<1> SUFFICES ASSUME PageIInv, [PageNext]_pageVars PROVE PageIInv'
  OBVIOUS
<1>1. CASE User
  BY <1>1, UserCommandStep, ReattachIInv, closeStep DEF User
<1>2. CASE UIProcess
  BY <1>2, addBackForwardItemStep, backForwardAddItemStep, backForwardGoToItemStep,
     processDidCrashStep DEF UIProcess
<1>3. CASE WebProcess
  BY <1>3, CreateWebPageStep, goToItemStep, setCurrentItemStep, loadItemStep, loadURLStep, reloadFrameStep,
     stopLoadingStep, didRemoveBackForwardItemStep, closeWebPageStep DEF WebProcess
<1>4. CASE Loading
  BY <1>4, followLinkStep, mainReceivedErrorStep, commitStandardLoadStep,
     commitBackForwardLoadStep, commitReloadStep DEF Loading
<1>5. CASE Crash
  BY <1>5, CrashStep
<1>6. CASE UNCHANGED pageVars
  BY <1>6, StutterIInv
<1> QED
  BY <1>1, <1>2, <1>3, <1>4, <1>5, <1>6 DEF PageNext

\* The inductive invariant holds throughout.
THEOREM PageInvariance == PageSpec => []PageIInv
<1> QED
  BY PageInitIInv, PageNextIInv, PTL DEF PageSpec

\* Type correctness of both processes and of the two channels; the identifiers
\* that a web process generates are odd.
THEOREM PageTypeCorrect == PageSpec => []PageTypeOK
<1>1. PageIInv => PageTypeOK
  BY DEF PageIInv
<1> QED
  BY <1>1, PageInvariance, PTL

\* The list stays consistent when it is driven by the two processes, as it does
\* when it is driven by arbitrary calls.
THEOREM PageListCorrect == PageSpec => [](ListConsistent /\ Chronological /\ ItemConservation)
<1>1. PageIInv => ListConsistent /\ Chronological /\ ItemConservation
  BY DEF PageIInv, IInv
<1> QED
  BY <1>1, PageInvariance, PTL

\* An item that arrives for the list of an open page is known to the process proxy
\* and has an identifier that was never used in the list, also after crashes.
THEOREM IdentifiersNeverCollide == PageSpec => []NewItemIsNew
<1>1. PageIInv => NewItemIsNew
  <2> SUFFICES ASSUME PageIInv, toUI # << >>, Head(toUI).name = "BackForwardAddItem"
               PROVE  Head(toUI).item \in backForwardListItemMap /\ Fresh(Head(toUI).item)
    BY DEF NewItemIsNew
  <2>1. toUI \in Seq(UIMessage)
    BY PageTypes DEF PageIInv
  <2>2. Head(toUI) = toUI[1] /\ 1 \in 1 .. Len(toUI)
    BY <2>1, EmptySeq
  <2>3. Arrives(1)
    BY <2>2 DEF PageIInv, ArrivalsNew
  <2> QED
    BY <2>2, <2>3 DEF Arrives
<1> QED
  BY <1>1, PageInvariance, PTL

\* ASSERT(item) of WebPage::goBack, goForward and goToBackForwardItem never fails.
THEOREM GoToItemAssertionHolds == PageSpec => []KnownItem
<1>1. PageIInv => KnownItem
  <2> SUFFICES ASSUME PageIInv, toWeb # << >>, Head(toWeb).name = "GoToItem"
               PROVE  Head(toWeb).item \in idToHistoryItemMap
    BY DEF KnownItem
  <2>1. toWeb \in Seq(WebMessage)
    BY PageTypes DEF PageIInv
  <2>2. Head(toWeb) = toWeb[1] /\ 1 \in 1 .. Len(toWeb)
    BY <2>1, EmptySeq
  <2>3. ~Coming(toWeb[1].item)
    BY <2>2 DEF Coming, Uncreated
  <2> QED
    BY <2>2, <2>3 DEF PageIInv, GoToKnown
<1> QED
  BY <1>1, PageInvariance, PTL

\* The item map of the web process and the list of the UI process agree up to what
\* is on its way, also across crashes: nothing leaks and nothing is lost.
THEOREM ProcessesAgree == PageSpec => []MapsAgree
<1>1. PageIInv => MapsAgree
  BY AgreeIsMapsAgree DEF PageIInv
<1> QED
  BY <1>1, PageInvariance, PTL

\* When nothing is going on the cursor of the list is at the displayed page, or at the
\* item of a back/forward load that was left there, never anywhere else.
THEOREM CursorAtPage == PageSpec => []CursorExplained
<1>1. PageIInv => CursorExplained
  <2> SUFFICES ASSUME PageIInv, Quiet, Standing \in Items(m_entries)
               PROVE  currentItem = Standing
    BY DEF CursorExplained
  <2>1. /\ m_page /\ running /\ requestedItem = NoItem /\ targetItem = NoItem
        /\ m_loadType = "None" /\ toWeb = << >> /\ toUI = << >>
    BY DEF Quiet, isValid, Idle
  <2>2. Heading(Standing)
    BY <2>1 DEF PageIInv, CursorFollows, GoingTo
  <2>3. Standing \in idToHistoryItemMap
    <3>1. ~Coming(Standing)
      BY <2>1 DEF Coming, Uncreated
    <3> QED
      BY <2>1, <3>1, ListedIsKnown
  <2>4. \A k \in 1 .. Len(toUI) : FALSE
    BY <2>1
  <2> QED
    BY <2>2, <2>3, <2>4 DEF Heading
<1> QED
  BY <1>1, PageInvariance, PTL

\* Driven by the two processes the list is the list of module BackForwardList: each
\* step is a call of addItem, goToItem or pageClosed with an item that the list may
\* be called with, or leaves the list alone.
THEOREM ProcessesDriveList == PageSpec => Spec
<1>1. PageInit => Init
  BY DEF PageInit
<1>2. ASSUME PageIInv, [PageNext]_pageVars PROVE [Next]_vars
  <2>0. backForwardListItemMap \subseteq ItemID
    BY <1>2 DEF PageIInv, PageTypeOK
  <2>1. CASE User
    <3>1. ASSUME NEW item \in ItemID, goBackOrForward(item) PROVE UNCHANGED vars
      BY <3>1 DEF goBackOrForward, listVars
    <3>2. ASSUME NEW item \in ItemID, reattachToWebProcessWithItem(item)
          PROVE  GoToItem(item) \/ UNCHANGED vars
      BY <3>2 DEF reattachToWebProcessWithItem, listVars
    <3>3. ASSUME NEW name \in {"LoadURL", "Reload", "StopLoading"}, command(name)
          PROVE  UNCHANGED vars
      BY <3>3 DEF command, listVars
    <3>4. CASE loadURLAndReattach \/ reloadAndReattach
      BY <3>4 DEF loadURLAndReattach, reloadAndReattach, listVars
    <3>5. CASE close
      BY <3>5 DEF close, Next
    <3> QED
      BY <2>1, <3>1, <3>2, <3>3, <3>4, <3>5 DEF User, Next
  <2>2. CASE addBackForwardItem \/ processDidCrash
    BY <2>2 DEF addBackForwardItem, processDidCrash, listVars
  <2>3. CASE backForwardAddItem
    BY <2>0, <2>3 DEF backForwardAddItem, listVars, Next
  <2>4. CASE backForwardGoToItem
    BY <2>0, <2>4 DEF backForwardGoToItem, listVars, Next
  <2>5. CASE WebProcess
    BY <2>5 DEF WebProcess, CreateWebPage, goToItem, setCurrentItem, loadItem, loadURL, reloadFrame, StartLoad,
                stopLoading, didRemoveBackForwardItem, closeWebPage, listVars
  <2>6. CASE Loading
    BY <2>6 DEF Loading, followLink, StartLoad, mainReceivedError, commitStandardLoad,
                commitBackForwardLoad, commitReload, listVars
  <2>7. CASE Crash
    BY <2>7 DEF Crash, listVars
  <2>8. CASE UNCHANGED pageVars
    BY <2>8 DEF pageVars, listVars
  <2> QED
    BY <1>2, <2>1, <2>2, <2>3, <2>4, <2>5, <2>6, <2>7, <2>8 DEF PageNext, UIProcess
<1>3. PageIInv /\ [PageNext]_pageVars => [Next]_vars
  BY <1>2
<1> QED
  BY <1>1, <1>3, PageInvariance, PTL DEF PageSpec, Spec

\* So the back and forward buttons of a tab do what a user expects of them, through
\* two processes and across crashes: what the tab does to its list is a behaviour
\* of the abstract history.
THEOREM ProcessesImplementHistory == PageSpec => ImplementsHistory
<1> QED
  BY ProcessesDriveList, ListIsHistory, PTL
====
