---- MODULE PageHistory ----
(***************************************************************************)
(* The back/forward list of a tab together with the two processes that     *)
(* share it.  The UI process (WebPageProxy, WebProcessProxy and the list   *)
(* of module BackForwardList) and the web process (WebPage,                *)
(* WebBackForwardListProxy and the main frame's FrameLoader and            *)
(* HistoryController) talk over two FIFO channels.  Each NetRider tab has  *)
(* a WKContext, so a web process, of its own.                              *)
(*                                                                         *)
(* The web process may die at any moment; the page then stays in the UI    *)
(* process with its list, and the next command of the user hands the list  *)
(* to a new web process.                                                   *)
(*                                                                         *)
(* A message is a record with its name and the item it is about; an item   *)
(* is its identifier, and NoItem is the null pointer as well as the        *)
(* identifier 0 that a lookup of an unknown item returns.                  *)
(***************************************************************************)
EXTENDS BackForwardList

CONSTANTS
    MaxQueue,       \* bound: messages on their way in a channel when one is sent
    MaxCrashes      \* bound: how often a web process dies

VARIABLES
    \* UI process
    m_isValid,                  \* the page has a web process, as far as it knows
    backForwardListItemMap,     \* the items WebProcessProxy knows
    highestUsedItemID,          \* of all items ever created in the UI process
    \* connection
    toWeb, toUI,
    \* web process
    running,                    \* the process is alive
    webPage,                    \* it has created the WebPage and not closed it
    uniqueHistoryItemID,        \* the last identifier generated
    idToHistoryItemMap,         \* the items it can find by identifier
    m_currentItem,              \* the item of the displayed page
    m_provisionalItem,          \* the item a back/forward load is for
    m_loadType,                 \* the kind of the provisional load, if any
    requestedItem,              \* goToItem: the item the cursor moves to next
    targetItem,                 \* goToItem: the item whose load comes next
    waiting,                    \* a synchronous message awaits its reply
    \* history
    abandoned,                  \* the item of a back/forward load that came to nothing
                                \* and left the cursor where it was
    crashes

listVars == vars
uiVars == <<m_isValid, backForwardListItemMap, highestUsedItemID>>
mapVars == <<uniqueHistoryItemID, idToHistoryItemMap>>
loadVars == <<m_currentItem, m_provisionalItem, m_loadType, requestedItem, targetItem, abandoned>>
webVars == <<running, webPage, mapVars, loadVars, waiting>>
pageVars == <<listVars, uiVars, toWeb, toUI, webVars, crashes>>

ItemOrNone == ItemID \cup {NoItem}
LoadTypes == {"None", "Standard", "Reload", "BackForward"}

ToWebNames == {"CreateWebPage", "GoToItem", "LoadURL", "Reload", "StopLoading",
               "DidRemoveBackForwardItem", "Close"}
ToUINames == {"AddBackForwardItem", "BackForwardAddItem", "BackForwardGoToItem"}

Msg(name, item) == [name |-> name, item |-> item]

\* CreateWebPage carries the creation parameters: the session state (the items of
\* the list) and the highest identifier in use.
CreateMsg(items, highest) == [name |-> "CreateWebPage", items |-> items, highest |-> highest]

Message(names) == [name : names \ {"CreateWebPage"}, item : ItemOrNone]

CreateMessage == [name : {"CreateWebPage"}, items : SUBSET ItemID, highest : ItemOrNone]

PageTypeOK ==
    /\ m_isValid \in BOOLEAN
    /\ backForwardListItemMap \subseteq ItemID
    /\ highestUsedItemID \in ItemOrNone
    /\ toWeb \in Seq(Message(ToWebNames) \cup CreateMessage)
    /\ toUI \in Seq(Message(ToUINames))
    /\ running \in BOOLEAN /\ webPage \in BOOLEAN /\ waiting \in BOOLEAN
    /\ uniqueHistoryItemID \in Nat /\ uniqueHistoryItemID % 2 = 1
    /\ idToHistoryItemMap \subseteq ItemID
    /\ m_currentItem \in ItemOrNone
    /\ m_provisionalItem \in ItemOrNone
    /\ m_loadType \in LoadTypes
    /\ requestedItem \in ItemOrNone /\ targetItem \in ItemOrNone
    /\ abandoned \in ItemOrNone
    /\ crashes \in Nat

-----------------------------------------------------------------------------
(* The web process as it starts, and as the UI process starts one.         *)

\* The static and member variables of a new web process.
FreshWebProcess ==
    /\ webPage' = FALSE
    /\ uniqueHistoryItemID' = 1
    /\ idToHistoryItemMap' = {}
    /\ m_currentItem' = NoItem
    /\ m_provisionalItem' = NoItem
    /\ m_loadType' = "None"
    /\ requestedItem' = NoItem
    /\ targetItem' = NoItem
    /\ waiting' = FALSE
    /\ abandoned' = NoItem

\* A tab has just been opened: initializeWebPage has sent CreateWebPage with the
\* empty list.
PageInit ==
    /\ Init
    /\ m_isValid = TRUE
    /\ backForwardListItemMap = {}
    /\ highestUsedItemID = NoItem
    /\ toWeb = <<CreateMsg({}, NoItem)>>
    /\ toUI = << >>
    /\ running = TRUE
    /\ webPage = FALSE
    /\ uniqueHistoryItemID = 1
    /\ idToHistoryItemMap = {}
    /\ m_currentItem = NoItem
    /\ m_provisionalItem = NoItem
    /\ m_loadType = "None"
    /\ requestedItem = NoItem
    /\ targetItem = NoItem
    /\ waiting = FALSE
    /\ abandoned = NoItem
    /\ crashes = 0

\* WebPageProxy::isValid: a page that was closed is never valid.
isValid == m_page /\ m_isValid

\* WebProcessProxy::send: what is sent to a dead process is lost.
Send(messages) == toWeb' = IF running THEN toWeb \o messages ELSE toWeb

\* Room for a command of the user.
Room == Len(toWeb) < MaxQueue

-----------------------------------------------------------------------------
(* UI process: commands of the user.                                       *)

\* backItem and forwardItem.
Neighbours ==
    {m_entries[k] : k \in {j \in 1 .. Len(m_entries) :
        m_hasCurrentIndex /\ (j = m_currentIndex \/ j = m_currentIndex + 2)}}

\* goBack, goForward with a valid page: the list does not move yet.
goBackOrForward(item) ==
    /\ isValid /\ Room
    /\ item \in Neighbours
    /\ Send(<<Msg("GoToItem", item)>>)
    /\ UNCHANGED <<listVars, uiVars, toUI, webVars, crashes>>

\* loadURL, reload and stopLoading with a valid page.
command(name) ==
    /\ isValid /\ Room
    /\ Send(<<Msg(name, NoItem)>>)
    /\ UNCHANGED <<listVars, uiVars, toUI, webVars, crashes>>

\* Mutant of reattachToWebProcess: the new process is not told which identifiers
\* are in use.
reattachToWebProcess_NoHighest(messages) ==
    /\ m_page /\ ~m_isValid
    /\ m_isValid' = TRUE
    /\ backForwardListItemMap' = Items(m_entries)
    /\ toWeb' = <<CreateMsg(Items(m_entries), NoItem)>> \o messages
    /\ toUI' = << >>
    /\ running' = TRUE
    /\ FreshWebProcess
    /\ UNCHANGED <<highestUsedItemID, crashes>>

\* Mutant of reattachToWebProcess: the session state is left out.
reattachToWebProcess_NoSession(messages) ==
    /\ m_page /\ ~m_isValid
    /\ m_isValid' = TRUE
    /\ backForwardListItemMap' = Items(m_entries)
    /\ toWeb' = <<CreateMsg({}, highestUsedItemID)>> \o messages
    /\ toUI' = << >>
    /\ running' = TRUE
    /\ FreshWebProcess
    /\ UNCHANGED <<highestUsedItemID, crashes>>

\* reattachToWebProcess and the initializeWebPage it calls, followed by the
\* messages that the caller sends: a new process whose proxy knows the items of
\* the list and which is sent them in CreateWebPage.
reattachToWebProcess(messages) ==
    /\ m_page /\ ~m_isValid
    /\ m_isValid' = TRUE
    /\ backForwardListItemMap' = Items(m_entries)
    /\ toWeb' = <<CreateMsg(Items(m_entries), highestUsedItemID)>> \o messages
    /\ toUI' = << >>
    /\ running' = TRUE
    /\ FreshWebProcess
    /\ UNCHANGED <<highestUsedItemID, crashes>>

\* loadURL for a page without a process.
loadURLAndReattach ==
    /\ reattachToWebProcess(<<Msg("LoadURL", NoItem)>>)
    /\ UNCHANGED listVars

\* goBack, goForward and reload for a page without a process: the list moves to
\* the item at once.
reattachToWebProcessWithItem(item) ==
    \/ /\ item \in Neighbours
       /\ GoToItem(item)
       /\ reattachToWebProcess(<<Msg("GoToItem", item)>>)
    \/ /\ item = currentItem /\ item # NoItem
       /\ reattachToWebProcess(<<Msg("GoToItem", item)>>)
       /\ UNCHANGED listVars

\* reload for a page without a process and without an item.
reloadAndReattach ==
    /\ currentItem = NoItem
    /\ reattachToWebProcess(<< >>)
    /\ UNCHANGED listVars

Removals(items) == [k \in 1 .. Len(items) |-> Msg("DidRemoveBackForwardItem", items[k])]

\* close: pageClosed drops every item, then Close is sent.
close ==
    /\ isValid
    /\ PageClosed
    /\ Send(Removals(m_entries) \o <<Msg("Close", NoItem)>>)
    /\ UNCHANGED <<uiVars, toUI, webVars, crashes>>

-----------------------------------------------------------------------------
(* UI process: messages of the web process.                                *)

ReceiveInUI(name) ==
    /\ toUI # << >>
    /\ Head(toUI).name = name
    /\ toUI' = Tail(toUI)

\* WebProcessProxy::addBackForwardItem; an item it knows is only updated.
addBackForwardItem ==
    /\ ReceiveInUI("AddBackForwardItem")
    /\ backForwardListItemMap' = backForwardListItemMap \cup {Head(toUI).item}
    /\ highestUsedItemID' = IF Head(toUI).item > highestUsedItemID
                            THEN Head(toUI).item ELSE highestUsedItemID
    /\ UNCHANGED <<listVars, m_isValid, toWeb, webVars, crashes>>

\* Mutant of backForwardAddItem: the web process is not told what left the list.
backForwardAddItem_Silent ==
    /\ ReceiveInUI("BackForwardAddItem")
    /\ IF m_page /\ Head(toUI).item \in backForwardListItemMap
       THEN AddItem(Head(toUI).item)
       ELSE UNCHANGED listVars
    /\ UNCHANGED <<uiVars, toWeb, webVars, crashes>>

\* backForwardAddItem.  A closed page has no message receiver any more; an item
\* that is not known is null, which addItem ignores.
backForwardAddItem ==
    /\ ReceiveInUI("BackForwardAddItem")
    /\ IF m_page /\ Head(toUI).item \in backForwardListItemMap
       THEN /\ AddItem(Head(toUI).item)
            /\ Send(Removals(Dropped))
       ELSE UNCHANGED <<listVars, toWeb>>
    /\ UNCHANGED <<uiVars, webVars, crashes>>

\* Mutant of backForwardGoToItem: no reply for an item that has left the list.
backForwardGoToItem_Held ==
    /\ ReceiveInUI("BackForwardGoToItem")
    /\ LET item == Head(toUI).item
       IN  IF m_page /\ item \in backForwardListItemMap /\ item \in Items(m_entries)
           THEN GoToItem(item) /\ waiting' = FALSE
           ELSE UNCHANGED <<listVars, waiting>>
    /\ UNCHANGED <<uiVars, toWeb, running, webPage, mapVars, loadVars, crashes>>

\* backForwardGoToItem, and the reply that the web process waits for.
backForwardGoToItem ==
    /\ ReceiveInUI("BackForwardGoToItem")
    /\ LET item == Head(toUI).item
       IN  IF m_page /\ item \in backForwardListItemMap /\ item \in Items(m_entries)
           THEN GoToItem(item)
           ELSE UNCHANGED listVars
    /\ waiting' = FALSE
    /\ UNCHANGED <<uiVars, toWeb, running, webPage, mapVars, loadVars, crashes>>

\* WebProcessProxy::didClose and WebPageProxy::processDidCrash: the end of the
\* connection is seen after the messages that were still in it.
processDidCrash ==
    /\ isValid /\ ~running /\ toUI = << >>
    /\ m_isValid' = FALSE
    /\ UNCHANGED <<listVars, backForwardListItemMap, highestUsedItemID, toWeb, toUI, webVars, crashes>>

-----------------------------------------------------------------------------
(* Web process.                                                            *)

\* The process is neither dead nor in the middle of a handler.
Idle == running /\ ~waiting /\ requestedItem = NoItem /\ targetItem = NoItem

ReceiveInWeb(name) ==
    /\ Idle
    /\ toWeb # << >>
    /\ Head(toWeb).name = name
    /\ toWeb' = Tail(toWeb)

\* Mutant of setHighestItemIDFromUIProcess: the parities are exchanged.
setHighestItemIDFromUIProcess_Even(itemID) ==
    uniqueHistoryItemID' = IF itemID <= uniqueHistoryItemID THEN uniqueHistoryItemID
                           ELSE IF itemID % 2 = 1 THEN itemID + 1 ELSE itemID

\* setHighestItemIDFromUIProcess; the web process uses odd identifiers.
setHighestItemIDFromUIProcess(itemID) ==
    uniqueHistoryItemID' = IF itemID <= uniqueHistoryItemID THEN uniqueHistoryItemID
                           ELSE IF itemID % 2 = 1 THEN itemID ELSE itemID + 1

\* The constructor of WebPage with restoreSession.
CreateWebPage ==
    /\ ReceiveInWeb("CreateWebPage")
    /\ webPage' = TRUE
    /\ setHighestItemIDFromUIProcess(Head(toWeb).highest)
    /\ idToHistoryItemMap' = idToHistoryItemMap \cup Head(toWeb).items
    /\ UNCHANGED <<listVars, uiVars, toUI, running, loadVars, waiting, crashes>>

\* WebBackForwardListProxy::goToItem, a synchronous message.
sendSyncGoToItem(item) ==
    /\ toUI' = Append(toUI, Msg("BackForwardGoToItem",
                                IF item \in idToHistoryItemMap THEN item ELSE NoItem))
    /\ waiting' = TRUE

\* Mutant of EndProvisionalLoad: the cursor is never moved back.
EndProvisionalLoad_NoReset(provisionalItem) ==
    /\ UNCHANGED <<toUI, waiting>>
    /\ abandoned' = IF m_loadType = "BackForward" /\ provisionalItem # NoItem
                    THEN m_provisionalItem ELSE abandoned

\* checkLoadCompleteForThisFrame for a provisional load that has ended with an
\* error: the cursor is moved back for a back/forward load, `only if we aren't
\* already going to a new provisional item', and if there is a page to go back to.
EndProvisionalLoad(provisionalItem) ==
    \/ /\ m_loadType = "BackForward" /\ provisionalItem = NoItem /\ m_currentItem # NoItem
       /\ sendSyncGoToItem(m_currentItem)
       /\ UNCHANGED abandoned
    \/ /\ m_loadType = "BackForward" /\ (provisionalItem # NoItem \/ m_currentItem = NoItem)
       /\ abandoned' = m_provisionalItem
       /\ UNCHANGED <<toUI, waiting>>
    \/ /\ m_loadType # "BackForward"
       /\ UNCHANGED <<abandoned, toUI, waiting>>

\* stopAllLoaders(ShouldClearProvisionalItem), the default.
stopAllLoaders ==
    /\ m_provisionalItem' = NoItem
    /\ EndProvisionalLoad(NoItem)
    /\ m_loadType' = "None"

\* WebPage::goBack, goForward and goToBackForwardItem, and the first half of
\* Page::goToItem: a load under way is stopped unless no page is displayed yet
\* (shouldStopLoadingForHistoryItem; navigation within a document is left out).  An
\* item that is not in the map is ignored.
goToItem ==
    /\ ReceiveInWeb("GoToItem")
    /\ IF Head(toWeb).item \in idToHistoryItemMap
       THEN /\ requestedItem' = Head(toWeb).item
            /\ \/ m_currentItem # NoItem /\ stopAllLoaders
               \/ m_currentItem = NoItem /\ UNCHANGED <<m_provisionalItem, m_loadType, abandoned, toUI, waiting>>
       ELSE UNCHANGED <<requestedItem, m_provisionalItem, m_loadType, abandoned, toUI, waiting>>
    /\ UNCHANGED <<listVars, uiVars, running, webPage, mapVars, m_currentItem, targetItem, crashes>>

\* HistoryController::goToItem moves the cursor of the list first.
setCurrentItem ==
    /\ running /\ ~waiting /\ requestedItem # NoItem
    /\ sendSyncGoToItem(requestedItem)
    /\ targetItem' = requestedItem
    /\ requestedItem' = NoItem
    /\ UNCHANGED <<listVars, uiVars, toWeb, running, webPage, mapVars, m_currentItem,
                   m_provisionalItem, m_loadType, abandoned, crashes>>

\* The rest of HistoryController::goToItem: loadDifferentDocumentItem sets the
\* provisional item and starts the load.  A load that goToItem has not stopped is
\* stopped now; its error finds the provisional item set and leaves the cursor alone.
loadItem ==
    /\ running /\ ~waiting /\ targetItem # NoItem
    /\ m_provisionalItem' = targetItem
    /\ m_loadType' = "BackForward"
    /\ targetItem' = NoItem
    /\ abandoned' = NoItem
    /\ UNCHANGED <<listVars, uiVars, toWeb, toUI, running, webPage, mapVars,
                   m_currentItem, requestedItem, waiting, crashes>>

\* FrameLoader::load and reload: stopAllLoaders(ShouldNotClearProvisionalItem),
\* then the new load.
StartLoad(type) ==
    /\ EndProvisionalLoad(m_provisionalItem)
    /\ m_loadType' = type
    /\ UNCHANGED <<listVars, uiVars, running, webPage, mapVars, m_currentItem,
                   m_provisionalItem, requestedItem, targetItem, crashes>>

\* A load of the URL that is displayed is a FrameLoadTypeSame, which like a reload
\* keeps the item.
NewLoadTypes == IF m_currentItem = NoItem THEN {"Standard"} ELSE {"Standard", "Reload"}

\* WebPage::loadURL and reload; without a document there is nothing to reload.
loadURL == ReceiveInWeb("LoadURL") /\ \E type \in NewLoadTypes : StartLoad(type)

reloadFrame ==
    /\ ReceiveInWeb("Reload")
    /\ IF m_currentItem # NoItem
       THEN StartLoad("Reload")
       ELSE UNCHANGED <<listVars, uiVars, toUI, webVars, crashes>>

\* The user clicks a link, or a script sets the location.
followLink ==
    /\ Idle /\ webPage /\ m_currentItem # NoItem
    /\ \E type \in NewLoadTypes : StartLoad(type)
    /\ UNCHANGED toWeb

\* WebPage::stopLoading.
stopLoading ==
    /\ ReceiveInWeb("StopLoading")
    /\ stopAllLoaders
    /\ UNCHANGED <<listVars, uiVars, running, webPage, mapVars, m_currentItem,
                   requestedItem, targetItem, crashes>>

\* The server fails, or the response becomes a download: mainReceivedError.
mainReceivedError ==
    /\ Idle /\ m_loadType # "None"
    /\ EndProvisionalLoad(m_provisionalItem)
    /\ m_loadType' = "None"
    /\ UNCHANGED <<listVars, uiVars, toWeb, running, webPage, mapVars, m_currentItem,
                   m_provisionalItem, requestedItem, targetItem, crashes>>

\* commitProvisionalLoad of a page that gets an item of its own:
\* updateForStandardLoad and WebBackForwardListProxy::addItem.
commitStandardLoad ==
    /\ Idle /\ m_loadType = "Standard"
    /\ Len(toUI) < MaxQueue
    /\ LET itemID == uniqueHistoryItemID + 2
       IN  /\ itemID \in ItemID
           /\ uniqueHistoryItemID' = itemID
           /\ idToHistoryItemMap' = idToHistoryItemMap \cup {itemID}
           /\ m_currentItem' = itemID
           /\ toUI' = toUI \o <<Msg("AddBackForwardItem", itemID), Msg("BackForwardAddItem", itemID)>>
    /\ m_loadType' = "None"
    /\ abandoned' = NoItem
    /\ UNCHANGED <<listVars, uiVars, toWeb, running, webPage, m_provisionalItem,
                   requestedItem, targetItem, waiting, crashes>>

\* commitProvisionalLoad of a back/forward load: updateForCommit.
commitBackForwardLoad ==
    /\ Idle /\ m_loadType = "BackForward"
    /\ m_currentItem' = m_provisionalItem
    /\ m_provisionalItem' = NoItem
    /\ m_loadType' = "None"
    /\ abandoned' = NoItem
    /\ UNCHANGED <<listVars, uiVars, toWeb, toUI, running, webPage, mapVars,
                   requestedItem, targetItem, waiting, crashes>>

\* commitProvisionalLoad of a reload keeps the item.
commitReload ==
    /\ Idle /\ m_loadType = "Reload"
    /\ m_loadType' = "None"
    /\ UNCHANGED <<listVars, uiVars, toWeb, toUI, running, webPage, mapVars, m_currentItem,
                   m_provisionalItem, requestedItem, targetItem, abandoned, waiting, crashes>>

\* Mutant of didRemoveBackForwardItem: the map keeps the item.
didRemoveBackForwardItem_Leak ==
    /\ ReceiveInWeb("DidRemoveBackForwardItem")
    /\ UNCHANGED <<listVars, uiVars, toUI, webVars, crashes>>

\* WebBackForwardListProxy::removeItem.
didRemoveBackForwardItem ==
    /\ ReceiveInWeb("DidRemoveBackForwardItem")
    /\ idToHistoryItemMap' = idToHistoryItemMap \ {Head(toWeb).item}
    /\ UNCHANGED <<listVars, uiVars, toUI, running, webPage, uniqueHistoryItemID,
                   loadVars, waiting, crashes>>

\* WebPage::close; detachFromParent stops the loads of the frame.
closeWebPage ==
    /\ ReceiveInWeb("Close")
    /\ webPage' = FALSE
    /\ stopAllLoaders
    /\ UNCHANGED <<listVars, uiVars, running, mapVars, m_currentItem, requestedItem,
                   targetItem, crashes>>

\* The web process dies.  What it had written to the connection is still read,
\* what it had queued is not; what was sent to it is lost.
Crash ==
    /\ running /\ crashes < MaxCrashes
    /\ running' = FALSE
    /\ crashes' = crashes + 1
    /\ toWeb' = << >>
    /\ \E n \in 0 .. Len(toUI) : toUI' = SubSeq(toUI, 1, n)
    /\ FreshWebProcess
    /\ UNCHANGED <<listVars, uiVars>>

-----------------------------------------------------------------------------
User ==
    \/ \E item \in ItemID : goBackOrForward(item) \/ reattachToWebProcessWithItem(item)
    \/ \E name \in {"LoadURL", "Reload", "StopLoading"} : command(name)
    \/ loadURLAndReattach
    \/ reloadAndReattach
    \/ close

\* What the run loop of the UI process does with what arrives.
UIProcess ==
    \/ addBackForwardItem
    \/ backForwardAddItem
    \/ backForwardGoToItem
    \/ processDidCrash

\* What the run loop of the web process does with what arrives.
WebProcess ==
    \/ CreateWebPage
    \/ goToItem
    \/ setCurrentItem
    \/ loadItem
    \/ loadURL
    \/ reloadFrame
    \/ stopLoading
    \/ didRemoveBackForwardItem
    \/ closeWebPage

\* What the network and the user do to the page.
Loading ==
    \/ followLink
    \/ mainReceivedError
    \/ commitStandardLoad
    \/ commitBackForwardLoad
    \/ commitReload

PageNext == User \/ UIProcess \/ WebProcess \/ Loading \/ Crash

PageSpec == PageInit /\ [][PageNext]_pageVars

\* Both run loops take the next message of their queue.  Nothing is assumed of the
\* network or of crashes, and of the user only that he does not leave file choosers
\* open until all chains of EventLoop wait.
FairPageSpec == PageSpec /\ WF_pageVars(UIProcess) /\ WF_pageVars(WebProcess)

-----------------------------------------------------------------------------
(* Properties.                                                             *)

\* The messages of a channel with a name, and the items they are about.
Named(channel, name) == {k \in 1 .. Len(channel) : channel[k].name = name}

ItemsOf(channel, name) == {channel[k].item : k \in Named(channel, name)}

SessionItems == UNION {toWeb[k].items : k \in Named(toWeb, "CreateWebPage")}

\* ASSERT(item) of WebPage::goBack, goForward and goToBackForwardItem: the item the
\* user asked for is still in the map when the message arrives, whatever was
\* committed or removed in the meantime and whichever process receives it.
KnownItem ==
    (Idle /\ toWeb # << >> /\ Head(toWeb).name = "GoToItem")
        => Head(toWeb).item \in idToHistoryItemMap

\* An item that arrives for the list of an open page is known to the process proxy,
\* so it is not null, and has an identifier that was never used in this list, also
\* after a crash (`the IDs generated here need to never collide').
NewItemIsNew ==
    (m_page /\ toUI # << >> /\ Head(toUI).name = "BackForwardAddItem")
        => /\ Head(toUI).item \in backForwardListItemMap
           /\ Fresh(Head(toUI).item)

\* The two processes agree about the items of an open page up to what is on its way
\* between them: the map of the web process, once it has the session and has
\* dropped what it is told to drop, holds the items of the list and those that are
\* about to be added.  Nothing leaks and nothing is lost, also across a crash.
MapsAgree ==
    (m_page /\ running /\ m_isValid)
        => (idToHistoryItemMap \cup SessionItems) \ ItemsOf(toWeb, "DidRemoveBackForwardItem")
             = Items(m_entries) \cup ItemsOf(toUI, "BackForwardAddItem")

\* Nothing is on its way and no load is under way.
Quiet ==
    /\ isValid /\ Idle /\ webPage
    /\ toWeb = << >> /\ toUI = << >>
    /\ m_loadType = "None"

\* The page the list should stand at: the displayed one, or the one that could not
\* be loaded and whose load was not taken back.
Standing == IF abandoned = NoItem THEN m_currentItem ELSE abandoned

\* Whenever nothing is going on, the list stands at the displayed page, however many
\* back/forward loads were asked for, replaced by others and stopped; only one that
\* fails, gives way to a new page or reload, or is stopped before any page is
\* displayed leaves the list at its own item.
CursorExplained == (Quiet /\ Standing \in Items(m_entries)) => currentItem = Standing

\* A synchronous message is answered: the web process never hangs in
\* WebBackForwardListProxy::goToItem.
Answered == waiting ~> ~waiting

\* Every item that leaves the list leaves the map of the web process.
Forgotten == \A i \in ItemID : (removed[i] > 0) ~> (i \notin idToHistoryItemMap)
====
