---- MODULE DownloadsProofs ----
(***************************************************************************)
(* Proofs about Downloads, for every number of tabs, downloads, pieces of  *)
(* data, changes of tab and crashes.                                       *)
(***************************************************************************)
EXTENDS Downloads, SequenceTheorems, TLAPS

\* The variables that the save-as flag depends on.
FlagTypes ==
    /\ currenttab \in Tab
    /\ savetargetas \in [Tab -> BOOLEAN]
    /\ target \in Tab \cup {NoTab}

\* The inductive invariant of the flag.
FlagInv == FlagTypes /\ SaveTargetKept

flagVars == <<currenttab, savetargetas, target, overtaken>>

\* NoTab is not a tab.
LEMMA NoTabIsNone == NoTab \notin Tab
  BY DownloadsAssumption DEF NoTab, Tab

\* Most steps do not touch the flag and what it depends on.
LEMMA FlagUnchanged ==
    ASSUME FlagInv, UNCHANGED flagVars
    PROVE  FlagInv'
  BY DEF FlagInv, FlagTypes, SaveTargetKept, flagVars

\* A response clears the flag of the current tab only, and whether it was the flag
\* of the awaited load is recorded.
LEMMA RespondFlag ==
    ASSUME FlagInv, NEW t \in Tab, Respond(t)
    PROVE  FlagInv'
<1>1. /\ savetargetas' = [savetargetas EXCEPT ![currenttab] = FALSE]
      /\ overtaken' = (overtaken \/ target = currenttab)
      /\ currenttab' = currenttab /\ target' = target
  BY DEF Respond, decidePolicyForResponse
<1>2. FlagTypes'
  BY <1>1 DEF FlagInv, FlagTypes
<1>3. SaveTargetKept'
  <2> SUFFICES ASSUME target \in Tab, ~overtaken, target # currenttab
               PROVE  savetargetas'[target]
    BY <1>1 DEF SaveTargetKept
  <2>1. savetargetas[target]
    BY DEF FlagInv, SaveTargetKept
  <2> QED
    BY <1>1, <2>1 DEF FlagInv, FlagTypes
<1> QED
  BY <1>2, <1>3 DEF FlagInv

\* Every step keeps the flag up, or records that a response has taken it.
LEMMA NextFlag ==
    ASSUME FlagInv, [Next]_vars
    PROVE  FlagInv'
<1>1. ASSUME NEW t \in Tab, Respond(t) PROVE FlagInv'
  BY <1>1, RespondFlag
<1>2. CASE RespondToTarget
  <2>1. /\ savetargetas' = [savetargetas EXCEPT ![currenttab] = FALSE]
        /\ currenttab' = currenttab /\ target' = NoTab
    BY <1>2 DEF RespondToTarget, decidePolicyForResponse
  <2> QED
    BY <2>1, NoTabIsNone DEF FlagInv, FlagTypes, SaveTargetKept
<1>3. CASE FailTarget
  <2>1. savetargetas' = savetargetas /\ currenttab' = currenttab /\ target' = NoTab
    BY <1>3 DEF FailTarget, fieldVars
  <2> QED
    BY <2>1, NoTabIsNone DEF FlagInv, FlagTypes, SaveTargetKept
<1>4. ASSUME NEW t \in Tab, Crash(t) PROVE FlagInv'
  <2>1. /\ savetargetas' = savetargetas /\ currenttab' = currenttab
        /\ target' = (IF target = t THEN NoTab ELSE target)
        /\ overtaken' = (overtaken /\ target # t)
    BY <1>4 DEF Crash, fieldVars
  <2>2. CASE target = t
    BY <2>1, <2>2, NoTabIsNone DEF FlagInv, FlagTypes, SaveTargetKept
  <2>3. CASE target # t
    <3>1. target' = target /\ (overtaken' <=> overtaken)
      BY <2>1, <2>3
    <3> QED
      BY <2>1, <3>1 DEF FlagInv, FlagTypes, SaveTargetKept
  <2> QED
    BY <2>2, <2>3
<1>5. CASE download_file
  <2>1. /\ savetargetas' = [savetargetas EXCEPT ![currenttab] = TRUE]
        /\ currenttab' = currenttab /\ target' = currenttab
    BY <1>5 DEF download_file
  <2>2. FlagTypes'
    BY <2>1 DEF FlagInv, FlagTypes
  <2>3. savetargetas'[target']
    BY <2>1 DEF FlagInv, FlagTypes
  <2> QED
    BY <2>2, <2>3 DEF FlagInv, SaveTargetKept
<1>6. ASSUME NEW t \in Tab, selectTab(t) PROVE FlagInv'
  <2>1. /\ savetargetas' = savetargetas /\ currenttab' = t
        /\ target' = target /\ overtaken' = overtaken
    BY <1>6 DEF selectTab, fieldVars, webVars
  <2> QED
    BY <2>1 DEF FlagInv, FlagTypes, SaveTargetKept
<1>7. CASE cb_stop_xfer \/ answer \/ UNCHANGED vars
  <2>1. UNCHANGED flagVars
    BY <1>7 DEF cb_stop_xfer, answer, vars, fieldVars, webVars, flagVars
  <2> QED
    BY <2>1, FlagUnchanged
<1>8. CASE Handle
  <2>1. UNCHANGED flagVars
    BY <1>8 DEF Handle, handleProgress, handleDidFinish, handleOver, handleDidClose,
                fieldVars, webVars, flagVars
  <2> QED
    BY <2>1, FlagUnchanged
<1>9. ASSUME NEW d \in Download, startWithHandle(d) \/ cancelDownload(d) PROVE FlagInv'
  <2>1. UNCHANGED flagVars
    BY <1>9 DEF startWithHandle, cancelDownload, Send, fieldVars, flagVars
  <2> QED
    BY <2>1, FlagUnchanged
<1>10. ASSUME NEW t \in Tab, runJavaScriptConfirm(t) PROVE FlagInv'
  <2>1. UNCHANGED flagVars
    BY <1>10 DEF runJavaScriptConfirm, fieldVars, webVars, flagVars
  <2> QED
    BY <2>1, FlagUnchanged
<1>11. ASSUME NEW d \in Download,
              decideDestinationWithSuggestedFilename(d) \/ receiveData(d) \/ endDownload(d)
       PROVE  FlagInv'
  <2>1. UNCHANGED flagVars
    BY <1>11 DEF decideDestinationWithSuggestedFilename, receiveData, endDownload, Send,
                 fieldVars, flagVars
  <2> QED
    BY <2>1, FlagUnchanged
<1> QED
  BY <1>1, <1>2, <1>3, <1>4, <1>5, <1>6, <1>7, <1>8, <1>9, <1>10, <1>11
  DEF Next, Obey, User, Network

\* At start no load is awaited.
LEMMA InitFlag == Init => FlagInv
<1> SUFFICES ASSUME Init PROVE FlagInv
  OBVIOUS
<1>1. 0 \in Tab
  BY DownloadsAssumption DEF Tab
<1> QED
  BY <1>1, NoTabIsNone DEF Init, FlagInv, FlagTypes, SaveTargetKept

\* `Save target as...': as long as its load awaits a response the flag is up,
\* unless a response that came while the tab was current has taken it.
THEOREM SaveTargetFlag == Spec => []SaveTargetKept
<1>1. Init => FlagInv
  BY InitFlag
<1>2. FlagInv /\ [Next]_vars => FlagInv'
  BY NextFlag
<1>3. FlagInv => SaveTargetKept
  BY DEF FlagInv
<1> QED
  BY <1>1, <1>2, <1>3, PTL DEF Spec

-----------------------------------------------------------------------------
(* ProxyKnown.                                                             *)

\* The messages with which a download ends.
Final == {"DidFinish", "DidFail", "DidCancel"}

\* The k-th message is about the download.
About(k, d) ==
    m_functionQueue[k].name \in DownloadMessages /\ m_functionQueue[k].download = d

IsQuestion(q) ==
    q = [kind |-> q.kind, tab |-> q.tab, download |-> q.download, file |-> q.file, buf |-> q.buf]

ProxyTypes ==
    /\ m_functionQueue \in Seq(Message)
    /\ uniqueDownloadID \in DownloadOrNone
    /\ alive \in [Tab -> BOOLEAN]
    /\ home \in [Download -> Tab]
    /\ phase \in [Download -> {"new", "accepted", "started", "writing", "over"}]
    /\ dialog = NoDialog \/ IsQuestion(dialog)

\* createDownloadProxy gives each number once.
NumberNew == \A d \in Download : d > uniqueDownloadID => phase[d] = "new"

\* A download that a process works on has its proxy.
ActiveKnown ==
    \A d \in Download :
        phase[d] \in {"accepted", "started", "writing"} => (d \in m_downloads /\ alive[home[d]])

\* So has one that a message is about, whether or not its process has died since.
MessagesKnown ==
    \A k \in 1 .. Len(m_functionQueue) :
        m_functionQueue[k].name \in DownloadMessages
            => /\ m_functionQueue[k].download \in Download
               /\ m_functionQueue[k].tab = home[m_functionQueue[k].download]
               /\ phase[m_functionQueue[k].download] # "new"
               /\ m_functionQueue[k].download \in m_downloads

\* The message with which a download ends is the last one about it.
FinalOver ==
    \A k \in 1 .. Len(m_functionQueue) :
        m_functionQueue[k].name \in Final => phase[m_functionQueue[k].download] = "over"

FinalLast ==
    \A j, k \in 1 .. Len(m_functionQueue) :
        (m_functionQueue[k].name \in Final /\ k < j) => ~About(j, m_functionQueue[k].download)

\* DidClose comes from a dead process.
CloseDead ==
    \A k \in 1 .. Len(m_functionQueue) :
        m_functionQueue[k].name = "DidClose" => ~alive[m_functionQueue[k].tab]

\* It is the last message of the process.
CloseLast ==
    \A j, k \in 1 .. Len(m_functionQueue) :
        (m_functionQueue[k].name = "DidClose" /\ k < j) => m_functionQueue[j].tab # m_functionQueue[k].tab

\* While the user is asked about a download no message about it is on its way.
DialogKnown ==
    Shown("open") =>
        /\ dialog.download \in Download
        /\ dialog.tab = home[dialog.download]
        /\ phase[dialog.download] = "over"
        /\ \A k \in 1 .. Len(m_functionQueue) : ~About(k, dialog.download)

\* Its proxy is there until the end of the process is handled.
DialogProxy ==
    \A t \in Tab : (Shown("open") /\ dialog.tab = t) => (dialog.download \in m_downloads \/ Closed(t))

\* The inductive invariant of the proxies.
ProxyInv ==
    /\ ProxyTypes
    /\ NumberNew
    /\ ActiveKnown
    /\ MessagesKnown
    /\ FinalOver
    /\ FinalLast
    /\ CloseDead
    /\ CloseLast
    /\ DialogKnown
    /\ DialogProxy

knownVars == <<m_functionQueue, dialog, uniqueDownloadID, m_downloads, alive, home, phase>>

\* The invariant says of each message what ProxyKnown says of the queue.
LEMMA ProxyInvImplies == ProxyInv => ProxyKnown
<1> SUFFICES ASSUME ProxyInv PROVE ProxyKnown
  OBVIOUS
<1>1. ASSUME NEW name \in DownloadMessages, NEW k \in Queued(name)
      PROVE  m_functionQueue[k].download \in m_downloads
  BY <1>1 DEF ProxyInv, MessagesKnown, Queued
<1>2. Shown("open") => (dialog.download \in m_downloads \/ Closed(dialog.tab))
  <2> SUFFICES ASSUME Shown("open") PROVE dialog.download \in m_downloads \/ Closed(dialog.tab)
    OBVIOUS
  <2>1. dialog.tab \in Tab
    BY DEF ProxyInv, ProxyTypes, DialogKnown
  <2> QED
    BY <2>1 DEF ProxyInv, DialogProxy
<1> QED
  BY <1>1, <1>2 DEF ProxyKnown

\* At start nothing is queued and no download exists.
LEMMA InitProxyInv == Init => ProxyInv
<1> SUFFICES ASSUME Init PROVE ProxyInv
  OBVIOUS
<1>1. m_functionQueue = << >> /\ dialog = NoDialog
  BY DEF Init, QueueInit
<1>2. 0 \in Tab
  BY DownloadsAssumption DEF Tab
<1>3. ProxyTypes
  BY <1>1, <1>2 DEF Init, ProxyTypes, DownloadOrNone, None
<1>4. NumberNew /\ ActiveKnown
  BY DEF Init, NumberNew, ActiveKnown
<1>5. MessagesKnown /\ FinalOver /\ FinalLast /\ CloseDead /\ CloseLast
  BY <1>1 DEF MessagesKnown, FinalOver, FinalLast, CloseDead, CloseLast
<1>6. DialogKnown /\ DialogProxy
  BY <1>1 DEF DialogKnown, DialogProxy, Shown
<1> QED
  BY <1>3, <1>4, <1>5, <1>6 DEF ProxyInv

\* Steps that touch neither downloads nor messages keep the invariant.
LEMMA KnownUnchanged ==
    ASSUME ProxyInv, UNCHANGED knownVars
    PROVE  ProxyInv'
<1> USE DEF knownVars
<1>1. ProxyTypes' /\ NumberNew' /\ ActiveKnown'
  BY DEF ProxyInv, ProxyTypes, NumberNew, ActiveKnown, IsQuestion
<1>2. MessagesKnown' /\ FinalOver' /\ FinalLast' /\ CloseDead' /\ CloseLast'
  BY DEF ProxyInv, MessagesKnown, FinalOver, FinalLast, CloseDead, CloseLast, About
<1>3. DialogKnown' /\ DialogProxy'
  BY DEF ProxyInv, DialogKnown, DialogProxy, Shown, About, Closed, Queued
<1> QED
  BY <1>1, <1>2, <1>3 DEF ProxyInv

\* The queue with a message more or less.
LEMMA Appended ==
    ASSUME ProxyInv, NEW m \in Message, m_functionQueue' = Append(m_functionQueue, m)
    PROVE  /\ Len(m_functionQueue) \in Nat
           /\ m_functionQueue' \in Seq(Message)
           /\ Len(m_functionQueue') = Len(m_functionQueue) + 1
           /\ \A k \in 1 .. Len(m_functionQueue') :
                \/ k \in 1 .. Len(m_functionQueue) /\ m_functionQueue'[k] = m_functionQueue[k]
                \/ k = Len(m_functionQueue) + 1 /\ m_functionQueue'[k] = m
<1>1. m_functionQueue \in Seq(Message)
  BY DEF ProxyInv, ProxyTypes
<1> QED
  BY <1>1, AppendProperties

\* The first message leaves the queue, the others move up.
LEMMA Dequeued ==
    ASSUME ProxyInv, dequeue
    PROVE  /\ Len(m_functionQueue) \in Nat
           /\ m_functionQueue' \in Seq(Message)
           /\ Len(m_functionQueue') = Len(m_functionQueue) - 1
           /\ 1 \in 1 .. Len(m_functionQueue) /\ Taken = m_functionQueue[1]
           /\ \A k \in 1 .. Len(m_functionQueue') :
                /\ k + 1 \in 1 .. Len(m_functionQueue) /\ 1 < k + 1
                /\ m_functionQueue'[k] = m_functionQueue[k + 1]
<1>1. m_functionQueue \in Seq(Message) /\ m_functionQueue # << >>
      /\ m_functionQueue' = Tail(m_functionQueue)
  BY DEF ProxyInv, ProxyTypes, dequeue
<1> QED
  BY <1>1, HeadTailProperties DEF Taken

\* A process sends a message about a download that it works on, and goes on or is
\* done with it.
LEMMA SendKnown ==
    ASSUME ProxyInv,
           NEW d \in Download, phase[d] \in {"accepted", "started", "writing"},
           NEW name \in DownloadMessages,
           NEW p \in {"started", "writing", "over"},
           name \in Final => p = "over",
           m_functionQueue' = Append(m_functionQueue, Msg(name, home[d], d)),
           phase' = [phase EXCEPT ![d] = p],
           UNCHANGED <<dialog, uniqueDownloadID, m_downloads, alive, home>>
    PROVE  ProxyInv'
<1> DEFINE m == Msg(name, home[d], d)
<1>1. m \in Message /\ m.name = name /\ m.download = d /\ m.tab = home[d]
  BY DEF ProxyInv, ProxyTypes, Message, Msg, DownloadOrNone
<1> HIDE DEF m
<1>2. m_functionQueue' = Append(m_functionQueue, m)
  BY DEF m
<1>3. /\ Len(m_functionQueue) \in Nat
      /\ m_functionQueue' \in Seq(Message)
      /\ Len(m_functionQueue') = Len(m_functionQueue) + 1
      /\ \A k \in 1 .. Len(m_functionQueue') :
           \/ k \in 1 .. Len(m_functionQueue) /\ m_functionQueue'[k] = m_functionQueue[k]
           \/ k = Len(m_functionQueue) + 1 /\ m_functionQueue'[k] = m
  BY <1>1, <1>2, Appended
<1>4. /\ phase'[d] = p
      /\ \A e \in Download : e # d => phase'[e] = phase[e]
      /\ phase' \in [Download -> {"new", "accepted", "started", "writing", "over"}]
  BY DEF ProxyInv, ProxyTypes
<1>5. d \in m_downloads /\ alive[home[d]]
  BY DEF ProxyInv, ActiveKnown
<1>6. ProxyTypes'
  BY <1>3, <1>4 DEF ProxyInv, ProxyTypes, IsQuestion
<1>7. NumberNew'
  <2>1. phase[d] # "new"
    OBVIOUS
  <2>2. \A e \in Download : e > uniqueDownloadID => phase[e] = "new"
    BY DEF ProxyInv, NumberNew
  <2> QED
    BY <1>4, <2>1, <2>2 DEF NumberNew
<1>8. ActiveKnown'
  BY <1>4, <1>5 DEF ProxyInv, ActiveKnown
<1>9. MessagesKnown'
  <2> SUFFICES ASSUME NEW k \in 1 .. Len(m_functionQueue'),
                      m_functionQueue'[k].name \in DownloadMessages
               PROVE  /\ m_functionQueue'[k].download \in Download
                      /\ m_functionQueue'[k].tab = home[m_functionQueue'[k].download]
                      /\ phase'[m_functionQueue'[k].download] # "new"
                      /\ m_functionQueue'[k].download \in m_downloads
    BY DEF MessagesKnown
  <2>1. CASE k \in 1 .. Len(m_functionQueue) /\ m_functionQueue'[k] = m_functionQueue[k]
    <3>1. /\ m_functionQueue[k].download \in Download
          /\ m_functionQueue[k].tab = home[m_functionQueue[k].download]
          /\ phase[m_functionQueue[k].download] # "new"
          /\ m_functionQueue[k].download \in m_downloads
      BY <2>1 DEF ProxyInv, MessagesKnown
    <3>2. phase'[m_functionQueue[k].download] # "new"
      BY <1>4, <3>1
    <3> QED
      BY <2>1, <3>1, <3>2
  <2>2. CASE m_functionQueue'[k] = m
    BY <1>1, <1>4, <1>5, <2>2
  <2> QED
    BY <1>3, <2>1, <2>2
<1>10. FinalOver'
  <2> SUFFICES ASSUME NEW k \in 1 .. Len(m_functionQueue'), m_functionQueue'[k].name \in Final
               PROVE  phase'[m_functionQueue'[k].download] = "over"
    BY DEF FinalOver
  <2>1. CASE k \in 1 .. Len(m_functionQueue) /\ m_functionQueue'[k] = m_functionQueue[k]
    <3>1. phase[m_functionQueue[k].download] = "over"
      BY <2>1 DEF ProxyInv, FinalOver
    <3>2. m_functionQueue[k].download \in Download
      BY <2>1 DEF ProxyInv, MessagesKnown, Final, DownloadMessages
    <3> QED
      BY <1>4, <2>1, <3>1, <3>2
  <2>2. CASE m_functionQueue'[k] = m
    BY <1>1, <1>4, <2>2
  <2> QED
    BY <1>3, <2>1, <2>2
<1>11. \A k \in 1 .. Len(m_functionQueue) :
          m_functionQueue[k].name \in Final => m_functionQueue[k].download # d
  BY DEF ProxyInv, FinalOver
<1>12. FinalLast'
  <2> SUFFICES ASSUME NEW j \in 1 .. Len(m_functionQueue'), NEW k \in 1 .. Len(m_functionQueue'),
                      m_functionQueue'[k].name \in Final, k < j,
                      m_functionQueue'[j].name \in DownloadMessages
               PROVE  m_functionQueue'[j].download # m_functionQueue'[k].download
    BY DEF FinalLast, About
  <2>1. k \in 1 .. Len(m_functionQueue) /\ m_functionQueue'[k] = m_functionQueue[k]
    BY <1>3
  <2>2. CASE j \in 1 .. Len(m_functionQueue) /\ m_functionQueue'[j] = m_functionQueue[j]
    BY <2>1, <2>2 DEF ProxyInv, FinalLast, About
  <2>3. CASE m_functionQueue'[j] = m
    BY <1>1, <1>11, <2>1, <2>3
  <2> QED
    BY <1>3, <2>2, <2>3
<1>13. CloseDead' /\ m.name # "DidClose"
  <2>1. m.name # "DidClose"
    BY <1>1 DEF DownloadMessages
  <2> QED
    BY <1>3, <2>1 DEF ProxyInv, CloseDead
<1>14. CloseLast'
  <2> SUFFICES ASSUME NEW j \in 1 .. Len(m_functionQueue'), NEW k \in 1 .. Len(m_functionQueue'),
                      m_functionQueue'[k].name = "DidClose", k < j
               PROVE  m_functionQueue'[j].tab # m_functionQueue'[k].tab
    BY DEF CloseLast
  <2>1. k \in 1 .. Len(m_functionQueue) /\ m_functionQueue'[k] = m_functionQueue[k]
    BY <1>3
  <2>2. CASE j \in 1 .. Len(m_functionQueue) /\ m_functionQueue'[j] = m_functionQueue[j]
    BY <2>1, <2>2 DEF ProxyInv, CloseLast
  <2>3. CASE m_functionQueue'[j] = m
    BY <1>1, <1>5, <2>1, <2>3 DEF ProxyInv, CloseDead
  <2> QED
    BY <1>3, <2>2, <2>3
<1>15. DialogProxy'
  <2> SUFFICES ASSUME NEW t \in Tab, Shown("open"), dialog.tab = t
               PROVE  dialog.download \in m_downloads \/ Closed(t)'
    BY DEF DialogProxy, Shown
  <2>1. dialog.download \in m_downloads \/ Closed(t)
    BY DEF ProxyInv, DialogProxy
  <2>2. Closed(t) => Closed(t)'
    BY <1>3, <1>13 DEF Closed, Queued
  <2> QED
    BY <2>1, <2>2
<1>16. DialogKnown'
  <2> SUFFICES ASSUME Shown("open")
               PROVE  /\ dialog.download \in Download
                      /\ dialog.tab = home[dialog.download]
                      /\ phase'[dialog.download] = "over"
                      /\ \A k \in 1 .. Len(m_functionQueue') :
                           ~(m_functionQueue'[k].name \in DownloadMessages
                               /\ m_functionQueue'[k].download = dialog.download)
    BY DEF DialogKnown, Shown, About
  <2>1. /\ dialog.download \in Download
        /\ dialog.tab = home[dialog.download]
        /\ phase[dialog.download] = "over"
        /\ \A k \in 1 .. Len(m_functionQueue) : ~About(k, dialog.download)
    BY DEF ProxyInv, DialogKnown
  <2>2. dialog.download # d
    BY <2>1
  <2>3. \A k \in 1 .. Len(m_functionQueue') :
           ~(m_functionQueue'[k].name \in DownloadMessages
               /\ m_functionQueue'[k].download = dialog.download)
    BY <1>1, <1>3, <2>1, <2>2 DEF About
  <2> QED
    BY <1>4, <2>1, <2>2, <2>3
<1> QED
  BY <1>6, <1>7, <1>8, <1>9, <1>10, <1>12, <1>13, <1>14, <1>15, <1>16 DEF ProxyInv

\* A message is handled.  What it takes from the map is not what another message or
\* the open question is about; only an end of the download or of its process takes
\* the proxy.
LEMMA HandleKnown ==
    ASSUME ProxyInv, dequeue,
           UNCHANGED <<uniqueDownloadID, alive, home, phase>>,
           m_downloads' \subseteq m_downloads,
           \A d \in Download :
               \/ d \in m_downloads => d \in m_downloads'
               \/ Taken.name = "DidClose" /\ Taken.tab = home[d]
               \/ Taken.name \in Final /\ Taken.download = d,
           dialog' = NoDialog \/ IsQuestion(dialog'),
           Shown("open")' =>
               \/ /\ Shown("open")
                  /\ dialog'.download = dialog.download /\ dialog'.tab = dialog.tab
               \/ /\ Taken.name = "DidFinish" /\ dialog'.download = Taken.download
                  /\ dialog'.tab = home[Taken.download] /\ m_downloads' = m_downloads
    PROVE  ProxyInv'
<1>1. /\ Len(m_functionQueue) \in Nat
      /\ m_functionQueue' \in Seq(Message)
      /\ Len(m_functionQueue') = Len(m_functionQueue) - 1
      /\ 1 \in 1 .. Len(m_functionQueue) /\ Taken = m_functionQueue[1]
      /\ \A k \in 1 .. Len(m_functionQueue') :
           /\ k + 1 \in 1 .. Len(m_functionQueue) /\ 1 < k + 1
           /\ m_functionQueue'[k] = m_functionQueue[k + 1]
  BY Dequeued
<1>2. \A k \in 1 .. Len(m_functionQueue') :
         Taken.name \in Final => ~(m_functionQueue'[k].name \in DownloadMessages
                                     /\ m_functionQueue'[k].download = Taken.download)
  BY <1>1 DEF ProxyInv, FinalLast, About
<1>3. Taken.name = "DidClose" =>
          /\ ~alive[Taken.tab]
          /\ \A k \in 1 .. Len(m_functionQueue') : m_functionQueue'[k].tab # Taken.tab
  BY <1>1 DEF ProxyInv, CloseDead, CloseLast
<1>4. ProxyTypes'
  BY <1>1 DEF ProxyInv, ProxyTypes
<1>5. NumberNew'
  BY DEF ProxyInv, NumberNew
<1>6. ActiveKnown'
  <2> SUFFICES ASSUME NEW d \in Download, phase[d] \in {"accepted", "started", "writing"}
               PROVE  d \in m_downloads' /\ alive[home[d]]
    BY DEF ActiveKnown
  <2>1. d \in m_downloads /\ alive[home[d]]
    BY DEF ProxyInv, ActiveKnown
  <2>2. ~(Taken.name \in Final /\ Taken.download = d)
    BY <1>1 DEF ProxyInv, FinalOver
  <2> QED
    BY <1>3, <2>1, <2>2
<1>7. MessagesKnown'
  <2> SUFFICES ASSUME NEW k \in 1 .. Len(m_functionQueue'),
                      m_functionQueue'[k].name \in DownloadMessages
               PROVE  /\ m_functionQueue'[k].download \in Download
                      /\ m_functionQueue'[k].tab = home[m_functionQueue'[k].download]
                      /\ phase[m_functionQueue'[k].download] # "new"
                      /\ m_functionQueue'[k].download \in m_downloads'
    BY DEF MessagesKnown
  <2>1. /\ m_functionQueue'[k].download \in Download
        /\ m_functionQueue'[k].tab = home[m_functionQueue'[k].download]
        /\ phase[m_functionQueue'[k].download] # "new"
        /\ m_functionQueue'[k].download \in m_downloads
    BY <1>1 DEF ProxyInv, MessagesKnown
  <2>2. ~(Taken.name \in Final /\ Taken.download = m_functionQueue'[k].download)
    BY <1>2
  <2> QED
    BY <1>3, <2>1, <2>2
<1>8. FinalOver'
  BY <1>1 DEF ProxyInv, FinalOver
<1>9. FinalLast'
  <2> SUFFICES ASSUME NEW j \in 1 .. Len(m_functionQueue'), NEW k \in 1 .. Len(m_functionQueue'),
                      m_functionQueue'[k].name \in Final, k < j
               PROVE  ~(m_functionQueue'[j].name \in DownloadMessages
                         /\ m_functionQueue'[j].download = m_functionQueue'[k].download)
    BY DEF FinalLast, About
  <2>1. k + 1 < j + 1
    BY <1>1
  <2> QED
    BY <1>1, <2>1 DEF ProxyInv, FinalLast, About
<1>10. CloseDead'
  BY <1>1 DEF ProxyInv, CloseDead
<1>11. CloseLast'
  <2> SUFFICES ASSUME NEW j \in 1 .. Len(m_functionQueue'), NEW k \in 1 .. Len(m_functionQueue'),
                      m_functionQueue'[k].name = "DidClose", k < j
               PROVE  m_functionQueue'[j].tab # m_functionQueue'[k].tab
    BY DEF CloseLast
  <2>1. k + 1 < j + 1
    BY <1>1
  <2> QED
    BY <1>1, <2>1 DEF ProxyInv, CloseLast
<1>12. DialogKnown'
  <2> SUFFICES ASSUME Shown("open")'
               PROVE  /\ dialog'.download \in Download
                      /\ dialog'.tab = home[dialog'.download]
                      /\ phase[dialog'.download] = "over"
                      /\ \A k \in 1 .. Len(m_functionQueue') :
                           ~(m_functionQueue'[k].name \in DownloadMessages
                               /\ m_functionQueue'[k].download = dialog'.download)
    BY DEF DialogKnown, About
  <2>1. CASE Shown("open") /\ dialog'.download = dialog.download /\ dialog'.tab = dialog.tab
    <3>1. /\ dialog.download \in Download
          /\ dialog.tab = home[dialog.download]
          /\ phase[dialog.download] = "over"
          /\ \A k \in 1 .. Len(m_functionQueue) : ~About(k, dialog.download)
      BY <2>1 DEF ProxyInv, DialogKnown
    <3>2. \A k \in 1 .. Len(m_functionQueue') :
             ~(m_functionQueue'[k].name \in DownloadMessages
                 /\ m_functionQueue'[k].download = dialog.download)
      BY <1>1, <3>1 DEF About
    <3> QED
      BY <2>1, <3>1, <3>2
  <2>2. CASE /\ Taken.name = "DidFinish" /\ dialog'.download = Taken.download
             /\ dialog'.tab = home[Taken.download] /\ m_downloads' = m_downloads
    <3>1. Taken.name \in DownloadMessages /\ Taken.name \in Final
      BY <2>2 DEF DownloadMessages, Final
    <3>2. /\ Taken.download \in Download
          /\ Taken.tab = home[Taken.download]
      BY <1>1, <3>1 DEF ProxyInv, MessagesKnown
    <3>3. phase[Taken.download] = "over"
      BY <1>1, <3>1 DEF ProxyInv, FinalOver
    <3> QED
      BY <1>2, <2>2, <3>1, <3>2, <3>3
  <2> QED
    BY <2>1, <2>2
<1>13. DialogProxy'
  <2> SUFFICES ASSUME NEW t \in Tab, Shown("open")', dialog'.tab = t
               PROVE  dialog'.download \in m_downloads' \/ Closed(t)'
    BY DEF DialogProxy
  <2>1. CASE Shown("open") /\ dialog'.download = dialog.download /\ dialog'.tab = dialog.tab
    <3>1. /\ dialog.download \in Download /\ home[dialog.download] = t
          /\ \A k \in 1 .. Len(m_functionQueue) : ~About(k, dialog.download)
      BY <2>1 DEF ProxyInv, DialogKnown
    <3>2. ~(Taken.name \in Final /\ Taken.download = dialog.download)
      BY <1>1, <3>1 DEF About, Final, DownloadMessages
    <3>3. Closed(t) => Closed(t)'
      BY <1>1 DEF Closed, Queued
    <3>4. (Taken.name = "DidClose" /\ Taken.tab = t) => Closed(t)'
      BY <1>3 DEF Closed, Queued
    <3>5. dialog.download \in m_downloads \/ Closed(t)
      BY <2>1 DEF ProxyInv, DialogProxy
    <3> QED
      BY <2>1, <3>1, <3>2, <3>3, <3>4, <3>5
  <2>2. CASE /\ Taken.name = "DidFinish" /\ dialog'.download = Taken.download
             /\ m_downloads' = m_downloads
    <3>1. Taken.name \in DownloadMessages
      BY <2>2 DEF DownloadMessages
    <3>2. Taken.download \in m_downloads
      BY <1>1, <3>1 DEF ProxyInv, MessagesKnown
    <3> QED
      BY <2>2, <3>2
  <2> QED
    BY <2>1, <2>2
<1> QED
  BY <1>4, <1>5, <1>6, <1>7, <1>8, <1>9, <1>10, <1>11, <1>12, <1>13 DEF ProxyInv

\* createDownloadProxy: no message and no question is about a number that was not
\* given before.
LEMMA CreateKnown ==
    ASSUME ProxyInv, NEW t \in Tab, alive[t], uniqueDownloadID < MaxDownloads,
           createDownloadProxy(t), UNCHANGED <<m_functionQueue, dialog, alive>>
    PROVE  ProxyInv'
<1> DEFINE d == uniqueDownloadID + 1
<1>1. uniqueDownloadID \in Nat /\ d \in Download /\ d > uniqueDownloadID
  BY DownloadsAssumption DEF ProxyInv, ProxyTypes, DownloadOrNone, Download, None
<1>2. phase[d] = "new"
  BY <1>1 DEF ProxyInv, NumberNew
<1>3. /\ uniqueDownloadID' = d
      /\ m_downloads' = m_downloads \cup {d}
      /\ home' = [home EXCEPT ![d] = t]
      /\ phase' = [phase EXCEPT ![d] = "accepted"]
  BY DEF createDownloadProxy
<1>4. uniqueDownloadID' = uniqueDownloadID + 1
  BY <1>3
<1> HIDE DEF d
<1>5. /\ phase'[d] = "accepted" /\ home'[d] = t
      /\ \A e \in Download : e # d => phase'[e] = phase[e] /\ home'[e] = home[e]
      /\ phase' \in [Download -> {"new", "accepted", "started", "writing", "over"}]
      /\ home' \in [Download -> Tab]
  BY <1>1, <1>3 DEF ProxyInv, ProxyTypes
<1>6. \A k \in 1 .. Len(m_functionQueue) :
         m_functionQueue[k].name \in DownloadMessages
            => /\ m_functionQueue[k].download \in Download
               /\ m_functionQueue[k].download # d
  BY <1>2 DEF ProxyInv, MessagesKnown
<1>7. ProxyTypes'
  <2>1. uniqueDownloadID' \in DownloadOrNone
    BY <1>1, <1>3 DEF DownloadOrNone
  <2> QED
    BY <1>5, <2>1 DEF ProxyInv, ProxyTypes, IsQuestion
<1>8. NumberNew'
  <2> SUFFICES ASSUME NEW e \in Download, e > uniqueDownloadID + 1
               PROVE  phase'[e] = "new"
    BY <1>4 DEF NumberNew
  <2>1. e > uniqueDownloadID /\ e # uniqueDownloadID + 1
    BY <1>1 DEF Download
  <2>2. phase[e] = "new" /\ e # d
    BY <2>1 DEF ProxyInv, NumberNew, d
  <2> QED
    BY <1>5, <2>2
<1>9. ActiveKnown'
  <2> SUFFICES ASSUME NEW e \in Download, phase'[e] \in {"accepted", "started", "writing"}
               PROVE  e \in m_downloads' /\ alive'[home'[e]]
    BY DEF ActiveKnown
  <2>1. CASE e = d
    BY <1>3, <1>5, <2>1
  <2>2. CASE e # d
    BY <1>3, <1>5, <2>2 DEF ProxyInv, ActiveKnown
  <2> QED
    BY <2>1, <2>2
<1>10. MessagesKnown'
  <2> SUFFICES ASSUME NEW k \in 1 .. Len(m_functionQueue),
                      m_functionQueue[k].name \in DownloadMessages
               PROVE  /\ m_functionQueue[k].download \in Download
                      /\ m_functionQueue[k].tab = home'[m_functionQueue[k].download]
                      /\ phase'[m_functionQueue[k].download] # "new"
                      /\ m_functionQueue[k].download \in m_downloads'
    BY DEF MessagesKnown
  <2>1. /\ m_functionQueue[k].tab = home[m_functionQueue[k].download]
        /\ phase[m_functionQueue[k].download] # "new"
        /\ m_functionQueue[k].download \in m_downloads
    BY DEF ProxyInv, MessagesKnown
  <2> QED
    BY <1>3, <1>5, <1>6, <2>1
<1>11. FinalOver'
  <2> SUFFICES ASSUME NEW k \in 1 .. Len(m_functionQueue), m_functionQueue[k].name \in Final
               PROVE  phase'[m_functionQueue[k].download] = "over"
    BY DEF FinalOver
  <2>1. phase[m_functionQueue[k].download] = "over"
    BY DEF ProxyInv, FinalOver
  <2>2. m_functionQueue[k].download \in Download /\ m_functionQueue[k].download # d
    BY <1>6 DEF Final, DownloadMessages
  <2> QED
    BY <1>5, <2>1, <2>2
<1>12. FinalLast' /\ CloseDead' /\ CloseLast'
  BY DEF ProxyInv, FinalLast, CloseDead, CloseLast, About
<1>13. DialogKnown'
  <2> SUFFICES ASSUME Shown("open")
               PROVE  /\ dialog.download \in Download
                      /\ dialog.tab = home'[dialog.download]
                      /\ phase'[dialog.download] = "over"
                      /\ \A k \in 1 .. Len(m_functionQueue) : ~About(k, dialog.download)
    BY DEF DialogKnown, Shown, About
  <2>1. /\ dialog.download \in Download
        /\ dialog.tab = home[dialog.download]
        /\ phase[dialog.download] = "over"
        /\ \A k \in 1 .. Len(m_functionQueue) : ~About(k, dialog.download)
    BY DEF ProxyInv, DialogKnown
  <2>2. dialog.download # d
    BY <1>2, <2>1
  <2> QED
    BY <1>3, <1>5, <2>1, <2>2
<1>14. DialogProxy'
  BY <1>3 DEF ProxyInv, DialogProxy, Shown, Closed, Queued
<1> QED
  BY <1>7, <1>8, <1>9, <1>10, <1>11, <1>12, <1>13, <1>14 DEF ProxyInv

\* A process dies: its downloads are over, and their proxies stay until all it has
\* said of them has been handled.
LEMMA CrashKnown ==
    ASSUME ProxyInv, NEW t \in Tab, Crash(t)
    PROVE  ProxyInv'
<1> DEFINE m == Msg("DidClose", t, None)
<1>1. m \in Message /\ m.name = "DidClose" /\ m.tab = t
  BY DEF Message, Msg, DownloadOrNone
<1>2. /\ m_functionQueue' = Append(m_functionQueue, m)
      /\ alive' = [alive EXCEPT ![t] = FALSE]
      /\ phase' = [d \in Download |-> IF home[d] = t /\ phase[d] # "new" THEN "over" ELSE phase[d]]
      /\ UNCHANGED <<dialog, uniqueDownloadID, m_downloads, home>>
  BY DEF Crash, enqueue, proxyVars
<1> HIDE DEF m
<1>3. /\ Len(m_functionQueue) \in Nat
      /\ m_functionQueue' \in Seq(Message)
      /\ Len(m_functionQueue') = Len(m_functionQueue) + 1
      /\ \A k \in 1 .. Len(m_functionQueue') :
           \/ k \in 1 .. Len(m_functionQueue) /\ m_functionQueue'[k] = m_functionQueue[k]
           \/ k = Len(m_functionQueue) + 1 /\ m_functionQueue'[k] = m
  BY <1>1, <1>2, Appended
<1>4. /\ alive' \in [Tab -> BOOLEAN] /\ ~alive'[t]
      /\ \A u \in Tab : ~alive[u] => ~alive'[u]
      /\ \A u \in Tab : (alive[u] /\ u # t) => alive'[u]
  BY <1>2 DEF ProxyInv, ProxyTypes
<1>5. \A d \in Download :
        /\ phase'[d] = "new" <=> phase[d] = "new"
        /\ phase[d] = "over" => phase'[d] = "over"
        /\ phase'[d] \in {"accepted", "started", "writing"} => (phase'[d] = phase[d] /\ home[d] # t)
        /\ phase'[d] \in {"new", "accepted", "started", "writing", "over"}
        /\ home[d] \in Tab
  BY <1>2 DEF ProxyInv, ProxyTypes
<1>6. m.name \notin DownloadMessages /\ m.name \notin Final
  BY <1>1 DEF DownloadMessages, Final
<1>7. \A k \in 1 .. Len(m_functionQueue) :
        m_functionQueue[k].name \in DownloadMessages
            => /\ m_functionQueue[k].download \in Download
               /\ m_functionQueue[k].tab = home[m_functionQueue[k].download]
               /\ phase[m_functionQueue[k].download] # "new"
               /\ m_functionQueue[k].download \in m_downloads
  BY DEF ProxyInv, MessagesKnown
<1>8. ProxyTypes'
  <2>1. phase' \in [Download -> {"new", "accepted", "started", "writing", "over"}]
    BY <1>2, <1>5
  <2> QED
    BY <1>2, <1>3, <1>4, <2>1 DEF ProxyInv, ProxyTypes, IsQuestion
<1>9. NumberNew'
  BY <1>2, <1>5 DEF ProxyInv, NumberNew
<1>10. ActiveKnown'
  <2> SUFFICES ASSUME NEW d \in Download, phase'[d] \in {"accepted", "started", "writing"}
               PROVE  d \in m_downloads /\ alive'[home[d]]
    BY <1>2 DEF ActiveKnown
  <2>1. phase[d] \in {"accepted", "started", "writing"} /\ home[d] # t /\ home[d] \in Tab
    BY <1>5
  <2>2. d \in m_downloads /\ alive[home[d]]
    BY <2>1 DEF ProxyInv, ActiveKnown
  <2> QED
    BY <1>4, <2>1, <2>2
<1>11. MessagesKnown'
  <2> SUFFICES ASSUME NEW k \in 1 .. Len(m_functionQueue'),
                      m_functionQueue'[k].name \in DownloadMessages
               PROVE  /\ m_functionQueue'[k].download \in Download
                      /\ m_functionQueue'[k].tab = home[m_functionQueue'[k].download]
                      /\ phase'[m_functionQueue'[k].download] # "new"
                      /\ m_functionQueue'[k].download \in m_downloads
    BY <1>2 DEF MessagesKnown
  <2>1. k \in 1 .. Len(m_functionQueue) /\ m_functionQueue'[k] = m_functionQueue[k]
    BY <1>3, <1>6
  <2> QED
    BY <1>4, <1>5, <1>7, <2>1
<1>12. FinalOver'
  <2> SUFFICES ASSUME NEW k \in 1 .. Len(m_functionQueue'), m_functionQueue'[k].name \in Final
               PROVE  phase'[m_functionQueue'[k].download] = "over"
    BY DEF FinalOver
  <2>1. k \in 1 .. Len(m_functionQueue) /\ m_functionQueue'[k] = m_functionQueue[k]
    BY <1>3, <1>6
  <2>2. phase[m_functionQueue[k].download] = "over"
    BY <2>1 DEF ProxyInv, FinalOver
  <2>3. m_functionQueue[k].download \in Download
    BY <1>7, <2>1 DEF Final, DownloadMessages
  <2> QED
    BY <1>5, <2>1, <2>2, <2>3
<1>13. FinalLast'
  <2> SUFFICES ASSUME NEW j \in 1 .. Len(m_functionQueue'), NEW k \in 1 .. Len(m_functionQueue'),
                      m_functionQueue'[k].name \in Final, k < j,
                      m_functionQueue'[j].name \in DownloadMessages
               PROVE  m_functionQueue'[j].download # m_functionQueue'[k].download
    BY DEF FinalLast, About
  <2>1. /\ k \in 1 .. Len(m_functionQueue) /\ m_functionQueue'[k] = m_functionQueue[k]
        /\ j \in 1 .. Len(m_functionQueue) /\ m_functionQueue'[j] = m_functionQueue[j]
    BY <1>3, <1>6
  <2> QED
    BY <2>1 DEF ProxyInv, FinalLast, About
<1>14. CloseDead'
  <2> SUFFICES ASSUME NEW k \in 1 .. Len(m_functionQueue'), m_functionQueue'[k].name = "DidClose"
               PROVE  ~alive'[m_functionQueue'[k].tab]
    BY DEF CloseDead
  <2>1. CASE k \in 1 .. Len(m_functionQueue) /\ m_functionQueue'[k] = m_functionQueue[k]
    <3>1. m_functionQueue \in Seq(Message)
      BY DEF ProxyInv, ProxyTypes
    <3>2. m_functionQueue[k] \in Message
      BY <2>1, <3>1
    <3>3. m_functionQueue[k].tab \in Tab
      BY <3>2 DEF Message
    <3>4. ~alive[m_functionQueue[k].tab]
      BY <2>1 DEF ProxyInv, CloseDead
    <3> QED
      BY <1>4, <2>1, <3>3, <3>4
  <2>2. CASE m_functionQueue'[k] = m
    BY <1>1, <1>4, <2>2
  <2> QED
    BY <1>3, <2>1, <2>2
<1>15. DialogKnown'
  <2> SUFFICES ASSUME Shown("open")
               PROVE  /\ dialog.download \in Download
                      /\ dialog.tab = home[dialog.download]
                      /\ phase'[dialog.download] = "over"
                      /\ \A k \in 1 .. Len(m_functionQueue') :
                           ~(m_functionQueue'[k].name \in DownloadMessages
                               /\ m_functionQueue'[k].download = dialog.download)
    BY <1>2 DEF DialogKnown, Shown, About
  <2>1. /\ dialog.download \in Download
        /\ dialog.tab = home[dialog.download]
        /\ phase[dialog.download] = "over"
        /\ \A k \in 1 .. Len(m_functionQueue) : ~About(k, dialog.download)
    BY DEF ProxyInv, DialogKnown
  <2>2. \A k \in 1 .. Len(m_functionQueue') :
           ~(m_functionQueue'[k].name \in DownloadMessages
               /\ m_functionQueue'[k].download = dialog.download)
    BY <1>3, <1>6, <2>1 DEF About
  <2> QED
    BY <1>4, <1>5, <2>1, <2>2
<1>16. alive[t]
  BY DEF Crash
<1>17. CloseLast'
  <2> SUFFICES ASSUME NEW j \in 1 .. Len(m_functionQueue'), NEW k \in 1 .. Len(m_functionQueue'),
                      m_functionQueue'[k].name = "DidClose", k < j
               PROVE  m_functionQueue'[j].tab # m_functionQueue'[k].tab
    BY DEF CloseLast
  <2>1. k \in 1 .. Len(m_functionQueue) /\ m_functionQueue'[k] = m_functionQueue[k]
    BY <1>3
  <2>2. CASE j \in 1 .. Len(m_functionQueue) /\ m_functionQueue'[j] = m_functionQueue[j]
    BY <2>1, <2>2 DEF ProxyInv, CloseLast
  <2>3. CASE m_functionQueue'[j] = m
    BY <1>1, <1>16, <2>1, <2>3 DEF ProxyInv, CloseDead
  <2> QED
    BY <1>3, <2>2, <2>3
<1>18. DialogProxy'
  <2> SUFFICES ASSUME NEW u \in Tab, Shown("open"), dialog.tab = u
               PROVE  dialog.download \in m_downloads \/ Closed(u)'
    BY <1>2 DEF DialogProxy, Shown
  <2>1. dialog.download \in m_downloads \/ Closed(u)
    BY DEF ProxyInv, DialogProxy
  <2>2. Closed(u) => (u # t /\ Closed(u)')
    BY <1>1, <1>3, <1>4, <1>16 DEF Closed, Queued
  <2> QED
    BY <2>1, <2>2
<1> QED
  BY <1>8, <1>9, <1>10, <1>11, <1>12, <1>13, <1>14, <1>15, <1>17, <1>18 DEF ProxyInv

\* The user answers; if the question was about a download, nothing else is.
LEMMA AnswerKnown ==
    ASSUME ProxyInv, answer
    PROVE  ProxyInv'
<1>1. /\ dialog # NoDialog /\ dialog' = NoDialog
      /\ m_downloads' = (IF dialog.kind = "open" THEN m_downloads \ {dialog.download} ELSE m_downloads)
      /\ UNCHANGED <<m_functionQueue, uniqueDownloadID, alive, home, phase>>
  BY DEF answer, hide, webVars
<1>2. ASSUME NEW d \in Download, d \in m_downloads
      PROVE  d \in m_downloads' \/ (Shown("open") /\ d = dialog.download)
  BY <1>1, <1>2 DEF Shown
<1>3. Shown("open") => /\ phase[dialog.download] = "over"
                       /\ \A k \in 1 .. Len(m_functionQueue) : ~About(k, dialog.download)
  BY DEF ProxyInv, DialogKnown
<1>4. ProxyTypes' /\ NumberNew'
  BY <1>1 DEF ProxyInv, ProxyTypes, NumberNew
<1>5. ActiveKnown'
  BY <1>1, <1>2, <1>3 DEF ProxyInv, ActiveKnown
<1>6. MessagesKnown'
  <2> SUFFICES ASSUME NEW k \in 1 .. Len(m_functionQueue),
                      m_functionQueue[k].name \in DownloadMessages
               PROVE  /\ m_functionQueue[k].download \in Download
                      /\ m_functionQueue[k].tab = home[m_functionQueue[k].download]
                      /\ phase[m_functionQueue[k].download] # "new"
                      /\ m_functionQueue[k].download \in m_downloads'
    BY <1>1 DEF MessagesKnown
  <2>1. /\ m_functionQueue[k].download \in Download
        /\ m_functionQueue[k].tab = home[m_functionQueue[k].download]
        /\ phase[m_functionQueue[k].download] # "new"
        /\ m_functionQueue[k].download \in m_downloads
    BY DEF ProxyInv, MessagesKnown
  <2>2. ~(Shown("open") /\ m_functionQueue[k].download = dialog.download)
    BY <1>3 DEF About
  <2> QED
    BY <1>2, <2>1, <2>2
<1>7. FinalOver' /\ FinalLast' /\ CloseDead' /\ CloseLast'
  BY <1>1 DEF ProxyInv, FinalOver, FinalLast, CloseDead, CloseLast, About
<1>8. DialogKnown' /\ DialogProxy'
  BY <1>1 DEF DialogKnown, DialogProxy, Shown
<1> QED
  BY <1>4, <1>5, <1>6, <1>7, <1>8 DEF ProxyInv

\* The question of a script is not about a download.
LEMMA ScriptKnown ==
    ASSUME ProxyInv, NEW t \in Tab, runJavaScriptConfirm(t)
    PROVE  ProxyInv'
<1>1. UNCHANGED <<m_functionQueue, uniqueDownloadID, m_downloads, alive, home, phase>>
  BY DEF runJavaScriptConfirm, proxyVars, webVars
<1>2. CASE dialog' = dialog
  BY <1>1, <1>2, KnownUnchanged DEF knownVars
<1>3. CASE dialog' = Question("script", t, None, None, None)
  <2>1. IsQuestion(dialog') /\ dialog'.kind = "script"
    BY <1>3 DEF Question, IsQuestion
  <2>2. ProxyTypes' /\ NumberNew' /\ ActiveKnown'
    BY <1>1, <2>1 DEF ProxyInv, ProxyTypes, NumberNew, ActiveKnown
  <2>3. MessagesKnown' /\ FinalOver' /\ FinalLast' /\ CloseDead' /\ CloseLast'
    BY <1>1 DEF ProxyInv, MessagesKnown, FinalOver, FinalLast, CloseDead, CloseLast, About
  <2>4. DialogKnown' /\ DialogProxy'
    BY <2>1 DEF DialogKnown, DialogProxy, Shown
  <2> QED
    BY <2>2, <2>3, <2>4 DEF ProxyInv
<1> QED
  BY <1>2, <1>3 DEF runJavaScriptConfirm, show, showNothing

\* decideDestinationWithSuggestedFilename: the process goes on with its download.
LEMMA DestinationKnown ==
    ASSUME ProxyInv, NEW d \in Download, decideDestinationWithSuggestedFilename(d)
    PROVE  ProxyInv'
<1>1. /\ phase[d] = "started" /\ phase' = [phase EXCEPT ![d] = "writing"]
      /\ UNCHANGED <<m_functionQueue, dialog, uniqueDownloadID, m_downloads, alive, home>>
  BY DEF decideDestinationWithSuggestedFilename, queueVars, proxyVars
<1>2. /\ phase'[d] = "writing"
      /\ \A e \in Download : e # d => phase'[e] = phase[e]
      /\ phase' \in [Download -> {"new", "accepted", "started", "writing", "over"}]
  BY <1>1 DEF ProxyInv, ProxyTypes
<1>3. \A e \in Download : /\ phase[e] \in {"new", "over"} <=> phase'[e] \in {"new", "over"}
                          /\ phase[e] = "new" <=> phase'[e] = "new"
                          /\ phase[e] = "over" <=> phase'[e] = "over"
  BY <1>1, <1>2
<1>4. ProxyTypes' /\ NumberNew'
  BY <1>1, <1>2, <1>3 DEF ProxyInv, ProxyTypes, NumberNew, IsQuestion
<1>5. ActiveKnown'
  BY <1>1, <1>2 DEF ProxyInv, ActiveKnown
<1>6. MessagesKnown'
  BY <1>1, <1>3 DEF ProxyInv, MessagesKnown
<1>7. FinalOver'
  <2> SUFFICES ASSUME NEW k \in 1 .. Len(m_functionQueue), m_functionQueue[k].name \in Final
               PROVE  phase'[m_functionQueue[k].download] = "over"
    BY <1>1 DEF FinalOver
  <2>1. m_functionQueue[k].download \in Download
    BY DEF ProxyInv, MessagesKnown, Final, DownloadMessages
  <2>2. phase[m_functionQueue[k].download] = "over"
    BY DEF ProxyInv, FinalOver
  <2> QED
    BY <1>3, <2>1, <2>2
<1>8. FinalLast' /\ CloseDead' /\ CloseLast'
  BY <1>1 DEF ProxyInv, FinalLast, CloseDead, CloseLast, About
<1>9. DialogKnown' /\ DialogProxy'
  BY <1>1, <1>3 DEF ProxyInv, DialogKnown, DialogProxy, Shown, About, Closed, Queued
<1> QED
  BY <1>4, <1>5, <1>6, <1>7, <1>8, <1>9 DEF ProxyInv

\* The policy for a response, with or without a new download.
LEMMA PolicyKnown ==
    ASSUME ProxyInv, NEW t \in Tab, decidePolicyForResponse(t),
           UNCHANGED <<m_functionQueue, dialog, alive>>
    PROVE  ProxyInv'
<1>1. CASE createDownloadProxy(t)
  <2>1. alive[t] /\ uniqueDownloadID < MaxDownloads
    BY DEF decidePolicyForResponse, Request, Free
  <2> QED
    BY <1>1, <2>1, CreateKnown
<1>2. CASE ShowOrIgnore
  <2>1. UNCHANGED knownVars
    BY <1>2 DEF ShowOrIgnore, knownVars, proxyVars
  <2> QED
    BY <2>1, KnownUnchanged
<1> QED
  BY <1>1, <1>2 DEF decidePolicyForResponse

\* The other messages of the processes about their downloads.
LEMMA ProgressKnown ==
    ASSUME ProxyInv, NEW d \in Download,
           startWithHandle(d) \/ receiveData(d) \/ endDownload(d) \/ cancelDownload(d)
    PROVE  ProxyInv'
<1>1. CASE receiveData(d)
  <2>1. /\ phase[d] = "writing" /\ phase' = phase
        /\ m_functionQueue' = Append(m_functionQueue, Msg("DidReceiveData", home[d], d))
        /\ UNCHANGED <<dialog, uniqueDownloadID, m_downloads, alive, home>>
    BY <1>1 DEF receiveData, Send, enqueue, proxyVars
  <2>2. phase' = [phase EXCEPT ![d] = "writing"]
    BY <2>1 DEF ProxyInv, ProxyTypes
  <2>3. "DidReceiveData" \in DownloadMessages /\ "DidReceiveData" \notin Final
    BY DEF DownloadMessages, Final
  <2> QED
    BY <2>1, <2>2, <2>3, SendKnown
<1>2. ASSUME NEW name \in Final, phase[d] \in {"started", "writing"},
             Send(name, home[d], d), phase' = [phase EXCEPT ![d] = "over"]
      PROVE  ProxyInv'
  <2>1. /\ m_functionQueue' = Append(m_functionQueue, Msg(name, home[d], d))
        /\ UNCHANGED <<dialog, uniqueDownloadID, m_downloads, alive, home>>
    BY <1>2 DEF Send, enqueue, proxyVars
  <2>2. name \in DownloadMessages
    BY DEF DownloadMessages, Final
  <2> QED
    BY <1>2, <2>1, <2>2, SendKnown
<1>3. CASE endDownload(d)
  <2>1. \E name \in Final : Send(name, home[d], d)
    BY <1>3 DEF endDownload, Final
  <2>2. phase[d] \in {"started", "writing"} /\ phase' = [phase EXCEPT ![d] = "over"]
    BY <1>3 DEF endDownload
  <2> QED
    BY <1>2, <2>1, <2>2
<1>4. CASE cancelDownload(d)
  <2>1. CASE phase[d] \in {"started", "writing"}
    <3>1. Send("DidCancel", home[d], d) /\ phase' = [phase EXCEPT ![d] = "over"]
      BY <1>4, <2>1 DEF cancelDownload
    <3>2. "DidCancel" \in Final
      BY DEF Final
    <3> QED
      BY <1>2, <2>1, <3>1, <3>2
  <2>2. CASE phase[d] \notin {"started", "writing"}
    <3>1. UNCHANGED knownVars
      BY <1>4, <2>2 DEF cancelDownload, knownVars, queueVars, proxyVars
    <3> QED
      BY <3>1, KnownUnchanged
  <2> QED
    BY <2>1, <2>2
<1>5. CASE startWithHandle(d)
  <2>1. /\ phase[d] = "accepted" /\ phase' = [phase EXCEPT ![d] = "started"]
        /\ m_functionQueue' = Append(m_functionQueue, Msg("DidStart", home[d], d))
        /\ UNCHANGED <<dialog, uniqueDownloadID, m_downloads, alive, home>>
    BY <1>5 DEF startWithHandle, Send, enqueue, proxyVars
  <2>2. "DidStart" \in DownloadMessages /\ "DidStart" \notin Final
    BY DEF DownloadMessages, Final
  <2> QED
    BY <2>1, <2>2, SendKnown
<1> QED
  BY <1>1, <1>3, <1>4, <1>5

\* The handlers of the UI process.
LEMMA HandlersKnown ==
    ASSUME ProxyInv, Handle
    PROVE  ProxyInv'
<1>1. CASE handleProgress
  <2>1. /\ dequeue
        /\ UNCHANGED <<dialog, uniqueDownloadID, m_downloads, alive, home, phase>>
    BY <1>1 DEF handleProgress, takeFirst, proxyVars, webVars
  <2>2. dialog' = NoDialog \/ IsQuestion(dialog')
    BY <2>1 DEF ProxyInv, ProxyTypes
  <2>3. Shown("open")' => Shown("open")
    BY <2>1 DEF Shown
  <2> QED
    BY <2>1, <2>2, <2>3, HandleKnown
<1>2. CASE handleDidFinish
  <2>1. /\ dequeue /\ Taken.name = "DidFinish" /\ didFinish(Taken.download)
        /\ UNCHANGED <<uniqueDownloadID, alive, home, phase>>
    BY <1>2 DEF handleDidFinish, takeFirst, webVars
  <2>2. "DidFinish" \in Final
    BY DEF Final
  <2> DEFINE file == downloadfilename[currenttab]
  <2>3. CASE dialog = NoDialog /\ m_downloads' = m_downloads
             /\ dialog' = Question("open", home[Taken.download], Taken.download, file, file)
    <3>1. /\ IsQuestion(dialog') /\ dialog'.download = Taken.download
          /\ dialog'.tab = home[Taken.download]
      BY <2>3 DEF Question, IsQuestion
    <3> QED
      BY <2>1, <2>3, <3>1, HandleKnown
  <2>4. CASE dialog # NoDialog /\ dialog' = [dialog EXCEPT !.buf = file]
             /\ m_downloads' = m_downloads \ {Taken.download}
    <3>1. IsQuestion(dialog)
      BY <2>4 DEF ProxyInv, ProxyTypes
    <3>2. dialog' = [kind |-> dialog.kind, tab |-> dialog.tab, download |-> dialog.download,
                     file |-> dialog.file, buf |-> file]
      BY <2>4, <3>1 DEF IsQuestion
    <3> HIDE DEF file
    <3>3. /\ IsQuestion(dialog') /\ dialog'.download = dialog.download
          /\ dialog'.tab = dialog.tab /\ dialog'.kind = dialog.kind
      BY <3>2 DEF IsQuestion
    <3>4. Shown("open")' => Shown("open")
      BY <2>4, <3>3 DEF Shown
    <3> QED
      BY <2>1, <2>2, <2>4, <3>3, <3>4, HandleKnown
  <2> QED
    BY <2>1, <2>3, <2>4 DEF didFinish, show
<1>3. CASE handleOver
  <2>1. /\ dequeue /\ Taken.name \in Final
        /\ m_downloads' = m_downloads \ {Taken.download}
        /\ UNCHANGED <<dialog, uniqueDownloadID, alive, home, phase>>
    BY <1>3 DEF handleOver, takeFirst, downloadFinished, webVars, Final
  <2>2. dialog' = NoDialog \/ IsQuestion(dialog')
    BY <2>1 DEF ProxyInv, ProxyTypes
  <2>3. Shown("open")' => Shown("open")
    BY <2>1 DEF Shown
  <2> QED
    BY <2>1, <2>2, <2>3, HandleKnown
<1>4. CASE handleDidClose
  <2>1. /\ dequeue /\ Taken.name = "DidClose"
        /\ m_downloads' = {d \in m_downloads : home[d] # Taken.tab}
        /\ UNCHANGED <<dialog, uniqueDownloadID, alive, home, phase>>
    BY <1>4 DEF handleDidClose, takeFirst, webVars
  <2>2. dialog' = NoDialog \/ IsQuestion(dialog')
    BY <2>1 DEF ProxyInv, ProxyTypes
  <2>3. Shown("open")' => Shown("open")
    BY <2>1 DEF Shown
  <2> QED
    BY <2>1, <2>2, <2>3, HandleKnown
<1> QED
  BY <1>1, <1>2, <1>3, <1>4 DEF Handle

\* Every step of the program, the processes and the user keeps the invariant.
LEMMA NextProxyInv ==
    ASSUME ProxyInv, [Next]_vars
    PROVE  ProxyInv'
<1>1. CASE Handle
  BY <1>1, HandlersKnown
<1>2. ASSUME NEW d \in Download,
             startWithHandle(d) \/ receiveData(d) \/ endDownload(d) \/ cancelDownload(d)
      PROVE  ProxyInv'
  BY <1>2, ProgressKnown
<1>3. ASSUME NEW d \in Download, decideDestinationWithSuggestedFilename(d) PROVE ProxyInv'
  BY <1>3, DestinationKnown
<1>4. ASSUME NEW t \in Tab, Respond(t) PROVE ProxyInv'
  <2>1. decidePolicyForResponse(t) /\ UNCHANGED <<m_functionQueue, dialog, alive>>
    BY <1>4 DEF Respond, queueVars
  <2> QED
    BY <2>1, PolicyKnown
<1>5. CASE RespondToTarget
  <2>1. target \in Tab /\ decidePolicyForResponse(target)
        /\ UNCHANGED <<m_functionQueue, dialog, alive>>
    BY <1>5 DEF RespondToTarget, queueVars
  <2> QED
    BY <2>1, PolicyKnown
<1>6. ASSUME NEW t \in Tab, runJavaScriptConfirm(t) PROVE ProxyInv'
  BY <1>6, ScriptKnown
<1>7. ASSUME NEW t \in Tab, Crash(t) PROVE ProxyInv'
  BY <1>7, CrashKnown
<1>8. CASE answer
  BY <1>8, AnswerKnown
<1>9. ASSUME NEW t \in Tab, selectTab(t) PROVE ProxyInv'
  <2>1. UNCHANGED knownVars
    BY <1>9 DEF selectTab, queueVars, proxyVars, webVars, knownVars
  <2> QED
    BY <2>1, KnownUnchanged
<1>10. CASE FailTarget \/ download_file \/ cb_stop_xfer \/ UNCHANGED vars
  <2>1. UNCHANGED knownVars
    BY <1>10 DEF FailTarget, download_file, cb_stop_xfer, vars, queueVars, proxyVars, webVars,
                 knownVars
  <2> QED
    BY <2>1, KnownUnchanged
<1> QED
  BY <1>1, <1>2, <1>3, <1>4, <1>5, <1>6, <1>7, <1>8, <1>9, <1>10
  DEF Next, Obey, User, Network

\* A message about a download finds its proxy in the DownloadProxyMap, and so does
\* downloadFinished after the question at the end of a download, as long as the
\* web process lives.
THEOREM ProxyAlwaysKnown == Spec => []ProxyKnown
<1>1. Init => ProxyInv
  BY InitProxyInv
<1>2. ProxyInv /\ [Next]_vars => ProxyInv'
  BY NextProxyInv
<1>3. ProxyInv => ProxyKnown
  BY ProxyInvImplies
<1> QED
  BY <1>1, <1>2, <1>3, PTL DEF Spec
====
