---- MODULE Downloads ----
(***************************************************************************)
(* Downloads, `Save target as...' and the questions of scripts: the        *)
(* download client and the policy client of NetRider, WebKit's             *)
(* DownloadProxyMap in the UI process, and the Download objects in the web *)
(* processes, one process for each tab.  All callbacks work on the fields  *)
(* of the tab that is current when they run.                               *)
(*                                                                         *)
(* The messages of the web processes are handled as MessageLoop promises:  *)
(* a question does not hold up the messages behind it.  A synchronous      *)
(* message and its handling are one step, since its sender does nothing    *)
(* meanwhile; it comes after the messages that are in the queue.  The file *)
(* name of a download is its number.                                       *)
(***************************************************************************)
EXTENDS MessageLoop, FiniteSets

CONSTANTS
    LastTab,        \* the tabs are 0 .. LastTab, each with a web process
    MaxDownloads,   \* bound: downloads
    MaxBefore,      \* bound: downloads before the last `Save target as...'
    MaxChunks,      \* bound: pieces of data of a download
    MaxSwitches,    \* bound: changes of the current tab
    MaxCrashes      \* bound: web processes that die

ASSUME DownloadsAssumption ==
    /\ LastTab \in Nat /\ MaxDownloads \in Nat /\ MaxBefore \in Nat
    /\ MaxChunks \in Nat /\ MaxSwitches \in Nat /\ MaxCrashes \in Nat

VARIABLES
    \* NetRider
    currenttab,
    savetargetas, downloadfilename, bytesdownloaded, download_ref,  \* of each tab
    \* UI process
    uniqueDownloadID,
    m_downloads,            \* the downloads with a proxy in their DownloadProxyMap
    \* web processes
    alive,                  \* of each tab
    home, phase, sent,      \* of each download: tab, progress, pieces of data sent
    cancels,                \* CancelDownload messages on their way
    target,                 \* the tab in which download_file's load awaits a response
    \* history
    overtaken,              \* a response for another load has come since download_file
    switches,               \* how often the user has changed tabs
    sole                    \* the only download with callbacks since its start

fieldVars == <<savetargetas, downloadfilename, bytesdownloaded, download_ref>>
proxyVars == <<uniqueDownloadID, m_downloads>>
webVars == <<alive, home, phase, sent, cancels, target>>
vars == <<queueVars, currenttab, fieldVars, proxyVars, webVars, overtaken, switches, sole>>

Tab == 0 .. LastTab
NoTab == LastTab + 1

Download == 1 .. MaxDownloads
None == 0
DownloadOrNone == Download \cup {None}

DownloadMessages == {"DidStart", "DidReceiveData", "DidFinish", "DidFail", "DidCancel"}

Message == [name : DownloadMessages \cup {"DidClose"}, tab : Tab, download : DownloadOrNone]

Msg(name, t, d) == [name |-> name, tab |-> t, download |-> d]

\* A question: of a script, or whether to open the file of a download; the file it
\* names, and what didFinish has in buf while it is shown.
Question(kind, t, d, f, path) ==
    [kind |-> kind, tab |-> t, download |-> d, file |-> f, buf |-> path]

\* The kind of question that is shown.
Shown(kind) == dialog # NoDialog /\ dialog.kind = kind

TypeOK ==
    /\ m_functionQueue \in Seq(Message)
    /\ dialog # NoDialog => dialog.kind \in {"script", "open"}
    /\ currenttab \in Tab
    /\ savetargetas \in [Tab -> BOOLEAN]
    /\ downloadfilename \in [Tab -> DownloadOrNone]
    /\ bytesdownloaded \in [Tab -> 0 .. MaxDownloads * MaxChunks]
    /\ download_ref \in [Tab -> DownloadOrNone]
    /\ uniqueDownloadID \in DownloadOrNone
    /\ m_downloads \subseteq 1 .. uniqueDownloadID
    /\ alive \in [Tab -> BOOLEAN]
    /\ phase \in [Download -> {"new", "accepted", "started", "writing", "over"}]
    /\ home \in [Download -> Tab]
    /\ sent \in [Download -> 0 .. MaxChunks]
    /\ cancels \subseteq Download
    /\ target \in Tab \cup {NoTab}
    /\ sole \in DownloadOrNone
    /\ overtaken \in BOOLEAN

Init ==
    /\ QueueInit
    /\ currenttab = 0
    /\ savetargetas = [t \in Tab |-> FALSE]
    /\ downloadfilename = [t \in Tab |-> None]
    /\ bytesdownloaded = [t \in Tab |-> 0]
    /\ download_ref = [t \in Tab |-> None]
    /\ uniqueDownloadID = 0
    /\ m_downloads = {}
    /\ alive = [t \in Tab |-> TRUE]
    /\ home = [d \in Download |-> 0]
    /\ phase = [d \in Download |-> "new"]
    /\ sent = [d \in Download |-> 0]
    /\ cancels = {}
    /\ target = NoTab
    /\ overtaken = FALSE
    /\ switches = 0
    /\ sole = None

-----------------------------------------------------------------------------
(* Web processes: synchronous messages with their handlers.                *)

Queued(name) == {k \in 1 .. Len(m_functionQueue) : m_functionQueue[k].name = name}

\* The process of the tab lives, does not wait for the answer to a script and is not
\* about to start a download.
Free(t) ==
    /\ alive[t] /\ ~(Shown("script") /\ dialog.tab = t)
    /\ \A d \in Download : phase[d] = "accepted" => home[d] # t

\* It sends a synchronous message, and what is queued is handled before.
Request(t) == Free(t) /\ m_functionQueue = << >>

\* Mutant of createDownloadProxy: the number is taken before it is increased.
createDownloadProxy_OldID(t) ==
    LET d == uniqueDownloadID
    IN  /\ uniqueDownloadID' = d + 1
        /\ m_downloads' = m_downloads \cup {d}
        /\ home' = [home EXCEPT ![d] = t]
        /\ phase' = [phase EXCEPT ![d] = "accepted"]

\* createDownloadProxy; the process gets the number in the reply.
createDownloadProxy(t) ==
    LET d == uniqueDownloadID + 1
    IN  /\ uniqueDownloadID' = d
        /\ m_downloads' = m_downloads \cup {d}
        /\ home' = [home EXCEPT ![d] = t]
        /\ phase' = [phase EXCEPT ![d] = "accepted"]

ShowOrIgnore == UNCHANGED <<proxyVars, home, phase>>

\* Mutant of decidePolicyForResponse: one flag for all tabs.
decidePolicyForResponse_OneFlag(t) ==
    /\ Request(t) /\ uniqueDownloadID < MaxDownloads
    /\ savetargetas' = [u \in Tab |-> FALSE]
    /\ createDownloadProxy(t) \/ ((\A u \in Tab : ~savetargetas[u]) /\ ShowOrIgnore)

\* The policy for a response of any frame of the tab: the flag of the current tab,
\* an attachment or a type that cannot be shown make it a download.
decidePolicyForResponse(t) ==
    /\ Request(t) /\ uniqueDownloadID < MaxDownloads
    /\ savetargetas' = [savetargetas EXCEPT ![currenttab] = FALSE]
    /\ createDownloadProxy(t) \/ (~savetargetas[currenttab] /\ ShowOrIgnore)

\* The response to any load but the one of download_file.
Respond(t) ==
    /\ decidePolicyForResponse(t)
    /\ overtaken' = (overtaken \/ target = currenttab)
    /\ UNCHANGED <<queueVars, currenttab, downloadfilename, bytesdownloaded, download_ref,
                   alive, sent, cancels, target, switches, sole>>

\* The response to the load of download_file.
RespondToTarget ==
    /\ target \in Tab /\ decidePolicyForResponse(target)
    /\ target' = NoTab
    /\ overtaken' = FALSE
    /\ UNCHANGED <<queueVars, currenttab, downloadfilename, bytesdownloaded, download_ref,
                   alive, sent, cancels, switches, sole>>

\* The load of download_file fails.
FailTarget ==
    /\ target \in Tab /\ Free(target)
    /\ target' = NoTab
    /\ overtaken' = FALSE
    /\ UNCHANGED <<queueVars, currenttab, fieldVars, proxyVars, alive, home, phase,
                   sent, cancels, switches, sole>>

\* runJavaScriptAlert, Confirm and Prompt; while a question is shown a script gets
\* the answer `no' at once.
runJavaScriptConfirm(t) ==
    /\ Request(t)
    /\ show(Question("script", t, None, None, None)) \/ showNothing
    /\ UNCHANGED <<m_functionQueue, currenttab, fieldVars, proxyVars, webVars,
                   overtaken, switches, sole>>

\* The callbacks of another download end the time of the sole one.
StillSole(d) == IF sole = d THEN d ELSE None

\* DownloadClient::didReceiveResponse asks for the destination.
decideDestinationWithSuggestedFilename(d) ==
    /\ phase[d] = "started" /\ Request(home[d])
    /\ phase' = [phase EXCEPT ![d] = "writing"]
    /\ downloadfilename' = [downloadfilename EXCEPT ![currenttab] = d]
    /\ sole' = StillSole(d)
    /\ UNCHANGED <<queueVars, currenttab, savetargetas, bytesdownloaded, download_ref,
                   proxyVars, alive, home, sent, cancels, target, overtaken, switches>>

-----------------------------------------------------------------------------
(* Web processes: the other messages.                                      *)

\* A process sends a message; nothing changes in the program itself.
Send(name, t, d) ==
    /\ enqueue(Msg(name, t, d))
    /\ UNCHANGED <<dialog, currenttab, fieldVars, proxyVars, alive, home, overtaken, switches, sole>>

\* Download::startWithHandle, the next thing the process does after the reply.
startWithHandle(d) ==
    /\ alive[home[d]] /\ Room /\ phase[d] = "accepted"
    /\ phase' = [phase EXCEPT ![d] = "started"]
    /\ Send("DidStart", home[d], d)
    /\ UNCHANGED <<sent, cancels, target>>

\* DownloadClient::didReceiveData.
receiveData(d) ==
    /\ Free(home[d]) /\ Room /\ phase[d] = "writing" /\ sent[d] < MaxChunks
    /\ sent' = [sent EXCEPT ![d] = @ + 1]
    /\ Send("DidReceiveData", home[d], d)
    /\ UNCHANGED <<phase, cancels, target>>

\* DownloadClient::didFinishLoading, and downloadFailed at any time.
endDownload(d) ==
    /\ Free(home[d]) /\ Room
    /\ \/ phase[d] = "writing" /\ Send("DidFinish", home[d], d)
       \/ phase[d] \in {"started", "writing"} /\ Send("DidFail", home[d], d)
    /\ phase' = [phase EXCEPT ![d] = "over"]
    /\ UNCHANGED <<sent, cancels, target>>

\* Mutant of cancelDownload: no test whether the download still exists.
cancelDownload_Always(d) ==
    /\ d \in cancels /\ Free(home[d])
    /\ cancels' = cancels \ {d}
    /\ phase' = [phase EXCEPT ![d] = "over"]
    /\ Send("DidCancel", home[d], d)
    /\ UNCHANGED <<sent, target>>

\* Mutant of cancelDownload: the UI process is not told.
cancelDownload_Silent(d) ==
    /\ d \in cancels /\ Free(home[d])
    /\ cancels' = cancels \ {d}
    /\ phase' = [phase EXCEPT ![d] = "over"]
    /\ UNCHANGED <<queueVars, currenttab, fieldVars, proxyVars, alive, home, overtaken,
                   switches, sole, sent, target>>

\* DownloadManager::cancelDownload; a download that is over is not found.
cancelDownload(d) ==
    /\ d \in cancels /\ Free(home[d])
    /\ cancels' = cancels \ {d}
    /\ IF phase[d] \in {"started", "writing"}
       THEN /\ phase' = [phase EXCEPT ![d] = "over"]
            /\ Send("DidCancel", home[d], d)
       ELSE UNCHANGED <<queueVars, currenttab, fieldVars, proxyVars, alive, home,
                        overtaken, switches, sole, phase>>
    /\ UNCHANGED <<sent, target>>

\* The process dies; the end of the connection comes behind its messages.
Crash(t) ==
    /\ alive[t] /\ Cardinality({u \in Tab : ~alive[u]}) < MaxCrashes
    /\ alive' = [alive EXCEPT ![t] = FALSE]
    /\ phase' = [d \in Download |-> IF home[d] = t /\ phase[d] # "new" THEN "over" ELSE phase[d]]
    /\ cancels' = {d \in cancels : home[d] # t}
    /\ target' = IF target = t THEN NoTab ELSE target
    /\ overtaken' = (overtaken /\ target # t)
    /\ enqueue(Msg("DidClose", t, None))
    /\ UNCHANGED <<dialog, currenttab, fieldVars, proxyVars,
                   home, sent, switches, sole>>

-----------------------------------------------------------------------------
(* The user.                                                               *)

selectTab(t) ==
    /\ dialog = NoDialog /\ t # currenttab /\ switches < MaxSwitches
    /\ currenttab' = t
    /\ switches' = switches + 1
    /\ sole' = None
    /\ UNCHANGED <<queueVars, fieldVars, proxyVars, webVars, overtaken>>

\* `Save target as...' in the context menu; one at a time here.
download_file ==
    /\ dialog = NoDialog /\ alive[currenttab] /\ target = NoTab
    /\ uniqueDownloadID <= MaxBefore
    /\ savetargetas' = [savetargetas EXCEPT ![currenttab] = TRUE]
    /\ target' = currenttab
    /\ overtaken' = FALSE
    /\ UNCHANGED <<queueVars, currenttab, downloadfilename, bytesdownloaded, download_ref,
                   proxyVars, alive, home, phase, sent, cancels, switches, sole>>

\* DownloadProxy::cancel sends to the web process, if there still is one.
WKDownloadCancel(d) ==
    cancels' = IF alive[home[d]] THEN cancels \cup {d} ELSE cancels

\* The reference of the current tab is used unchecked.  If it was never set, or its
\* proxy has been deleted, what happens is undefined: the program ends, and with it the
\* behaviour, or nothing happens, or another proxy has taken the place in memory and
\* its download is stopped.
cb_stop_xfer ==
    /\ dialog = NoDialog
    /\ IF download_ref[currenttab] \in m_downloads
       THEN WKDownloadCancel(download_ref[currenttab])
       ELSE UNCHANGED cancels \/ \E d \in m_downloads : WKDownloadCancel(d)
    /\ UNCHANGED <<queueVars, currenttab, fieldVars, proxyVars, alive, home, phase, sent,
                   target, overtaken, switches, sole>>

\* The user answers.  For the file of a download DownloadProxy::didFinish goes on
\* with downloadFinished; that is undefined if the proxy was deleted meanwhile: the
\* program ends there, or the map does not change.
answer ==
    /\ hide
    /\ m_downloads' = IF dialog.kind = "open" THEN m_downloads \ {dialog.download} ELSE m_downloads
    /\ UNCHANGED <<m_functionQueue, currenttab, fieldVars, uniqueDownloadID, webVars,
                   overtaken, switches, sole>>

-----------------------------------------------------------------------------
(* The handlers of the messages in the UI process.                         *)

\* The message that is handled, if it has that name.
Taken == Head(m_functionQueue)

\* It reaches its proxy, which is there (ProxyKnown).
takeFirst(name) == dequeue /\ Taken.name = name

\* Mutant of didStart: the count is not cleared.
didStart_KeepsCount(d) ==
    /\ download_ref' = [download_ref EXCEPT ![currenttab] = d]
    /\ sole' = d
    /\ UNCHANGED bytesdownloaded

didStart(d) ==
    /\ bytesdownloaded' = [bytesdownloaded EXCEPT ![currenttab] = 0]
    /\ download_ref' = [download_ref EXCEPT ![currenttab] = d]
    /\ sole' = d

didReceiveData(d) ==
    /\ bytesdownloaded' = [bytesdownloaded EXCEPT ![currenttab] = @ + 1]
    /\ sole' = StillSole(d)
    /\ UNCHANGED download_ref

\* The callbacks that write to the fields of the current tab.
handleProgress ==
    /\ \/ takeFirst("DidStart") /\ didStart(Taken.download)
       \/ takeFirst("DidReceiveData") /\ didReceiveData(Taken.download)
    /\ UNCHANGED <<dialog, currenttab, savetargetas, downloadfilename, proxyVars,
                   webVars, overtaken, switches>>

\* didFinish writes the path to buf, a static buffer, and asks whether to open the
\* file.  If a question is shown the answer is `no' at once and the proxy is done
\* with, but the path that the question may be about has been overwritten.
didFinish(d) ==
    LET file == downloadfilename[currenttab]
    IN  \/ /\ show(Question("open", home[d], d, file, file))
           /\ UNCHANGED m_downloads
        \/ /\ dialog # NoDialog /\ dialog' = [dialog EXCEPT !.buf = file]
           /\ m_downloads' = m_downloads \ {d}

handleDidFinish ==
    /\ takeFirst("DidFinish")
    /\ didFinish(Taken.download)
    /\ sole' = StillSole(Taken.download)
    /\ UNCHANGED <<currenttab, fieldVars, uniqueDownloadID, webVars, overtaken, switches>>

\* DownloadProxyMap::downloadFinished.
downloadFinished(d) == m_downloads' = m_downloads \ {d}

\* didFail and didCancel write a line to the status bar.
handleOver ==
    /\ takeFirst("DidFail") \/ takeFirst("DidCancel")
    /\ downloadFinished(Taken.download)
    /\ UNCHANGED <<dialog, currenttab, fieldVars, uniqueDownloadID, webVars,
                   overtaken, switches, sole>>

\* WebProcessProxy::didClose, DownloadProxyMap::processDidClose: the proxies of the
\* process are deleted, also one whose didFinish waits for an answer.
handleDidClose ==
    /\ takeFirst("DidClose")
    /\ m_downloads' = {d \in m_downloads : home[d] # Taken.tab}
    /\ UNCHANGED <<dialog, currenttab, fieldVars, uniqueDownloadID, webVars,
                   overtaken, switches, sole>>

-----------------------------------------------------------------------------
Handle ==
    \/ handleProgress
    \/ handleDidFinish
    \/ handleOver
    \/ handleDidClose

User ==
    \/ \E t \in Tab : selectTab(t)
    \/ download_file
    \/ cb_stop_xfer
    \/ answer

\* A process does what the UI process has sent.
Obey == \E d \in Download : startWithHandle(d) \/ cancelDownload(d)

\* What pages and servers do.
Network ==
    \/ \E t \in Tab : Respond(t) \/ runJavaScriptConfirm(t) \/ Crash(t)
    \/ RespondToTarget
    \/ FailTarget
    \/ \E d \in Download :
          decideDestinationWithSuggestedFilename(d) \/ receiveData(d) \/ endDownload(d)

Next == Handle \/ Obey \/ User \/ Network

\* Messages are handled, as MessageLoop promises, and so are the answers and messages
\* that a web process gets.  Nothing is assumed of pages and servers, and of the user
\* only what EventLoop needs to keep that promise: that he does not leave file
\* choosers open until all chains wait.
Spec == Init /\ [][Next]_vars /\ WF_vars(Handle) /\ WF_vars(Obey)

-----------------------------------------------------------------------------
(* Properties.                                                             *)

\* The process is dead, and the UI process has handled the end of its connection.
Closed(t) == ~alive[t] /\ \A k \in Queued("DidClose") : m_functionQueue[k].tab # t

\* DownloadProxyMap: a message about a download finds the proxy, also one that a
\* process has sent before it died, and so does downloadFinished after the question
\* at the end of didFinish, unless the end of the process was handled while the user
\* was thinking.  No other message that is handled meanwhile and no cancel that
\* crosses the end of a download takes the proxy away too early.
ProxyKnown ==
    /\ \A name \in DownloadMessages : \A k \in Queued(name) :
          m_functionQueue[k].download \in m_downloads
    /\ Shown("open") => (dialog.download \in m_downloads \/ Closed(dialog.tab))

\* didStart, didReceiveData, decideDestinationWithSuggestedFilename: as long as the
\* user stays on the tab and no other download has a callback, the tab's name,
\* count and reference are those of the download: the count is what was sent
\* without what is still in the queue, `Stop transfer' stops this download, and
\* the question at its end names its file and opens that file.
SoleDownloadExact ==
    sole # None =>
        /\ bytesdownloaded[currenttab]
             = sent[sole] - Cardinality({k \in Queued("DidReceiveData") :
                                           m_functionQueue[k].download = sole})
        /\ download_ref[currenttab] = sole
        /\ bytesdownloaded[currenttab] > 0 => downloadfilename[currenttab] = sole
        /\ (Shown("open") /\ dialog.download = sole) => (dialog.file = sole /\ dialog.buf = sole)

\* download_file, decidePolicyForResponse: while the response to `Save target as...'
\* is awaited the flag is up, so it will be saved if the tab is current then,
\* unless another response, of whichever tab, has come while the tab was current
\* and has taken the flag.  What happens while other tabs are current does not
\* matter.
SaveTargetKept == (target \in Tab /\ ~overtaken) => savetargetas[target]

\* cb_stop_xfer: a download that is to be stopped loses its proxy, unless the page
\* is in a question of a script, the process has died, or the download has been
\* completed and its own question is shown.
StopWorks ==
    \A d \in Download :
        (d \in cancels) ~> \/ d \notin m_downloads
                           \/ Shown("script") /\ dialog.tab = home[d]
                           \/ ~alive[home[d]]
                           \/ Shown("open") /\ dialog.download = d
====
