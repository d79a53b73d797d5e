---- MODULE EventLoop ----
(***************************************************************************)
(* How NetRider's only thread spends its time.  FLTK's loop runs timeouts; *)
(* a timeout runs Timer_CB, which runs one iteration of the GLib loop,     *)
(* which runs WTF's RunLoop::performWork for each idle source that wakeUp  *)
(* has attached, which performs the queued functions.  Clicks and keys     *)
(* come in only while FLTK's loop is in control.                           *)
(*                                                                         *)
(* main starts two chains of timeouts.  A function that asks the user for  *)
(* something runs FLTK's loop until the window is closed; the chain it     *)
(* came from is then suspended, and the other one goes on, unless it comes *)
(* to such a function, too.  FLTK keeps a second question from being asked *)
(* while one is open, but not a file chooser.                              *)
(***************************************************************************)
EXTENDS Naturals, Sequences

CONSTANTS
    Chains,         \* the chains of timeouts started by main
    Printing,       \* in place of a chain: cb_print, which runs iterations itself
    Function, Asking, NoDialog, UserDialog, MaxQueue,   \* as in MessageLoop
    Choosing,       \* the functions that open the file chooser
    MaxSources      \* bound: idle sources that are counted

ASSUME LoopAssumption ==
    /\ Chains # {} /\ Printing \notin Chains
    /\ Asking \subseteq Function /\ Choosing \subseteq Function
    /\ Asking \cap Choosing = {}
    /\ NoDialog \notin Function \cup {UserDialog}
    /\ MaxQueue \in Nat /\ MaxSources \in Nat
    /\ MaxQueue <= MaxSources

VARIABLES
    armed,              \* the chains whose timeout is set
    frames,             \* the calls that run an iteration, innermost last
    sources,            \* the idle sources attached to the GLib context
    m_functionQueue,
    loops,              \* the runs of FLTK's loop in FLTK's windows, innermost last
    shown               \* the windows of FLTK that are on the screen

vars == <<armed, frames, sources, m_functionQueue, loops, shown>>

\* A call of Timer_CB or cb_print: its chain, the sources its iteration has still to
\* dispatch and the functions that the current performWork may still handle.
Frame == [chain : Chains \cup {Printing}, ready : Nat, left : Nat]

\* FLTK has one window for questions, one file chooser and one menu at a time.
Window == {"question", "chooser", "menu"}

\* A function or a click has opened the window, at that many frames.
Loop == [what : Function \cup {UserDialog}, window : Window, at : Nat]

\* The number of frames at the innermost run of FLTK's loop.
Waiting == IF loops = << >> THEN 0 ELSE loops[Len(loops)].at

TypeOK ==
    /\ armed \subseteq Chains
    /\ frames \in Seq(Frame)
    /\ sources \in 0 .. MaxSources
    /\ m_functionQueue \in Seq(Function)
    /\ Len(m_functionQueue) <= MaxQueue
    /\ loops \in Seq(Loop)
    /\ Waiting <= Len(frames)
    /\ shown \subseteq Window

\* Mutant of Init: one timer is started.
Init_OneTimer ==
    /\ armed = {CHOOSE c \in Chains : TRUE}
    /\ frames = << >>
    /\ sources = 0
    /\ m_functionQueue = << >>
    /\ loops = << >>
    /\ shown = {}

\* main has started the timers.
Init ==
    /\ armed = Chains
    /\ frames = << >>
    /\ sources = 0
    /\ m_functionQueue = << >>
    /\ loops = << >>
    /\ shown = {}

\* The innermost run of FLTK's loop is over: its window has been closed.
LoopOver ==
    /\ loops # << >> /\ Len(frames) = Waiting
    /\ loops[Len(loops)].window \notin shown

\* FLTK's loop is in control: no callback is running, or the innermost waits for a
\* window to be closed.
FltkInControl == Len(frames) = Waiting /\ ~LoopOver

-----------------------------------------------------------------------------
\* A source that finds the queue empty does nothing, so sources beyond MaxSources
\* are not counted.
Attach == IF sources < MaxSources THEN sources + 1 ELSE sources

\* Mutant of dispatch: the loop is woken up for an empty queue only.
dispatch_WakeOnce(function) ==
    /\ Len(m_functionQueue) < MaxQueue
    /\ m_functionQueue' = Append(m_functionQueue, function)
    /\ sources' = IF m_functionQueue = << >> THEN Attach ELSE sources
    /\ UNCHANGED <<armed, frames, loops, shown>>

\* RunLoop::dispatch and wakeUp, called by the thread that reads the connection
\* when a message arrives.
dispatch(function) ==
    /\ Len(m_functionQueue) < MaxQueue
    /\ m_functionQueue' = Append(m_functionQueue, function)
    /\ sources' = Attach
    /\ UNCHANGED <<armed, frames, loops, shown>>

\* Mutant of iterate: the interrupted iteration goes on with its sources.
iterate_KeepsReady(c) ==
    /\ FltkInControl /\ sources > 0
    /\ frames' = Append(frames, [chain |-> c, ready |-> sources, left |-> 0])
    /\ UNCHANGED <<sources, m_functionQueue, loops, shown>>

\* g_main_context_iteration will dispatch every source attached by now; an iteration
\* it interrupts dispatches no more.  One that would find nothing to dispatch changes
\* nothing.
iterate(c) ==
    /\ FltkInControl /\ sources > 0
    /\ frames' = Append([k \in 1 .. Len(frames) |-> [frames[k] EXCEPT !.ready = 0]],
                        [chain |-> c, ready |-> sources, left |-> 0])
    /\ UNCHANGED <<sources, m_functionQueue, loops, shown>>

\* FLTK runs a timeout, also in the loop of a window.
Timer_CB(c) ==
    /\ c \in armed
    /\ iterate(c)
    /\ armed' = armed \ {c}

\* A click on `Print to PS' runs an iteration.
cb_print ==
    /\ loops = << >>
    /\ iterate(Printing)
    /\ UNCHANGED armed

\* The innermost callback, when it is not waiting for the user.
Busy == Len(frames) > Waiting
Top == frames[Len(frames)]

\* performWork has handled as many functions as it found, or none is left because
\* an inner call has handled them.
WorkDone == Top.left = 0 \/ m_functionQueue = << >>

\* The iteration dispatches its next source: performWork starts, and will handle
\* as many functions as there are now.
performWork ==
    /\ Busy /\ WorkDone /\ Top.ready > 0
    /\ sources' = sources - 1
    /\ frames' = [frames EXCEPT ![Len(frames)].ready = @ - 1,
                                ![Len(frames)].left = Len(m_functionQueue)]
    /\ UNCHANGED <<armed, m_functionQueue, loops, shown>>

\* FLTK shows a window and runs its loop until the window is closed.
runWindow(what, window) ==
    /\ loops' = Append(loops, [what |-> what, window |-> window, at |-> Len(frames)])
    /\ shown' = shown \cup {window}

\* The numbers of the loops of questions.
Questions == {k \in 1 .. Len(loops) : loops[k].window = "question"}

\* Mutant of fl_choice: a question can be asked while another is open.
fl_choice_Nested(what) == runWindow(what, "question")

\* fl_choice, fl_alert, fl_message and fl_input return 0 at once inside the loop of
\* another question.
fl_choice(what) ==
    IF Questions = {} THEN runWindow(what, "question") ELSE UNCHANGED <<loops, shown>>

\* fl_file_chooser has no such guard: it shows its window again.
fl_file_chooser(what) == runWindow(what, "chooser")

\* Mutant of takeFirst: performWork goes on while the queue is not empty.
takeFirst_Endless ==
    /\ m_functionQueue' = Tail(m_functionQueue)
    /\ UNCHANGED frames

takeFirst ==
    /\ m_functionQueue' = Tail(m_functionQueue)
    /\ frames' = [frames EXCEPT ![Len(frames)].left = @ - 1]

\* performWork takes the next function and performs it: the questions of scripts and
\* of didFinish ask, getsource chooses a file.
performFunction ==
    /\ Busy /\ ~WorkDone
    /\ takeFirst
    /\ \/ Head(m_functionQueue) \in Asking /\ fl_choice(Head(m_functionQueue))
       \/ Head(m_functionQueue) \in Choosing /\ fl_file_chooser(Head(m_functionQueue))
       \/ Head(m_functionQueue) \notin Asking \cup Choosing /\ UNCHANGED <<loops, shown>>
    /\ UNCHANGED <<armed, sources>>

\* Timer_CB ends by setting its timeout again; cb_print has none.
repeat_timeout ==
    /\ Busy /\ WorkDone /\ Top.ready = 0
    /\ armed' = armed \cup ({Top.chain} \cap Chains)
    /\ frames' = SubSeq(frames, 1, Len(frames) - 1)
    /\ UNCHANGED <<sources, m_functionQueue, loops, shown>>

\* The window of the innermost loop has been closed, and its handler goes on.
endLoop ==
    /\ LoopOver
    /\ loops' = SubSeq(loops, 1, Len(loops) - 1)
    /\ UNCHANGED <<armed, frames, sources, m_functionQueue, shown>>

\* A click or a key opens a menu, a question or the file chooser.  Windows are
\* modal; only the chooser has a question of its own, the name of a new directory.
askUser(window) ==
    /\ FltkInControl
    /\ loops # << >> => (window = "question" /\ loops[Len(loops)].window = "chooser")
    /\ IF window = "question" THEN fl_choice(UserDialog) ELSE runWindow(UserDialog, window)
    /\ UNCHANGED <<armed, frames, sources, m_functionQueue>>

\* The user closes a window.
answer(window) ==
    /\ FltkInControl /\ window \in shown
    /\ shown' = shown \ {window}
    /\ UNCHANGED <<armed, frames, sources, m_functionQueue, loops>>

-----------------------------------------------------------------------------
Tick == \E c \in Chains : Timer_CB(c)

\* What the thread goes on with by itself once a timeout has fired.
Thread ==
    \/ performWork
    \/ performFunction
    \/ repeat_timeout
    \/ endLoop

User == cb_print \/ (\E w \in Window : askUser(w) \/ answer(w))

Next == Tick \/ Thread \/ User \/ (\E f \in Function : dispatch(f))

\* Callbacks go on.  FLTK looks for timeouts that are due whenever its loop gets
\* control, also in the loop of a window, so the clicks of a user cannot keep it from
\* firing one for ever.  Nothing is assumed of the user and of the processes that
\* send messages.
Spec == Init /\ [][Next]_vars /\ WF_vars(Thread) /\ SF_vars(Tick)

-----------------------------------------------------------------------------
\* Timer_CB, fl_choice and fl_file_chooser: a chain is lost to the program neither by
\* a question nor by a chooser: it is armed, or on the stack exactly once.  Every call
\* on the stack but the innermost waits for the user, and the loops of their windows
\* end in the reverse order, with one question among them at most.
ChainsDistinct ==
    /\ \A i, j \in 1 .. Len(frames) : frames[i].chain = frames[j].chain => i = j
    /\ \A c \in Chains : c \in armed <=> \A i \in 1 .. Len(frames) : frames[i].chain # c
    /\ \A i \in 1 .. Len(frames) : i < Len(frames) => \E k \in 1 .. Len(loops) : loops[k].at = i
    /\ \A j, k \in 1 .. Len(loops) : j <= k => loops[j].at <= loops[k].at
    /\ \A j, k \in Questions : j = k

\* RunLoop::wakeUp: a queued function is either one of those that the running
\* performWork will still handle, or there is a source for it.  A call suspended by
\* a window does not count, so no message is stranded behind an open one.
NoLostWakeup == Len(m_functionQueue) <= sources + (IF Busy THEN Top.left ELSE 0)

\* The chain waits for the user.
Waits(c) == \E k \in 1 .. Len(loops) : loops[k].at # 0 /\ frames[loops[k].at].chain = c

\* performWork, `we guarantee to occasionally return from the run loop': however
\* many messages arrive, Timer_CB comes to its end and its timeout is set again,
\* unless it waits for the user itself.
ChainsReturn == \A c \in Chains : (c \notin armed) ~> (c \in armed \/ Waits(c))

\* All chains wait for the user: for two of them that takes a file chooser.
HeldUp == \A c \in Chains : Waits(c)

\* The question that is open, whether or not the innermost loop is its own.
Question == IF Questions = {} THEN NoDialog ELSE loops[CHOOSE k \in Questions : TRUE].what

Queue == INSTANCE MessageLoop WITH dialog <- Question

\* The loop keeps the promises of MessageLoop: order, one question at a time, and
\* every message handled even if a question is never answered.  The last one it
\* keeps as long as the user does not leave all chains waiting for good: then nothing
\* is handled any more.
ImplementsMessageLoop ==
    /\ Queue!QueueInit /\ [][Queue!QueueNext]_(Queue!queueVars)
    /\ ([]<>~HeldUp) => Queue!Live
====
