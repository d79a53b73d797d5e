---- MODULE MessageLoop ----
(***************************************************************************)
(* What NetRider's event loop promises to the code that runs in it, that   *)
(* is, to the callbacks of WebKit.  Messages are handled one after the     *)
(* other, in the order in which they were queued, each by one step.  A     *)
(* message may ask the user a question; its handler goes on when the user  *)
(* answers, and the messages behind it do not wait for that.  One question *)
(* is shown at a time: asking while one is shown returns 0 at once.        *)
(*                                                                         *)
(* The windows that are not questions (file choosers, menus) are not part  *)
(* of it: they do not change what a callback sees, except that `Live'      *)
(* holds only as long as the user does not leave all chains of EventLoop   *)
(* waiting.                                                                *)
(*                                                                         *)
(* Module EventLoop implements it, module Downloads builds on it.          *)
(***************************************************************************)
EXTENDS Naturals, Sequences

CONSTANTS
    Function,       \* the functions that are dispatched, that is, the messages
    Asking,         \* those of them that ask a question
    NoDialog,       \* the value of dialog when no question is shown
    UserDialog,     \* a question that a click or a key has led to
    MaxQueue        \* bound: functions in the queue when one is dispatched

VARIABLES
    m_functionQueue,
    dialog              \* the question that is shown

queueVars == <<m_functionQueue, dialog>>

QueueInit == m_functionQueue = << >> /\ dialog = NoDialog

Room == Len(m_functionQueue) < MaxQueue

enqueue(function) == m_functionQueue' = Append(m_functionQueue, function)

dequeue == m_functionQueue # << >> /\ m_functionQueue' = Tail(m_functionQueue)

\* A handler asks, and goes on when there is an answer.
show(question) == dialog = NoDialog /\ dialog' = question

\* A handler asks while a question is shown, and goes on at once.
showNothing == dialog # NoDialog /\ UNCHANGED dialog

hide == dialog # NoDialog /\ dialog' = NoDialog

-----------------------------------------------------------------------------
Arrive(f) == Room /\ enqueue(f) /\ UNCHANGED dialog

Perform ==
    /\ dequeue
    /\ \/ Head(m_functionQueue) \notin Asking /\ UNCHANGED dialog
       \/ Head(m_functionQueue) \in Asking /\ (show(Head(m_functionQueue)) \/ showNothing)

AskUser == show(UserDialog) /\ UNCHANGED m_functionQueue

Answer == hide /\ UNCHANGED m_functionQueue

QueueNext == (\E f \in Function : Arrive(f)) \/ Perform \/ AskUser \/ Answer

\* Messages are handled whether or not the user answers.
Live == WF_queueVars(Perform)

QueueSpec == QueueInit /\ [][QueueNext]_queueVars /\ Live
====
