---- MODULE BackForward ----
(***************************************************************************)
(* What a back/forward list promises: the page on display, the pages one   *)
(* can go back to and the pages one can go forward to.                     *)
(***************************************************************************)
EXTENDS Naturals, Sequences

CONSTANTS
    Page,       \* the pages (entries of the list)
    Capacity,   \* the number of pages remembered, the displayed one included
    None        \* no page

VARIABLES
    back,       \* pages behind the displayed one, nearest last
    current,    \* the displayed page
    forward     \* pages before the displayed one, nearest first

history == <<back, current, forward>>

Start ==
    /\ back = << >>
    /\ current = None
    /\ forward = << >>

\* The last n elements of s.
LastN(s, n) == IF Len(s) <= n THEN s ELSE SubSeq(s, Len(s) - n + 1, Len(s))

\* A new page is displayed: what was ahead is forgotten, and so is the oldest
\* page when there are too many.
Visit(p) ==
    /\ back' = LastN(IF current = None THEN << >> ELSE Append(back, current), Capacity - 1)
    /\ current' = p
    /\ forward' = << >>

\* Go n pages back or forward.
Back(n) ==
    /\ n \in 1 .. Len(back)
    /\ LET k == Len(back) - n IN
         /\ back' = SubSeq(back, 1, k)
         /\ current' = back[k + 1]
         /\ forward' = SubSeq(back, k + 2, Len(back)) \o <<current>> \o forward

Forward(n) ==
    /\ n \in 1 .. Len(forward)
    /\ back' = back \o <<current>> \o SubSeq(forward, 1, n - 1)
    /\ current' = forward[n]
    /\ forward' = SubSeq(forward, n + 1, Len(forward))

\* Everything but the displayed page is forgotten.
Forget ==
    /\ back' = << >>
    /\ forward' = << >>
    /\ UNCHANGED current

\* The page is closed.
Leave ==
    /\ back' = << >>
    /\ current' = None
    /\ forward' = << >>

Step ==
    \/ \E p \in Page : Visit(p)
    \/ \E n \in 1 .. Capacity : Back(n) \/ Forward(n)
    \/ Forget
    \/ Leave

History == Start /\ [][Step]_history
====
