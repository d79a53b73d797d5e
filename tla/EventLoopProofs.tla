---- MODULE EventLoopProofs ----
(***************************************************************************)
(* Proofs about EventLoop, for every set of chains and functions and every *)
(* length of the queue.                                                    *)
(***************************************************************************)
EXTENDS EventLoop, SequenceTheorems, TLAPS

\* The two halves of ChainsDistinct: the chains and the nesting of FLTK's loops.
FramesOK ==
    /\ \A i, j \in 1 .. Len(frames) : frames[i].chain = frames[j].chain => i = j
    /\ \A c \in Chains : c \in armed <=> \A i \in 1 .. Len(frames) : frames[i].chain # c

LoopsOK ==
    /\ \A i \in 1 .. Len(frames) : i < Len(frames) => \E k \in 1 .. Len(loops) : loops[k].at = i
    /\ \A j, k \in 1 .. Len(loops) : j <= k => loops[j].at <= loops[k].at
    /\ \A j, k \in Questions : j = k

\* An iteration dispatches only sources that are still attached, and one that was
\* interrupted by another dispatches none.
SourcesReady ==
    \A k \in 1 .. Len(frames) :
        frames[k].ready <= sources /\ (k < Len(frames) => frames[k].ready = 0)

\* There is a source for every queued function, except for the one that a
\* performWork which has just started is going to take.  NoLostWakeup is weaker and
\* not inductive: it does not say that the functions left over when a question
\* suspends a performWork have sources of their own.
SourcePerFunction ==
    \/ Len(m_functionQueue) <= sources
    \/ Busy /\ Top.left > 0 /\ Len(m_functionQueue) <= sources + 1

\* The inductive invariant.
IInv ==
    /\ TypeOK
    /\ FramesOK
    /\ LoopsOK
    /\ SourcesReady
    /\ SourcePerFunction

-----------------------------------------------------------------------------
\* Before the first timeout nothing is queued and nobody waits.
LEMMA InitIInv == Init => IInv
<1> SUFFICES ASSUME Init PROVE IInv
  OBVIOUS
<1> USE LoopAssumption DEF Init
<1>1. TypeOK
  BY DEF TypeOK, Waiting
<1>2. FramesOK /\ LoopsOK /\ SourcesReady
  BY DEF FramesOK, LoopsOK, Questions, SourcesReady
<1>3. SourcePerFunction
  BY DEF SourcePerFunction
<1> QED
  BY <1>1, <1>2, <1>3 DEF IInv

\* The frames of the stack are frames.
LEMMA FrameTypes ==
    ASSUME IInv, NEW k \in 1 .. Len(frames)
    PROVE  /\ frames[k] \in Frame
           /\ frames[k].ready \in Nat /\ frames[k].left \in Nat
           /\ frames[k].chain \in Chains \cup {Printing}
<1>1. frames \in Seq(Frame)
  BY DEF IInv, TypeOK
<1>2. frames[k] \in Frame
  BY <1>1
<1> QED
  BY <1>2 DEF Frame

\* A sequence without its last element.
LEMMA WithoutLast ==
    ASSUME NEW S, NEW s \in Seq(S), s # << >>, NEW t, t = SubSeq(s, 1, Len(s) - 1)
    PROVE  /\ Len(s) \in Nat /\ Len(s) \in 1 .. Len(s)
           /\ t \in Seq(S) /\ Len(t) = Len(s) - 1
           /\ \A k \in 1 .. Len(s) - 1 : t[k] = s[k]
<1>1. Len(s) \in Nat /\ Len(s) # 0
  BY EmptySeq
<1>2. 1 \in 1 .. Len(s) + 1 /\ Len(s) - 1 \in 1 - 1 .. Len(s) /\ Len(s) \in 1 .. Len(s)
  BY <1>1
<1>3. \A k \in 1 .. Len(s) - 1 : s[k] \in S
  BY <1>1
<1>4. 1 \in Int /\ Len(s) - 1 \in Int
  BY <1>1
<1>5. /\ t \in Seq(S) /\ Len(t) = (IF 1 <= Len(s) - 1 THEN (Len(s) - 1) - 1 + 1 ELSE 0)
      /\ \A k \in 1 .. (Len(s) - 1) - 1 + 1 : t[k] = s[1 + k - 1]
  BY <1>3, <1>4, SubSeqProperties
<1>6. \A k \in 1 .. Len(s) - 1 : t[k] = s[k]
  BY <1>1, <1>5
<1>7. Len(t) = Len(s) - 1
  <2>1. PICK n, m : n = Len(s) /\ m = Len(t)
    OBVIOUS
  <2>2. n \in Nat /\ n # 0 /\ m = (IF 1 <= n - 1 THEN (n - 1) - 1 + 1 ELSE 0)
    BY <1>1, <1>5, <2>1
  <2>3. m = n - 1
    BY <2>2
  <2> QED
    BY <2>1, <2>3
<1> QED
  BY <1>1, <1>2, <1>5, <1>6, <1>7

\* No loop is nested deeper than the innermost one.
LEMMA InnermostLoop ==
    ASSUME IInv
    PROVE  /\ Waiting \in Nat /\ Len(frames) \in Nat /\ Len(loops) \in Nat
           /\ Waiting <= Len(frames)
           /\ \A k \in 1 .. Len(loops) : loops[k].at \in Nat /\ loops[k].at <= Waiting
<1>1. loops \in Seq(Loop) /\ frames \in Seq(Frame) /\ Waiting <= Len(frames)
  BY DEF IInv, TypeOK
<1>2. ASSUME NEW k \in 1 .. Len(loops) PROVE loops[k].at \in Nat
  <2>1. loops[k] \in Loop
    BY <1>1
  <2> QED
    BY <2>1 DEF Loop
<1>3. CASE loops = << >>
  BY <1>1, <1>3 DEF Waiting
<1>4. CASE loops # << >>
  <2>1. Len(loops) \in 1 .. Len(loops) /\ Waiting = loops[Len(loops)].at
    BY <1>1, <1>4 DEF Waiting
  <2>2. ASSUME NEW k \in 1 .. Len(loops) PROVE loops[k].at <= loops[Len(loops)].at
    <3>1. k <= Len(loops)
      BY <2>1
    <3> QED
      BY <2>1, <3>1 DEF IInv, LoopsOK
  <2> QED
    BY <1>1, <1>2, <2>1, <2>2
<1> QED
  BY <1>3, <1>4

\* The top of the stack, when a callback runs: the call below waits for the user.
LEMMA TopFrame ==
    ASSUME IInv, Busy
    PROVE  /\ Len(frames) \in 1 .. Len(frames)
           /\ Len(frames) = Waiting + 1
           /\ Top \in Frame /\ Top.ready \in Nat /\ Top.left \in Nat
           /\ Top.chain \in Chains \cup {Printing}
           /\ Top.ready <= sources
<1>1. /\ Len(frames) \in Nat /\ Waiting \in Nat /\ Len(frames) > Waiting
      /\ \A k \in 1 .. Len(loops) : loops[k].at \in Nat /\ loops[k].at <= Waiting
  BY InnermostLoop DEF Busy
<1>2. Len(frames) \in 1 .. Len(frames)
  BY <1>1
<1>3. Len(frames) <= Waiting + 1
  <2> SUFFICES ASSUME Len(frames) > Waiting + 1 PROVE FALSE
    BY <1>1
  <2>1. PICK i : i = Len(frames) - 1
    OBVIOUS
  <2>2. i \in 1 .. Len(frames) /\ i < Len(frames) /\ i > Waiting
    BY <1>1, <2>1
  <2>3. PICK k \in 1 .. Len(loops) : loops[k].at = i
    BY <2>2 DEF IInv, LoopsOK
  <2> QED
    BY <1>1, <2>2, <2>3
<1>4. Len(frames) = Waiting + 1
  BY <1>1, <1>3
<1>5. Top \in Frame
  BY <1>2 DEF IInv, TypeOK, Top
<1>6. Top.ready <= sources
  BY <1>2 DEF IInv, SourcesReady, Top
<1> QED
  BY <1>2, <1>4, <1>5, <1>6 DEF Frame

\* The nesting of the loops stays as long as neither they nor the height of the stack
\* change.
LEMMA SameLoops ==
    ASSUME IInv, loops' = loops, Len(frames') = Len(frames)
    PROVE  LoopsOK' /\ Waiting' = Waiting
<1>1. Questions' = Questions
  BY DEF Questions
<1> QED
  BY <1>1 DEF IInv, LoopsOK, Waiting

\* So do the chains.
LEMMA SameChains ==
    ASSUME IInv, Len(frames') = Len(frames), armed' = armed,
           \A k \in 1 .. Len(frames) : frames'[k].chain = frames[k].chain
    PROVE  FramesOK'
<1>1. /\ \A i, j \in 1 .. Len(frames) : frames[i].chain = frames[j].chain => i = j
      /\ \A c \in Chains : c \in armed <=> \A i \in 1 .. Len(frames) : frames[i].chain # c
  BY DEF IInv, FramesOK
<1>2. /\ \A i, j \in 1 .. Len(frames') : frames'[i].chain = frames'[j].chain => i = j
      /\ \A c \in Chains : c \in armed' <=> \A i \in 1 .. Len(frames') : frames'[i].chain # c
  BY <1>1
<1> QED
  BY <1>2 DEF FramesOK

\* A window is opened by the innermost call, or by the user in the innermost loop.
LEMMA LoopPushed ==
    ASSUME IInv, NEW r \in Loop, r.at = Len(frames), loops' = Append(loops, r),
           Len(frames') = Len(frames), r.window = "question" => Questions = {}
    PROVE  loops' \in Seq(Loop) /\ Waiting' = Len(frames) /\ LoopsOK'
<1>1. /\ Waiting \in Nat /\ Len(frames) \in Nat /\ Len(loops) \in Nat /\ Waiting <= Len(frames)
      /\ \A k \in 1 .. Len(loops) : loops[k].at \in Nat /\ loops[k].at <= Waiting
  BY InnermostLoop
<1>2. loops \in Seq(Loop)
  BY DEF IInv, TypeOK
<1>3. /\ loops' \in Seq(Loop)
      /\ Len(loops') = Len(loops) + 1
      /\ \A k \in 1 .. Len(loops) : loops'[k] = loops[k]
      /\ loops'[Len(loops) + 1] = r
  BY <1>2, AppendProperties
<1>4. \A k \in 1 .. Len(loops') : k \in 1 .. Len(loops) \/ k = Len(loops) + 1
  BY <1>1, <1>3
<1>5. Waiting' = Len(frames)
  <2>1. loops' # << >>
    BY <1>1, <1>3
  <2> QED
    BY <1>3, <2>1 DEF Waiting
<1>6. \A i \in 1 .. Len(frames') : i < Len(frames') => \E k \in 1 .. Len(loops') : loops'[k].at = i
  <2> SUFFICES ASSUME NEW i \in 1 .. Len(frames), i < Len(frames)
               PROVE  \E k \in 1 .. Len(loops') : loops'[k].at = i
    OBVIOUS
  <2>1. PICK k \in 1 .. Len(loops) : loops[k].at = i
    BY DEF IInv, LoopsOK
  <2>2. k \in 1 .. Len(loops') /\ loops'[k] = loops[k]
    BY <1>1, <1>3
  <2> QED
    BY <2>1, <2>2
<1>7. \A j, k \in 1 .. Len(loops') : j <= k => loops'[j].at <= loops'[k].at
  <2> SUFFICES ASSUME NEW j \in 1 .. Len(loops'), NEW k \in 1 .. Len(loops'), j <= k
               PROVE  loops'[j].at <= loops'[k].at
    OBVIOUS
  <2>1. CASE j \in 1 .. Len(loops) /\ k \in 1 .. Len(loops)
    <3>1. loops[j].at <= loops[k].at
      BY <2>1 DEF IInv, LoopsOK
    <3> QED
      BY <1>3, <2>1, <3>1
  <2>2. CASE j \in 1 .. Len(loops) /\ k = Len(loops) + 1
    <3>1. loops'[j].at \in Nat /\ loops'[j].at <= Waiting /\ loops'[k].at = Len(frames)
      BY <1>1, <1>3, <2>2
    <3> QED
      BY <1>1, <3>1
  <2>3. CASE j = Len(loops) + 1
    <3>1. k = j
      BY <1>1, <1>3, <2>3
    <3>2. loops'[j].at = Len(frames)
      BY <1>3, <2>3
    <3> QED
      BY <1>1, <3>1, <3>2
  <2> QED
    BY <1>4, <2>1, <2>2, <2>3
<1>8. \A j, k \in Questions' : j = k
  <2> SUFFICES ASSUME NEW j \in Questions', NEW k \in Questions' PROVE j = k
    OBVIOUS
  <2>1. /\ j \in 1 .. Len(loops') /\ loops'[j].window = "question"
        /\ k \in 1 .. Len(loops') /\ loops'[k].window = "question"
    BY DEF Questions
  <2>2. ASSUME NEW l \in 1 .. Len(loops'), loops'[l].window = "question"
        PROVE  \/ l \in Questions
               \/ l = Len(loops) + 1 /\ Questions = {}
    BY <1>3, <1>4, <2>2 DEF Questions
  <2>3. \A x, y \in Questions : x = y
    BY DEF IInv, LoopsOK
  <2>4. /\ j \in Questions \/ (j = Len(loops) + 1 /\ Questions = {})
        /\ k \in Questions \/ (k = Len(loops) + 1 /\ Questions = {})
    BY <2>1, <2>2
  <2> QED
    BY <2>3, <2>4
<1> QED
  BY <1>3, <1>5, <1>6, <1>7, <1>8 DEF LoopsOK

\* RunLoop::dispatch brings a source with the function.
LEMMA dispatchIInv ==
    ASSUME IInv, NEW f \in Function, dispatch(f)
    PROVE  IInv'
<1> USE LoopAssumption DEF dispatch
<1>1. /\ m_functionQueue' \in Seq(Function)
      /\ Len(m_functionQueue') = Len(m_functionQueue) + 1
      /\ Len(m_functionQueue) \in Nat
  BY AppendProperties DEF IInv, TypeOK
<1>2. sources \in 0 .. MaxSources /\ sources' \in 0 .. MaxSources /\ sources' >= sources
  BY DEF Attach, IInv, TypeOK
<1>3. LoopsOK' /\ Waiting' = Waiting
  BY SameLoops
<1>4. FramesOK'
  BY SameChains
<1>5. TypeOK'
  BY <1>1, <1>2, <1>3 DEF IInv, TypeOK
<1>6. SourcesReady'
  <2> SUFFICES ASSUME NEW k \in 1 .. Len(frames)
               PROVE  frames[k].ready <= sources' /\ (k < Len(frames) => frames[k].ready = 0)
    BY DEF SourcesReady
  <2>1. frames[k].ready <= sources /\ (k < Len(frames) => frames[k].ready = 0)
    BY DEF IInv, SourcesReady
  <2>2. frames[k].ready \in Nat
    BY FrameTypes
  <2> QED
    BY <1>2, <2>1, <2>2
<1>7. SourcePerFunction'
  <2>1. CASE sources < MaxSources
    <3>1. sources' = sources + 1
      BY <2>1 DEF Attach
    <3> QED
      BY <1>1, <1>2, <1>3, <3>1 DEF IInv, SourcePerFunction, Busy, Top
  <2>2. CASE ~(sources < MaxSources)
    <3>1. Len(m_functionQueue') <= sources'
      BY <1>1, <1>2, <2>2
    <3> QED
      BY <3>1 DEF SourcePerFunction
  <2> QED
    BY <2>1, <2>2
<1> QED
  BY <1>3, <1>4, <1>5, <1>6, <1>7 DEF IInv

\* A new call goes on the stack with all attached sources; the one below, which
\* waits for the user, loses its own.
LEMMA iterateIInv ==
    ASSUME IInv, NEW c \in Chains \cup {Printing}, iterate(c), armed' = armed \ {c},
           \A i \in 1 .. Len(frames) : frames[i].chain # c
    PROVE  IInv'
<1> DEFINE below == [k \in 1 .. Len(frames) |-> [frames[k] EXCEPT !.ready = 0]]
           new == [chain |-> c, ready |-> sources, left |-> 0]
<1>1. /\ frames \in Seq(Frame) /\ Len(frames) \in Nat /\ sources \in Nat /\ Len(loops) \in Nat
      /\ loops \in Seq(Loop)
  BY DEF IInv, TypeOK
<1>2. /\ Len(frames) = Waiting /\ loops' = loops /\ sources' = sources
      /\ m_functionQueue' = m_functionQueue /\ shown' = shown
  BY DEF iterate, FltkInControl
<1>3. \A k \in 1 .. Len(frames) :
        /\ below[k] \in Frame
        /\ below[k].chain = frames[k].chain
        /\ below[k].ready = 0
  <2> TAKE k \in 1 .. Len(frames)
  <2>1. frames[k] \in Frame
    BY FrameTypes
  <2>2. below[k] = [frames[k] EXCEPT !.ready = 0]
    OBVIOUS
  <2> QED
    BY <2>1, <2>2 DEF Frame
<1>4. below \in Seq(Frame) /\ Len(below) = Len(frames)
  BY <1>1, <1>3
<1>5. new \in Frame /\ new.chain = c /\ new.ready = sources /\ new.left = 0
  BY <1>1 DEF Frame
<1> HIDE DEF below, new
<1>6. frames' = Append(below, new)
  BY DEF iterate, below, new
<1>7. /\ frames' \in Seq(Frame)
      /\ Len(frames') = Len(frames) + 1
      /\ \A k \in 1 .. Len(frames) : frames'[k] = below[k]
      /\ frames'[Len(frames) + 1] = new
  BY <1>4, <1>5, <1>6, AppendProperties
<1>8. Waiting' = Waiting
  BY <1>2 DEF Waiting
<1>9. TypeOK'
  BY <1>1, <1>2, <1>7, <1>8 DEF IInv, TypeOK
<1>10. FramesOK'
  <2>1. \A i \in 1 .. Len(frames) : frames'[i].chain = frames[i].chain
    BY <1>3, <1>7
  <2>2. frames'[Len(frames) + 1].chain = c
    BY <1>5, <1>7
  <2>3. \A i \in 1 .. Len(frames') : i \in 1 .. Len(frames) \/ i = Len(frames) + 1
    BY <1>1, <1>7
  <2>4. 1 .. Len(frames) \subseteq 1 .. Len(frames') /\ Len(frames) + 1 \in 1 .. Len(frames')
    BY <1>1, <1>7
  <2>5. \A i, j \in 1 .. Len(frames) : frames[i].chain = frames[j].chain => i = j
    BY DEF IInv, FramesOK
  <2>6. \A i, j \in 1 .. Len(frames') : frames'[i].chain = frames'[j].chain => i = j
    BY <2>1, <2>2, <2>3, <2>5
  <2>7. ASSUME NEW b \in Chains
        PROVE  b \in armed' <=> \A i \in 1 .. Len(frames') : frames'[i].chain # b
    <3>1. b \in armed <=> \A i \in 1 .. Len(frames) : frames[i].chain # b
      BY DEF IInv, FramesOK
    <3>2. b \in armed' <=> (b \in armed /\ b # c)
      OBVIOUS
    <3>3. (\A i \in 1 .. Len(frames') : frames'[i].chain # b)
            <=> (b # c /\ \A i \in 1 .. Len(frames) : frames[i].chain # b)
      BY <2>1, <2>2, <2>3, <2>4
    <3> QED
      BY <3>1, <3>2, <3>3
  <2> QED
    BY <2>6, <2>7 DEF FramesOK
<1>11. LoopsOK'
  <2>1. ASSUME NEW i \in 1 .. Len(frames'), i < Len(frames')
        PROVE  \E k \in 1 .. Len(loops') : loops'[k].at = i
    <3>1. i \in 1 .. Len(frames)
      BY <1>1, <1>7, <2>1
    <3>2. CASE i < Len(frames)
      BY <1>2, <3>1, <3>2 DEF IInv, LoopsOK
    <3>3. CASE i = Len(frames)
      <4>1. loops # << >> /\ loops[Len(loops)].at = i
        BY <1>1, <1>2, <3>1, <3>3 DEF Waiting
      <4>2. Len(loops) \in 1 .. Len(loops)
        BY <1>1, <4>1
      <4> QED
        BY <1>2, <4>1, <4>2
    <3> QED
      BY <1>1, <3>1, <3>2, <3>3
  <2>2. Questions' = Questions
    BY <1>2 DEF Questions
  <2> QED
    BY <1>2, <2>1, <2>2 DEF IInv, LoopsOK
<1>12. SourcesReady'
  <2> SUFFICES ASSUME NEW k \in 1 .. Len(frames')
               PROVE  frames'[k].ready <= sources' /\ (k < Len(frames') => frames'[k].ready = 0)
    BY DEF SourcesReady
  <2>1. sources' = sources
    BY <1>2
  <2>2. CASE k \in 1 .. Len(frames)
    <3>1. frames'[k].ready = 0
      BY <1>3, <1>7, <2>2
    <3> QED
      BY <1>1, <2>1, <3>1
  <2>3. CASE k = Len(frames) + 1
    <3>1. frames'[k].ready = sources
      BY <1>5, <1>7, <2>3
    <3> QED
      BY <1>1, <1>7, <2>1, <2>3, <3>1
  <2> QED
    BY <1>1, <1>7, <2>2, <2>3
<1>13. SourcePerFunction'
  <2>1. ~Busy
    BY <1>1, <1>2 DEF Busy
  <2> QED
    BY <1>2, <2>1 DEF IInv, SourcePerFunction
<1> QED
  BY <1>9, <1>10, <1>11, <1>12, <1>13 DEF IInv

\* A timeout that is set starts a call of its chain, `Print to PS' one of its own.
LEMMA StartIInv ==
    ASSUME IInv, Tick \/ cb_print
    PROVE  IInv'
<1>1. ASSUME NEW c \in Chains, Timer_CB(c) PROVE IInv'
  <2>1. c \in armed /\ iterate(c) /\ armed' = armed \ {c}
    BY <1>1 DEF Timer_CB
  <2>2. \A i \in 1 .. Len(frames) : frames[i].chain # c
    BY <2>1 DEF IInv, FramesOK
  <2> QED
    BY <2>1, <2>2, iterateIInv
<1>2. CASE cb_print
  <2>1. loops = << >> /\ iterate(Printing) /\ armed' = armed
    BY <1>2 DEF cb_print
  <2>2. armed \subseteq Chains /\ Len(frames) \in Nat
    BY DEF IInv, TypeOK
  <2>3. armed' = armed \ {Printing}
    BY <2>1, <2>2, LoopAssumption
  <2>4. Len(frames) = 0
    BY <2>1 DEF iterate, FltkInControl, Waiting
  <2>5. \A i \in 1 .. Len(frames) : frames[i].chain # Printing
    BY <2>4
  <2> QED
    BY <2>1, <2>3, <2>5, iterateIInv
<1> QED
  BY <1>1, <1>2 DEF Tick

\* What performWork and takeFirst change is in the top frame.
LEMMA TopReplaced ==
    ASSUME frames \in Seq(Frame), Len(frames) \in 1 .. Len(frames),
           NEW top \in Frame, NEW F, F = [frames EXCEPT ![Len(frames)] = top]
    PROVE  /\ F \in Seq(Frame)
           /\ Len(F) = Len(frames)
           /\ F[Len(frames)] = top
           /\ \A k \in 1 .. Len(frames) : k = Len(frames) \/ F[k] = frames[k]
  BY ExceptSeq

\* A frame with two fields replaced.
LEMMA FrameExcept ==
    ASSUME NEW r \in Frame, NEW n \in Nat, NEW l \in Nat
    PROVE  /\ [r EXCEPT !.left = l] = [chain |-> r.chain, ready |-> r.ready, left |-> l]
           /\ [[r EXCEPT !.ready = n] EXCEPT !.left = l] = [chain |-> r.chain, ready |-> n, left |-> l]
<1>1. [r EXCEPT !.left = l] = [chain |-> r.chain, ready |-> r.ready, left |-> l]
  BY DEF Frame
<1>2. [r EXCEPT !.ready = n] = [chain |-> r.chain, ready |-> n, left |-> r.left]
  BY DEF Frame
<1> DEFINE s == [chain |-> r.chain, ready |-> n, left |-> r.left]
<1>3. [s EXCEPT !.left = l] = [chain |-> r.chain, ready |-> n, left |-> l]
  OBVIOUS
<1>4. [r EXCEPT !.ready = n] = s
  BY <1>2
<1> HIDE DEF s
<1> QED
  BY <1>1, <1>3, <1>4

\* performWork uses up one source and is going to take the first function.
LEMMA performWorkIInv ==
    ASSUME IInv, performWork
    PROVE  IInv'
<1> DEFINE top == [chain |-> Top.chain, ready |-> Top.ready - 1, left |-> Len(m_functionQueue)]
<1>1. /\ Busy /\ Top.ready > 0
      /\ Top.left = 0 \/ m_functionQueue = << >>
      /\ sources' = sources - 1
      /\ armed' = armed /\ m_functionQueue' = m_functionQueue
      /\ loops' = loops /\ shown' = shown
  BY DEF performWork, WorkDone
<1>2. /\ sources \in 0 .. MaxSources /\ MaxSources \in Nat
      /\ m_functionQueue \in Seq(Function) /\ Len(m_functionQueue) \in Nat
      /\ frames \in Seq(Frame) /\ Len(frames) \in Nat
  BY LoopAssumption DEF IInv, TypeOK
<1>3. /\ Len(frames) \in 1 .. Len(frames)
      /\ Top \in Frame /\ Top.ready \in Nat /\ Top.ready <= sources
      /\ Top.chain \in Chains \cup {Printing}
  BY <1>1, TopFrame
<1>4. top \in Frame
  BY <1>1, <1>2, <1>3 DEF Frame
<1>5. frames' = [frames EXCEPT ![Len(frames)] = top]
  <2>1. frames' = [frames EXCEPT ![Len(frames)] =
                     [[Top EXCEPT !.ready = Top.ready - 1] EXCEPT !.left = Len(m_functionQueue)]]
    BY <1>3 DEF performWork, Top
  <2>2. Top.ready - 1 \in Nat /\ Len(m_functionQueue) \in Nat
    BY <1>1, <1>2, <1>3
  <2>3. [[Top EXCEPT !.ready = Top.ready - 1] EXCEPT !.left = Len(m_functionQueue)] = top
    BY <1>3, <2>2, FrameExcept
  <2> QED
    BY <2>1, <2>3
<1>6. top.ready = Top.ready - 1 /\ top.left = Len(m_functionQueue) /\ top.chain = Top.chain
  OBVIOUS
<1> HIDE DEF top
<1>7. /\ frames' \in Seq(Frame)
      /\ Len(frames') = Len(frames)
      /\ frames'[Len(frames)] = top
      /\ \A k \in 1 .. Len(frames) : k = Len(frames) \/ frames'[k] = frames[k]
  BY <1>2, <1>3, <1>4, <1>5, TopReplaced
<1>8. LoopsOK' /\ Waiting' = Waiting
  BY <1>1, <1>7, SameLoops
<1>9. TypeOK'
  <2>1. sources' \in 0 .. MaxSources
    BY <1>1, <1>2, <1>3
  <2> QED
    BY <1>1, <1>7, <1>8, <2>1 DEF IInv, TypeOK
<1>10. FramesOK'
  <2>1. \A k \in 1 .. Len(frames) : frames'[k].chain = frames[k].chain
    BY <1>6, <1>7 DEF Top
  <2> QED
    BY <1>1, <1>7, <2>1, SameChains
<1>11. SourcesReady'
  <2> SUFFICES ASSUME NEW k \in 1 .. Len(frames)
               PROVE  frames'[k].ready <= sources' /\ (k < Len(frames) => frames'[k].ready = 0)
    BY <1>7 DEF SourcesReady
  <2>1. CASE k = Len(frames)
    BY <1>1, <1>2, <1>3, <1>6, <1>7, <2>1
  <2>2. CASE k # Len(frames)
    <3>1. frames'[k] = frames[k] /\ k < Len(frames)
      BY <1>2, <1>7, <2>2
    <3>2. frames[k].ready = 0
      BY <3>1 DEF IInv, SourcesReady
    <3> QED
      BY <1>1, <1>2, <1>3, <3>1, <3>2
  <2> QED
    BY <2>1, <2>2
<1>12. SourcePerFunction'
  <2>1. Busy' /\ Top'.left = Len(m_functionQueue)
    BY <1>1, <1>6, <1>7, <1>8 DEF Busy, Top
  <2>2. Len(m_functionQueue) <= sources
    <3>1. Len(m_functionQueue) <= sources \/ Top.left > 0
      BY DEF IInv, SourcePerFunction
    <3> QED
      BY <1>1, <1>2, <3>1
  <2>3. Len(m_functionQueue) <= sources' \/ (Len(m_functionQueue) > 0 /\ Len(m_functionQueue) <= sources' + 1)
    BY <1>1, <1>2, <1>3, <2>2
  <2> QED
    BY <1>1, <2>1, <2>3 DEF SourcePerFunction
<1> QED
  BY <1>8, <1>9, <1>10, <1>11, <1>12 DEF IInv

\* A function is taken; if it opens a window, the functions behind it have sources
\* for the other chains.
LEMMA performFunctionIInv ==
    ASSUME IInv, performFunction
    PROVE  IInv'
<1> DEFINE top == [chain |-> Top.chain, ready |-> Top.ready, left |-> Top.left - 1]
<1>1. /\ Busy /\ Top.left # 0 /\ m_functionQueue # << >>
      /\ m_functionQueue' = Tail(m_functionQueue)
      /\ armed' = armed /\ sources' = sources
  BY DEF performFunction, takeFirst, WorkDone
<1>2. /\ sources \in Nat
      /\ m_functionQueue \in Seq(Function) /\ Len(m_functionQueue) \in Nat
      /\ frames \in Seq(Frame) /\ Len(frames) \in Nat
      /\ Waiting \in Nat /\ Waiting <= Len(frames)
  BY LoopAssumption, InnermostLoop DEF IInv, TypeOK
<1>3. /\ Len(frames) \in 1 .. Len(frames) /\ Len(frames) = Waiting + 1
      /\ Top \in Frame /\ Top.left \in Nat /\ Top.chain \in Chains \cup {Printing}
      /\ Top.ready \in Nat /\ Top.ready <= sources
  BY <1>1, TopFrame
<1>4. top \in Frame
  BY <1>1, <1>3 DEF Frame
<1>5. frames' = [frames EXCEPT ![Len(frames)] = top]
  <2>1. frames' = [frames EXCEPT ![Len(frames)] = [Top EXCEPT !.left = Top.left - 1]]
    BY <1>3 DEF performFunction, takeFirst, Top
  <2>2. [Top EXCEPT !.left = Top.left - 1] = top
    BY <1>3 DEF Frame
  <2> QED
    BY <2>1, <2>2
<1>6. top.ready = Top.ready /\ top.left = Top.left - 1 /\ top.chain = Top.chain
  OBVIOUS
<1> HIDE DEF top
<1>7. /\ frames' \in Seq(Frame)
      /\ Len(frames') = Len(frames)
      /\ frames'[Len(frames)] = top
      /\ \A k \in 1 .. Len(frames) : k = Len(frames) \/ frames'[k] = frames[k]
  BY <1>2, <1>3, <1>4, <1>5, TopReplaced
<1>8. /\ Len(m_functionQueue') = Len(m_functionQueue) - 1
      /\ m_functionQueue' \in Seq(Function)
      /\ Head(m_functionQueue) \in Function
  BY <1>1, <1>2, HeadTailProperties
<1>9. loops' \in Seq(Loop) /\ Waiting' <= Len(frames) /\ LoopsOK' /\ shown' \subseteq Window
  <2>1. shown \subseteq Window /\ loops \in Seq(Loop)
    BY DEF IInv, TypeOK
  <2>2. CASE UNCHANGED <<loops, shown>>
    <3>1. LoopsOK' /\ Waiting' = Waiting
      BY <1>7, <2>2, SameLoops
    <3> QED
      BY <1>2, <2>1, <2>2, <3>1
  <2>3. ASSUME NEW w \in {"question", "chooser"}, runWindow(Head(m_functionQueue), w),
               w = "question" => Questions = {}
        PROVE  loops' \in Seq(Loop) /\ Waiting' <= Len(frames) /\ LoopsOK' /\ shown' \subseteq Window
    <3> DEFINE r == [what |-> Head(m_functionQueue), window |-> w, at |-> Len(frames)]
    <3>1. r \in Loop /\ r.at = Len(frames) /\ r.window = w
      BY <1>2, <1>8 DEF Loop, Window
    <3>2. loops' = Append(loops, r) /\ shown' = shown \cup {w}
      BY <2>3 DEF runWindow
    <3> HIDE DEF r
    <3>3. loops' \in Seq(Loop) /\ Waiting' = Len(frames) /\ LoopsOK'
      BY <1>7, <2>3, <3>1, <3>2, LoopPushed
    <3> QED
      BY <1>2, <2>1, <3>2, <3>3 DEF Window
  <2>4. \/ UNCHANGED <<loops, shown>>
        \/ Questions = {} /\ runWindow(Head(m_functionQueue), "question")
        \/ runWindow(Head(m_functionQueue), "chooser")
    BY DEF performFunction, fl_choice, fl_file_chooser
  <2> QED
    BY <2>2, <2>3, <2>4
<1>10. TypeOK'
  <2>1. Len(m_functionQueue') <= MaxQueue
    BY <1>2, <1>8, LoopAssumption DEF IInv, TypeOK
  <2> QED
    BY <1>1, <1>7, <1>8, <1>9, <2>1 DEF IInv, TypeOK
<1>11. FramesOK'
  <2>1. \A k \in 1 .. Len(frames) : frames'[k].chain = frames[k].chain
    BY <1>6, <1>7 DEF Top
  <2> QED
    BY <1>1, <1>7, <2>1, SameChains
<1>12. SourcesReady'
  <2> SUFFICES ASSUME NEW k \in 1 .. Len(frames)
               PROVE  frames'[k].ready <= sources' /\ (k < Len(frames) => frames'[k].ready = 0)
    BY <1>7 DEF SourcesReady
  <2>1. frames'[k].ready = frames[k].ready
    BY <1>6, <1>7 DEF Top
  <2>2. frames[k].ready <= sources /\ (k < Len(frames) => frames[k].ready = 0)
    BY DEF IInv, SourcesReady
  <2> QED
    BY <1>1, <2>1, <2>2
<1>13. SourcePerFunction'
  <2>1. Len(m_functionQueue) <= sources \/ Len(m_functionQueue) <= sources + 1
    BY DEF IInv, SourcePerFunction
  <2>2. Len(m_functionQueue') <= sources'
    BY <1>1, <1>2, <1>8, <2>1
  <2> QED
    BY <2>2 DEF SourcePerFunction
<1> QED
  BY <1>9, <1>10, <1>11, <1>12, <1>13 DEF IInv

\* Timer_CB returns with its chain armed again; whatever is still queued has a
\* source, and the call below is one that waits for the user.
LEMMA repeat_timeoutIInv ==
    ASSUME IInv, repeat_timeout
    PROVE  IInv'
<1>1. /\ Busy
      /\ Top.left = 0 \/ m_functionQueue = << >>
      /\ armed' = armed \cup ({Top.chain} \cap Chains)
      /\ frames' = SubSeq(frames, 1, Len(frames) - 1)
      /\ sources' = sources /\ m_functionQueue' = m_functionQueue
      /\ loops' = loops /\ shown' = shown
  BY DEF repeat_timeout, WorkDone
<1>2. /\ sources \in Nat
      /\ m_functionQueue \in Seq(Function) /\ Len(m_functionQueue) \in Nat
      /\ frames \in Seq(Frame) /\ Len(frames) \in Nat /\ Waiting \in Nat
  BY LoopAssumption, InnermostLoop DEF IInv, TypeOK
<1>3. /\ Len(frames) \in 1 .. Len(frames) /\ Len(frames) = Waiting + 1
      /\ Top.left \in Nat
  BY <1>1, TopFrame
<1>4. /\ frames' \in Seq(Frame)
      /\ Len(frames') = Len(frames) - 1
      /\ \A k \in 1 .. Len(frames) - 1 : frames'[k] = frames[k]
  BY <1>1, <1>2, <1>3, SubSeqProperties
<1>5. TypeOK'
  <2>1. Waiting' = Waiting /\ Waiting <= Len(frames')
    BY <1>1, <1>2, <1>3, <1>4 DEF Waiting
  <2>2. armed' \subseteq Chains
    BY <1>1 DEF IInv, TypeOK
  <2> QED
    BY <1>1, <1>4, <2>1, <2>2 DEF IInv, TypeOK
<1>6. FramesOK'
  <2>1. \A i, j \in 1 .. Len(frames) : frames[i].chain = frames[j].chain => i = j
    BY DEF IInv, FramesOK
  <2>2. \A i \in 1 .. Len(frames') :
          i \in 1 .. Len(frames) /\ i # Len(frames) /\ frames'[i] = frames[i]
    BY <1>2, <1>4
  <2>3. \A i \in 1 .. Len(frames) : i = Len(frames) \/ i \in 1 .. Len(frames')
    BY <1>2, <1>4
  <2>4. \A i, j \in 1 .. Len(frames') : frames'[i].chain = frames'[j].chain => i = j
    BY <2>1, <2>2
  <2>5. \A i \in 1 .. Len(frames') : frames'[i].chain # Top.chain
    BY <1>3, <2>1, <2>2 DEF Top
  <2>6. ASSUME NEW c \in Chains
        PROVE  c \in armed' <=> \A i \in 1 .. Len(frames') : frames'[i].chain # c
    <3>1. c \in armed <=> \A i \in 1 .. Len(frames) : frames[i].chain # c
      BY DEF IInv, FramesOK
    <3>2. c \in armed' <=> (c \in armed \/ c = Top.chain)
      BY <1>1
    <3>3. (\A i \in 1 .. Len(frames) : frames[i].chain # c)
            <=> (Top.chain # c /\ \A i \in 1 .. Len(frames') : frames'[i].chain # c)
      BY <1>3, <2>2, <2>3 DEF Top
    <3> QED
      BY <2>5, <3>1, <3>2, <3>3
  <2> QED
    BY <2>4, <2>6 DEF FramesOK
<1>7. LoopsOK'
  <2>1. ASSUME NEW i \in 1 .. Len(frames'), i < Len(frames')
        PROVE  \E k \in 1 .. Len(loops) : loops[k].at = i
    <3>1. i \in 1 .. Len(frames) /\ i < Len(frames)
      BY <1>2, <1>4, <2>1
    <3> QED
      BY <3>1 DEF IInv, LoopsOK
  <2>2. Questions' = Questions
    BY <1>1 DEF Questions
  <2> QED
    BY <1>1, <2>1, <2>2 DEF IInv, LoopsOK
<1>8. SourcesReady'
  <2> SUFFICES ASSUME NEW k \in 1 .. Len(frames')
               PROVE  frames'[k].ready <= sources' /\ (k < Len(frames') => frames'[k].ready = 0)
    BY DEF SourcesReady
  <2>1. k \in 1 .. Len(frames) /\ k < Len(frames) /\ frames'[k] = frames[k]
    BY <1>2, <1>4
  <2>2. frames[k].ready = 0
    BY <2>1 DEF IInv, SourcesReady
  <2> QED
    BY <1>1, <1>2, <2>1, <2>2
<1>9. SourcePerFunction'
  <2>1. Len(m_functionQueue) <= sources \/ Top.left > 0
    BY DEF IInv, SourcePerFunction
  <2>2. Len(m_functionQueue') <= sources'
    <3>1. CASE Top.left = 0
      BY <1>1, <1>3, <2>1, <3>1
    <3>2. CASE m_functionQueue = << >>
      BY <1>1, <1>2, <3>2
    <3> QED
      BY <1>1, <3>1, <3>2
  <2> QED
    BY <2>2 DEF SourcePerFunction
<1> QED
  BY <1>5, <1>6, <1>7, <1>8, <1>9 DEF IInv

\* The windows that the user opens and closes leave the stack and the queue alone.
LEMMA WindowIInv ==
    ASSUME IInv, NEW w \in Window, askUser(w) \/ answer(w)
    PROVE  IInv'
<1>1. /\ armed' = armed /\ frames' = frames /\ sources' = sources
      /\ m_functionQueue' = m_functionQueue /\ Len(frames) = Waiting
  BY DEF askUser, answer, FltkInControl
<1>2. /\ Len(frames) \in Nat /\ sources \in Nat /\ Len(m_functionQueue) \in Nat
      /\ shown \subseteq Window /\ loops \in Seq(Loop)
  BY LoopAssumption DEF IInv, TypeOK
<1>3. loops' \in Seq(Loop) /\ Waiting' <= Len(frames) /\ LoopsOK' /\ shown' \subseteq Window
  <2>1. CASE loops' = loops /\ shown' \subseteq shown
    <3>1. LoopsOK' /\ Waiting' = Waiting
      BY <1>1, <2>1, SameLoops
    <3> QED
      BY <1>1, <1>2, <2>1, <3>1
  <2>2. CASE runWindow(UserDialog, w) /\ (w = "question" => Questions = {})
    <3> DEFINE r == [what |-> UserDialog, window |-> w, at |-> Len(frames)]
    <3>1. r \in Loop /\ r.at = Len(frames) /\ r.window = w
      BY <1>2 DEF Loop
    <3>2. loops' = Append(loops, r) /\ shown' = shown \cup {w}
      BY <2>2 DEF runWindow
    <3> HIDE DEF r
    <3>3. loops' \in Seq(Loop) /\ Waiting' = Len(frames) /\ LoopsOK'
      BY <1>1, <2>2, <3>1, <3>2, LoopPushed
    <3> QED
      BY <1>2, <3>2, <3>3
  <2>3. CASE askUser(w)
    <3>1. \/ UNCHANGED <<loops, shown>>
          \/ runWindow(UserDialog, w) /\ (w = "question" => Questions = {})
      BY <2>3 DEF askUser, fl_choice
    <3> QED
      BY <2>1, <2>2, <3>1
  <2>4. CASE answer(w)
    BY <2>1, <2>4 DEF answer
  <2> QED
    BY <2>3, <2>4
<1>4. TypeOK'
  BY <1>1, <1>3 DEF IInv, TypeOK
<1>5. FramesOK' /\ SourcesReady'
  BY <1>1 DEF IInv, FramesOK, SourcesReady
<1>6. SourcePerFunction'
  <2>1. ~Busy
    BY <1>1, <1>2 DEF Busy
  <2> QED
    BY <1>1, <2>1 DEF IInv, SourcePerFunction
<1> QED
  BY <1>3, <1>4, <1>5, <1>6 DEF IInv

\* A window has been closed: the call that opened it goes on, or the loop of another
\* window, and every function that is queued has a source.
LEMMA endLoopIInv ==
    ASSUME IInv, endLoop
    PROVE  IInv'
<1>1. /\ armed' = armed /\ frames' = frames /\ sources' = sources
      /\ m_functionQueue' = m_functionQueue /\ shown' = shown
      /\ loops # << >> /\ Len(frames) = Waiting
      /\ loops' = SubSeq(loops, 1, Len(loops) - 1)
  BY DEF endLoop, LoopOver
<1>2. /\ Len(frames) \in Nat /\ sources \in Nat /\ Len(m_functionQueue) \in Nat
      /\ loops \in Seq(Loop) /\ Len(loops) \in Nat /\ Len(loops) \in 1 .. Len(loops)
  BY <1>1, LoopAssumption DEF IInv, TypeOK
<1>3. /\ loops' \in Seq(Loop)
      /\ Len(loops') = Len(loops) - 1
      /\ \A k \in 1 .. Len(loops) - 1 : loops'[k] = loops[k]
  BY <1>1, <1>2, WithoutLast
<1>4. \A k \in 1 .. Len(loops') : k \in 1 .. Len(loops) /\ loops'[k] = loops[k]
  BY <1>2, <1>3
<1>5. \A k \in 1 .. Len(loops) : loops[k].at \in Nat /\ loops[k].at <= Waiting
  BY InnermostLoop
<1>6. Waiting' <= Len(frames)
  <2>1. CASE loops' = << >>
    BY <1>2, <2>1 DEF Waiting
  <2>2. CASE loops' # << >>
    <3>1. Len(loops') \in 1 .. Len(loops')
      BY <1>3, <2>2
    <3>2. Waiting' = loops'[Len(loops')].at
      BY <2>2 DEF Waiting
    <3> QED
      BY <1>1, <1>4, <1>5, <3>1, <3>2
  <2> QED
    BY <2>1, <2>2
<1>7. LoopsOK'
  <2>1. ASSUME NEW i \in 1 .. Len(frames), i < Len(frames)
        PROVE  \E k \in 1 .. Len(loops') : loops'[k].at = i
    <3>1. PICK k \in 1 .. Len(loops) : loops[k].at = i
      BY <2>1 DEF IInv, LoopsOK
    <3>2. loops[Len(loops)].at = Len(frames)
      BY <1>1 DEF Waiting
    <3>3. k # Len(loops)
      BY <1>2, <2>1, <3>1, <3>2
    <3>4. k \in 1 .. Len(loops')
      BY <1>2, <1>3, <3>3
    <3> QED
      BY <1>4, <3>1, <3>4
  <2>2. \A j, k \in 1 .. Len(loops') : j <= k => loops'[j].at <= loops'[k].at
    BY <1>4 DEF IInv, LoopsOK
  <2>3. \A k \in Questions' : k \in Questions
    BY <1>4 DEF Questions
  <2>4. \A j, k \in Questions' : j = k
    BY <2>3 DEF IInv, LoopsOK
  <2> QED
    BY <1>1, <2>1, <2>2, <2>4 DEF LoopsOK
<1>8. TypeOK'
  BY <1>1, <1>3, <1>6 DEF IInv, TypeOK
<1>9. FramesOK' /\ SourcesReady'
  BY <1>1 DEF IInv, FramesOK, SourcesReady
<1>10. SourcePerFunction'
  <2>1. ~Busy
    BY <1>1, <1>2 DEF Busy
  <2> QED
    BY <1>1, <2>1 DEF IInv, SourcePerFunction
<1> QED
  BY <1>7, <1>8, <1>9, <1>10 DEF IInv

\* Every step of the thread, of the connections and of the user keeps the invariant.
LEMMA NextIInv ==
    ASSUME IInv, [Next]_vars
    PROVE  IInv'
<1>1. CASE Tick \/ cb_print
  BY <1>1, StartIInv
<1>2. ASSUME NEW f \in Function, dispatch(f) PROVE IInv'
  BY <1>2, dispatchIInv
<1>3. CASE performWork
  BY <1>3, performWorkIInv
<1>4. CASE performFunction
  BY <1>4, performFunctionIInv
<1>5. CASE repeat_timeout
  BY <1>5, repeat_timeoutIInv
<1>6. CASE endLoop
  BY <1>6, endLoopIInv
<1>7. ASSUME NEW w \in Window, askUser(w) \/ answer(w) PROVE IInv'
  BY <1>7, WindowIInv
<1>8. CASE UNCHANGED vars
  <2>1. Waiting' = Waiting /\ Questions' = Questions
    BY <1>8 DEF vars, Waiting, Questions
  <2>2. TypeOK' /\ FramesOK' /\ LoopsOK'
    BY <1>8, <2>1 DEF vars, IInv, TypeOK, FramesOK, LoopsOK
  <2>3. SourcesReady' /\ SourcePerFunction'
    BY <1>8, <2>1 DEF vars, IInv, SourcesReady, SourcePerFunction, Busy, Top
  <2> QED
    BY <2>2, <2>3 DEF IInv
<1> QED
  BY <1>1, <1>2, <1>3, <1>4, <1>5, <1>6, <1>7, <1>8 DEF Next, Thread, User

-----------------------------------------------------------------------------
\* The invariant holds in every state of NetRider's thread.
THEOREM LoopInvariance == Spec => []IInv
<1>1. Init => IInv
  BY InitIInv
<1>2. IInv /\ [Next]_vars => IInv'
  BY NextIInv
<1> QED
  BY <1>1, <1>2, PTL DEF Spec

\* The stack, the queue and the count of sources keep their types.
THEOREM LoopTypeCorrect == Spec => []TypeOK
<1>1. IInv => TypeOK
  BY DEF IInv
<1> QED
  BY <1>1, LoopInvariance, PTL

\* However many chains main starts, and whatever windows are open, none of them is
\* lost and none runs twice; every call but the innermost waits for the user.
THEOREM ChainsStayDistinct == Spec => []ChainsDistinct
<1>1. IInv => ChainsDistinct
  BY DEF IInv, FramesOK, LoopsOK, ChainsDistinct
<1> QED
  BY <1>1, LoopInvariance, PTL

\* No function that RunLoop::dispatch has queued is left without a source or a
\* running performWork that will take it, also when a question interrupts the
\* performWork that was to take it.
THEOREM WakeupNeverLost == Spec => []NoLostWakeup
<1>1. ASSUME IInv PROVE NoLostWakeup
  <2>1. sources \in Nat /\ Len(m_functionQueue) \in Nat
    BY <1>1, LoopAssumption DEF IInv, TypeOK
  <2>2. Busy => Top.left \in Nat
    BY <1>1, TopFrame
  <2>3. Len(m_functionQueue) <= sources
          \/ (Busy /\ Top.left > 0 /\ Len(m_functionQueue) <= sources + 1)
    BY <1>1 DEF IInv, SourcePerFunction
  <2>4. CASE Busy
    <3>1. Len(m_functionQueue) <= sources + Top.left
      BY <2>1, <2>2, <2>3, <2>4
    <3> QED
      BY <2>4, <3>1 DEF NoLostWakeup
  <2>5. CASE ~Busy
    <3>1. Len(m_functionQueue) <= sources + 0
      BY <2>1, <2>3, <2>5
    <3> QED
      BY <2>5, <3>1 DEF NoLostWakeup
  <2> QED
    BY <2>4, <2>5
<1> QED
  BY <1>1, LoopInvariance, PTL

-----------------------------------------------------------------------------
(* The safety part of ImplementsMessageLoop.                               *)

\* The question that is open is that of its loop.
LEMMA QuestionOf ==
    ASSUME IInv
    PROVE  /\ Questions = {} => Question = NoDialog
           /\ \A k \in Questions : Question = loops[k].what /\ Question # NoDialog
<1>1. ASSUME NEW k \in Questions PROVE Question = loops[k].what /\ Question # NoDialog
  <2>1. \A j \in Questions : j = k
    BY DEF IInv, LoopsOK
  <2>2. (CHOOSE j \in Questions : TRUE) = k
    BY <2>1
  <2>3. Question = loops[k].what
    BY <2>2 DEF Question
  <2>4. loops[k] \in Loop
    BY DEF Questions, IInv, TypeOK
  <2>5. loops[k].what \in Function \cup {UserDialog}
    BY <2>4 DEF Loop
  <2> QED
    BY <2>3, <2>5, LoopAssumption
<1> QED
  BY <1>1 DEF Question

\* A step that leaves the loops alone leaves the question alone.
LEMMA QuestionSame ==
    ASSUME loops' = loops
    PROVE  Question' = Question
<1>1. Questions' = Questions
  BY DEF Questions
<1> QED
  BY <1>1 DEF Question

\* So does one that adds or ends a loop of another window.
LEMMA QuestionOther ==
    ASSUME IInv, IInv', Questions' = Questions, \A k \in Questions : loops'[k] = loops[k]
    PROVE  Question' = Question
<1>1. CASE Questions = {}
  BY <1>1, QuestionOf DEF Question
<1>2. CASE Questions # {}
  <2>1. PICK k : k \in Questions
    BY <1>2
  <2>2. Question = loops[k].what
    BY <2>1, QuestionOf
  <2>3. \A j \in Questions : j = k
    BY <2>1 DEF IInv, LoopsOK
  <2>4. (CHOOSE j \in Questions : TRUE) = k
    BY <2>1, <2>3
  <2>5. Question' = loops'[k].what
    BY <1>2, <2>4 DEF Question
  <2> QED
    BY <2>1, <2>2, <2>5
<1> QED
  BY <1>1, <1>2

\* A window is opened.
LEMMA QuestionOpened ==
    ASSUME IInv, IInv', NEW what, NEW w \in Window, runWindow(what, w)
    PROVE  /\ w # "question" => Question' = Question
           /\ (w = "question" /\ Questions = {}) => Queue!show(what)
<1>1. loops \in Seq(Loop) /\ loops' \in Seq(Loop) /\ Len(loops) \in Nat
  BY DEF IInv, TypeOK
<1>2. PICK r : r = [what |-> what, window |-> w, at |-> Len(frames)]
  OBVIOUS
<1>3. loops' = Append(loops, r) /\ r.what = what /\ r.window = w
  BY <1>2 DEF runWindow
<1>4. /\ Len(loops') = Len(loops) + 1
      /\ \A k \in 1 .. Len(loops) : loops'[k] = loops[k]
      /\ loops'[Len(loops) + 1] = r
  BY <1>1, <1>3
<1>5. \A k : k \in 1 .. Len(loops') <=> (k \in 1 .. Len(loops) \/ k = Len(loops) + 1)
  BY <1>1, <1>4
<1>6. CASE w # "question"
  <2>1. Questions' = Questions
    BY <1>3, <1>4, <1>5, <1>6 DEF Questions
  <2>2. \A k \in Questions : loops'[k] = loops[k]
    BY <1>4 DEF Questions
  <2> QED
    BY <1>6, <2>1, <2>2, QuestionOther
<1>7. CASE w = "question" /\ Questions = {}
  <2>1. Questions' = {Len(loops) + 1}
    BY <1>3, <1>4, <1>5, <1>7 DEF Questions
  <2>2. Question = NoDialog
    BY <1>7 DEF Question
  <2>3. (CHOOSE j \in {Len(loops) + 1} : TRUE) = Len(loops) + 1
    OBVIOUS
  <2>4. Question' = loops'[Len(loops) + 1].what
    BY <2>1, <2>3 DEF Question
  <2> QED
    BY <1>3, <1>4, <1>7, <2>2, <2>4 DEF Queue!show
<1> QED
  BY <1>6, <1>7

\* fl_choice shows the question or returns at once, as MessageLoop says.
LEMMA fl_choiceShows ==
    ASSUME IInv, IInv', NEW what, fl_choice(what)
    PROVE  Queue!show(what) \/ Queue!showNothing
<1>1. CASE Questions = {}
  <2>1. runWindow(what, "question") /\ "question" \in Window
    BY <1>1 DEF fl_choice, Window
  <2> QED
    BY <1>1, <2>1, QuestionOpened
<1>2. CASE Questions # {}
  <2>1. Question # NoDialog
    BY <1>2, QuestionOf
  <2>2. loops' = loops
    BY <1>2 DEF fl_choice
  <2>3. Question' = Question
    BY <2>2, QuestionSame
  <2> QED
    BY <2>1, <2>3 DEF Queue!showNothing
<1> QED
  BY <1>1, <1>2

\* With the loop of its window the question ends.
LEMMA endLoopHides ==
    ASSUME IInv, IInv', endLoop
    PROVE  Question' = Question \/ Queue!hide
<1>1. /\ loops # << >> /\ loops' = SubSeq(loops, 1, Len(loops) - 1)
      /\ loops \in Seq(Loop) /\ Len(loops) \in Nat
  BY DEF endLoop, LoopOver, IInv, TypeOK
<1>2. /\ Len(loops) \in 1 .. Len(loops)
      /\ Len(loops') = Len(loops) - 1
      /\ \A k \in 1 .. Len(loops) - 1 : loops'[k] = loops[k]
  BY <1>1, WithoutLast
<1>3. \A k : k \in 1 .. Len(loops') <=> (k \in 1 .. Len(loops) /\ k # Len(loops))
  BY <1>1, <1>2
<1>4. \A k \in 1 .. Len(loops') : loops'[k] = loops[k]
  BY <1>1, <1>2
<1>5. CASE loops[Len(loops)].window # "question"
  <2>1. Questions' = Questions
    BY <1>3, <1>4, <1>5 DEF Questions
  <2>2. \A k \in Questions : loops'[k] = loops[k]
    BY <1>4, <2>1 DEF Questions
  <2> QED
    BY <2>1, <2>2, QuestionOther
<1>6. CASE loops[Len(loops)].window = "question"
  <2>1. Len(loops) \in Questions
    BY <1>2, <1>6 DEF Questions
  <2>2. \A j \in Questions : j = Len(loops)
    BY <2>1 DEF IInv, LoopsOK
  <2>3. Questions' \subseteq Questions
    BY <1>3, <1>4 DEF Questions
  <2>4. Len(loops) \notin Questions'
    BY <1>3 DEF Questions
  <2>5. Questions' = {}
    BY <2>2, <2>3, <2>4
  <2>6. Question # NoDialog
    BY <2>1, QuestionOf
  <2>7. Question' = NoDialog
    BY <2>5 DEF Question
  <2> QED
    BY <2>6, <2>7 DEF Queue!hide
<1> QED
  BY <1>5, <1>6

\* A step of the thread is a step of the abstract loop or does not concern it:
\* only performFunction takes a function, and only the first one.
LEMMA StepImplemented ==
    ASSUME IInv, IInv', [Next]_vars
    PROVE  [Queue!QueueNext]_(Queue!queueVars)
<1>1. ASSUME loops' = loops, m_functionQueue' = m_functionQueue PROVE [Queue!QueueNext]_(Queue!queueVars)
  <2>1. Question' = Question
    BY <1>1, QuestionSame
  <2> QED
    BY <1>1, <2>1 DEF Queue!queueVars
<1>2. CASE Tick \/ cb_print \/ performWork \/ repeat_timeout \/ UNCHANGED vars
  <2>1. loops' = loops /\ m_functionQueue' = m_functionQueue
    BY <1>2 DEF Tick, Timer_CB, cb_print, iterate, performWork, repeat_timeout, vars
  <2> QED
    BY <1>1, <2>1
<1>3. ASSUME NEW f \in Function, dispatch(f) PROVE [Queue!QueueNext]_(Queue!queueVars)
  <2>1. Question' = Question
    BY <1>3, QuestionSame DEF dispatch
  <2>2. Queue!Arrive(f)
    BY <1>3, <2>1 DEF dispatch, Queue!Arrive, Queue!Room, Queue!enqueue
  <2> QED
    BY <2>2 DEF Queue!QueueNext
<1>4. CASE performFunction
  <2> DEFINE f == Head(m_functionQueue)
  <2>1. Queue!dequeue
    BY <1>4 DEF performFunction, takeFirst, WorkDone, Queue!dequeue
  <2>2. CASE f \in Asking /\ fl_choice(f)
    <3>1. Queue!show(f) \/ Queue!showNothing
      BY <2>2, fl_choiceShows
    <3>2. Queue!Perform
      BY <2>1, <2>2, <3>1 DEF Queue!Perform
    <3> QED
      BY <3>2 DEF Queue!QueueNext
  <2>3. CASE f \notin Asking /\ Question' = Question
    <3>1. Queue!Perform
      BY <2>1, <2>3 DEF Queue!Perform
    <3> QED
      BY <3>1 DEF Queue!QueueNext
  <2>4. CASE f \in Choosing /\ fl_file_chooser(f)
    <3>1. f \notin Asking
      BY <2>4, LoopAssumption
    <3>2. runWindow(f, "chooser") /\ "chooser" \in Window
      BY <2>4 DEF fl_file_chooser, Window
    <3>3. Question' = Question
      BY <3>2, QuestionOpened
    <3> QED
      BY <2>3, <3>1, <3>3
  <2>5. CASE f \notin Asking \cup Choosing /\ UNCHANGED <<loops, shown>>
    <3>1. Question' = Question
      BY <2>5, QuestionSame
    <3> QED
      BY <2>3, <2>5, <3>1
  <2> QED
    BY <1>4, <2>2, <2>4, <2>5 DEF performFunction
<1>5. ASSUME NEW w \in Window, askUser(w) PROVE [Queue!QueueNext]_(Queue!queueVars)
  <2>1. m_functionQueue' = m_functionQueue
    BY <1>5 DEF askUser
  <2>2. CASE w = "question"
    <3>1. Queue!show(UserDialog) \/ Queue!showNothing
      BY <1>5, <2>2, fl_choiceShows DEF askUser
    <3>2. Queue!AskUser \/ UNCHANGED Queue!queueVars
      BY <2>1, <3>1 DEF Queue!AskUser, Queue!showNothing, Queue!queueVars
    <3> QED
      BY <3>2 DEF Queue!QueueNext
  <2>3. CASE w # "question"
    <3>1. Question' = Question
      BY <1>5, <2>3, QuestionOpened DEF askUser
    <3> QED
      BY <2>1, <3>1 DEF Queue!queueVars
  <2> QED
    BY <2>2, <2>3
<1>6. ASSUME NEW w \in Window, answer(w) PROVE [Queue!QueueNext]_(Queue!queueVars)
  BY <1>1, <1>6 DEF answer
<1>7. CASE endLoop
  <2>1. m_functionQueue' = m_functionQueue
    BY <1>7 DEF endLoop
  <2>2. Question' = Question \/ Queue!hide
    BY <1>7, endLoopHides
  <2>3. Queue!Answer \/ UNCHANGED Queue!queueVars
    BY <2>1, <2>2 DEF Queue!Answer, Queue!queueVars
  <2> QED
    BY <2>3 DEF Queue!QueueNext
<1>8. CASE Thread
  BY <1>2, <1>4, <1>7, <1>8 DEF Thread
<1>9. CASE User
  <2>1. CASE cb_print
    BY <1>2, <2>1
  <2>2. CASE \E w \in Window : askUser(w) \/ answer(w)
    <3>1. PICK w \in Window : askUser(w) \/ answer(w)
      BY <2>2
    <3> QED
      BY <1>5, <1>6, <3>1
  <2> QED
    BY <1>9, <2>1, <2>2 DEF User
<1>10. CASE Next
  <2>1. CASE \E f \in Function : dispatch(f)
    <3>1. PICK f \in Function : dispatch(f)
      BY <2>1
    <3> QED
      BY <1>3, <3>1
  <2> QED
    BY <1>2, <1>8, <1>9, <1>10, <2>1 DEF Next
<1> QED
  BY <1>2, <1>10

\* The safety part of the refinement: functions are performed in the order in which
\* they were dispatched, each once, and one question is open at a time, whatever file
\* choosers and menus are open, too.  That each one is performed in the end, unless
\* all chains are left waiting, is checked by TLC.
THEOREM LoopKeepsOrder ==
    Spec => Queue!QueueInit /\ [][Queue!QueueNext]_(Queue!queueVars)
<1>1. Init => Queue!QueueInit
  BY DEF Init, Queue!QueueInit, Question, Questions
<1>2. IInv /\ IInv' /\ [Next]_vars => [Queue!QueueNext]_(Queue!queueVars)
  BY StepImplemented
<1> QED
  BY <1>1, <1>2, LoopInvariance, PTL DEF Spec
====
