---- MODULE StoreProofs ----
(***************************************************************************)
(* Proofs about Store, for every size of the two arrays, every set of      *)
(* texts and any number of bookmark windows.                               *)
(***************************************************************************)
EXTENDS Store, SequenceTheorems, FiniteSetTheorems, NaturalsInduction,
        WellFoundedInduction, TLAPS

\* A function with domain S, whatever its values are.
FunctionOn(f, S) == f = [x \in S |-> f[x]]

-----------------------------------------------------------------------------
(* The history while the program runs.                                     *)

\* What NoAdjacentTwins depends on: a selected line is not below 0, so that a
\* handler without a selection writes to the oldest entry and not further down.
HistoryInv ==
    /\ FunctionOn(mem, Cells)
    /\ sel \in [Windows -> 0 .. MAXBOOKMARKS]
    /\ NoAdjacentTwins

\* The part of the memory whose entries are compared.
LEMMA HistoryCells ==
    /\ MAXHISTORY \in Nat /\ MAXBOOKMARKS \in Nat /\ MAXHISTORY >= 2 /\ MAXBOOKMARKS >= 2
    /\ \A i \in 0 .. MAXHISTORY - 1 : i \in Cells
    /\ \A i \in 0 .. MAXHISTORY - 3 : i \in 0 .. MAXHISTORY - 2 /\ i + 1 \in 0 .. MAXHISTORY - 2
    /\ \A i \in 0 .. MAXHISTORY - 2 : i \in 0 .. MAXHISTORY - 1 /\ i \in Cells
  BY SizesAssumption DEF Cells

\* A step that leaves all entries but the oldest alone keeps the history.
LEMMA HistoryFrame ==
    ASSUME HistoryInv, \A i \in 0 .. MAXHISTORY - 2 : mem'[i] = mem[i]
    PROVE  NoAdjacentTwins'
<1>1. /\ \A i \in 0 .. MAXHISTORY - 1 : URL[i] = mem[i]
      /\ \A i \in 0 .. MAXHISTORY - 1 : URL'[i] = mem'[i]
  BY DEF URL
<1>2. \A i \in 0 .. MAXHISTORY - 2 : URL'[i] = URL[i]
  BY <1>1, HistoryCells
<1>3. \A i \in 0 .. MAXHISTORY - 3 : URL'[i] = URL[i] /\ URL'[i + 1] = URL[i + 1]
  BY <1>2, HistoryCells
<1> QED
  BY <1>3 DEF HistoryInv, NoAdjacentTwins

\* A title that differs from the newest one is put before it.
LEMMA ReceiveTitleHistory ==
    ASSUME HistoryInv, NEW visit \in Visits, ReceiveTitle(visit)
    PROVE  HistoryInv'
<1>1. sel' = sel
  BY DEF ReceiveTitle, windowVars
<1>2. CASE mem' = mem
  BY <1>1, <1>2, HistoryFrame DEF HistoryInv, FunctionOn
<1>3. CASE mem[0].name # visit.name /\ mem' = PushDown(mem, 0, MAXHISTORY, visit)
  <2>1. \A c \in 0 .. MAXHISTORY - 1 : mem'[c] = IF c = 0 THEN visit ELSE mem[c - 1]
    <3>1. \A c \in 0 .. MAXHISTORY - 1 : c \in Cells /\ c \in 0 .. 0 + MAXHISTORY - 1
      BY HistoryCells
    <3> QED
      BY <1>3, <3>1 DEF PushDown
  <2>2. FunctionOn(mem, Cells)'
    BY <1>3 DEF PushDown, FunctionOn, Cells
  <2>3. \A i \in 0 .. MAXHISTORY - 1 : URL[i] = mem[i] /\ URL'[i] = mem'[i]
    BY DEF URL
  <2>4. ASSUME NEW i \in 0 .. MAXHISTORY - 3, URL'[i].name = URL'[i + 1].name
        PROVE  URL'[i] = Empty /\ URL'[i + 1] = Empty
    <3>1. i \in 0 .. MAXHISTORY - 1 /\ i + 1 \in 0 .. MAXHISTORY - 1 /\ i + 1 # 0 /\ (i + 1) - 1 = i
      BY HistoryCells
    <3>2. URL'[i + 1] = URL[i]
      BY <2>1, <2>3, <3>1
    <3>3. CASE i = 0
      <4>1. URL'[i] = visit /\ URL[i] = mem[0]
        BY <2>1, <2>3, <3>1, <3>3
      <4> QED
        BY <1>3, <2>4, <3>2, <4>1
    <3>4. CASE i # 0
      <4>1. /\ i - 1 \in 0 .. MAXHISTORY - 3 /\ (i - 1) + 1 = i
            /\ i - 1 \in 0 .. MAXHISTORY - 1
        BY <3>4, HistoryCells
      <4>2. URL'[i] = URL[i - 1]
        BY <2>1, <2>3, <3>1, <3>4, <4>1
      <4>3. URL[i - 1].name = URL[(i - 1) + 1].name => URL[i - 1] = Empty /\ URL[(i - 1) + 1] = Empty
        BY <4>1 DEF HistoryInv, NoAdjacentTwins
      <4> QED
        BY <2>4, <3>2, <4>1, <4>2, <4>3
    <3> QED
      BY <3>3, <3>4
  <2> QED
    BY <1>1, <2>2, <2>4 DEF HistoryInv, NoAdjacentTwins
<1> QED
  BY <1>2, <1>3 DEF ReceiveTitle

\* The handlers of a bookmark window reach no entry of the history but the oldest.
LEMMA BookmarkHistory ==
    ASSUME HistoryInv, NEW w \in Windows,
           (\E e \in Pages : SaveEdit(w, e)) \/ DeleteBookmark(w) \/ SortBookmarks(w)
    PROVE  HistoryInv'
<1>0. sel[w] \in 0 .. MAXBOOKMARKS /\ FunctionOn(mem, Cells)
  BY DEF HistoryInv
<1>1. ASSUME NEW e \in Pages, SaveEdit(w, e) PROVE HistoryInv'
  <2>1. mem' = [mem EXCEPT ![Book(sel[w] - 1)] = e] /\ sel' = sel
    BY <1>1 DEF SaveEdit
  <2>2. FunctionOn(mem, Cells)'
    BY <1>0, <2>1 DEF FunctionOn
  <2>3. \A i \in 0 .. MAXHISTORY - 2 : mem'[i] = mem[i]
    <3>1. \A i \in 0 .. MAXHISTORY - 2 : i \in Cells /\ i # Book(sel[w] - 1)
      BY <1>0, HistoryCells DEF Book
    <3> QED
      BY <1>0, <2>1, <3>1 DEF FunctionOn
  <2> QED
    BY <2>1, <2>2, <2>3, HistoryFrame DEF HistoryInv
<1>2. CASE DeleteBookmark(w)
  <2>1. mem' = PushUp(mem, sel[w] - 1) /\ sel' = [sel EXCEPT ![w] = 0]
    BY <1>2 DEF DeleteBookmark
  <2>2. FunctionOn(mem, Cells)'
    BY <2>1 DEF PushUp, FunctionOn
  <2>3. \A i \in 0 .. MAXHISTORY - 2 : mem'[i] = mem[i]
    <3>1. \A i \in 0 .. MAXHISTORY - 2 :
            /\ i \in Cells /\ i # Book(MAXBOOKMARKS)
            /\ i \notin Book(sel[w] - 1) .. Book(MAXBOOKMARKS - 2)
      BY <1>0, HistoryCells DEF Book
    <3> QED
      BY <2>1, <3>1 DEF PushUp
  <2>4. sel' \in [Windows -> 0 .. MAXBOOKMARKS]
    BY <2>1, HistoryCells DEF HistoryInv
  <2> QED
    BY <2>2, <2>3, <2>4, HistoryFrame DEF HistoryInv
<1>3. CASE SortBookmarks(w)
  <2>1. PICK s : mem' = WriteRows(mem, s) /\ sel' = sel
    BY <1>3 DEF SortBookmarks
  <2>2. FunctionOn(mem, Cells)'
    BY <2>1 DEF WriteRows, FunctionOn
  <2>3. \A i \in 0 .. MAXHISTORY - 2 : mem'[i] = mem[i]
    <3>1. \A i \in 0 .. MAXHISTORY - 2 : i \in Cells /\ i \notin Book(0) .. Book(MAXBOOKMARKS - 2)
      BY HistoryCells DEF Book
    <3> QED
      BY <2>1, <3>1 DEF WriteRows
  <2> QED
    BY <2>1, <2>2, <2>3, HistoryFrame DEF HistoryInv
<1> QED
  BY <1>1, <1>2, <1>3

\* Every step of the program keeps the history.
LEMMA NextHistory ==
    ASSUME HistoryInv, [Next]_vars
    PROVE  HistoryInv'
<1>1. ASSUME UNCHANGED mem, sel' \in [Windows -> 0 .. MAXBOOKMARKS] PROVE HistoryInv'
  BY <1>1, HistoryFrame DEF HistoryInv, FunctionOn
<1>2. ASSUME NEW visit \in Visits, ReceiveTitle(visit) PROVE HistoryInv'
  BY <1>2, ReceiveTitleHistory
<1>3. ASSUME NEW e \in Pages, AddBookmark(e) PROVE HistoryInv'
  <2>1. mem' = PushDown(mem, MAXHISTORY, MAXBOOKMARKS, e) /\ sel' = sel
    BY <1>3 DEF AddBookmark, windowVars
  <2>2. FunctionOn(mem, Cells)'
    BY <2>1 DEF PushDown, FunctionOn, Cells
  <2>3. \A i \in 0 .. MAXHISTORY - 2 : mem'[i] = mem[i]
    <3>1. \A i \in 0 .. MAXHISTORY - 2 : i \in Cells /\ i \notin MAXHISTORY .. MAXHISTORY + MAXBOOKMARKS - 1
      BY HistoryCells
    <3> QED
      BY <2>1, <3>1 DEF PushDown
  <2> QED
    BY <2>1, <2>2, <2>3, HistoryFrame DEF HistoryInv
<1>4. ASSUME NEW w \in Windows,
             (\E e \in Pages : SaveEdit(w, e)) \/ DeleteBookmark(w) \/ SortBookmarks(w)
      PROVE  HistoryInv'
  BY <1>4, BookmarkHistory
<1>5. ASSUME NEW w \in Windows,
             \/ OpenWindow(w) \/ CloseWindow(w) \/ OpenEdit(w) \/ CloseEdit(w)
             \/ \E k \in 0 .. MAXBOOKMARKS : SelectLine(w, k)
      PROVE  HistoryInv'
  <2>1. UNCHANGED mem
    BY <1>5 DEF OpenWindow, CloseWindow, OpenEdit, CloseEdit, SelectLine
  <2>2. 0 \in 0 .. MAXBOOKMARKS /\ sel \in [Windows -> 0 .. MAXBOOKMARKS]
    BY HistoryCells DEF HistoryInv
  <2>3. sel' \in [Windows -> 0 .. MAXBOOKMARKS]
    BY <1>5, <2>2 DEF OpenWindow, CloseWindow, OpenEdit, CloseEdit, SelectLine
  <2> QED
    BY <1>1, <2>1, <2>3
<1>6. CASE UNCHANGED vars
  BY <1>1, <1>6 DEF vars, HistoryInv
<1> QED
  BY <1>2, <1>3, <1>4, <1>5, <1>6 DEF Next

\* The history never shows one title twice in a row, except with its oldest entry,
\* whatever is done to the bookmarks with or without a selected line.
THEOREM TitlesDiffer == Spec => []NoAdjacentTwins
<1>1. Init => HistoryInv
  <2> SUFFICES ASSUME Init PROVE HistoryInv
    OBVIOUS
  <2>1. PICK junk : mem = [c \in Cells |-> IF c = Book(MAXBOOKMARKS) THEN junk ELSE Empty]
    BY DEF Init
  <2>2. \A i \in 0 .. MAXHISTORY - 1 : i \in Cells /\ i # Book(MAXBOOKMARKS)
    BY HistoryCells DEF Book
  <2>3. \A i \in 0 .. MAXHISTORY - 1 : URL[i] = Empty
    BY <2>1, <2>2 DEF URL
  <2>4. NoAdjacentTwins
    <3>1. \A i \in 0 .. MAXHISTORY - 3 : i \in 0 .. MAXHISTORY - 1 /\ i + 1 \in 0 .. MAXHISTORY - 1
      BY HistoryCells
    <3> QED
      BY <2>3, <3>1 DEF NoAdjacentTwins
  <2>5. FunctionOn(mem, Cells)
    BY <2>1 DEF FunctionOn
  <2>6. sel \in [Windows -> 0 .. MAXBOOKMARKS]
    BY HistoryCells DEF Init
  <2> QED
    BY <2>4, <2>5, <2>6 DEF HistoryInv
<1>2. HistoryInv /\ [Next]_vars => HistoryInv'
  BY NextHistory
<1>3. HistoryInv => NoAdjacentTwins
  BY DEF HistoryInv
<1> QED
  BY <1>1, <1>2, <1>3, PTL DEF Spec

-----------------------------------------------------------------------------
(* Loops.                                                                  *)

\* A set of numbers has a least one.
LEMMA LeastNumber ==
    ASSUME NEW T, T \subseteq Nat, T # {}
    PROVE  \E n \in T : \A k \in T : n <= k
<1>1. IsWellFoundedOn(OpToRel(<, Nat), Nat)
  BY NatLessThanWellFounded
<1>2. PICK n \in T : \A k \in T : ~(<<k, n>> \in OpToRel(<, Nat))
  BY <1>1, WFMin
<1>3. \A k \in T : ~(k < n)
  BY <1>2 DEF OpToRel
<1>4. \A k \in T : k \in Nat /\ n \in Nat
  OBVIOUS
<1> QED
  BY <1>3, <1>4

\* Induction along a loop; the statement is the set of the numbers it holds for.
LEMMA LoopInduction ==
    ASSUME NEW n \in Nat, NEW P, 0 \in P, \A k \in 1 .. n : k - 1 \in P => k \in P
    PROVE  \A k \in 0 .. n : k \in P
<1> DEFINE T == {k \in 0 .. n : k \notin P}
<1> SUFFICES ASSUME T # {} PROVE FALSE
  OBVIOUS
<1>1. T \subseteq Nat
  OBVIOUS
<1> HIDE DEF T
<1>2. PICK m \in T : \A k \in T : m <= k
  BY <1>1, LeastNumber
<1>3. m \in 0 .. n /\ m \notin P
  BY <1>2 DEF T
<1>4. m # 0 /\ m \in 1 .. n
  BY <1>3
<1>5. m - 1 \in 0 .. n /\ ~(m <= m - 1)
  BY <1>4
<1>6. m - 1 \notin T
  BY <1>2, <1>5
<1>7. m - 1 \in P
  BY <1>5, <1>6 DEF T
<1> QED
  BY <1>3, <1>4, <1>7

\* Round k of a loop maps x to step[k][x], and does not leave S.
Closed(S, n, step) == \A k \in 1 .. n : \A x \in S : step[k][x] \in S

\* f[k] is the value after round k of the loop that starts with a.
IsLoop(f, S, n, a, step) ==
    /\ f \in [0 .. n -> S]
    /\ f[0] = a
    /\ \A k \in 1 .. n : f[k] = step[k][f[k - 1]]

\* Every loop has its values.
LEMMA LoopExists ==
    ASSUME NEW S, NEW n \in Nat, NEW a \in S, NEW step, Closed(S, n, step)
    PROVE  \E f : IsLoop(f, S, n, a, step)
<1> USE DEF Closed
<1> DEFINE Good(f, m) == f[0] = a /\ \A k \in 1 .. m : f[k] = step[k][f[k - 1]]
           P == {m \in 0 .. n : \E f \in [0 .. m -> S] : Good(f, m)}
<1>1. 0 \in P
  <2> DEFINE z == [k \in 0 .. 0 |-> a]
  <2>1. z \in [0 .. 0 -> S] /\ Good(z, 0)
    OBVIOUS
  <2> HIDE DEF z, Good
  <2> QED
    BY <2>1
<1>2. ASSUME NEW m \in 1 .. n, m - 1 \in P PROVE m \in P
  <2>1. PICK f \in [0 .. (m - 1) -> S] : Good(f, m - 1)
    BY <1>2
  <2> DEFINE g == [k \in 0 .. m |-> IF k = m THEN step[m][f[m - 1]] ELSE f[k]]
  <2>2. m \in Nat /\ m # 0 /\ m - 1 \in 0 .. (m - 1) /\ m - 1 \in 0 .. m
    OBVIOUS
  <2>3. f[m - 1] \in S
    BY <2>1, <2>2
  <2>4. step[m][f[m - 1]] \in S
    BY <2>3
  <2>5. \A k \in 0 .. m : k # m => k \in 0 .. (m - 1)
    BY <2>2
  <2>6. g \in [0 .. m -> S]
    BY <2>1, <2>4, <2>5
  <2>7. g[0] = a
    BY <2>1, <2>2
  <2>8. ASSUME NEW k \in 1 .. m PROVE g[k] = step[k][g[k - 1]]
    <3>1. k \in 0 .. m /\ k - 1 \in 0 .. m /\ k - 1 # m
      BY <2>2
    <3>2. g[k - 1] = f[k - 1]
      BY <3>1
    <3>3. CASE k = m
      BY <3>1, <3>2, <3>3
    <3>4. CASE k # m
      <4>1. k \in 1 .. (m - 1)
        BY <2>2, <3>4
      <4>2. f[k] = step[k][f[k - 1]]
        BY <2>1, <4>1
      <4> QED
        BY <3>1, <3>2, <3>4, <4>2
    <3> QED
      BY <3>3, <3>4
  <2> HIDE DEF g
  <2>9. Good(g, m)
    BY <2>7, <2>8
  <2> QED
    BY <2>6, <2>9
<1>3. n \in 0 .. n
  OBVIOUS
<1> HIDE DEF P
<1>4. n \in P
  BY <1>1, <1>2, <1>3, LoopInduction
<1> QED
  BY <1>4 DEF P, IsLoop

-----------------------------------------------------------------------------
(* The sort of cb_sort_bookmark.                                           *)

\* n lines of a bookmark window.
Lines(n) == [1 .. n -> Entry]

\* How often a line occurs.
Occurs(s, e) == Cardinality({k \in DOMAIN s : s[k] = e})

\* strcmp orders the lines totally.
LEMMA AfterOrder ==
    /\ \A a, b \in Entry : After(a, b) => ~After(b, a)
    /\ \A a, b, c \in Entry : (~After(a, b) /\ ~After(b, c)) => ~After(a, c)
<1>1. \A a \in Entry : a.name \in Nat /\ a.uri \in Nat
  BY DEF Entry
<1> QED
  BY <1>1 DEF After

\* Sequences of n lines.
LEMMA LinesSeq ==
    ASSUME NEW n \in Nat, NEW s
    PROVE  s \in Lines(n) <=> (s \in Seq(Entry) /\ Len(s) = n)
  BY DEF Lines

\* Fl_Browser::swap keeps the lines and their number.
LEMMA SwapKeepsLines ==
    ASSUME NEW n \in Nat, NEW s \in Lines(n), NEW t \in 1 .. n, NEW r \in 1 .. n, t # r
    PROVE  LET u == CompareSwap(s, t, r)
           IN  /\ u \in Lines(n)
               /\ ~After(u[t], u[r])
               /\ \/ u = s
                  \/ After(s[t], s[r]) /\ u[t] = s[r] /\ u[r] = s[t]
               /\ \A k \in (1 .. n) \ {t, r} : u[k] = s[k]
               /\ \A e : Occurs(u, e) = Occurs(s, e)
<1> DEFINE u == CompareSwap(s, t, r)
<1>1. CASE ~After(s[t], s[r])
  BY <1>1 DEF CompareSwap
<1>2. CASE After(s[t], s[r])
  <2>1. u = [s EXCEPT ![t] = s[r], ![r] = s[t]]
    BY <1>2 DEF CompareSwap
  <2>2. s[t] \in Entry /\ s[r] \in Entry
    BY DEF Lines
  <2>3. /\ u \in Lines(n) /\ u[t] = s[r] /\ u[r] = s[t]
        /\ \A k \in (1 .. n) \ {t, r} : u[k] = s[k]
    BY <2>1, <2>2 DEF Lines
  <2>4. ~After(s[r], s[t])
    BY <1>2, <2>2, AfterOrder
  <2> HIDE DEF u
  <2>5. ASSUME NEW e PROVE Occurs(u, e) = Occurs(s, e)
    <3> DEFINE A == {k \in 1 .. n : s[k] = e}
               B == {k \in 1 .. n : u[k] = e}
               f == [k \in A |-> IF k = t THEN r ELSE IF k = r THEN t ELSE k]
    <3>1. Occurs(u, e) = Cardinality(B) /\ Occurs(s, e) = Cardinality(A)
      <4>1. DOMAIN u = 1 .. n /\ DOMAIN s = 1 .. n
        BY <2>3 DEF Lines
      <4> QED
        BY <4>1 DEF Occurs
    <3>2. f \in [A -> B]
      BY <2>3
    <3>3. \A j, k \in A : f[j] = f[k] => j = k
      OBVIOUS
    <3>4. \A b \in B : \E k \in A : f[k] = b
      <4> SUFFICES ASSUME NEW b \in B PROVE \E k \in A : f[k] = b
        OBVIOUS
      <4>1. CASE b = t
        <5>1. r \in A /\ f[r] = t
          BY <2>3, <4>1
        <5> QED
          BY <4>1, <5>1
      <4>2. CASE b = r
        <5>1. t \in A /\ f[t] = r
          BY <2>3, <4>2
        <5> QED
          BY <4>2, <5>1
      <4>3. CASE b # t /\ b # r
        <5>1. b \in A /\ f[b] = b
          BY <2>3, <4>3
        <5> QED
          BY <5>1
      <4> QED
        BY <4>1, <4>2, <4>3
    <3>5. f \in Injection(A, B) /\ f \in Surjection(A, B)
      BY <3>2, <3>3, <3>4 DEF Injection, IsInjective, Surjection
    <3>6. IsFiniteSet(B)
      <4>1. IsFiniteSet(1 .. n)
        BY FS_Interval
      <4>2. B \in SUBSET (1 .. n)
        OBVIOUS
      <4> HIDE DEF B
      <4> QED
        BY <4>1, <4>2, FS_Subset
    <3> HIDE DEF A, B, f
    <3>7. Cardinality(A) = Cardinality(B)
      BY <3>5, <3>6, FS_Injection
    <3> QED
      BY <3>1, <3>7
  <2> QED
    BY <1>2, <2>3, <2>4, <2>5 DEF u
<1> QED
  BY <1>1, <1>2

\* The inner loop has a value for every r.
LEMMA PassLoop ==
    ASSUME NEW n \in Nat, NEW s \in Lines(n), NEW t \in 1 .. n
    PROVE  \E f \in [0 .. n -> Lines(n)] :
              /\ \A r \in 0 .. n : f[r] = IF r <= t THEN s ELSE CompareSwap(f[r - 1], t, r)
              /\ Pass(s, t) = f[n]
<1> DEFINE upTo[r \in 0 .. Len(s)] == IF r <= t THEN s ELSE CompareSwap(upTo[r - 1], t, r)
           step == [k \in 1 .. n |->
                      [x \in Lines(n) |-> IF k <= t THEN s ELSE CompareSwap(x, t, k)]]
<1>1. Len(s) = n
  BY LinesSeq
<1>2. Pass(s, t) = upTo[n]
  BY <1>1 DEF Pass
<1>3. \A k \in 1 .. n : \A x \in Lines(n) : step[k][x] \in Lines(n)
  <2> SUFFICES ASSUME NEW k \in 1 .. n, NEW x \in Lines(n), ~(k <= t)
               PROVE  CompareSwap(x, t, k) \in Lines(n)
    OBVIOUS
  <2>1. t # k
    OBVIOUS
  <2> QED
    BY <2>1, SwapKeepsLines
<1>4. \A k \in 1 .. n : \A x \in Lines(n) :
         step[k][x] = IF k <= t THEN s ELSE CompareSwap(x, t, k)
  OBVIOUS
<1> HIDE DEF step
<1>5. PICK f \in [0 .. n -> Lines(n)] :
             f[0] = s /\ \A k \in 1 .. n : f[k] = step[k][f[k - 1]]
  <2>1. Closed(Lines(n), n, step)
    BY <1>3 DEF Closed
  <2>2. \E f : IsLoop(f, Lines(n), n, s, step)
    BY <2>1, LoopExists
  <2> QED
    BY <2>2 DEF IsLoop
<1>6. \A r \in 0 .. n : f[r] = IF r <= t THEN s ELSE CompareSwap(f[r - 1], t, r)
  <2> SUFFICES ASSUME NEW r \in 0 .. n
               PROVE  f[r] = IF r <= t THEN s ELSE CompareSwap(f[r - 1], t, r)
    OBVIOUS
  <2>1. CASE r = 0
    BY <1>5, <2>1
  <2>2. CASE r # 0
    <3>1. r \in 1 .. n /\ r - 1 \in 0 .. n
      BY <2>2
    <3>2. f[r] = step[r][f[r - 1]] /\ f[r - 1] \in Lines(n)
      BY <1>5, <3>1
    <3> QED
      BY <1>4, <3>1, <3>2
  <2> QED
    BY <2>1, <2>2
<1>7. f = [r \in 0 .. Len(s) |-> IF r <= t THEN s ELSE CompareSwap(f[r - 1], t, r)]
  BY <1>1, <1>5, <1>6
<1>8. upTo = [r \in 0 .. Len(s) |-> IF r <= t THEN s ELSE CompareSwap(upTo[r - 1], t, r)]
  BY <1>7
<1> HIDE DEF upTo
<1> DEFINE P == {r \in 0 .. n : upTo[r] = f[r]}
<1>9. 0 \in P
  BY <1>1, <1>5, <1>8
<1>10. ASSUME NEW r \in 1 .. n, r - 1 \in P PROVE r \in P
  <2>1. r \in 0 .. n /\ upTo[r - 1] = f[r - 1]
    BY <1>10
  <2>2. upTo[r] = IF r <= t THEN s ELSE CompareSwap(upTo[r - 1], t, r)
    BY <1>1, <1>8, <2>1
  <2>3. f[r] = IF r <= t THEN s ELSE CompareSwap(f[r - 1], t, r)
    BY <1>6, <2>1
  <2> QED
    BY <2>1, <2>2, <2>3
<1> HIDE DEF P
<1>11. n \in P
  <2>1. n \in 0 .. n
    OBVIOUS
  <2> QED
    BY <1>9, <1>10, <2>1, LoopInduction
<1>12. Pass(s, t) = f[n]
  BY <1>2, <1>11 DEF P
<1> QED
  BY <1>5, <1>6, <1>12

\* What the inner loop has done up to line r: line t is not after the lines that
\* were compared with it, and only lines from t on have moved.
Passed(n, s, t, r, u) ==
    /\ u \in Lines(n)
    /\ \A e : Occurs(u, e) = Occurs(s, e)
    /\ \A k \in 1 .. n : k < t => u[k] = s[k]
    /\ \A j \in t .. n : \E k \in t .. n : u[j] = s[k]
    /\ \A k \in 1 .. n : (t < k /\ k <= r) => ~After(u[t], u[k])

\* One round of the inner loop.
LEMMA PassStep ==
    ASSUME NEW n \in Nat, NEW s \in Lines(n), NEW t \in 1 .. n, NEW r \in 1 .. n, t < r,
           NEW u, Passed(n, s, t, r - 1, u)
    PROVE  Passed(n, s, t, r, CompareSwap(u, t, r))
<1> DEFINE v == CompareSwap(u, t, r)
<1>1. u \in Lines(n) /\ t # r
  BY DEF Passed
<1>2. /\ v \in Lines(n)
      /\ ~After(v[t], v[r])
      /\ \/ v = u
         \/ After(u[t], u[r]) /\ v[t] = u[r] /\ v[r] = u[t]
      /\ \A k \in (1 .. n) \ {t, r} : v[k] = u[k]
      /\ \A e : Occurs(v, e) = Occurs(u, e)
  BY <1>1, SwapKeepsLines
<1> HIDE DEF v
<1>3. \A e : Occurs(v, e) = Occurs(s, e)
  BY <1>2 DEF Passed
<1>4. ASSUME NEW k \in 1 .. n, k < t PROVE v[k] = s[k]
  <2>1. k \in (1 .. n) \ {t, r}
    BY <1>4
  <2> QED
    BY <1>2, <1>4, <2>1 DEF Passed
<1>5. ASSUME NEW j \in t .. n PROVE \E k \in t .. n : v[j] = s[k]
  <2>1. \E i \in t .. n : v[j] = u[i]
    <3>1. t \in t .. n /\ r \in t .. n /\ j \in 1 .. n
      OBVIOUS
    <3> QED
      BY <1>2, <3>1
  <2> QED
    BY <2>1 DEF Passed
<1>6. ASSUME NEW k \in 1 .. n, t < k, k <= r PROVE ~After(v[t], v[k])
  <2>1. CASE k = r
    BY <1>2, <2>1
  <2>2. CASE k # r
    <3>1. k <= r - 1 /\ k \in (1 .. n) \ {t, r}
      BY <1>6, <2>2
    <3>2. v[k] = u[k] /\ ~After(u[t], u[k])
      BY <1>2, <1>6, <3>1 DEF Passed
    <3>3. u[t] \in Entry /\ u[r] \in Entry /\ u[k] \in Entry
      BY <1>1 DEF Lines
    <3>4. CASE v = u
      BY <3>2, <3>4
    <3>5. CASE After(u[t], u[r]) /\ v[t] = u[r] /\ v[r] = u[t]
      <4>1. ~After(u[r], u[t])
        BY <3>3, <3>5, AfterOrder
      <4>2. ~After(u[r], u[k])
        BY <3>2, <3>3, <4>1, AfterOrder
      <4> QED
        BY <3>2, <3>5, <4>2
    <3> QED
      BY <1>2, <3>4, <3>5
  <2> QED
    BY <2>1, <2>2
<1>7. Passed(n, s, t, r, v)
  BY <1>2, <1>3, <1>4, <1>5, <1>6 DEF Passed
<1> QED
  BY <1>7 DEF v

\* The whole inner loop: line t is not after any line behind it.
LEMMA PassResult ==
    ASSUME NEW n \in Nat, NEW s \in Lines(n), NEW t \in 1 .. n
    PROVE  Passed(n, s, t, n, Pass(s, t))
<1>1. PICK f \in [0 .. n -> Lines(n)] :
             /\ \A r \in 0 .. n : f[r] = IF r <= t THEN s ELSE CompareSwap(f[r - 1], t, r)
             /\ Pass(s, t) = f[n]
  BY PassLoop
<1>2. ASSUME NEW r \in 0 .. n, r <= t PROVE Passed(n, s, t, r, s)
  <2>1. \A k \in 1 .. n : ~(t < k /\ k <= r)
    BY <1>2
  <2> QED
    BY <2>1 DEF Passed
<1> DEFINE P == {r \in 0 .. n : Passed(n, s, t, r, f[r])}
<1>3. 0 \in P
  <2>1. 0 \in 0 .. n /\ 0 <= t
    OBVIOUS
  <2>2. f[0] = s
    BY <1>1, <2>1
  <2> QED
    BY <1>2, <2>1, <2>2
<1>4. ASSUME NEW r \in 1 .. n, r - 1 \in P PROVE r \in P
  <2>1. r \in 0 .. n /\ Passed(n, s, t, r - 1, f[r - 1])
    BY <1>4
  <2>2. CASE r <= t
    <3>1. f[r] = s
      BY <1>1, <2>1, <2>2
    <3> QED
      BY <1>2, <2>1, <2>2, <3>1
  <2>3. CASE ~(r <= t)
    <3>1. f[r] = CompareSwap(f[r - 1], t, r) /\ t < r
      BY <1>1, <2>1, <2>3
    <3>2. Passed(n, s, t, r, f[r])
      BY <2>1, <3>1, PassStep
    <3> QED
      BY <2>1, <3>2
  <2> QED
    BY <2>2, <2>3
<1> HIDE DEF P
<1>5. n \in P
  <2>1. n \in 0 .. n
    OBVIOUS
  <2> QED
    BY <1>3, <1>4, <2>1, LoopInduction
<1> QED
  BY <1>1, <1>5 DEF P

\* The outer loop has a value for every t.
LEMMA SortLoop ==
    ASSUME NEW n \in Nat, NEW s \in Lines(n)
    PROVE  \E f \in [0 .. n -> Lines(n)] :
              /\ f[0] = s
              /\ \A t \in 1 .. n : f[t] = Pass(f[t - 1], t)
              /\ ExchangeSort(s) = f[n]
<1> DEFINE upTo[t \in 0 .. Len(s)] == IF t = 0 THEN s ELSE Pass(upTo[t - 1], t)
           step == [k \in 1 .. n |-> [x \in Lines(n) |-> Pass(x, k)]]
<1>1. Len(s) = n
  BY LinesSeq
<1>2. ExchangeSort(s) = upTo[n]
  BY <1>1 DEF ExchangeSort
<1>3. \A k \in 1 .. n : \A x \in Lines(n) : step[k][x] \in Lines(n)
  BY PassResult DEF Passed
<1>4. \A k \in 1 .. n : \A x \in Lines(n) : step[k][x] = Pass(x, k)
  OBVIOUS
<1> HIDE DEF step
<1>5. PICK f \in [0 .. n -> Lines(n)] :
             f[0] = s /\ \A k \in 1 .. n : f[k] = step[k][f[k - 1]]
  <2>1. Closed(Lines(n), n, step)
    BY <1>3 DEF Closed
  <2>2. \E f : IsLoop(f, Lines(n), n, s, step)
    BY <2>1, LoopExists
  <2> QED
    BY <2>2 DEF IsLoop
<1>6. ASSUME NEW t \in 1 .. n PROVE f[t] = Pass(f[t - 1], t)
  <2>1. t - 1 \in 0 .. n
    OBVIOUS
  <2>2. f[t - 1] \in Lines(n)
    BY <1>5, <2>1
  <2> QED
    BY <1>4, <1>5, <2>2
<1>7. f = [t \in 0 .. Len(s) |-> IF t = 0 THEN s ELSE Pass(f[t - 1], t)]
  <2>1. \A t \in 0 .. n : t # 0 => t \in 1 .. n
    OBVIOUS
  <2>2. \A t \in 0 .. n : f[t] = IF t = 0 THEN s ELSE Pass(f[t - 1], t)
    BY <1>5, <1>6, <2>1
  <2> QED
    BY <1>1, <1>5, <2>2
<1>8. upTo = [t \in 0 .. Len(s) |-> IF t = 0 THEN s ELSE Pass(upTo[t - 1], t)]
  BY <1>7
<1> HIDE DEF upTo
<1> DEFINE P == {t \in 0 .. n : upTo[t] = f[t]}
<1>9. 0 \in P
  BY <1>1, <1>5, <1>8
<1>10. ASSUME NEW t \in 1 .. n, t - 1 \in P PROVE t \in P
  <2>1. t \in 0 .. n /\ t # 0 /\ upTo[t - 1] = f[t - 1]
    BY <1>10
  <2>2. upTo[t] = Pass(upTo[t - 1], t)
    BY <1>1, <1>8, <2>1
  <2> QED
    BY <1>6, <2>1, <2>2
<1> HIDE DEF P
<1>11. n \in P
  <2>1. n \in 0 .. n
    OBVIOUS
  <2> QED
    BY <1>9, <1>10, <2>1, LoopInduction
<1>12. ExchangeSort(s) = f[n]
  BY <1>2, <1>11 DEF P
<1> QED
  BY <1>5, <1>6, <1>12

\* The two loops sort: the first t lines stay where they are and no line behind
\* them comes before one of them.
LEMMA SortResult ==
    ASSUME NEW n \in Nat, NEW s \in Lines(n)
    PROVE  /\ ExchangeSort(s) \in Lines(n)
           /\ \A e : Occurs(ExchangeSort(s), e) = Occurs(s, e)
           /\ \A i, j \in 1 .. n : i < j => ~After(ExchangeSort(s)[i], ExchangeSort(s)[j])
<1>1. PICK f \in [0 .. n -> Lines(n)] :
             /\ f[0] = s
             /\ \A t \in 1 .. n : f[t] = Pass(f[t - 1], t)
             /\ ExchangeSort(s) = f[n]
  BY SortLoop
<1> DEFINE Sorted(t) ==
             /\ \A e : Occurs(f[t], e) = Occurs(s, e)
             /\ \A i, j \in 1 .. n : (i <= t /\ i < j) => ~After(f[t][i], f[t][j])
           P == {t \in 0 .. n : Sorted(t)}
<1>2. 0 \in P
  <2>1. 0 \in 0 .. n /\ \A i \in 1 .. n : ~(i <= 0)
    OBVIOUS
  <2> QED
    BY <1>1, <2>1
<1>3. ASSUME NEW t \in 1 .. n, t - 1 \in P PROVE t \in P
  <2>1. t \in 0 .. n /\ t - 1 \in 0 .. n /\ Sorted(t - 1)
    BY <1>3
  <2>2. PICK u : u = f[t - 1]
    OBVIOUS
  <2>3. u \in Lines(n)
    BY <1>1, <2>1, <2>2
  <2>4. PICK v : v = f[t]
    OBVIOUS
  <2>5. v = Pass(u, t)
    BY <1>1, <2>2, <2>4
  <2>6. Passed(n, u, t, n, v)
    BY <2>3, <2>5, PassResult
  <2>7. \A e : Occurs(v, e) = Occurs(s, e)
    BY <2>1, <2>2, <2>6 DEF Passed
  <2>8. \A i, j \in 1 .. n : (i <= t - 1 /\ i < j) => ~After(u[i], u[j])
    BY <2>1, <2>2
  <2> HIDE DEF Sorted
  <2>9. ASSUME NEW i \in 1 .. n, NEW j \in 1 .. n, i <= t, i < j PROVE ~After(v[i], v[j])
    <3>1. CASE i = t
      <4>1. t < j /\ j <= n
        BY <2>9, <3>1
      <4> QED
        BY <2>6, <3>1, <4>1 DEF Passed
    <3>2. CASE i # t
      <4>1. i < t /\ i <= t - 1
        BY <2>9, <3>2
      <4>2. v[i] = u[i]
        BY <2>6, <4>1 DEF Passed
      <4>3. CASE j < t
        <5>1. v[j] = u[j]
          BY <2>6, <4>3 DEF Passed
        <5> QED
          BY <2>8, <2>9, <4>1, <4>2, <5>1
      <4>4. CASE ~(j < t)
        <5>1. j \in t .. n
          BY <4>4
        <5>2. PICK k \in t .. n : v[j] = u[k]
          BY <2>6, <5>1 DEF Passed
        <5>3. k \in 1 .. n /\ i < k
          BY <4>1
        <5> QED
          BY <2>8, <4>1, <4>2, <5>2, <5>3
      <4> QED
        BY <4>3, <4>4
    <3> QED
      BY <3>1, <3>2
  <2>10. Sorted(t)
    BY <2>4, <2>7, <2>9 DEF Sorted
  <2> QED
    BY <2>1, <2>10
<1> HIDE DEF P
<1>4. n \in P
  <2>1. n \in 0 .. n
    OBVIOUS
  <2> QED
    BY <1>2, <1>3, <2>1, LoopInduction
<1>5. Sorted(n) /\ f[n] \in Lines(n)
  BY <1>1, <1>4 DEF P
<1>6. \A i \in 1 .. n : i <= n
  OBVIOUS
<1> QED
  BY <1>1, <1>5, <1>6

-----------------------------------------------------------------------------
(* Type correctness.                                                       *)

\* The type invariant, with the domains of the functions.
StoreInv ==
    /\ mem \in [Cells -> Entry]
    /\ open \subseteq Windows
    /\ edit \in [Windows -> 0 .. MAXEDITS]
    /\ rows \in [Windows -> Seq(Entry)]
    /\ sel \in [Windows -> Nat]
    /\ \A w \in Windows : Len(rows[w]) <= MAXBOOKMARKS /\ sel[w] <= Len(rows[w])

\* Fl_Browser::remove.
LEMMA RemoveLine ==
    ASSUME NEW s \in Seq(Entry), NEW i \in 1 .. Len(s)
    PROVE  /\ RemoveAt(s, i) \in Seq(Entry)
           /\ Len(RemoveAt(s, i)) = Len(s) - 1
           /\ \A k \in 1 .. (Len(s) - 1) : RemoveAt(s, i)[k] = IF k < i THEN s[k] ELSE s[k + 1]
<1> DEFINE a == SubSeq(s, 1, i - 1)
           b == SubSeq(s, i + 1, Len(s))
<1>1. Len(s) \in Nat /\ RemoveAt(s, i) = a \o b
  BY LenProperties DEF RemoveAt
<1>2. a \in Seq(Entry) /\ Len(a) = i - 1 /\ \A k \in 1 .. (i - 1) : a[k] = s[k]
  OBVIOUS
<1>3. b \in Seq(Entry) /\ Len(b) = Len(s) - i /\ \A k \in 1 .. (Len(s) - i) : b[k] = s[i + k]
  OBVIOUS
<1> HIDE DEF a, b
<1>4. /\ a \o b \in Seq(Entry) /\ Len(a \o b) = Len(a) + Len(b)
      /\ \A k \in 1 .. (Len(a) + Len(b)) : (a \o b)[k] = IF k <= Len(a) THEN a[k] ELSE b[k - Len(a)]
  BY <1>2, <1>3, ConcatProperties
<1>5. Len(a) + Len(b) = Len(s) - 1
  BY <1>1, <1>2, <1>3
<1>6. ASSUME NEW k \in 1 .. (Len(s) - 1)
      PROVE  (a \o b)[k] = IF k < i THEN s[k] ELSE s[k + 1]
  <2>1. CASE k < i
    <3>1. k \in 1 .. (i - 1) /\ k <= Len(a)
      BY <1>2, <2>1
    <3> QED
      BY <1>2, <1>4, <1>5, <2>1, <3>1
  <2>2. CASE ~(k < i)
    <3>1. /\ ~(k <= Len(a)) /\ k - Len(a) \in 1 .. (Len(s) - i)
          /\ i + (k - Len(a)) = k + 1
      BY <1>1, <1>2, <2>2
    <3> QED
      BY <1>3, <1>4, <1>5, <2>2, <3>1
  <2> QED
    BY <2>1, <2>2
<1> QED
  BY <1>1, <1>4, <1>5, <1>6

\* cb_bookmarks lists a stretch of the array.
LEMMA ListedLines ==
    ASSUME mem \in [Cells -> Entry]
    PROVE  Listed \in Seq(Entry) /\ Len(Listed) <= MAXBOOKMARKS
<1> DEFINE T == {n \in 0 .. MAXBOOKMARKS : n = MAXBOOKMARKS \/ bookmarks[n] = Empty}
           Ending(n) == /\ \A j \in 0 .. n - 1 : bookmarks[j] # Empty
                        /\ n = MAXBOOKMARKS \/ bookmarks[n] = Empty
<1>1. MAXBOOKMARKS \in Nat
  BY SizesAssumption
<1>2. T \subseteq Nat /\ MAXBOOKMARKS \in T
  BY <1>1
<1>3. PICK n \in T : \A k \in T : n <= k
  <2> HIDE DEF T
  <2> QED
    BY <1>2, LeastNumber
<1>4. n \in 0 .. MAXBOOKMARKS /\ Ending(n)
  <2>1. n \in 0 .. MAXBOOKMARKS /\ (n = MAXBOOKMARKS \/ bookmarks[n] = Empty)
    BY <1>3
  <2>2. ASSUME NEW j \in 0 .. n - 1 PROVE bookmarks[j] # Empty
    <3>1. j \in 0 .. MAXBOOKMARKS /\ ~(n <= j)
      BY <1>1, <2>1
    <3>2. j \notin T
      BY <1>3, <3>1
    <3> QED
      BY <3>1, <3>2
  <2> QED
    BY <2>1, <2>2
<1>5. PICK m : m = CHOOSE q \in 0 .. MAXBOOKMARKS : Ending(q)
  OBVIOUS
<1>6. m \in 0 .. MAXBOOKMARKS
  BY <1>4, <1>5
<1>7. Listed = [k \in 1 .. m |-> bookmarks[k - 1]]
  BY <1>5 DEF Listed
<1>8. \A j \in 0 .. MAXBOOKMARKS - 1 : bookmarks[j] \in Entry
  <2>1. \A j \in 0 .. MAXBOOKMARKS - 1 : Book(j) \in Cells
    BY SizesAssumption DEF Book, Cells
  <2> QED
    BY <2>1 DEF bookmarks
<1>9. \A k \in 1 .. m : k - 1 \in 0 .. MAXBOOKMARKS - 1
  BY <1>1, <1>6
<1>10. \A k \in 1 .. m : bookmarks[k - 1] \in Entry
  BY <1>8, <1>9
<1>11. Listed \in [1 .. m -> Entry]
  BY <1>7, <1>10
<1>12. Listed \in Seq(Entry) /\ Len(Listed) = m
  BY <1>6, <1>11
<1> QED
  BY <1>1, <1>6, <1>12

\* The operations on the memory.
LEMMA MemoryTyped ==
    ASSUME mem \in [Cells -> Entry], NEW e \in Entry
    PROVE  /\ PushDown(mem, 0, MAXHISTORY, e) \in [Cells -> Entry]
           /\ PushDown(mem, MAXHISTORY, MAXBOOKMARKS, e) \in [Cells -> Entry]
           /\ \A c : [mem EXCEPT ![c] = e] \in [Cells -> Entry]
           /\ \A j \in 0 .. MAXBOOKMARKS : PushUp(mem, j - 1) \in [Cells -> Entry]
           /\ \A s \in Seq(Entry) : WriteRows(mem, s) \in [Cells -> Entry]
<1>1. MAXHISTORY \in Nat /\ MAXBOOKMARKS \in Nat
  BY SizesAssumption
<1>2. ASSUME NEW base \in Nat, NEW n PROVE PushDown(mem, base, n, e) \in [Cells -> Entry]
  <2>1. \A c \in Cells : (c \in base .. base + n - 1 /\ c # base) => c - 1 \in Cells
    BY <1>1 DEF Cells
  <2> QED
    BY <2>1 DEF PushDown
<1>3. \A c : [mem EXCEPT ![c] = e] \in [Cells -> Entry]
  OBVIOUS
<1>4. ASSUME NEW j \in 0 .. MAXBOOKMARKS PROVE PushUp(mem, j - 1) \in [Cells -> Entry]
  <2>1. \A c \in Cells : c \in Book(j - 1) .. Book(MAXBOOKMARKS - 2) => c + 1 \in Cells
    BY <1>1 DEF Cells, Book
  <2>2. Empty \in Entry
    BY DEF Empty, Entry
  <2> QED
    BY <2>1, <2>2 DEF PushUp
<1>5. ASSUME NEW s \in Seq(Entry) PROVE WriteRows(mem, s) \in [Cells -> Entry]
  <2>1. Len(s) \in Nat /\ \A k \in 1 .. Len(s) : s[k] \in Entry
    BY LenProperties, ElementOfSeq
  <2>2. \A c \in Cells : (c \in Book(0) .. Book(MAXBOOKMARKS - 2) /\ c - Book(0) < Len(s))
                            => c - Book(0) + 1 \in 1 .. Len(s)
    BY <1>1, <2>1 DEF Cells, Book
  <2>3. \A c \in Cells : (c \in Book(0) .. Book(MAXBOOKMARKS - 2) /\ c - Book(0) < Len(s))
                            => s[c - Book(0) + 1] \in Entry
    BY <2>1, <2>2
  <2> QED
    BY <2>3 DEF WriteRows
<1> QED
  BY <1>1, <1>2, <1>3, <1>4, <1>5

\* Every step keeps the types.
LEMMA NextStore == StoreInv /\ [Next]_vars => StoreInv'
<1> SUFFICES ASSUME StoreInv, [Next]_vars PROVE StoreInv'
  OBVIOUS
<1> USE DEF StoreInv
<1>1. ASSUME NEW visit \in Visits, ReceiveTitle(visit) PROVE StoreInv'
  <2>1. visit \in Entry
    BY TextsAssumption
  <2>2. mem' \in [Cells -> Entry]
    BY <1>1, <2>1, MemoryTyped DEF ReceiveTitle
  <2> QED
    BY <1>1, <2>2 DEF ReceiveTitle, windowVars
<1>2. ASSUME NEW e \in Pages, AddBookmark(e) PROVE StoreInv'
  <2>1. e \in Entry
    BY TextsAssumption
  <2>2. mem' \in [Cells -> Entry]
    BY <1>2, <2>1, MemoryTyped DEF AddBookmark
  <2> QED
    BY <1>2, <2>2 DEF AddBookmark, windowVars
<1>3. ASSUME NEW w \in Windows, OpenWindow(w) PROVE StoreInv'
  <2>1. Listed \in Seq(Entry) /\ Len(Listed) <= MAXBOOKMARKS /\ Len(Listed) \in Nat
    BY ListedLines, LenProperties
  <2> QED
    BY <1>3, <2>1 DEF OpenWindow
<1>4. ASSUME NEW w \in Windows, NEW k \in 0 .. MAXBOOKMARKS, SelectLine(w, k) PROVE StoreInv'
  <2>1. k \in Nat /\ k <= Len(rows[w])
    BY <1>4, SizesAssumption DEF SelectLine
  <2> QED
    BY <1>4, <2>1 DEF SelectLine
<1>5. ASSUME NEW w \in Windows, CloseWindow(w) PROVE StoreInv'
  BY <1>5 DEF CloseWindow
<1>6. ASSUME NEW w \in Windows, OpenEdit(w) PROVE StoreInv'
  <2>1. edit[w] + 1 \in 0 .. MAXEDITS
    BY <1>6, SizesAssumption DEF OpenEdit
  <2> QED
    BY <1>6, <2>1 DEF OpenEdit
<1>7. ASSUME NEW w \in Windows, edit[w] > 0 PROVE edit[w] - 1 \in 0 .. MAXEDITS
  BY <1>7, SizesAssumption
<1>8. ASSUME NEW w \in Windows, NEW e \in Pages, SaveEdit(w, e) PROVE StoreInv'
  <2>1. e \in Entry
    BY TextsAssumption
  <2>2. mem' \in [Cells -> Entry]
    BY <1>8, <2>1, MemoryTyped DEF SaveEdit
  <2>3. edit' \in [Windows -> 0 .. MAXEDITS]
    BY <1>7, <1>8 DEF SaveEdit
  <2>4. CASE sel[w] = 0
    BY <1>8, <2>2, <2>3, <2>4 DEF SaveEdit
  <2>5. CASE sel[w] # 0
    <3>1. sel[w] \in 1 .. Len(rows[w])
      BY <2>5, LenProperties
    <3>2. /\ [rows[w] EXCEPT ![sel[w]] = e] \in Seq(Entry)
          /\ Len([rows[w] EXCEPT ![sel[w]] = e]) = Len(rows[w])
      BY <2>1, <3>1, ExceptSeq
    <3>3. rows' = [rows EXCEPT ![w] = [rows[w] EXCEPT ![sel[w]] = e]]
      BY <1>8, <2>5 DEF SaveEdit
    <3> QED
      BY <1>8, <2>2, <2>3, <3>2, <3>3 DEF SaveEdit
  <2> QED
    BY <2>4, <2>5
<1>9. ASSUME NEW w \in Windows, CloseEdit(w) PROVE StoreInv'
  BY <1>7, <1>9 DEF CloseEdit
<1>10. ASSUME NEW w \in Windows, DeleteBookmark(w) PROVE StoreInv'
  <2>1. sel[w] \in 0 .. MAXBOOKMARKS
    BY SizesAssumption, LenProperties
  <2>2. Empty \in Entry
    BY DEF Empty, Entry
  <2>3. mem' \in [Cells -> Entry]
    BY <1>10, <2>1, <2>2, MemoryTyped DEF DeleteBookmark
  <2>4. CASE sel[w] = 0
    BY <1>10, <2>3, <2>4 DEF DeleteBookmark
  <2>5. CASE sel[w] # 0
    <3>1. sel[w] \in 1 .. Len(rows[w]) /\ Len(rows[w]) \in Nat
      BY <2>5, LenProperties
    <3>2. /\ RemoveAt(rows[w], sel[w]) \in Seq(Entry)
          /\ Len(RemoveAt(rows[w], sel[w])) = Len(rows[w]) - 1
      BY <3>1, RemoveLine
    <3>3. Len(rows[w]) - 1 <= MAXBOOKMARKS /\ 0 <= Len(rows[w]) - 1
      BY <3>1, SizesAssumption
    <3> QED
      BY <1>10, <2>3, <2>5, <3>2, <3>3 DEF DeleteBookmark
  <2> QED
    BY <2>4, <2>5
<1>11. ASSUME NEW w \in Windows, SortBookmarks(w) PROVE StoreInv'
  <2>1. Len(rows[w]) \in Nat /\ rows[w] \in Lines(Len(rows[w]))
    BY LinesSeq, LenProperties
  <2>2. ExchangeSort(rows[w]) \in Lines(Len(rows[w]))
    BY <2>1, SortResult
  <2>3. ExchangeSort(rows[w]) \in Seq(Entry) /\ Len(ExchangeSort(rows[w])) = Len(rows[w])
    BY <2>1, <2>2, LinesSeq
  <2>4. rows' = [rows EXCEPT ![w] = ExchangeSort(rows[w])] /\ rows'[w] = ExchangeSort(rows[w])
    BY <1>11 DEF SortBookmarks
  <2>5. Empty \in Entry
    BY DEF Empty, Entry
  <2>6. mem' \in [Cells -> Entry]
    BY <1>11, <2>3, <2>4, <2>5, MemoryTyped DEF SortBookmarks
  <2> QED
    BY <1>11, <2>3, <2>4, <2>6 DEF SortBookmarks
<1>12. CASE UNCHANGED vars
  BY <1>12 DEF vars
<1> QED
  BY <1>1, <1>2, <1>3, <1>4, <1>5, <1>6, <1>8, <1>9, <1>10, <1>11, <1>12 DEF Next

LEMMA InitStore == Init => StoreInv
<1> SUFFICES ASSUME Init PROVE StoreInv
  OBVIOUS
<1>1. Empty \in Entry
  BY DEF Empty, Entry
<1>2. mem \in [Cells -> Entry]
  BY <1>1, TextsAssumption DEF Init
<1>3. << >> \in Seq(Entry) /\ Len(<< >>) = 0
  OBVIOUS
<1> QED
  BY <1>2, <1>3, SizesAssumption DEF Init, StoreInv

\* The type invariant, for every instance: no handler leaves a selection beyond
\* the lines of its window or a list longer than the array.
THEOREM StoreTypeCorrect == Spec => []TypeOK
<1>1. StoreInv => TypeOK
  BY LenProperties DEF StoreInv, TypeOK
<1> QED
  BY <1>1, InitStore, NextStore, PTL DEF Spec

\* cb_sort_bookmark sorts: the two loops with their exchange in the middle leave
\* the lines of every window in the order of strcmp, and each line as often as
\* before, however many lines there are.
THEOREM SortIsCorrect == Spec => []SortCorrect
<1>1. ASSUME StoreInv PROVE SortCorrect
  <2> SUFFICES ASSUME NEW w \in open
               PROVE  /\ Len(ExchangeSort(rows[w])) = Len(rows[w])
                      /\ \A i, j \in 1 .. Len(ExchangeSort(rows[w])) :
                           i < j => ~After(ExchangeSort(rows[w])[i], ExchangeSort(rows[w])[j])
                      /\ \A e : Occurs(ExchangeSort(rows[w]), e) = Occurs(rows[w], e)
    BY DEF SortCorrect, Occurs
  <2>1. rows[w] \in Seq(Entry)
    BY <1>1 DEF StoreInv
  <2>2. Len(rows[w]) \in Nat /\ rows[w] \in Lines(Len(rows[w]))
    BY <2>1, LinesSeq, LenProperties
  <2>3. /\ ExchangeSort(rows[w]) \in Lines(Len(rows[w]))
        /\ \A e : Occurs(ExchangeSort(rows[w]), e) = Occurs(rows[w], e)
        /\ \A i, j \in 1 .. Len(rows[w]) :
             i < j => ~After(ExchangeSort(rows[w])[i], ExchangeSort(rows[w])[j])
    BY <2>2, SortResult
  <2>4. Len(ExchangeSort(rows[w])) = Len(rows[w])
    BY <2>2, <2>3, LinesSeq
  <2> QED
    BY <2>3, <2>4
<1> QED
  BY <1>1, InitStore, NextStore, PTL DEF Spec

-----------------------------------------------------------------------------
(* Windows and the array.                                                  *)

\* What a window and the memory say of line k, without the array between them.
Agrees(m, s) == \A k \in 1 .. Len(s) : s[k] = m[MAXHISTORY + k - 1]

LEMMA AgreesIsInSync ==
    ASSUME StoreInv, NEW w \in Windows
    PROVE  InSync(w) <=> Agrees(mem, rows[w])
<1>1. \A k \in 1 .. Len(rows[w]) :
        k - 1 \in 0 .. MAXBOOKMARKS - 1 /\ MAXHISTORY + (k - 1) = MAXHISTORY + k - 1
  BY SizesAssumption, LenProperties DEF StoreInv
<1>2. \A k \in 1 .. Len(rows[w]) : bookmarks[k - 1] = mem[MAXHISTORY + k - 1]
  BY <1>1 DEF bookmarks, Book
<1> QED
  BY <1>2 DEF InSync, Agrees

\* An edited line.
LEMMA EditAgrees ==
    ASSUME NEW m \in [Cells -> Entry], NEW s \in Seq(Entry), Agrees(m, s),
           NEW i \in 1 .. Len(s), Len(s) <= MAXBOOKMARKS, NEW e \in Entry
    PROVE  Agrees([m EXCEPT ![Book(i - 1)] = e], [s EXCEPT ![i] = e])
<1>1. Len(s) \in Nat /\ MAXHISTORY \in Nat /\ MAXBOOKMARKS \in Nat
  BY SizesAssumption, LenProperties
<1>2. Len([s EXCEPT ![i] = e]) = Len(s)
  BY ExceptSeq
<1>3. \A k \in 1 .. Len(s) : /\ MAXHISTORY + k - 1 \in Cells
                             /\ MAXHISTORY + k - 1 = Book(i - 1) <=> k = i
  BY <1>1 DEF Cells, Book
<1>4. \A k \in 1 .. Len(s) : [s EXCEPT ![i] = e][k] = IF k = i THEN e ELSE s[k]
  BY <1>1
<1> QED
  BY <1>2, <1>3, <1>4 DEF Agrees

\* A removed line.
LEMMA RemoveAgrees ==
    ASSUME NEW m \in [Cells -> Entry], NEW s \in Seq(Entry), Agrees(m, s),
           NEW i \in 1 .. Len(s), Len(s) <= MAXBOOKMARKS
    PROVE  Agrees(PushUp(m, i - 1), RemoveAt(s, i))
<1>1. Len(s) \in Nat /\ MAXHISTORY \in Nat /\ MAXBOOKMARKS \in Nat
  BY SizesAssumption, LenProperties
<1>2. /\ Len(RemoveAt(s, i)) = Len(s) - 1
      /\ \A k \in 1 .. (Len(s) - 1) : RemoveAt(s, i)[k] = IF k < i THEN s[k] ELSE s[k + 1]
  BY RemoveLine
<1>3. ASSUME NEW k \in 1 .. (Len(s) - 1)
      PROVE  PushUp(m, i - 1)[MAXHISTORY + k - 1]
               = IF k < i THEN m[MAXHISTORY + k - 1] ELSE m[MAXHISTORY + (k + 1) - 1]
  <2>1. /\ MAXHISTORY + k - 1 \in Cells
        /\ MAXHISTORY + k - 1 # Book(MAXBOOKMARKS)
        /\ MAXHISTORY + k - 1 \in Book(i - 1) .. Book(MAXBOOKMARKS - 2) <=> ~(k < i)
        /\ MAXHISTORY + k - 1 + 1 = MAXHISTORY + (k + 1) - 1
    BY <1>1 DEF Cells, Book
  <2> QED
    BY <2>1 DEF PushUp
<1>4. \A k \in 1 .. (Len(s) - 1) : k \in 1 .. Len(s) /\ k + 1 \in 1 .. Len(s)
  BY <1>1
<1>5. \A k \in 1 .. (Len(s) - 1) : /\ s[k] = m[MAXHISTORY + k - 1]
                                   /\ s[k + 1] = m[MAXHISTORY + (k + 1) - 1]
  BY <1>4 DEF Agrees
<1>6. \A k \in 1 .. (Len(s) - 1) : RemoveAt(s, i)[k] = PushUp(m, i - 1)[MAXHISTORY + k - 1]
  BY <1>2, <1>3, <1>5
<1> QED
  BY <1>2, <1>6 DEF Agrees

\* The lines written back after a sort; the last entry of the array is not written.
LEMMA WriteAgrees ==
    ASSUME NEW m \in [Cells -> Entry], NEW s \in Seq(Entry),
           NEW k \in 1 .. Len(s), k < MAXBOOKMARKS
    PROVE  s[k] = WriteRows(m, s)[MAXHISTORY + k - 1]
<1>1. Len(s) \in Nat /\ MAXHISTORY \in Nat /\ MAXBOOKMARKS \in Nat
  BY SizesAssumption, LenProperties
<1>2. PICK c : c = MAXHISTORY + k - 1
  OBVIOUS
<1>3. c \in Cells
  BY <1>1, <1>2 DEF Cells
<1>4. c \in Book(0) .. Book(MAXBOOKMARKS - 2) /\ c - Book(0) < Len(s) /\ c - Book(0) + 1 = k
  BY <1>1, <1>2 DEF Book
<1>5. WriteRows(m, s)[c] = s[c - Book(0) + 1]
  BY <1>3, <1>4 DEF WriteRows
<1> QED
  BY <1>2, <1>4, <1>5

\* Without a selected line, the oldest history entry is the cell that Save and
\* Delete write first.
LEMMA NoLine ==
    ASSUME NEW m \in [Cells -> Entry], NEW s \in Seq(Entry), Agrees(m, s),
           Len(s) <= MAXBOOKMARKS
    PROVE  /\ \A e \in Entry : Agrees([m EXCEPT ![Book(0 - 1)] = e], s)
           /\ \A k \in 2 .. Len(s) : s[k] = PushUp(m, 0 - 1)[MAXHISTORY + k - 2]
<1>1. /\ Len(s) \in Nat /\ MAXHISTORY \in Nat /\ MAXBOOKMARKS \in Nat
      /\ MAXHISTORY >= 2 /\ MAXBOOKMARKS >= 2
  BY SizesAssumption, LenProperties
<1>2. ASSUME NEW e \in Entry, NEW k \in 1 .. Len(s)
      PROVE  s[k] = [m EXCEPT ![Book(0 - 1)] = e][MAXHISTORY + k - 1]
  <2>1. MAXHISTORY + k - 1 \in Cells /\ MAXHISTORY + k - 1 # Book(0 - 1)
    BY <1>1 DEF Cells, Book
  <2>2. [m EXCEPT ![Book(0 - 1)] = e][MAXHISTORY + k - 1] = m[MAXHISTORY + k - 1]
    BY <2>1
  <2> QED
    BY <2>2 DEF Agrees
<1>3. ASSUME NEW k \in 2 .. Len(s)
      PROVE  s[k] = PushUp(m, 0 - 1)[MAXHISTORY + k - 2]
  <2>1. PICK c : c = MAXHISTORY + k - 2
    OBVIOUS
  <2>2. /\ c \in Cells /\ c # Book(MAXBOOKMARKS)
        /\ c \in Book(0 - 1) .. Book(MAXBOOKMARKS - 2)
        /\ c + 1 = MAXHISTORY + k - 1
    BY <1>1, <2>1 DEF Cells, Book
  <2>3. PushUp(m, 0 - 1)[c] = m[c + 1]
    BY <2>2 DEF PushUp
  <2>4. k \in 1 .. Len(s)
    BY <1>1
  <2>5. s[k] = m[MAXHISTORY + k - 1]
    BY <2>4 DEF Agrees
  <2> QED
    BY <2>1, <2>2, <2>3, <2>5
<1> QED
  BY <1>2, <1>3 DEF Agrees

\* Save in an agreeing window.
LEMMA SaveInStep ==
    ASSUME StoreInv, NEW w \in Windows, Agrees(mem, rows[w]), NEW e \in Pages, SaveEdit(w, e)
    PROVE  Agrees(mem', rows'[w])
<1>1. /\ rows[w] \in Seq(Entry) /\ Len(rows[w]) <= MAXBOOKMARKS /\ Len(rows[w]) \in Nat
      /\ mem \in [Cells -> Entry] /\ rows \in [Windows -> Seq(Entry)]
      /\ sel[w] \in Nat /\ sel[w] <= Len(rows[w])
  BY LenProperties DEF StoreInv
<1>2. e \in Entry
  BY TextsAssumption
<1>3. CASE sel[w] # 0
  <2>1. sel[w] \in 1 .. Len(rows[w])
    BY <1>1, <1>3
  <2>2. mem' = [mem EXCEPT ![Book(sel[w] - 1)] = e] /\ rows'[w] = [rows[w] EXCEPT ![sel[w]] = e]
    BY <1>1, <1>3 DEF SaveEdit
  <2>3. Agrees([mem EXCEPT ![Book(sel[w] - 1)] = e], [rows[w] EXCEPT ![sel[w]] = e])
    BY <1>1, <1>2, <2>1, EditAgrees
  <2> QED
    BY <2>2, <2>3
<1>4. CASE sel[w] = 0
  <2>1. mem' = [mem EXCEPT ![Book(0 - 1)] = e] /\ rows'[w] = rows[w]
    BY <1>4 DEF SaveEdit
  <2>2. Agrees([mem EXCEPT ![Book(0 - 1)] = e], rows[w])
    BY <1>1, <1>2, NoLine
  <2> QED
    BY <2>1, <2>2
<1> QED
  BY <1>3, <1>4

\* Delete in an agreeing window.
LEMMA DeleteInStep ==
    ASSUME StoreInv, NEW w \in Windows, Agrees(mem, rows[w]), DeleteBookmark(w)
    PROVE  /\ sel[w] # 0 => Agrees(mem', rows'[w])
           /\ sel[w] = 0 => \A k \in 2 .. Len(rows'[w]) : rows'[w][k] = mem'[MAXHISTORY + k - 2]
<1>1. /\ rows[w] \in Seq(Entry) /\ Len(rows[w]) <= MAXBOOKMARKS /\ Len(rows[w]) \in Nat
      /\ mem \in [Cells -> Entry] /\ rows \in [Windows -> Seq(Entry)]
      /\ sel[w] \in Nat /\ sel[w] <= Len(rows[w])
  BY LenProperties DEF StoreInv
<1>2. ASSUME sel[w] # 0 PROVE Agrees(mem', rows'[w])
  <2>1. sel[w] \in 1 .. Len(rows[w])
    BY <1>1, <1>2
  <2>2. mem' = PushUp(mem, sel[w] - 1) /\ rows'[w] = RemoveAt(rows[w], sel[w])
    BY <1>1, <1>2 DEF DeleteBookmark
  <2> QED
    BY <1>1, <2>1, <2>2, RemoveAgrees
<1>3. ASSUME sel[w] = 0
      PROVE  \A k \in 2 .. Len(rows'[w]) : rows'[w][k] = mem'[MAXHISTORY + k - 2]
  <2>1. mem' = PushUp(mem, 0 - 1) /\ rows'[w] = rows[w]
    BY <1>3 DEF DeleteBookmark
  <2>2. \A k \in 2 .. Len(rows[w]) : rows[w][k] = PushUp(mem, 0 - 1)[MAXHISTORY + k - 2]
    BY <1>1, NoLine
  <2> QED
    BY <2>1, <2>2
<1> QED
  BY <1>2, <1>3

\* Save and Delete in a window that agrees with the array keep it in agreement, for
\* every selection and every length of the list; Sort writes every line but the
\* last one of a full list, and Delete without a selected line leaves the window
\* exactly one line off.
THEOREM WindowsStayInStep == Spec => InSyncKept
<1>1. ASSUME StoreInv, StoreInv', [Next]_vars
      PROVE  [\A w \in open : InSync(w) =>
               /\ (\E e \in Pages : SaveEdit(w, e)) => InSync(w)'
               /\ DeleteBookmark(w) => IF sel[w] # 0 THEN InSync(w)' ELSE Trails(w, 2, 2)'
               /\ SortBookmarks(w) => \A k \in 1 .. Len(rows'[w]) :
                                        k < MAXBOOKMARKS => rows'[w][k] = bookmarks'[k - 1]]_vars
  <2> SUFFICES ASSUME NEW w \in open, InSync(w)
               PROVE  /\ (\E e \in Pages : SaveEdit(w, e)) => InSync(w)'
                      /\ DeleteBookmark(w) => IF sel[w] # 0 THEN InSync(w)' ELSE Trails(w, 2, 2)'
                      /\ SortBookmarks(w) => \A k \in 1 .. Len(rows'[w]) :
                           k < MAXBOOKMARKS => rows'[w][k] = bookmarks'[k - 1]
    OBVIOUS
  <2>1. w \in Windows
    BY <1>1 DEF StoreInv
  <2>2. Agrees(mem, rows[w])
    BY <1>1, <2>1, AgreesIsInSync
  <2>3. /\ Len(rows'[w]) \in Nat /\ Len(rows'[w]) <= MAXBOOKMARKS
        /\ rows'[w] \in Seq(Entry) /\ mem \in [Cells -> Entry]
    BY <1>1, <2>1, LenProperties DEF StoreInv
  <2>4. \A k \in 1 .. Len(rows'[w]) :
          k - 1 \in 0 .. MAXBOOKMARKS - 1 /\ MAXHISTORY + (k - 1) = MAXHISTORY + k - 1
    BY <2>3, SizesAssumption
  <2>5. \A k \in 1 .. Len(rows'[w]) : bookmarks'[k - 1] = mem'[MAXHISTORY + k - 1]
    BY <2>4 DEF bookmarks, Book
  <2>6. Agrees(mem', rows'[w]) => InSync(w)'
    BY <2>5 DEF InSync, Agrees
  <2>7. ASSUME NEW e \in Pages, SaveEdit(w, e) PROVE InSync(w)'
    BY <1>1, <2>1, <2>2, <2>6, <2>7, SaveInStep
  <2>8. ASSUME DeleteBookmark(w) PROVE IF sel[w] # 0 THEN InSync(w)' ELSE Trails(w, 2, 2)'
    <3>1. CASE sel[w] # 0
      BY <1>1, <2>1, <2>2, <2>6, <2>8, <3>1, DeleteInStep
    <3>2. CASE sel[w] = 0
      <4>1. \A k \in 2 .. Len(rows'[w]) : rows'[w][k] = mem'[MAXHISTORY + k - 2]
        BY <1>1, <2>1, <2>2, <2>8, <3>2, DeleteInStep
      <4>2. \A k \in 2 .. Len(rows'[w]) :
              k - 2 \in 0 .. MAXBOOKMARKS - 1 /\ MAXHISTORY + (k - 2) = MAXHISTORY + k - 2
        BY <2>3, SizesAssumption
      <4>3. \A k \in 2 .. Len(rows'[w]) : bookmarks'[k - 2] = mem'[MAXHISTORY + k - 2]
        BY <4>2 DEF bookmarks, Book
      <4>4. Trails(w, 2, 2)'
        BY <4>1, <4>3 DEF Trails
      <4> QED
        BY <3>2, <4>4
    <3> QED
      BY <3>1, <3>2
  <2>9. ASSUME SortBookmarks(w), NEW k \in 1 .. Len(rows'[w]), k < MAXBOOKMARKS
        PROVE  rows'[w][k] = bookmarks'[k - 1]
    <3>1. mem' = WriteRows(mem, rows'[w])
      BY <2>9 DEF SortBookmarks
    <3>2. rows'[w][k] = WriteRows(mem, rows'[w])[MAXHISTORY + k - 1]
      BY <2>3, <2>9, WriteAgrees
    <3>3. bookmarks'[k - 1] = mem'[MAXHISTORY + k - 1]
      BY <2>5
    <3> QED
      BY <3>1, <3>2, <3>3
  <2> QED
    BY <2>7, <2>8, <2>9
<1>2. Spec => []StoreInv
  BY InitStore, NextStore, PTL DEF Spec
<1> QED
  BY <1>1, <1>2, PTL DEF Spec, InSyncKept
====
