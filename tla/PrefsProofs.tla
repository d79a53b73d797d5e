---- MODULE PrefsProofs ----
(***************************************************************************)
(* Proofs about Prefs, for every size of the two arrays, every set of      *)
(* texts and of windows, and any number of sessions and crashes.           *)
(***************************************************************************)
EXTENDS Prefs, StoreProofs

-----------------------------------------------------------------------------
(* The count that writePrefs finds.                                        *)

\* n is where the list that starts in cell base ends.
Ends(m, base, max, n) ==
    /\ n \in 0 .. max
    /\ \A i \in 0 .. n - 1 : m[base + i].uri # 0
    /\ n = max \/ m[base + n].uri = 0

\* A list ends somewhere: there is a first entry without an address, or none.
LEMMA EndExists ==
    ASSUME NEW m, NEW base \in Nat, NEW max \in Nat
    PROVE  \E n \in 0 .. max : Ends(m, base, max, n)
<1> DEFINE T == {n \in 0 .. max : n = max \/ m[base + n].uri = 0}
<1>1. T \subseteq Nat /\ T # {}
  <2>1. max \in T
    OBVIOUS
  <2> QED
    BY <2>1
<1>2. \A n \in T : n \in 0 .. max /\ (n = max \/ m[base + n].uri = 0)
  OBVIOUS
<1>3. \A n \in 0 .. max : m[base + n].uri = 0 => n \in T
  OBVIOUS
<1> HIDE DEF T
<1>4. PICK n \in T : \A k \in T : n <= k
  BY <1>1, LeastNumber
<1>5. n \in 0 .. max /\ (n = max \/ m[base + n].uri = 0)
  BY <1>2
<1>6. ASSUME NEW i \in 0 .. n - 1 PROVE m[base + i].uri # 0
  <2>1. i \in 0 .. max /\ ~(n <= i)
    BY <1>5
  <2> QED
    BY <1>3, <1>4, <2>1
<1> QED
  BY <1>5, <1>6 DEF Ends

\* It ends in one place.
LEMMA EndUnique ==
    ASSUME NEW m, NEW base \in Nat, NEW max \in Nat, NEW n, Ends(m, base, max, n)
    PROVE  ItemCount(m, base, max) = n
<1>1. \A k : Ends(m, base, max, k) => k = n
  <2> SUFFICES ASSUME NEW k, Ends(m, base, max, k), k # n PROVE FALSE
    OBVIOUS
  <2>1. k \in 0 .. max /\ n \in 0 .. max
    BY DEF Ends
  <2>2. CASE k < n
    <3>1. k \in 0 .. n - 1 /\ k # max
      BY <2>1, <2>2
    <3> QED
      BY <3>1 DEF Ends
  <2>3. CASE n < k
    <3>1. n \in 0 .. k - 1 /\ n # max
      BY <2>1, <2>3
    <3> QED
      BY <3>1 DEF Ends
  <2> QED
    BY <2>1, <2>2, <2>3
<1>2. ItemCount(m, base, max) = CHOOSE k \in 0 .. max : Ends(m, base, max, k)
  BY DEF ItemCount, Ends
<1>3. n \in 0 .. max
  BY DEF Ends
<1> QED
  BY <1>1, <1>2, <1>3

\* The count of writePrefs is where the list ends.
LEMMA CountEnds ==
    ASSUME NEW m, NEW base \in Nat, NEW max \in Nat
    PROVE  Ends(m, base, max, ItemCount(m, base, max))
  BY EndExists, EndUnique

\* Reading one entry more does not change what is before the end of the array.
LEMMA CountCut ==
    ASSUME NEW m, NEW base \in Nat, NEW max \in Nat, NEW j \in 0 .. max - 1
    PROVE  j < ItemCount(m, base, max) <=> j < ItemCount(m, base, max + 1)
<1>1. PICK n : n = ItemCount(m, base, max + 1) /\ Ends(m, base, max + 1, n)
  BY CountEnds
<1>2. n \in 0 .. max + 1
  BY <1>1 DEF Ends
<1>3. CASE n <= max
  <2>1. Ends(m, base, max, n)
    BY <1>1, <1>2, <1>3 DEF Ends
  <2> QED
    BY <1>1, <2>1, EndUnique
<1>4. CASE n = max + 1
  <2>1. Ends(m, base, max, max)
    <3>1. \A i \in 0 .. max - 1 : i \in 0 .. n - 1
      BY <1>4
    <3> QED
      BY <1>1, <3>1 DEF Ends
  <2>2. ItemCount(m, base, max) = max
    BY <2>1, EndUnique
  <2> QED
    BY <1>1, <1>4, <2>2
<1> QED
  BY <1>2, <1>3, <1>4

-----------------------------------------------------------------------------
(* The file between two sessions.                                          *)

\* The shape of the file.
FileShape ==
    /\ file = [historyitems |-> file.historyitems, history |-> file.history,
               bookmarksitems |-> file.bookmarksitems, bookmarks |-> file.bookmarks]
    /\ file.historyitems \in 0 .. MAXHISTORY
    /\ FunctionOn(file.history, 0 .. MAXHISTORY - 1)
    /\ file.bookmarksitems \in 0 .. MAXBOOKMARKS + 1
    /\ FunctionOn(file.bookmarks, BookKeys)

\* What is counted in the file has an address, in whichever session it was written.
FileAddressed ==
    /\ \A i \in 0 .. file.historyitems - 1 : file.history[i].uri # 0
    /\ \A i \in 0 .. file.bookmarksitems - 1 : file.bookmarks[i].uri # 0

\* The history has been written.
HistorySaved ==
    /\ file.historyitems = ItemCount(mem, 0, MAXHISTORY)
    /\ \A i \in 0 .. file.historyitems - 1 : file.history[i] = mem[i]

\* The bookmarks have been written.
BookmarksSaved ==
    /\ file.bookmarksitems = ItemCount(mem, MAXHISTORY, MAXBOOKMARKS + 1)
    /\ \A i \in 0 .. file.bookmarksitems - 1 : file.bookmarks[i] = mem[Book(i)]

\* The inductive invariant: what has been written is in the file until the next
\* start, also if the second write never happens.
FileInv ==
    /\ phase \in {"running", "saving", "exited", "crashed"}
    /\ FileShape
    /\ FileAddressed
    /\ phase \in {"saving", "exited"} => HistorySaved
    /\ phase = "exited" => BookmarksSaved

\* The first write.
LEMMA SaveHistoryFile ==
    ASSUME FileInv, SaveHistory
    PROVE  FileInv'
<1>1. PICK n : n = ItemCount(mem, 0, MAXHISTORY) /\ Ends(mem, 0, MAXHISTORY, n)
  BY CountEnds, HistoryCells
<1>2. n \in 0 .. MAXHISTORY /\ \A i \in 0 .. n - 1 : mem[i].uri # 0
  <2>1. \A i \in 0 .. n - 1 : 0 + i = i
    BY <1>1, HistoryCells DEF Ends
  <2> QED
    BY <1>1, <2>1 DEF Ends
<1>3. /\ file' = [file EXCEPT
                    !.historyitems = n,
                    !.history = [i \in DOMAIN @ |-> IF i < n THEN mem[i] ELSE @[i]]]
      /\ phase' = "saving" /\ mem' = mem
  BY <1>1 DEF SaveHistory, vars
<1>4. DOMAIN file.history = 0 .. MAXHISTORY - 1
  BY DEF FileInv, FileShape, FunctionOn
<1>5. file' = [historyitems |-> n,
               history |-> [i \in 0 .. MAXHISTORY - 1 |-> IF i < n THEN mem[i] ELSE file.history[i]],
               bookmarksitems |-> file.bookmarksitems, bookmarks |-> file.bookmarks]
  BY <1>3, <1>4 DEF FileInv, FileShape
<1>6. /\ file'.historyitems = n
      /\ file'.history = [i \in 0 .. MAXHISTORY - 1 |-> IF i < n THEN mem[i] ELSE file.history[i]]
      /\ file'.bookmarksitems = file.bookmarksitems /\ file'.bookmarks = file.bookmarks
      /\ file' = [historyitems |-> file'.historyitems, history |-> file'.history,
                  bookmarksitems |-> file'.bookmarksitems, bookmarks |-> file'.bookmarks]
  BY <1>5
<1>7. FileShape'
  BY <1>2, <1>6 DEF FileInv, FileShape, FunctionOn
<1>8. \A i \in 0 .. n - 1 : file'.history[i] = mem[i]
  <2>1. \A i \in 0 .. n - 1 : i \in 0 .. MAXHISTORY - 1 /\ i < n
    BY <1>2, HistoryCells
  <2> QED
    BY <1>6, <2>1
<1>9. FileAddressed'
  BY <1>2, <1>6, <1>8 DEF FileInv, FileAddressed
<1>10. HistorySaved'
  BY <1>1, <1>3, <1>6, <1>8 DEF HistorySaved
<1> QED
  BY <1>3, <1>7, <1>9, <1>10 DEF FileInv

\* The second write.
LEMMA SaveBookmarksFile ==
    ASSUME FileInv, SaveBookmarks
    PROVE  FileInv'
<1>1. PICK n : /\ n = ItemCount(mem, MAXHISTORY, MAXBOOKMARKS + 1)
               /\ Ends(mem, MAXHISTORY, MAXBOOKMARKS + 1, n)
  <2>1. MAXHISTORY \in Nat /\ MAXBOOKMARKS + 1 \in Nat
    BY HistoryCells
  <2> QED
    BY <2>1, CountEnds
<1>2. n \in 0 .. MAXBOOKMARKS + 1 /\ \A i \in 0 .. n - 1 : mem[Book(i)].uri # 0
  BY <1>1 DEF Ends, Book
<1>3. /\ file' = [file EXCEPT
                    !.bookmarksitems = n,
                    !.bookmarks = [i \in DOMAIN @ |-> IF i < n THEN mem[Book(i)] ELSE @[i]]]
      /\ phase' = "exited" /\ mem' = mem
  BY <1>1 DEF SaveBookmarks, vars
<1>4. DOMAIN file.bookmarks = BookKeys
  BY DEF FileInv, FileShape, FunctionOn
<1>5. file' = [historyitems |-> file.historyitems, history |-> file.history,
               bookmarksitems |-> n,
               bookmarks |-> [i \in BookKeys |-> IF i < n THEN mem[Book(i)] ELSE file.bookmarks[i]]]
  BY <1>3, <1>4 DEF FileInv, FileShape
<1>6. /\ file'.bookmarksitems = n
      /\ file'.bookmarks = [i \in BookKeys |-> IF i < n THEN mem[Book(i)] ELSE file.bookmarks[i]]
      /\ file'.historyitems = file.historyitems /\ file'.history = file.history
      /\ file' = [historyitems |-> file'.historyitems, history |-> file'.history,
                  bookmarksitems |-> file'.bookmarksitems, bookmarks |-> file'.bookmarks]
  BY <1>5
<1>7. FileShape'
  BY <1>2, <1>6 DEF FileInv, FileShape, FunctionOn
<1>8. \A i \in 0 .. n - 1 : file'.bookmarks[i] = mem[Book(i)]
  <2>1. \A i \in 0 .. n - 1 : i \in BookKeys /\ i < n
    BY <1>2, HistoryCells DEF BookKeys
  <2> QED
    BY <1>6, <2>1
<1>9. FileAddressed'
  BY <1>2, <1>6, <1>8 DEF FileInv, FileAddressed
<1>10. HistorySaved'
  BY <1>3, <1>6 DEF FileInv, HistorySaved, SaveBookmarks
<1>11. BookmarksSaved'
  <2>1. \A i : Book(i)' = Book(i)
    BY DEF Book
  <2> QED
    BY <1>1, <1>3, <1>6, <1>8, <2>1 DEF BookmarksSaved
<1> QED
  BY <1>3, <1>7, <1>9, <1>10, <1>11 DEF FileInv

\* Every step keeps what has been written.
LEMMA PrefsNextFile ==
    ASSUME FileInv, [PrefsNext]_prefsVars
    PROVE  FileInv'
<1>1. ASSUME file' = file, phase' \in {"running", "crashed"} PROVE FileInv'
  <2>1. FileShape' /\ FileAddressed'
    BY <1>1 DEF FileInv, FileShape, FileAddressed, FunctionOn
  <2> QED
    BY <1>1, <2>1 DEF FileInv
<1>2. CASE Use \/ Crash \/ Start
  BY <1>1, <1>2 DEF Use, Crash, Start
<1>3. CASE SaveHistory
  BY <1>3, SaveHistoryFile
<1>4. CASE SaveBookmarks
  BY <1>4, SaveBookmarksFile
<1>5. CASE UNCHANGED prefsVars
  <2>1. file' = file /\ phase' = phase /\ mem' = mem
    BY <1>5 DEF prefsVars, vars
  <2>2. FileShape' /\ FileAddressed' /\ (HistorySaved' <=> HistorySaved)
        /\ (BookmarksSaved' <=> BookmarksSaved)
    BY <2>1 DEF FileInv, FileShape, FileAddressed, HistorySaved, BookmarksSaved, FunctionOn, Book
  <2> QED
    BY <2>1, <2>2 DEF FileInv
<1> QED
  BY <1>2, <1>3, <1>4, <1>5 DEF PrefsNext

\* The invariant holds throughout.
THEOREM FileInvariance == PrefsSpec => []FileInv
<1>1. PrefsInit => FileInv
  <2> SUFFICES ASSUME PrefsInit PROVE FileInv
    OBVIOUS
  <2>1. file = [historyitems |-> 0,
                history |-> [i \in 0 .. MAXHISTORY - 1 |-> Empty],
                bookmarksitems |-> 0,
                bookmarks |-> [i \in BookKeys |-> Empty]]
        /\ phase = "running"
    BY DEF PrefsInit
  <2>2. FileShape
    <3>1. 0 \in 0 .. MAXHISTORY /\ 0 \in 0 .. MAXBOOKMARKS + 1
      BY HistoryCells
    <3> QED
      BY <2>1, <3>1 DEF FileShape, FunctionOn
  <2>3. FileAddressed
    BY <2>1 DEF FileAddressed
  <2> QED
    BY <2>1, <2>2, <2>3 DEF FileInv
<1>2. FileInv /\ [PrefsNext]_prefsVars => FileInv'
  BY PrefsNextFile
<1> QED
  BY <1>1, <1>2, PTL DEF PrefsSpec

\* What GUI::GUI and readPrefs leave in the arrays.
LEMMA StartReads ==
    ASSUME FileInv, Start
    PROVE  /\ \A i \in 0 .. MAXHISTORY - 1 :
                mem'[i] = IF i < file.historyitems THEN file.history[i] ELSE Empty
           /\ \A j \in 0 .. MAXBOOKMARKS - 1 :
                mem'[Book(j)] = IF j < file.bookmarksitems THEN file.bookmarks[j] ELSE Empty
<1>1. PICK junk :
        mem' = [c \in Cells |->
             IF c < MAXHISTORY
             THEN IF c < file.historyitems THEN file.history[c] ELSE Empty
             ELSE IF c - MAXHISTORY < file.bookmarksitems
             THEN file.bookmarks[c - MAXHISTORY]
             ELSE IF c = Book(MAXBOOKMARKS) THEN junk ELSE Empty]
  BY DEF Start
<1>2. \A i \in 0 .. MAXHISTORY - 1 : i \in Cells /\ i < MAXHISTORY
  BY HistoryCells
<1>3. \A j \in 0 .. MAXBOOKMARKS - 1 :
        /\ Book(j) \in Cells /\ ~(Book(j) < MAXHISTORY) /\ Book(j) - MAXHISTORY = j
        /\ Book(j) # Book(MAXBOOKMARKS)
  BY HistoryCells DEF Book, Cells
<1> QED
  BY <1>1, <1>2, <1>3

\* Only Start begins a session.
LEMMA StartOnly ==
    ASSUME [PrefsNext]_prefsVars, phase # "running", phase' = "running"
    PROVE  Start
  BY DEF PrefsNext, prefsVars, Use, SaveHistory, SaveBookmarks, Crash

\* After a complete exit the next start finds both lists as they were, cut at the
\* first entry without an address.
THEOREM NothingComesBack == PrefsSpec => RestoreFaithful
<1>1. ASSUME FileInv, [PrefsNext]_prefsVars, phase = "exited", phase' = "running"
      PROVE  /\ URL' = Saveable(mem, 0, MAXHISTORY)
             /\ bookmarks' = Saveable(mem, MAXHISTORY, MAXBOOKMARKS)
  <2>1. /\ \A i \in 0 .. MAXHISTORY - 1 :
             mem'[i] = IF i < file.historyitems THEN file.history[i] ELSE Empty
        /\ \A j \in 0 .. MAXBOOKMARKS - 1 :
             mem'[Book(j)] = IF j < file.bookmarksitems THEN file.bookmarks[j] ELSE Empty
    BY <1>1, StartOnly, StartReads
  <2>2. HistorySaved /\ BookmarksSaved
    BY <1>1 DEF FileInv
  <2>3. file.historyitems \in Nat /\ file.bookmarksitems \in Nat
    BY <1>1, HistoryCells DEF FileInv, FileShape
  <2>4. URL' = Saveable(mem, 0, MAXHISTORY)
    <3>1. ASSUME NEW i \in 0 .. MAXHISTORY - 1
          PROVE  mem'[i] = IF i < ItemCount(mem, 0, MAXHISTORY) THEN mem[0 + i] ELSE Empty
      <4>1. 0 + i = i /\ (i < file.historyitems => i \in 0 .. file.historyitems - 1)
        BY <2>3
      <4> QED
        BY <2>1, <2>2, <4>1 DEF HistorySaved
    <3> QED
      BY <3>1 DEF URL, Saveable
  <2>5. bookmarks' = Saveable(mem, MAXHISTORY, MAXBOOKMARKS)
    <3>1. ASSUME NEW j \in 0 .. MAXBOOKMARKS - 1
          PROVE  mem'[Book(j)] = IF j < ItemCount(mem, MAXHISTORY, MAXBOOKMARKS)
                                 THEN mem[MAXHISTORY + j] ELSE Empty
      <4>1. j < file.bookmarksitems => j \in 0 .. file.bookmarksitems - 1
        BY <2>3
      <4>2. j < ItemCount(mem, MAXHISTORY, MAXBOOKMARKS) <=> j < file.bookmarksitems
        BY <2>2, CountCut, HistoryCells DEF BookmarksSaved
      <4>3. j < file.bookmarksitems => file.bookmarks[j] = mem[MAXHISTORY + j]
        BY <2>2, <4>1 DEF BookmarksSaved, Book
      <4> QED
        BY <2>1, <4>2, <4>3
    <3>2. \A j : Book(j)' = Book(j)
      BY DEF Book
    <3> QED
      BY <3>1, <3>2 DEF bookmarks, Saveable
  <2> QED
    BY <2>4, <2>5
<1>2. FileInv /\ [PrefsNext]_prefsVars
        => [phase = "exited" /\ phase' = "running" =>
              /\ URL' = Saveable(mem, 0, MAXHISTORY)
              /\ bookmarks' = Saveable(mem, MAXHISTORY, MAXBOOKMARKS)]_prefsVars
  BY <1>1
<1> QED
  BY <1>2, FileInvariance, PTL DEF PrefsSpec, RestoreFaithful

\* What a start reads is what the next exit would write, also from a file that
\* mixes two sessions.
THEOREM StartIsStable == PrefsSpec => RestartStable
<1>1. ASSUME FileInv, [PrefsNext]_prefsVars, phase # "running", phase' = "running"
      PROVE  /\ URL' = Saveable(mem', 0, MAXHISTORY)
             /\ bookmarks' = Saveable(mem', MAXHISTORY, MAXBOOKMARKS)
  <2>1. /\ \A i \in 0 .. MAXHISTORY - 1 :
             mem'[i] = IF i < file.historyitems THEN file.history[i] ELSE Empty
        /\ \A j \in 0 .. MAXBOOKMARKS - 1 :
             mem'[Book(j)] = IF j < file.bookmarksitems THEN file.bookmarks[j] ELSE Empty
    BY <1>1, StartOnly, StartReads
  <2>2. FileAddressed /\ Empty.uri = 0
    BY <1>1 DEF FileInv, Empty
  <2>3. /\ file.historyitems \in 0 .. MAXHISTORY /\ file.bookmarksitems \in 0 .. MAXBOOKMARKS + 1
    BY <1>1 DEF FileInv, FileShape
  <2>4. URL' = Saveable(mem', 0, MAXHISTORY)
    <3>1. Ends(mem', 0, MAXHISTORY, file.historyitems)
      <4>1. ASSUME NEW i \in 0 .. file.historyitems - 1 PROVE mem'[0 + i].uri # 0
        <5>1. 0 + i = i /\ i \in 0 .. MAXHISTORY - 1 /\ i < file.historyitems
          BY <2>3, HistoryCells
        <5> QED
          BY <2>1, <2>2, <5>1 DEF FileAddressed
      <4>2. ASSUME file.historyitems # MAXHISTORY PROVE mem'[0 + file.historyitems].uri = 0
        <5>1. /\ 0 + file.historyitems = file.historyitems
              /\ file.historyitems \in 0 .. MAXHISTORY - 1 /\ ~(file.historyitems < file.historyitems)
          BY <2>3, <4>2, HistoryCells
        <5> QED
          BY <2>1, <2>2, <5>1
      <4> QED
        BY <2>3, <4>1, <4>2 DEF Ends
    <3>2. ItemCount(mem', 0, MAXHISTORY) = file.historyitems
      BY <3>1, EndUnique, HistoryCells
    <3>3. ASSUME NEW i \in 0 .. MAXHISTORY - 1
          PROVE  mem'[i] = IF i < file.historyitems THEN mem'[0 + i] ELSE Empty
      <4>1. 0 + i = i
        OBVIOUS
      <4> QED
        BY <2>1, <4>1
    <3> QED
      BY <3>2, <3>3 DEF URL, Saveable
  <2>5. bookmarks' = Saveable(mem', MAXHISTORY, MAXBOOKMARKS)
    <3> DEFINE n == IF file.bookmarksitems <= MAXBOOKMARKS THEN file.bookmarksitems ELSE MAXBOOKMARKS
    <3>0. /\ n \in 0 .. MAXBOOKMARKS
          /\ \A j \in 0 .. MAXBOOKMARKS - 1 : j < n <=> j < file.bookmarksitems
      BY <2>3, HistoryCells
    <3> HIDE DEF n
    <3>1. Ends(mem', MAXHISTORY, MAXBOOKMARKS, n)
      <4>1. ASSUME NEW i \in 0 .. n - 1 PROVE mem'[MAXHISTORY + i].uri # 0
        <5>1. i \in 0 .. MAXBOOKMARKS - 1 /\ i < n
          BY <3>0, HistoryCells
        <5>2. i \in 0 .. file.bookmarksitems - 1 /\ i < file.bookmarksitems
          BY <2>3, <3>0, <5>1
        <5> QED
          BY <2>1, <2>2, <5>1, <5>2 DEF FileAddressed, Book
      <4>2. ASSUME n # MAXBOOKMARKS PROVE mem'[MAXHISTORY + n].uri = 0
        <5>1. n \in 0 .. MAXBOOKMARKS - 1 /\ ~(n < n)
          BY <3>0, <4>2, HistoryCells
        <5> QED
          BY <2>1, <2>2, <3>0, <5>1 DEF Book
      <4> QED
        BY <3>0, <4>1, <4>2 DEF Ends
    <3>2. ItemCount(mem', MAXHISTORY, MAXBOOKMARKS) = n
      BY <3>1, EndUnique, HistoryCells
    <3>3. ASSUME NEW j \in 0 .. MAXBOOKMARKS - 1
          PROVE  mem'[Book(j)] = IF j < n THEN mem'[MAXHISTORY + j] ELSE Empty
      BY <2>1, <3>0 DEF Book
    <3>4. \A j : Book(j)' = Book(j)
      BY DEF Book
    <3> QED
      BY <3>2, <3>3, <3>4 DEF bookmarks, Saveable
  <2> QED
    BY <2>4, <2>5
<1>2. FileInv /\ [PrefsNext]_prefsVars
        => [phase # "running" /\ phase' = "running" =>
              /\ URL' = Saveable(mem', 0, MAXHISTORY)
              /\ bookmarks' = Saveable(mem', MAXHISTORY, MAXBOOKMARKS)]_prefsVars
  BY <1>1
<1> QED
  BY <1>2, FileInvariance, PTL DEF PrefsSpec, RestartStable

-----------------------------------------------------------------------------
(* Types.                                                                  *)

\* The file holds entries.
FileTyped ==
    /\ file.history \in [0 .. MAXHISTORY - 1 -> Entry]
    /\ file.bookmarks \in [BookKeys -> Entry]

\* Every step keeps memory, windows and file typed.
LEMMA PrefsNextTyped ==
    ASSUME StoreInv, FileInv, FileTyped, [PrefsNext]_prefsVars
    PROVE  StoreInv' /\ FileTyped'
<1>1. ASSUME vars' = vars PROVE StoreInv'
  <2>1. [Next]_vars
    BY <1>1
  <2> QED
    BY <2>1, NextStore
<1>2. ASSUME file' = file PROVE FileTyped'
  BY <1>2 DEF FileTyped
<1>3. CASE Use
  BY <1>2, <1>3, NextStore DEF Use
<1>4. CASE SaveHistory
  <2>1. PICK n : file' = [file EXCEPT
                    !.historyitems = n,
                    !.history = [i \in DOMAIN @ |-> IF i < n THEN mem[i] ELSE @[i]]]
    BY <1>4 DEF SaveHistory
  <2>2. DOMAIN file.history = 0 .. MAXHISTORY - 1
    BY DEF FileTyped
  <2>3. file' = [historyitems |-> n,
                 history |-> [i \in 0 .. MAXHISTORY - 1 |-> IF i < n THEN mem[i] ELSE file.history[i]],
                 bookmarksitems |-> file.bookmarksitems, bookmarks |-> file.bookmarks]
    BY <2>1, <2>2 DEF FileInv, FileShape
  <2>4. \A i \in 0 .. MAXHISTORY - 1 : mem[i] \in Entry
    BY HistoryCells DEF StoreInv
  <2>5. /\ file'.history = [i \in 0 .. MAXHISTORY - 1 |-> IF i < n THEN mem[i] ELSE file.history[i]]
        /\ file'.bookmarks = file.bookmarks
    BY <2>3
  <2>6. FileTyped'
    BY <2>4, <2>5 DEF FileTyped
  <2> QED
    BY <1>1, <1>4, <2>6 DEF SaveHistory
<1>5. CASE SaveBookmarks
  <2>1. PICK n : file' = [file EXCEPT
                    !.bookmarksitems = n,
                    !.bookmarks = [i \in DOMAIN @ |-> IF i < n THEN mem[Book(i)] ELSE @[i]]]
    BY <1>5 DEF SaveBookmarks
  <2>2. DOMAIN file.bookmarks = BookKeys
    BY DEF FileTyped
  <2>3. file' = [historyitems |-> file.historyitems, history |-> file.history,
                 bookmarksitems |-> n,
                 bookmarks |-> [i \in BookKeys |-> IF i < n THEN mem[Book(i)] ELSE file.bookmarks[i]]]
    BY <2>1, <2>2 DEF FileInv, FileShape
  <2>4. \A i \in BookKeys : Book(i) \in Cells
    BY HistoryCells DEF BookKeys, Book, Cells
  <2>5. \A i \in BookKeys : mem[Book(i)] \in Entry
    BY <2>4 DEF StoreInv
  <2>6. /\ file'.bookmarks = [i \in BookKeys |-> IF i < n THEN mem[Book(i)] ELSE file.bookmarks[i]]
        /\ file'.history = file.history
    BY <2>3
  <2>7. FileTyped'
    BY <2>5, <2>6 DEF FileTyped
  <2> QED
    BY <1>1, <1>5, <2>7 DEF SaveBookmarks
<1>6. CASE Crash
  <2>1. vars' = vars /\ file' = file
    BY <1>6 DEF Crash
  <2> QED
    BY <1>1, <1>2, <2>1
<1>7. CASE Start
  <2>1. PICK junk \in Pages \cup {Empty} :
          mem' = [c \in Cells |->
             IF c < MAXHISTORY
             THEN IF c < file.historyitems THEN file.history[c] ELSE Empty
             ELSE IF c - MAXHISTORY < file.bookmarksitems
             THEN file.bookmarks[c - MAXHISTORY]
             ELSE IF c = Book(MAXBOOKMARKS) THEN junk ELSE Empty]
    BY <1>7 DEF Start
  <2>2. Empty \in Entry /\ junk \in Entry
    BY TextsAssumption DEF Empty, Entry
  <2>3. \A c \in Cells : c < MAXHISTORY => c \in 0 .. MAXHISTORY - 1
    BY HistoryCells DEF Cells
  <2>4. \A c \in Cells : ~(c < MAXHISTORY) => c - MAXHISTORY \in BookKeys
    BY HistoryCells DEF Cells, BookKeys
  <2>5. \A c \in Cells : c < MAXHISTORY => file.history[c] \in Entry
    BY <2>3 DEF FileTyped
  <2>6. \A c \in Cells : ~(c < MAXHISTORY) => file.bookmarks[c - MAXHISTORY] \in Entry
    BY <2>4 DEF FileTyped
  <2>7. mem' \in [Cells -> Entry]
    BY <2>1, <2>2, <2>5, <2>6
  <2>8. << >> \in Seq(Entry) /\ Len(<< >>) = 0
    OBVIOUS
  <2>9. StoreInv'
    BY <1>7, <2>7, <2>8, SizesAssumption DEF Start, StoreInv
  <2> QED
    BY <1>2, <1>7, <2>9 DEF Start
<1>8. CASE UNCHANGED prefsVars
  <2>1. vars' = vars /\ file' = file
    BY <1>8 DEF prefsVars
  <2> QED
    BY <1>1, <1>2, <2>1
<1> QED
  BY <1>3, <1>4, <1>5, <1>6, <1>7, <1>8 DEF PrefsNext

\* The type invariant across sessions, crashes and restarts: the counts in the
\* file never exceed the keys that are read back into the arrays.
THEOREM PrefsTypeCorrect == PrefsSpec => []PrefsTypeOK
<1>1. PrefsInit => StoreInv /\ FileTyped
  <2> SUFFICES ASSUME PrefsInit PROVE StoreInv /\ FileTyped
    OBVIOUS
  <2>1. Empty \in Entry
    BY DEF Empty, Entry
  <2>2. FileTyped
    BY <2>1 DEF PrefsInit, FileTyped
  <2> QED
    BY <2>2, InitStore DEF PrefsInit
<1>2. FileInv /\ (StoreInv /\ FileTyped) /\ [PrefsNext]_prefsVars => (StoreInv /\ FileTyped)'
  BY PrefsNextTyped
<1>3. FileInv /\ (StoreInv /\ FileTyped) => PrefsTypeOK
  BY LenProperties DEF FileInv, FileShape, StoreInv, FileTyped, PrefsTypeOK, TypeOK
<1> QED
  BY <1>1, <1>2, <1>3, FileInvariance, PTL DEF PrefsSpec
====
