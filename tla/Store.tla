---- MODULE Store ----
(***************************************************************************)
(* History and bookmarks of NetRider (class GUI, Tools/netrider): the two  *)
(* arrays URL[MAXHISTORY] and bookmarks[MAXBOOKMARKS], and the bookmark    *)
(* windows that show a copy of the bookmarks.                              *)
(*                                                                         *)
(* The arrays are adjacent members of class GUI, and three handlers index  *)
(* them with -1 or MAXBOOKMARKS.  They are therefore one piece of memory   *)
(* here: cell i < MAXHISTORY is URL[i], cell MAXHISTORY + j is             *)
(* bookmarks[j], and one more cell stands for the bytes behind the array.  *)
(*                                                                         *)
(* A text is a number, 0 is the empty one; the order of numbers is the     *)
(* order strcmp gives the lines that begin with them.                      *)
(***************************************************************************)
EXTENDS Integers, Sequences, SequencesExt

CONSTANTS
    MAXHISTORY,     \* size of GUI::URL
    MAXBOOKMARKS,   \* size of GUI::bookmarks
    Visits,         \* the titles that arrive, each with the address that the
                    \* page in the current tab has then
    Pages,          \* the pages and links bookmarked, the texts of the dialog
    Windows,        \* the bookmark windows that may be open at a time
    MAXEDITS        \* bound: edit dialogs of one window open at a time

ASSUME SizesAssumption ==
    /\ MAXHISTORY \in Nat /\ MAXHISTORY >= 2
    /\ MAXBOOKMARKS \in Nat /\ MAXBOOKMARKS >= 2
    /\ MAXEDITS \in Nat

Entry == [name : Nat, uri : Nat]

Empty == [name |-> 0, uri |-> 0]

ASSUME TextsAssumption == Visits \subseteq Entry /\ Pages \subseteq Entry

VARIABLES
    mem,    \* URL, bookmarks and the cell behind them
    open,   \* the bookmark windows on the screen
    rows,   \* the lines of the Fl_Browser of each window
    sel,    \* Fl_Browser::value(): the selected line, 0 is none
    edit    \* the number of edit dialogs opened from each window

vars == <<mem, open, rows, sel, edit>>

windowVars == <<open, rows, sel, edit>>

Cells == 0 .. MAXHISTORY + MAXBOOKMARKS

\* The cell of bookmarks[j]; bookmarks[-1] is URL[MAXHISTORY - 1].
Book(j) == MAXHISTORY + j

URL == [i \in 0 .. MAXHISTORY - 1 |-> mem[i]]

bookmarks == [j \in 0 .. MAXBOOKMARKS - 1 |-> mem[Book(j)]]

TypeOK ==
    /\ mem \in [Cells -> Entry]
    /\ open \subseteq Windows
    /\ edit \in [Windows -> 0 .. MAXEDITS]
    /\ \A w \in Windows :
         /\ rows[w] \in Seq(Entry) /\ Len(rows[w]) <= MAXBOOKMARKS
         /\ sel[w] \in 0 .. Len(rows[w])

\* GUI::GUI clears both arrays; the bytes behind them are not initialised.
Init ==
    /\ \E junk \in Pages \cup {Empty} :
         mem = [c \in Cells |-> IF c = Book(MAXBOOKMARKS) THEN junk ELSE Empty]
    /\ open = {}
    /\ rows = [w \in Windows |-> << >>]
    /\ sel = [w \in Windows |-> 0]
    /\ edit = [w \in Windows |-> 0]

-----------------------------------------------------------------------------
(* Operations on the memory.                                               *)

\* `push entries down and write new entry into 0 item' of an array of n
\* entries that starts in cell base.
PushDown(m, base, n, e) ==
    [c \in Cells |-> IF c \notin base .. base + n - 1 THEN m[c]
                     ELSE IF c = base THEN e ELSE m[c - 1]]

\* Mutant of PushUp: starts one entry too late.
PushUp_Late(m, j) ==
    [c \in Cells |-> IF c = Book(MAXBOOKMARKS) THEN Empty
                     ELSE IF c \in Book(j + 1) .. Book(MAXBOOKMARKS - 2) THEN m[c + 1]
                     ELSE m[c]]

\* `push entries up starting with deleted entry', and the write behind the
\* last entry; j = -1 when no line is selected.
PushUp(m, j) ==
    [c \in Cells |-> IF c = Book(MAXBOOKMARKS) THEN Empty
                     ELSE IF c \in Book(j) .. Book(MAXBOOKMARKS - 2) THEN m[c + 1]
                     ELSE m[c]]

\* Mutant of ReceiveTitle: the newest entry is not compared.
ReceiveTitle_Always(visit) ==
    /\ mem' = PushDown(mem, 0, MAXHISTORY, visit)
    /\ UNCHANGED windowVars

\* The history part of didReceiveTitleForFrame.
ReceiveTitle(visit) ==
    /\ mem' = IF mem[0].name # visit.name
              THEN PushDown(mem, 0, MAXHISTORY, visit)
              ELSE mem
    /\ UNCHANGED windowVars

\* cb_add_bookmark, from the menu (the page of the current tab) or for a link.
AddBookmark(e) ==
    /\ mem' = PushDown(mem, MAXHISTORY, MAXBOOKMARKS, e)
    /\ UNCHANGED windowVars

-----------------------------------------------------------------------------
(* Bookmark windows.                                                       *)

\* The entries cb_bookmarks lists: up to the first one without any text.
Listed ==
    LET n == CHOOSE n \in 0 .. MAXBOOKMARKS :
               /\ \A j \in 0 .. n - 1 : bookmarks[j] # Empty
               /\ n = MAXBOOKMARKS \/ bookmarks[n] = Empty
    IN  [k \in 1 .. n |-> bookmarks[k - 1]]

\* cb_bookmarks: every call builds a window of its own.
OpenWindow(w) ==
    /\ w \notin open /\ edit[w] = 0
    /\ open' = open \cup {w}
    /\ rows' = [rows EXCEPT ![w] = Listed]
    /\ sel' = [sel EXCEPT ![w] = 0]
    /\ UNCHANGED <<mem, edit>>

\* The user selects a line of the Fl_Browser; 0: a click below the lines.
SelectLine(w, k) ==
    /\ w \in open
    /\ k \in 0 .. Len(rows[w])
    /\ sel' = [sel EXCEPT ![w] = k]
    /\ UNCHANGED <<mem, open, rows, edit>>

\* cb_close_bookmark, and bookmarks_cb, which hides the window and loads the
\* selected page.
CloseWindow(w) ==
    /\ w \in open
    /\ open' = open \ {w}
    /\ UNCHANGED <<mem, rows, sel, edit>>

\* cb_edit_bookmark: a dialog with the texts of the selected line.
OpenEdit(w) ==
    /\ w \in open
    /\ sel[w] # 0
    /\ edit[w] < MAXEDITS
    /\ edit' = [edit EXCEPT ![w] = @ + 1]
    /\ UNCHANGED <<mem, open, rows, sel>>

\* cb_edittext_book: the selection is read again when Save is pressed, and
\* Fl_Browser::text ignores line 0.
SaveEdit(w, e) ==
    /\ edit[w] > 0
    /\ mem' = [mem EXCEPT ![Book(sel[w] - 1)] = e]
    /\ rows' = IF sel[w] = 0 THEN rows ELSE [rows EXCEPT ![w][sel[w]] = e]
    /\ edit' = [edit EXCEPT ![w] = @ - 1]
    /\ UNCHANGED <<open, sel>>

\* cb_editquit_book.
CloseEdit(w) ==
    /\ edit[w] > 0
    /\ edit' = [edit EXCEPT ![w] = @ - 1]
    /\ UNCHANGED <<mem, open, rows, sel>>

\* Mutant of DeleteBookmark: the selection survives the removed line.
DeleteBookmark_KeepsSelection(w) ==
    /\ w \in open
    /\ mem' = PushUp(mem, sel[w] - 1)
    /\ rows' = IF sel[w] = 0 THEN rows
               ELSE [rows EXCEPT ![w] = RemoveAt(rows[w], sel[w])]
    /\ UNCHANGED <<open, sel, edit>>

\* cb_delete_bookmark: Fl_Browser::remove ignores line 0, and the selection is
\* gone with the removed line.
DeleteBookmark(w) ==
    /\ w \in open
    /\ mem' = PushUp(mem, sel[w] - 1)
    /\ rows' = IF sel[w] = 0 THEN rows
               ELSE [rows EXCEPT ![w] = RemoveAt(rows[w], sel[w])]
    /\ sel' = [sel EXCEPT ![w] = 0]
    /\ UNCHANGED <<open, edit>>

\* strcmp(a, b) > 0 for two lines `name<bar>uri': the bar is character 204, so
\* a line without a name comes last.
After(a, b) ==
    \/ a.name = 0 /\ b.name # 0
    \/ a.name > b.name /\ b.name # 0
    \/ a.name = b.name /\ a.uri > b.uri

\* Exchange lines t and r if they are out of order.
CompareSwap(s, t, r) ==
    IF After(s[t], s[r]) THEN [s EXCEPT ![t] = s[r], ![r] = s[t]] ELSE s

\* The inner loop of cb_sort_bookmark, for r = t + 1 .. size().
Pass(s, t) ==
    LET upTo[r \in 0 .. Len(s)] == IF r <= t THEN s ELSE CompareSwap(upTo[r - 1], t, r)
    IN  upTo[Len(s)]

\* Mutant of ExchangeSort: a single pass over neighbours.
ExchangeSort_OnePass(s) ==
    LET upTo[r \in 0 .. Len(s)] == IF r <= 1 THEN s ELSE CompareSwap(upTo[r - 1], r - 1, r)
    IN  upTo[Len(s)]

\* The outer loop, over the lines t of the window.
ExchangeSort(s) ==
    LET upTo[t \in 0 .. Len(s)] == IF t = 0 THEN s ELSE Pass(upTo[t - 1], t)
    IN  upTo[Len(s)]

\* Lines i = 1 .. MAXBOOKMARKS - 1 are written to the array.
WriteRows(m, s) ==
    [c \in Cells |-> IF c \in Book(0) .. Book(MAXBOOKMARKS - 2) /\ c - Book(0) < Len(s)
                     THEN s[c - Book(0) + 1] ELSE m[c]]

\* cb_sort_bookmark.
SortBookmarks(w) ==
    /\ w \in open
    /\ rows' = [rows EXCEPT ![w] = ExchangeSort(rows[w])]
    /\ mem' = WriteRows(mem, rows'[w])
    /\ UNCHANGED <<open, sel, edit>>

-----------------------------------------------------------------------------
Next ==
    \/ \E visit \in Visits : ReceiveTitle(visit)
    \/ \E e \in Pages : AddBookmark(e)
    \/ \E w \in Windows :
         \/ OpenWindow(w)
         \/ \E k \in 0 .. MAXBOOKMARKS : SelectLine(w, k)
         \/ CloseWindow(w)
         \/ OpenEdit(w)
         \/ \E e \in Pages : SaveEdit(w, e)
         \/ CloseEdit(w)
         \/ DeleteBookmark(w)
         \/ SortBookmarks(w)

Spec == Init /\ [][Next]_vars

-----------------------------------------------------------------------------
(* Properties.                                                             *)

\* The history never shows one title twice in a row, although only the newest
\* entry is compared and titles arrive in any order; only the oldest entry may
\* differ, because an edit or a delete without a selected line writes to it.
NoAdjacentTwins ==
    \A i \in 0 .. MAXHISTORY - 3 :
        URL[i].name = URL[i + 1].name => URL[i] = Empty /\ URL[i + 1] = Empty

\* The lines of window w are the first bookmarks, in order.
InSync(w) == \A k \in 1 .. Len(rows[w]) : rows[w][k] = bookmarks[k - 1]

\* The lines from line k on are the bookmarks that many places before them.
Trails(w, k, places) == \A i \in k .. Len(rows[w]) : rows[w][i] = bookmarks[i - places]

\* Line k is bookmarks[k - 1]: Save, Delete and Sort of a bookmark window rely on
\* it, and a window that agrees with the array still agrees after Save (which
\* without a selected line writes to the history) and after Delete of the selected
\* line, in a full list too.  Sort of a full list leaves out its last line, and
\* Delete without a selected line takes bookmarks[0] away and leaves the lines: the
\* window is then exactly one line off.
InSyncKept ==
    [][\A w \in open : InSync(w) =>
         /\ (\E e \in Pages : SaveEdit(w, e)) => InSync(w)'
         /\ DeleteBookmark(w) => IF sel[w] # 0 THEN InSync(w)' ELSE Trails(w, 2, 2)'
         /\ SortBookmarks(w) => \A k \in 1 .. Len(rows'[w]) :
                                  k < MAXBOOKMARKS => rows'[w][k] = bookmarks'[k - 1]]_vars

\* The sort loops of cb_sort_bookmark, on every list a window can hold (equal
\* lines and lines without a name included), leave the lines in order and
\* neither lose nor duplicate one.
SortCorrect ==
    \A w \in open :
        LET s == ExchangeSort(rows[w])
            Count(t, e) == Cardinality({k \in DOMAIN t : t[k] = e})
        IN  /\ Len(s) = Len(rows[w])
            /\ \A i, j \in 1 .. Len(s) : i < j => ~After(s[i], s[j])
            /\ \A e \in ToSet(s) \cup ToSet(rows[w]) : Count(s, e) = Count(rows[w], e)

-----------------------------------------------------------------------------
(* What the comments say, and the code does not do.                        *)

\* `push entries up starting with deleted entry and clear last entry': the last
\* bookmark is empty once a line has been deleted.
LastEntryCleared ==
    [][\A w \in open : Len(rows'[w]) < Len(rows[w]) /\ w \in open'
         => bookmarks'[MAXBOOKMARKS - 1] = Empty]_vars
====
