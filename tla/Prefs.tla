---- MODULE Prefs ----
(***************************************************************************)
(* Saving and restoring history and bookmarks: writePrefs at exit,         *)
(* readPrefs at start, over the store of module Store.                     *)
(*                                                                         *)
(* The file netrider.prefs holds, for each of the two lists, a count and   *)
(* numbered keys.  Keys are overwritten and never removed, so a shorter    *)
(* list leaves the keys of a longer one behind it.  FLTK writes the file   *)
(* at each flush and when the Fl_Preferences object dies: once with the    *)
(* history, once more with the bookmarks.                                  *)
(***************************************************************************)
EXTENDS Store

VARIABLES
    file,   \* netrider.prefs
    phase   \* "running", "saving" (the history is on disk, the bookmarks are
            \* not), "exited" after a complete exit, "crashed"

prefsVars == <<vars, file, phase>>

\* The keys of bookmarks: the loop of writePrefs may read the cell behind.
BookKeys == 0 .. MAXBOOKMARKS

PrefsTypeOK ==
    /\ TypeOK
    /\ phase \in {"running", "saving", "exited", "crashed"}
    /\ file.historyitems \in 0 .. MAXHISTORY
    /\ file.history \in [0 .. MAXHISTORY - 1 -> Entry]
    /\ file.bookmarksitems \in 0 .. MAXBOOKMARKS + 1
    /\ file.bookmarks \in [BookKeys -> Entry]

\* First start: a key that is not in the file reads as the empty text.
PrefsInit ==
    /\ Init
    /\ file = [historyitems |-> 0,
               history |-> [i \in 0 .. MAXHISTORY - 1 |-> Empty],
               bookmarksitems |-> 0,
               bookmarks |-> [i \in BookKeys |-> Empty]]
    /\ phase = "running"

-----------------------------------------------------------------------------
\* Mutant of ItemCount: the first entry without an address counts, too.
ItemCount_OneMore(m, base, max) ==
    1 + CHOOSE n \in 0 .. max :
        /\ \A i \in 0 .. n - 1 : m[base + i].uri # 0
        /\ n = max \/ m[base + n].uri = 0

\* The number of entries before the first one without an address, at most max,
\* of the array that starts in cell base of m.
ItemCount(m, base, max) ==
    CHOOSE n \in 0 .. max :
        /\ \A i \in 0 .. n - 1 : m[base + i].uri # 0
        /\ n = max \/ m[base + n].uri = 0

\* Mutant of SaveHistory: entries are counted by their names.
SaveHistory_ByName ==
    /\ phase = "running"
    /\ LET n == CHOOSE n \in 0 .. MAXHISTORY :
                  /\ \A i \in 0 .. n - 1 : mem[i].name # 0
                  /\ n = MAXHISTORY \/ mem[n].name = 0
       IN  file' = [file EXCEPT
             !.historyitems = n,
             !.history = [i \in DOMAIN @ |-> IF i < n THEN mem[i] ELSE @[i]]]
    /\ phase' = "saving"
    /\ UNCHANGED vars

\* writePrefs up to the flush behind the history: cb_exit, or
\* main_exit_handler when the main window is closed.
SaveHistory ==
    /\ phase = "running"
    /\ LET n == ItemCount(mem, 0, MAXHISTORY) IN
         file' = [file EXCEPT
             !.historyitems = n,
             !.history = [i \in DOMAIN @ |-> IF i < n THEN mem[i] ELSE @[i]]]
    /\ phase' = "saving"
    /\ UNCHANGED vars

\* Mutant of SaveBookmarks: the count of a longer list stays in the file.
SaveBookmarks_OldCount ==
    /\ phase = "saving"
    /\ LET n == ItemCount(mem, MAXHISTORY, MAXBOOKMARKS + 1) IN
         file' = [file EXCEPT
             !.bookmarksitems = IF n > @ THEN n ELSE @,
             !.bookmarks = [i \in DOMAIN @ |-> IF i < n THEN mem[Book(i)] ELSE @[i]]]
    /\ phase' = "exited"
    /\ UNCHANGED vars

\* The rest of writePrefs.  Its loop has no bound: it stops at the first entry
\* without an address, at the latest (bound of the model) behind the cell that
\* follows the array.
SaveBookmarks ==
    /\ phase = "saving"
    /\ LET n == ItemCount(mem, MAXHISTORY, MAXBOOKMARKS + 1) IN
         file' = [file EXCEPT
             !.bookmarksitems = n,
             !.bookmarks = [i \in DOMAIN @ |-> IF i < n THEN mem[Book(i)] ELSE @[i]]]
    /\ phase' = "exited"
    /\ UNCHANGED vars

\* The process dies, also in the middle of writePrefs.
Crash ==
    /\ phase \in {"running", "saving"}
    /\ phase' = "crashed"
    /\ UNCHANGED <<vars, file>>

\* Start: GUI::GUI clears the arrays, readPrefs fills them.
Start ==
    /\ phase \in {"exited", "crashed"}
    /\ \E junk \in Pages \cup {Empty} :
         mem' = [c \in Cells |->
             IF c < MAXHISTORY
             THEN IF c < file.historyitems THEN file.history[c] ELSE Empty
             ELSE IF c - MAXHISTORY < file.bookmarksitems
             THEN file.bookmarks[c - MAXHISTORY]
             ELSE IF c = Book(MAXBOOKMARKS) THEN junk ELSE Empty]
    /\ open' = {}
    /\ rows' = [w \in Windows |-> << >>]
    /\ sel' = [w \in Windows |-> 0]
    /\ edit' = [w \in Windows |-> 0]
    /\ phase' = "running"
    /\ UNCHANGED file

\* A step of the running program.
Use == phase = "running" /\ Next /\ UNCHANGED <<file, phase>>

PrefsNext == Use \/ SaveHistory \/ SaveBookmarks \/ Crash \/ Start

PrefsSpec == PrefsInit /\ [][PrefsNext]_prefsVars

-----------------------------------------------------------------------------
(* Properties.                                                             *)

\* The list that starts in cell base, cut at its first entry without address.
Saveable(m, base, max) ==
    [i \in 0 .. max - 1 |-> IF i < ItemCount(m, base, max) THEN m[base + i] ELSE Empty]

\* After a complete exit the next start finds history and bookmarks as they
\* were, cut at the first entry without an address: no key that an earlier,
\* longer list left in the file comes back, and nothing is shifted.
RestoreFaithful ==
    [][phase = "exited" /\ phase' = "running" =>
         /\ URL' = Saveable(mem, 0, MAXHISTORY)
         /\ bookmarks' = Saveable(mem, MAXHISTORY, MAXBOOKMARKS)]_prefsVars

\* What a start reads is what the next exit would write: starting and leaving
\* the program any number of times loses nothing more, also when the process
\* died between the two writes and the file mixes two sessions.
RestartStable ==
    [][phase # "running" /\ phase' = "running" =>
         /\ URL' = Saveable(mem', 0, MAXHISTORY)
         /\ bookmarks' = Saveable(mem', MAXHISTORY, MAXBOOKMARKS)]_prefsVars

\* `save and retrieve configuration data in netrider.prefs file': the bookmarks
\* that have an address are there again after exit and start.
BookmarksRetrieved ==
    [][phase = "exited" /\ phase' = "running" =>
         \A j \in 0 .. MAXBOOKMARKS - 1 :
             bookmarks[j].uri # 0 =>
                 \E k \in 0 .. MAXBOOKMARKS - 1 : bookmarks'[k] = bookmarks[j]]_prefsVars
====
