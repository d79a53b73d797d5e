---- MODULE MCPrefs ----
(***************************************************************************)
(* Instance of Prefs for TLC: no bookmark window (Windows is empty); a     *)
(* blank page and a page, for the history a title over a blank tab, too.   *)
(***************************************************************************)
EXTENDS Prefs

MCVisits == {[name |-> 1, uri |-> 1], [name |-> 2, uri |-> 0], [name |-> 3, uri |-> 1]}

MCPages == {Empty, [name |-> 1, uri |-> 1], [name |-> 2, uri |-> 1]}
====
