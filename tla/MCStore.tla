---- MODULE MCStore ----
(***************************************************************************)
(* Instance of Store for TLC: two titles for the history; a blank page, a  *)
(* page without a title and a page with one for the bookmarks.             *)
(***************************************************************************)
EXTENDS Store

CONSTANTS w1

MCVisits == {[name |-> 1, uri |-> 1], [name |-> 2, uri |-> 1]}

MCPages == {Empty, [name |-> 0, uri |-> 1], [name |-> 1, uri |-> 1]}
====
