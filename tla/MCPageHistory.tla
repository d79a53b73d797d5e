---- MODULE MCPageHistory ----
(***************************************************************************)
(* Four identifiers, as the web process generates them, and a list of two: *)
(* items are tossed at both ends, and a second process continues the       *)
(* numbering of the first.                                                 *)
(***************************************************************************)
EXTENDS PageHistory

MCItemID == {3, 5, 7, 9}
====
