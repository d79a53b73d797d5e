---- MODULE MCBackForwardList ----
(***************************************************************************)
(* Six identifiers and a list of three: the list overflows and branches    *)
(* off repeatedly, with an item on either side of the current one.         *)
(***************************************************************************)
EXTENDS BackForwardList

MCItemID == {3, 5, 7, 9, 11, 13}
====
