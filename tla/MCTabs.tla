---- MODULE MCTabs ----
(***************************************************************************)
(* Instance of Tabs for TLC: room for three numbered tabs and the cell     *)
(* behind the arrays, one spare address more than tabs can be alive, so    *)
(* that a new tab may or may not get the address of a closed one; one page *)
(* title is "+", like the label of the last tab.                           *)
(***************************************************************************)
EXTENDS Tabs, TLC

CONSTANTS a1, a2, a3, a4, a5

MCAddr == {a1, a2, a3, a4, a5}

AddrSymmetry == Permutations(MCAddr)
====
