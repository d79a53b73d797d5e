---- MODULE MCEventLoop ----
(***************************************************************************)
(* The two chains of main and three messages: one asks, one chooses a file *)
(* and one does neither.                                                   *)
(***************************************************************************)
EXTENDS EventLoop

MCChains == {1, 2}
MCFunction == {"data", "confirm", "source"}
MCAsking == {"confirm"}
MCChoosing == {"source"}
====
