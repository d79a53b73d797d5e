---- MODULE MCDownloads ----
(***************************************************************************)
(* Two tabs and two downloads: one can end while the question about the    *)
(* other is shown.                                                         *)
(***************************************************************************)
EXTENDS Downloads

MCAsking == {m \in Message : m.name = "DidFinish"}
====
