----------------------------- MODULE MCCanQueue -----------------------------
(* CanQueue for TLC: a ring of a few slots shared by a few threads.          *)
EXTENDS CanQueue
=============================================================================
