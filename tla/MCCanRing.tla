------------------------------ MODULE MCCanRing ------------------------------
(* CanRing on a ring of a few slots, every order of enqueues and dequeues.  *)
EXTENDS CanRing
=============================================================================
