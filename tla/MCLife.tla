-------------------------------- MODULE MCLife --------------------------------
(* Life for TLC.                                                             *)
EXTENDS Life
=============================================================================
