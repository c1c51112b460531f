------------------------------ MODULE MCTxPath ------------------------------
(* TxPath for TLC: a few messages, bus-offs and error interrupts.            *)
EXTENDS TxPath
=============================================================================
