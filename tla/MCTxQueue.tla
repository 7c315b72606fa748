----------------------------- MODULE MCTxQueue -----------------------------
(***************************************************************************)
(* TxQueue with two packets, one delay and at most MaxEvents requests.     *)
(***************************************************************************)
EXTENDS TxQueue
=============================================================================
