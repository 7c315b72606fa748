---------------------------- MODULE MCForwarder -----------------------------
(***************************************************************************)
(* Forwarder with three nonces for each name.                              *)
(***************************************************************************)
EXTENDS Forwarder

CONSTANTS n1, n2, n3
=============================================================================
