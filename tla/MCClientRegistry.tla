-------------------------- MODULE MCClientRegistry --------------------------
(***************************************************************************)
(* Three clients of two channels each and at most two connections: enough  *)
(* for a client in the middle to leave and to be replaced, with ids of     *)
(* both neighbours around the hole, and for a connection inside a client,  *)
(* between two, and across the reuse of a reference number.                *)
(***************************************************************************)
EXTENDS ClientRegistry
=============================================================================
