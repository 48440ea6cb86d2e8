-------------------------- MODULE MCRequestChannel --------------------------
(***************************************************************************)
(* Two or three clients.  Where all of them may do the same, any two can   *)
(* be exchanged; in SessionsConfig the third one never opens its           *)
(* configuration, and only the first two can.                              *)
(***************************************************************************)
EXTENDS RequestChannel, TLC

CONSTANTS c1, c2, c3

Alike == Permutations(Clients)
AlikeButLast == Permutations({c1, c2})

=============================================================================
