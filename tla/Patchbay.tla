------------------------------ MODULE Patchbay ------------------------------
(***************************************************************************)
(* What the routing server promises, with no tables in sight: a set of     *)
(* clients that are online and a set of patches between their jacks.  A    *)
(* jack is one channel of one client in one direction.  A patch is made    *)
(* only between jacks of online clients, never twice, and disappears       *)
(* exactly when one of the two clients leaves.                             *)
(*                                                                         *)
(* ClientRegistry, which keeps reference numbers, buffer and port tables   *)
(* and connections holding copies of ports, is shown to implement this.    *)
(***************************************************************************)
CONSTANTS
  Clients,    \* what can be online
  Jacks       \* Jacks[c] is the set of the jacks of client c

VARIABLES
  online,     \* the clients that are online
  patches     \* pairs of jacks

vars == <<online, patches>>

OnlineJacks == UNION {Jacks[c] : c \in online}

Init ==
  /\ online = {}
  /\ patches = {}

Join(c) ==
  /\ c \notin online
  /\ online' = online \cup {c}
  /\ UNCHANGED patches

Leave(c) ==
  /\ c \in online
  /\ online' = online \ {c}
  /\ patches' = {p \in patches : p[1] \notin Jacks[c] /\ p[2] \notin Jacks[c]}

Patch(a, b) ==
  /\ a \in OnlineJacks
  /\ b \in OnlineJacks
  /\ <<a, b>> \notin patches
  /\ patches' = patches \cup {<<a, b>>}
  /\ UNCHANGED online

Next ==
  \/ \E c \in Clients : Join(c) \/ Leave(c)
  \/ \E a, b \in OnlineJacks : Patch(a, b)

Spec == Init /\ [][Next]_vars

=============================================================================
