------------------------------- MODULE Slots -------------------------------
(***************************************************************************)
(* The free-id tables of the server.  client_manager, buffer_manager and   *)
(* graph_manager each keep a boolean array (activeRefs, activeBuffers,     *)
(* activePorts) and allocate by the same loop: start at 0, walk up while   *)
(* the slot is taken, fail when the walk reaches the end of the array.     *)
(* A table is modelled by the set of its taken ids.                        *)
(*                                                                         *)
(* add_client calls the loop 2 * MAX_CHANNELS times in a row and ignores   *)
(* its status.  What a row of calls does is given here in closed form, by  *)
(* the rank of an id among the free ones, so that it can be reasoned about *)
(* without recursion; SlotTable checks the closed form against the loop.   *)
(***************************************************************************)
EXTENDS Integers, FiniteSets

FreeIds(active, max) == (0 .. max - 1) \ active

\* The id at which one scan of the array stops, when it finds a free slot.
IsFirstFree(active, id) ==
  /\ id \notin active
  /\ \A j \in 0 .. id - 1 : j \in active

\* How many free ids lie below id.
Rank(active, max, id) == Cardinality({j \in FreeIds(active, max) : j < id})

\* The ids that n calls in a row take: the n lowest free ones, or all of
\* them when fewer are left.
Take(active, max, n) == {id \in FreeIds(active, max) : Rank(active, max, id) < n}

\* What call number k (from 0) of such a row leaves in its out-parameter:
\* the free id of rank k or, when the scan ran off the array, max.
Nth(active, max, k) ==
  IF \E id \in FreeIds(active, max) : Rank(active, max, id) = k
  THEN CHOOSE id \in FreeIds(active, max) : Rank(active, max, id) = k
  ELSE max

\* Lot number r of a table that is cut into lots of equal width.
Lot(width, r) == width * r .. width * r + width - 1
Lots(width, rs) == UNION {Lot(width, r) : r \in rs}

=============================================================================
