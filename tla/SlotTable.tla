----------------------------- MODULE SlotTable -----------------------------
(***************************************************************************)
(* One table of ids with its allocation loop, as buffer_manager,           *)
(* client_manager and graph_manager each have one.  The loop is written    *)
(* out here, slot by slot, to check the closed form of Slots, on which     *)
(* ClientRegistry builds: what a row of allocations without a free in      *)
(* between takes, and what its ignored out-parameters hold.                *)
(* Calls on one table do not overlap: they are made by request handlers,   *)
(* one at a time (OneRequestAtATime of RequestChannel).                    *)
(***************************************************************************)
EXTENDS Slots, Sequences

CONSTANTS
  Max,        \* the size of the array
  MaxBurst    \* bound of the model: allocations in a row that are recorded

ASSUME SlotTableAssumption == Max \in Nat /\ MaxBurst \in Nat \ {0}

VARIABLES
  active,     \* the ids that are taken
  buf,        \* the slot that the loop of a call has come to, or NoCall
  base,       \* history: the ids that were taken when the row began
  outs        \* history: the out-parameters of the row so far

vars == <<active, buf, base, outs>>

NoCall == -1

Init ==
  /\ active = {}
  /\ buf = NoCall
  /\ base = {}
  /\ outs = << >>

\* A slip in the test of a slot: taken as long as one above it is.
BadIsTaken(id) == \E j \in active : j >= id

IsTaken(id) == id \in active

Call ==
  /\ buf = NoCall
  /\ Len(outs) < MaxBurst
  /\ buf' = 0
  /\ UNCHANGED <<active, base, outs>>

\* One turn of the loop that does not break.
Skip ==
  /\ buf # NoCall
  /\ buf < Max /\ IsTaken(buf)
  /\ buf' = buf + 1
  /\ UNCHANGED <<active, base, outs>>

\* The test after the loop left out: the id past the end is marked too.
BadReturn ==
  /\ buf # NoCall
  /\ buf >= Max \/ ~IsTaken(buf)
  /\ active' = active \cup {buf}
  /\ outs' = Append(outs, buf)
  /\ buf' = NoCall
  /\ UNCHANGED base

\* After the loop.  The out-parameter is the variable of the loop itself, and
\* keeps its value when the call fails.
Return ==
  /\ buf # NoCall
  /\ buf >= Max \/ ~IsTaken(buf)
  /\ active' = IF buf >= Max THEN active ELSE active \cup {buf}
  /\ outs' = Append(outs, buf)
  /\ buf' = NoCall
  /\ UNCHANGED base

\* free_buffer, free_ref and free_port do nothing for an id that is not
\* taken.  A free ends the row of allocations.
Free(id) ==
  /\ buf = NoCall
  /\ IsTaken(id)
  /\ active' = active \ {id}
  /\ base' = active'
  /\ outs' = << >>
  /\ UNCHANGED buf

Next == Call \/ Skip \/ Return \/ \E id \in 0 .. Max - 1 : Free(id)

Spec == Init /\ [][Next]_vars

-----------------------------------------------------------------------------
\* Only ids inside the array are ever marked: the loop does not write past
\* its end, whatever it leaves in the out-parameter.
TypeOK ==
  /\ active \subseteq 0 .. Max - 1
  /\ buf \in {NoCall} \cup 0 .. Max
  /\ base \subseteq active
  /\ outs \in Seq(0 .. Max)

\* A row of calls takes the lowest free ids in increasing order and, once
\* the table is full, leaves Max in every further out-parameter: the closed
\* form that stands for the loops in add_client.
RowTakesLowest ==
  /\ active = base \cup Take(base, Max, Len(outs))
  /\ \A k \in 1 .. Len(outs) : outs[k] = Nth(base, Max, k - 1)

=============================================================================
