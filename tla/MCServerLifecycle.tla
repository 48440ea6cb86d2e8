-------------------------- MODULE MCServerLifecycle --------------------------
(***************************************************************************)
(* The clients that connect to the server are interchangeable.  What needs *)
(* no looking at together is explored apart.                               *)
(***************************************************************************)
EXTENDS ServerLifecycle, TLC

SessionSymmetry == Permutations(Sessions)

\* Bound: Ctrl-C is followed in a server without clients and without a clock.
CtrlCAlone ==
  "ctrl" \in Callers /\ pc["ctrl"] # "ready" =>
    /\ \A s \in Sessions : session[s] = "none"
    /\ \A t \in Clock!Threads : clockPlace[t] = "none"

\* Bound: ports are connected as long as one of the clients has not come.
ConnectedEarly ==
  found # <<>> \/ connections # {} => \E s \in Sessions : session[s] = "none"

=============================================================================
