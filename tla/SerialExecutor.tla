--------------------------- MODULE SerialExecutor ---------------------------
(***************************************************************************)
(* What DeviceCommandQueue promises its callers, whatever the order it     *)
(* chooses: the ECHONET adapter executes one command at a time, and every  *)
(* call ends in exactly one way, refused on arrival, expired while it was  *)
(* still waiting, or executed and settled by the executor's own outcome.   *)
(***************************************************************************)
CONSTANT Reqs

VARIABLE status

Settled == {"refused", "expired", "resolved", "rejected"}

\* The only ways the promise of one call may evolve.  A call may start in the
\* step that submits it, when the adapter is idle.
Moves == {<<"new", "refused">>, <<"new", "queued">>, <<"new", "running">>,
          <<"queued", "running">>, <<"queued", "expired">>,
          <<"running", "resolved">>, <<"running", "rejected">>}

Begins(r) == status[r] # "running" /\ status'[r] = "running"

Init == status = [r \in Reqs |-> "new"]

Next ==
  /\ \A r \in Reqs : status'[r] = status[r] \/ <<status[r], status'[r]>> \in Moves
  /\ \A r, q \in Reqs : Begins(r) => /\ status[q] # "running"
                                     /\ Begins(q) => q = r

Spec == Init /\ [][Next]_status
=============================================================================
