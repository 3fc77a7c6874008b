---------------------------- MODULE ServiceCalls ----------------------------
(***************************************************************************)
(* What the backend services have in common (src/backend/src/services):    *)
(* a call loads a row, decides on what it loaded, and then updates the row *)
(* by id, whatever it holds by then.  Calls of several requests interleave *)
(* at every database operation.                                            *)
(***************************************************************************)
EXTENDS Naturals, Sequences, FiniteSets

CONSTANTS Calls,        \* bound: calls in progress at a time, per component
          MaxUpdates    \* bound: what a component counts or appends

ASSUME ServiceAssumption == MaxUpdates \in Nat

\* A call has written and ends; what the others in progress loaded is stale now.
\* Every call record has a field overtaken, FALSE in the idle one.
Finish(calls, c, idle) ==
    [d \in Calls |-> IF d = c THEN idle
                     ELSE [calls[d] EXCEPT !.overtaken = calls[d] # idle]]

\* A call ends without having written.
GiveUp(calls, c, idle) == [calls EXCEPT ![c] = idle]
=============================================================================
