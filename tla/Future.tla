------------------------------- MODULE Future -------------------------------
(***************************************************************************)
(* What an asynchronous operation promises, without threads, locks or      *)
(* memory: an id is used once; a started future settles at most once, with *)
(* a result that never changes afterwards; the result is handed to one     *)
(* caller, once; what is never awaited is abandoned, not delivered.        *)
(***************************************************************************)
CONSTANTS
  Id,       \* the ids futures are known by
  Result    \* what a future may settle to

VARIABLE future   \* id -> [status, results]: the results are none or the one it has

Unused == [status |-> "unused", results |-> {}]

Pending == [status |-> "pending", results |-> {}]

Abandoned == [status |-> "abandoned", results |-> {}]

Settled(r) == [status |-> "settled", results |-> {r}]

Delivered(r) == [status |-> "delivered", results |-> {r}]

Init == future = [i \in Id |-> Unused]

Start(i) ==
  /\ future[i] = Unused
  /\ future' = [future EXCEPT ![i] = Pending]

Settle(i, r) ==
  /\ future[i] = Pending
  /\ future' = [future EXCEPT ![i] = Settled(r)]

Deliver(i, r) ==
  /\ future[i] = Settled(r)
  /\ future' = [future EXCEPT ![i] = Delivered(r)]

\* An id burnt before it was started, a start that failed, or a manager destroyed
\* before anybody awaited.
Abandon(S) ==
  /\ \A i \in S : future[i].status # "delivered"
  /\ future' = [i \in Id |-> IF i \in S THEN Abandoned ELSE future[i]]

Next ==
  \/ \E i \in Id : Start(i)
  \/ \E i \in Id, r \in Result : Settle(i, r) \/ Deliver(i, r)
  \/ \E S \in SUBSET Id : Abandon(S)

Spec == Init /\ [][Next]_future
=============================================================================
