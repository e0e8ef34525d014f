--------------------------- MODULE StartDelivery ---------------------------
(***************************************************************************)
(* What the transactional outbox promises to the transactions that write   *)
(* to it and to the workflows behind it: a start that was enqueued is      *)
(* handed to Duroxide at most once or rejected for good, never both, and   *)
(* one of the two happens.                                                 *)
(***************************************************************************)
CONSTANT Starts    \* the orchestration starts that may be enqueued

VARIABLE delivery

TypeOK == delivery \in [Starts -> {"none", "pending", "dispatched", "rejected"}]

Init == delivery = [s \in Starts |-> "none"]

Move(s, from, to) ==
    /\ delivery[s] = from
    /\ delivery' = [delivery EXCEPT ![s] = to]

Enqueue(s) == Move(s, "none", "pending")
Deliver(s) == Move(s, "pending", "dispatched")
Reject(s) == Move(s, "pending", "rejected")

Next == \E s \in Starts : Enqueue(s) \/ Deliver(s) \/ Reject(s)

Spec == Init /\ [][Next]_delivery

\* Every start that was enqueued leaves the outbox.
StartsSettle == \A s \in Starts : (delivery[s] = "pending") ~> (delivery[s] # "pending")
=============================================================================
