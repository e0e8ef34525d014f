------------------------------ MODULE MCOutbox ------------------------------
(* Two overlapping dispatchers, and the single one of the service with more rows and  *)
(* errors, side by side: a behaviour is one of the two, the other stays where it      *)
(* starts.                                                                            *)
EXTENDS Outbox

VARIABLES part, outbox1, started1, run1, clock1, sequence1, failures1

One == INSTANCE Outbox WITH
        Rows <- 1 .. 3, Occupied <- {3}, Dispatchers <- {"d"}, BatchSize <- 2, Lease <- 2,
        InitialBackoff <- 1, MaxBackoff <- 3, MaxFailures <- 2, MaxTime <- 40,
        outbox <- outbox1, started <- started1, run <- run1, clock <- clock1,
        sequence <- sequence1, failures <- failures1

vars1 == <<outbox1, started1, run1, clock1, sequence1, failures1>>

allVars == <<part, vars, vars1>>

AllInit == part \in {"overlapping", "single"} /\ Init /\ One!Init

Single(step) == part = "single" /\ step /\ UNCHANGED <<part, vars>>

AllNext ==
    \/ part = "overlapping" /\ Next /\ UNCHANGED <<part, vars1>>
    \/ Single(One!Next)

\* Spec of the overlapping dispatchers and FairSpec of the single one.
AllSpec ==
    /\ AllInit /\ [][AllNext]_allVars
    /\ WF_allVars(Single(One!Step("d"))) /\ WF_allVars(Single(One!Tick))

\* The single dispatcher: module Outbox.
SingleImplementsDelivery == One!ImplementsDelivery
SingleStartsSettle == One!StartsSettle
=============================================================================
