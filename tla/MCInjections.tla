---------------------------- MODULE MCInjections ----------------------------
(* One instance under several faults, and two instances of one task with the same     *)
(* plan, side by side: a behaviour is one of the two, the other stays where it starts. *)
EXTENDS MCInjection

VARIABLES part, qbit2, links2, good2, inj2, task2, candidate2, wf2, faults2

Two == INSTANCE Injection WITH
        Plans <- {{a, b}}, MaxRuns <- 2, MaxFaults <- 1,
        qbit <- qbit2, links <- links2, good <- good2, inj <- inj2, task <- task2,
        candidate <- candidate2, wf <- wf2, faults <- faults2

vars2 == <<qbit2, links2, good2, inj2, task2, candidate2, wf2, faults2>>

allVars == <<part, vars, vars2>>

AllInit ==
    /\ part \in {"single", "overlapping"}
    /\ Init /\ (part = "overlapping" => good = Files /\ wf[1].plan = {a} /\ ~qbit.present)
    /\ Two!Init /\ (part = "single" => good2 = Files /\ ~qbit2.present)

Single(step) == part = "single" /\ step /\ UNCHANGED <<part, vars2>>

AllNext ==
    \/ Single(Next)
    \/ part = "overlapping" /\ Two!Next /\ UNCHANGED <<part, vars>>

\* FairSpec of the single instance and Spec of the two.
AllSpec ==
    /\ AllInit /\ [][AllNext]_allVars
    /\ \A r \in Runs : /\ WF_allVars(Single(Activity(r)))
                        /\ WF_allVars(Single(Turn(r) \/ DropReply(r)))
                        /\ WF_allVars(Single(Repair(r)))
    /\ WF_allVars(Single(Qbittorrent))

\* Nothing unsafe is started by one instance, nor by two that have the same plan.
NothingUnsafeStartsInEither == NothingUnsafeStarts /\ Two!NothingUnsafeStarts

\* The single instance ends.
SingleInjectionEnds == part = "single" => InjectionEnds
=============================================================================
