------------------------------ MODULE Candidate ------------------------------
(***************************************************************************)
(* A candidate torrent from its submissions to its verdict (candidate.rs,  *)
(* candidate_workflow.rs).  The same bytes are one candidate, whoever      *)
(* submits them; under each policy (configuration, dry run) they are one   *)
(* task, whose workflow evaluates the candidate against the local sources. *)
(* While nothing matches and sources are still coming, the workflow waits: *)
(* for a completion signal, which may be lost, or a timer, up to a         *)
(* deadline counted from the candidate's first submission.                 *)
(*                                                                         *)
(* The workflow of one policy is modelled in detail; the tasks of the      *)
(* others touch it through the stored plans and the requested manifests.   *)
(* Time is the candidate's age.  The matcher is Matching; here a source    *)
(* has a verdict of its own.  The state column of the candidate, which     *)
(* every task writes and nothing reads, is left out.                       *)
(***************************************************************************)
EXTENDS Integers, FiniteSets

CONSTANTS
    Policy, OtherPolicies, DryRun,  \* DryRun: the policies that stop at the plan
    Deadline,                       \* pending_source_timeout of Policy
    Interval,                       \* RECONCILE_INTERVAL
    Sources, VerdictOf,             \* [Sources -> "same", "match", "none"]
    InitialSources,                 \* what the inventory may hold at the first submission
    FileBudget, FilesOf,            \* the matcher's budget, and what a source takes of it
    None,
    MaxAge, MaxSubmissions, MaxFaults   \* bounds of the model

\* Times are whole ticks, and the inventory has a state for every source.
ASSUME CandidateAssumption ==
    /\ Deadline \in Int /\ Interval \in Int
    /\ \A f \in InitialSources : f = [s \in Sources |-> f[s]]

VARIABLES
    age, submissions, faults,
    task,       \* the state of the policy's task, "none" before it is accepted
    source,     \* [Sources -> "absent", "downloading", "unloaded", "stale", "loaded"]
    waiting,    \* sporos_waiting_source: what the task waits for
    plans,      \* stored plans: their match and state
    report,     \* completions that are not signalled yet
    instance,   \* the workflow: [at, wake, event, plan]
    exec,       \* the running evaluation: [pc, now, rows, lost, result]
    overdue     \* matching sources loaded when the deadline passed, and ever since

vars == <<age, submissions, faults, task, source, waiting, plans, report, instance, exec, overdue>>

Idle == [pc |-> "idle", now |-> 0, rows |-> None, lost |-> {}, result |-> None]

Result(outcome, sources) == [outcome |-> outcome, sources |-> sources]

Matching == {s \in Sources : source[s] = "loaded" /\ VerdictOf[s] = "match"}

(***************************************************************************)
(* Verdicts and plans.                                                     *)
(***************************************************************************)
TerminalState(policy, outcome) ==
    CASE outcome = "match" -> IF policy \in DryRun THEN "dry_run_complete" ELSE "planned"
      [] outcome = "already_present" -> "already_present"
      [] outcome \in {"no_match", "timeout", "budget"} -> "rejected"

\* Faulty variant: the match is named after the candidate and the decision alone.
MatchIdOfDecision(policy, sources) == [policy |-> None, sources |-> sources]

MatchId(policy, sources) == [policy |-> policy, sources |-> sources]

\* A plan that is there already is kept.  Its category and tags, which name it as well, are
\* not told apart.
PersistPlan(policy, sources) ==
    LET id == MatchId(policy, sources)
    IN  IF \E plan \in plans : plan.match = id THEN plans
        ELSE plans \cup {[match |-> id, state |-> TerminalState(policy, "match")]}

(***************************************************************************)
(* CandidateIngress::accept, one transaction.  A submission that is not a  *)
(* torrent, or is over a limit, leaves nothing behind; one that is known   *)
(* adds its provenance only.                                               *)
(***************************************************************************)
Submit ==
    /\ submissions < MaxSubmissions
    /\ submissions' = submissions + 1
    /\ IF task = "none"
       THEN /\ task' = "queued"
            /\ instance' = [instance EXCEPT !.at = "activity"]
            /\ overdue' = IF age >= Deadline THEN Matching ELSE {}
       ELSE UNCHANGED <<task, instance, overdue>>
    /\ UNCHANGED <<age, faults, source, waiting, plans, report, exec>>

\* A submission under another policy, and the plan that its task may come to.
SubmitOther(policy) ==
    /\ submissions < MaxSubmissions
    /\ submissions' = submissions + 1
    /\ plans' \in {plans} \cup {PersistPlan(policy, {s}) : s \in Matching}
    /\ UNCHANGED <<age, faults, task, source, waiting, report, instance, exec, overdue>>

(***************************************************************************)
(* evaluate_candidate.                                                     *)
(***************************************************************************)
Begin ==
    /\ instance.at = "activity"
    /\ exec.pc = "idle"
    /\ exec' = [exec EXCEPT !.pc = "rows", !.now = age]
    /\ UNCHANGED <<age, submissions, faults, task, source, waiting, plans, report, instance, overdue>>

OverBudget(rows) ==
    Cardinality({s \in Sources : rows[s] = "loaded" /\ VerdictOf[s] # "same"}) * FilesOf > FileBudget

\* The sources' rows; too many files end the evaluation.  Sources are those that the query
\* returns: what it leaves out beyond MAX_PLAUSIBLE_SOURCES is up to SourceFacts.
ReadRows ==
    /\ exec.pc = "rows"
    /\ exec' = IF OverBudget(source) THEN [Idle EXCEPT !.pc = "persist", !.result = Result("budget", {})]
               ELSE [exec EXCEPT !.pc = "files", !.rows = source]
    /\ UNCHANGED <<age, submissions, faults, task, source, waiting, plans, report, instance, overdue>>

\* The files of a version that was replaced since the row was read are not found.
Judged ==
    {s \in Sources \ exec.lost : \/ exec.rows[s] = "loaded"
                                 \/ exec.rows[s] \in {"unloaded", "stale"} /\ VerdictOf[s] = "same"}

Awaited ==
    {s \in Sources : \/ exec.rows[s] = "downloading"
                     \/ exec.rows[s] \in {"unloaded", "stale"} /\ VerdictOf[s] # "same"}

Decision(judged) ==
    LET of(verdict) == {s \in judged : VerdictOf[s] = verdict}
    IN  IF of("same") # {} THEN Result("already_present", {})
        ELSE IF of("match") # {} THEN Result("match", {CHOOSE s \in of("match") : TRUE})
        ELSE Result("no_match", {})

\* Faulty variant: the clock is read after the sources.
EvaluatedAtEnd == age

EvaluatedAt == exec.now

\* The timer ends at the deadline at the latest.
WakeTime == IF exec.now + Interval < Deadline THEN exec.now + Interval ELSE Deadline

\* source_files, the matcher, and request_manifest for what is complete and never loaded.
Judge ==
    LET decision == Decision(Judged)
        result == IF decision.outcome # "no_match" \/ Awaited = {} THEN decision
                  ELSE IF EvaluatedAt < Deadline THEN Result("wait", Awaited)
                  ELSE Result("timeout", {})
    IN  /\ exec.pc = "files"
        /\ source' = [s \in Sources |-> IF exec.rows[s] = "unloaded" /\ s \in Awaited /\ source[s] = "unloaded"
                                        THEN "stale" ELSE source[s]]
        /\ exec' = [Idle EXCEPT !.pc = "persist", !.result = result,
                                !.now = IF result.outcome = "wait" THEN WakeTime ELSE 0]
        /\ UNCHANGED <<age, submissions, faults, task, waiting, plans, report, instance, overdue>>

\* The transaction of persist_waiting or persist_terminal.
Persist ==
    LET result == exec.result
    IN  /\ exec.pc = "persist"
        /\ waiting' = IF result.outcome = "wait" THEN result.sources ELSE {}
        /\ plans' = IF result.outcome = "match" THEN PersistPlan(Policy, result.sources) ELSE plans
        /\ exec' = [exec EXCEPT !.pc = "return"]
        /\ UNCHANGED <<age, submissions, faults, task, source, report, instance, overdue>>

Ended == {"dry_run_complete", "already_present", "rejected"}

\* project_candidate_task, which leaves a task that has ended alone, and the reply.  A plan
\* is handed to the injection; every other verdict ends the workflow.
Return ==
    LET result == exec.result
        state == IF result.outcome = "wait" THEN "waiting_for_source" ELSE TerminalState(Policy, result.outcome)
    IN  /\ exec.pc = "return"
        /\ instance' = CASE state = "waiting_for_source" -> [instance EXCEPT !.at = "waiting", !.wake = exec.now]
                         [] state = "planned" ->
                              [instance EXCEPT !.at = "injecting", !.plan = MatchId(Policy, result.sources)]
                         [] state \in Ended -> [instance EXCEPT !.at = "ended"]
        /\ task' = IF task \in Ended THEN task ELSE state
        /\ exec' = Idle
        /\ UNCHANGED <<age, submissions, faults, source, waiting, plans, report, overdue>>

\* Faulty variant: the workflow waits for the signal alone.
WokenBySignal == instance.event

\* The first of a queued signal and the timer.
Woken == instance.event \/ age >= instance.wake

Wake ==
    /\ instance.at = "waiting"
    /\ Woken
    /\ instance' = [instance EXCEPT !.at = "activity", !.event = FALSE]
    /\ UNCHANGED <<age, submissions, faults, task, source, waiting, plans, report, exec, overdue>>

(***************************************************************************)
(* Sources, signals, time and faults.                                      *)
(***************************************************************************)
\* The inventory's next step for a source: it completes, its manifest is loaded.
Advance(s) ==
    /\ \/ /\ source[s] = "downloading"
          /\ source' = [source EXCEPT ![s] = "stale"]
          /\ report' = report \cup {s}
       \/ /\ source[s] = "stale"
          /\ source' = [source EXCEPT ![s] = "loaded"]
          /\ UNCHANGED report
    /\ UNCHANGED <<age, submissions, faults, task, waiting, plans, instance, exec, overdue>>

\* waiting_candidate_instances
IsWaitingFor(s) == s \in waiting /\ task \notin Ended

\* finish_qbit_report: a task that waits for the source and has not ended is signalled.
Signal(s) ==
    /\ s \in report
    /\ source[s] # "stale"
    /\ report' = report \ {s}
    /\ instance' = [instance EXCEPT !.event = @ \/ IsWaitingFor(s)]
    /\ UNCHANGED <<age, submissions, faults, task, source, waiting, plans, exec, overdue>>

Tick ==
    /\ submissions > 0
    /\ age < MaxAge
    /\ age' = age + 1
    /\ overdue' = IF age' = Deadline THEN Matching ELSE overdue
    /\ UNCHANGED <<submissions, faults, task, source, waiting, plans, report, instance, exec>>

Appear(s) ==
    /\ source[s] = "absent"
    /\ source' = [source EXCEPT ![s] = "downloading"]
    /\ UNCHANGED <<report, exec, overdue>>

Disappear(s) ==
    /\ source[s] # "absent"
    /\ source' = [source EXCEPT ![s] = "absent"]
    /\ overdue' = overdue \ {s}
    /\ UNCHANGED <<report, exec>>

\* The manifest is published anew between the two reads of an evaluation.
Republish(s) ==
    /\ source[s] = "loaded"
    /\ exec.pc = "files"
    /\ exec' = [exec EXCEPT !.lost = @ \cup {s}]
    /\ overdue' = overdue \ {s}
    /\ UNCHANGED <<source, report>>

\* The process dies, and the signals of the report with it.
Crash ==
    /\ exec' = Idle
    /\ report' = {}
    /\ UNCHANGED <<source, overdue>>

\* Faults and changes of the inventory, within one bound.
Fault ==
    /\ faults < MaxFaults
    /\ faults' = faults + 1
    /\ Crash \/ \E s \in Sources : Appear(s) \/ Disappear(s) \/ Republish(s)
    /\ UNCHANGED <<age, submissions, task, waiting, plans, instance>>

Init ==
    /\ age = 0
    /\ submissions = 0
    /\ faults = 0
    /\ task = "none"
    /\ source \in InitialSources
    /\ waiting = {}
    /\ plans = {}
    /\ report = {}
    /\ instance = [at |-> "none", wake |-> 0, event |-> FALSE, plan |-> None]
    /\ exec = Idle
    /\ overdue = {}

Step == Begin \/ ReadRows \/ Judge \/ Persist \/ Return \/ Wake

Next ==
    \/ Submit \/ Step \/ Tick \/ Fault
    \/ \E policy \in OtherPolicies : SubmitOther(policy)
    \/ \E s \in Sources : Advance(s) \/ Signal(s)

\* Time passes and the runtime runs; sources and signals may stay away.
Fairness == WF_vars(Tick) /\ WF_vars(Step)

Spec == Init /\ [][Next]_vars /\ Fairness

(***************************************************************************)
(* Properties.                                                             *)
(***************************************************************************)
\* A candidate is turned down for want of a source only after its deadline, and never when
\* a source that matches was loaded before the deadline passed and has stayed as it was, however
\* long the evaluation takes between its clock and its reads.
TimeoutIsHonest ==
    exec.pc \in {"persist", "return"} =>
        (exec.result.outcome = "timeout" => age >= Deadline /\ overdue = {})

\* What goes on to the injection is a plan of its own policy that is stored as planned: the
\* same torrent submitted as a dry run, before, meanwhile or again, changes nothing of it.
InjectedPlanIsPlanned ==
    instance.at = "injecting" =>
        Policy \notin DryRun /\ [match |-> instance.plan, state |-> "planned"] \in plans

\* An accepted candidate gets its verdict, also when every completion signal is lost and no
\* source ever completes.
CandidateIsDecided == task # "none" ~> instance.at \in {"injecting", "ended"}
=============================================================================
