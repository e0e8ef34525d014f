--------------------------- MODULE TaskLifecycle ---------------------------
(***************************************************************************)
(* The life of a candidate task: durable ingress, delivery of its start,   *)
(* the Duroxide instance that does the work, the projection of its         *)
(* progress into sporos_task / sporos_task_event, the operator's cancel    *)
(* and retry, the cancellation workflow and the projection repair loop.    *)
(*                                                                         *)
(* Every outbox row is written by the transaction that moves its task to   *)
(* some generation, so <<t, g>> names the orchestration instance whose row *)
(* was written at generation g of task t: "<instance>" for g = 0,          *)
(* "<instance>:retry:g" for a retry, "cancel-task:<t>:g" for a             *)
(* cancellation workflow.                                                  *)
(*                                                                         *)
(* Time enters only through the candidate's waiting deadline.  The outbox  *)
(* is seen through its contract (module StartDelivery): a pending row is   *)
(* delivered once or permanently rejected.                                 *)
(***************************************************************************)
EXTENDS Naturals

CONSTANTS
    Tasks,        \* task identifiers
    MaxGen,       \* bound on projection_generation
    MaxCancels,   \* bound on operator cancellations of a task
    MaxRetries,   \* bound on operator retries of a task
    MaxCrashes    \* bound on process crashes

ASSUME BoundsAreNaturals ==
    /\ MaxGen \in Nat
    /\ MaxCancels \in Nat
    /\ MaxRetries \in Nat
    /\ MaxCrashes \in Nat

Gens == 0 .. MaxGen
Inst == Tasks \X Gens

\* "rejected" stands for every evaluation verdict that ends the workflow
\* (rejected, already_present, dry_run_complete).
EvaluateFinal == {"rejected"}
InjectFinal == {"completed", "failed"}
FinalStates == EvaluateFinal \cup InjectFinal \cup {"cancelled"}
ActiveStates == {"queued", "waiting_for_source", "planned", "cancellation_requested"}
States == ActiveStates \cup FinalStates \cup {"absent"}
Results == {"waiting_for_source", "planned"} \cup EvaluateFinal \cup InjectFinal

VARIABLES
    task,      \* sporos_task rows
    events,    \* sporos_task_event rows of each task: their sequence numbers,
               \* how many were inserted, and the state of the newest
    rows,      \* sporos_outbox rows, by the instance they start
    dx,        \* Duroxide: status of each instance, as its history tells it
    act,       \* the activity of a candidate instance that is in flight
    verdict,   \* what InspectTaskCancellation has read and not yet recorded, or
               \* that it has recorded and its reply is not yet durable
    repair,    \* rows the projection repair loop has read and not yet handled
    expired,   \* tasks whose candidate is past its waiting deadline
    cancels, retries, crashes

vars == <<task, events, rows, dx, act, verdict, repair, expired, cancels, retries, crashes>>
budgets == <<cancels, retries, crashes>>

NoTask == [state |-> "absent", gen |-> 0, inst |-> 0, terminal |-> FALSE]
NoEvents == [seqs |-> {}, count |-> 0, last |-> "absent"]
NoRow == [kind |-> "none", delivery |-> "none", target |-> 0]
NoInstance == [status |-> "none", phase |-> "evaluate", output |-> "none", asked |-> FALSE]
Idle == [pc |-> "idle", result |-> "none", gen |-> 0]
NoSnapshot == [held |-> FALSE, gen |-> 0, inst |-> 0]

TaskRow == [state : States, gen : Gens, inst : Gens, terminal : BOOLEAN]
EventLog == [seqs : SUBSET Gens, count : Nat, last : States]
OutboxRow == [kind : {"none", "work", "cancel"},
              delivery : {"none", "pending", "dispatched", "rejected"},
              target : Gens]
Instance == [status : {"none", "queued", "running", "completed", "failed", "cancelled"},
             phase : {"evaluate", "inject"},
             output : Results \cup {"none"},
             asked : BOOLEAN]
Activity == [pc : {"idle", "ready"}, result : {"none"}, gen : {0}] \cup
            [pc : {"project", "reply"}, result : Results, gen : Gens]
Snapshot == [held : BOOLEAN, gen : Gens, inst : Gens]

\* One type invariant for all the tables.
TypeOK ==
    /\ task \in [Tasks -> TaskRow]
    /\ events \in [Tasks -> EventLog]
    /\ rows \in [Inst -> OutboxRow]
    /\ dx \in [Inst -> Instance]
    /\ act \in [Inst -> Activity]
    /\ verdict \in [Inst -> FinalStates \cup {"none", "recorded"}]
    /\ repair \in [Tasks -> Snapshot]
    /\ expired \in SUBSET Tasks
    /\ cancels \in [Tasks -> Nat]
    /\ retries \in [Tasks -> Nat]
    /\ crashes \in Nat

Init ==
    /\ task = [t \in Tasks |-> NoTask]
    /\ events = [t \in Tasks |-> NoEvents]
    /\ rows = [i \in Inst |-> NoRow]
    /\ dx = [i \in Inst |-> NoInstance]
    /\ act = [i \in Inst |-> Idle]
    /\ verdict = [i \in Inst |-> "none"]
    /\ repair = [t \in Tasks |-> NoSnapshot]
    /\ expired = {}
    /\ cancels = [t \in Tasks |-> 0]
    /\ retries = [t \in Tasks |-> 0]
    /\ crashes = 0

-----------------------------------------------------------------------------
(* Helpers                                                                 *)

Current(t) == <<t, task[t].inst>>

Row(kind, target) == [kind |-> kind, delivery |-> "pending", target |-> target]

InsertEvent(t, seq, state) ==
    events' = [events EXCEPT ![t] = [seqs |-> @.seqs \cup {seq}, count |-> @.count + 1,
                                     last |-> state]]

\* Faulty variant: the event is written at the generation the row leaves.
AdvanceEventAtOldGeneration(t, state, inst, terminal) ==
    /\ task[t].gen < MaxGen
    /\ task' = [task EXCEPT ![t] = [state |-> state, gen |-> task[t].gen + 1,
                                    inst |-> inst, terminal |-> terminal]]
    /\ InsertEvent(t, task[t].gen, state)

\* A transition of the task row and the event that records it, in one
\* transaction.
Advance(t, state, inst, terminal) ==
    /\ task[t].gen < MaxGen
    /\ task' = [task EXCEPT ![t] = [state |-> state, gen |-> task[t].gen + 1,
                                    inst |-> inst, terminal |-> terminal]]
    /\ InsertEvent(t, task[t].gen + 1, state)

\* Storage::project_task: compare-and-set on the generation; a stale
\* generation and a terminal task leave the row alone.
ProjectTask(t, expected, state, terminal) ==
    IF task[t].gen = expected /\ ~task[t].terminal
    THEN Advance(t, state, task[t].inst, terminal)
    ELSE UNCHANGED <<task, events>>

\* Faulty variant: repair overlooks orchestrations that failed.
RepairedTerminalIgnoresFailure(i) ==
    CASE dx[i].status = "completed" -> dx[i].output
      [] dx[i].status = "cancelled" -> "cancelled"
      [] OTHER -> "none"

\* repaired_terminal: the projection that an instance's history calls for.
RepairedTerminal(i) ==
    CASE dx[i].status = "completed" -> dx[i].output
      [] dx[i].status = "cancelled" -> "cancelled"
      [] dx[i].status = "failed" -> "failed"
      [] OTHER -> "none"

\* Faulty variant: an instance without history counts as cancelled.
CancellationVerdictMissingIsCancelled(status) ==
    CASE status = "completed" -> "completed"
      [] status \in {"cancelled", "none", "queued"} -> "cancelled"
      [] OTHER -> "failed"

\* TaskControl::reconcile's match on a status other than Running.  A start
\* that is queued has no history yet and reads as NotFound.
CancellationVerdict(status) ==
    CASE status = "completed" -> "completed"
      [] status = "cancelled" -> "cancelled"
      [] OTHER -> "failed"

-----------------------------------------------------------------------------
(* Ingress, delivery and the operator                                      *)

Accept(t) ==
    /\ task[t].state = "absent"
    /\ task' = [task EXCEPT ![t] = [NoTask EXCEPT !.state = "queued"]]
    /\ InsertEvent(t, 0, "queued")
    /\ rows' = [rows EXCEPT ![<<t, 0>>] = Row("work", 0)]
    /\ UNCHANGED <<dx, act, verdict, repair, expired, budgets>>

\* Faulty variant: a rejected start is delivered after all.
DeliverRejected(i) ==
    /\ rows[i].delivery \in {"pending", "rejected"}
    /\ rows' = [rows EXCEPT ![i].delivery = "dispatched"]
    /\ dx' = [dx EXCEPT ![i].status = "queued"]
    /\ UNCHANGED <<task, events, act, verdict, repair, expired, budgets>>

\* The outbox delivers or rejects a start (module Outbox, by its contract).
Deliver(i) ==
    /\ rows[i].delivery = "pending"
    /\ rows' = [rows EXCEPT ![i].delivery = "dispatched"]
    /\ dx' = [dx EXCEPT ![i].status = "queued"]
    /\ UNCHANGED <<task, events, act, verdict, repair, expired, budgets>>

RejectStart(i) ==
    /\ rows[i].delivery = "pending"
    /\ rows' = [rows EXCEPT ![i].delivery = "rejected"]
    /\ UNCHANGED <<task, events, dx, act, verdict, repair, expired, budgets>>

RequestCancel(t) ==
    /\ task[t].state # "absent"
    /\ ~task[t].terminal
    /\ task[t].state # "cancellation_requested"
    /\ cancels[t] < MaxCancels
    /\ Advance(t, "cancellation_requested", task[t].inst, FALSE)
    /\ rows' = [rows EXCEPT ![<<t, task[t].gen + 1>>] = Row("cancel", task[t].inst)]
    /\ cancels' = [cancels EXCEPT ![t] = @ + 1]
    /\ UNCHANGED <<dx, act, verdict, repair, expired, retries, crashes>>

\* Faulty variant: the retried instance's start is not enqueued.
RetryWithoutOutbox(t) ==
    /\ rows[Current(t)].kind = "work"
    /\ task[t].terminal
    /\ task[t].state \in {"failed", "cancelled"}
    /\ retries[t] < MaxRetries
    /\ Advance(t, "queued", task[t].gen + 1, FALSE)
    /\ retries' = [retries EXCEPT ![t] = @ + 1]
    /\ UNCHANGED <<rows, dx, act, verdict, repair, expired, cancels, crashes>>

Retry(t) ==
    /\ rows[Current(t)].kind = "work"
    /\ task[t].terminal
    /\ task[t].state \in {"failed", "cancelled"}
    /\ retries[t] < MaxRetries
    /\ Advance(t, "queued", task[t].gen + 1, FALSE)
    /\ rows' = [rows EXCEPT ![<<t, task[t].gen + 1>>] = Row("work", 0)]
    /\ retries' = [retries EXCEPT ![t] = @ + 1]
    /\ UNCHANGED <<dx, act, verdict, repair, expired, cancels, crashes>>

-----------------------------------------------------------------------------
(* Duroxide and the candidate workflow                                     *)

\* The first turn of an instance: its history begins and, for a candidate,
\* the evaluation activity is scheduled.
Begin(i) ==
    /\ dx[i].status = "queued"
    /\ dx' = [dx EXCEPT ![i].status = "running"]
    /\ act' = [act EXCEPT ![i] = IF rows[i].kind = "work" THEN [Idle EXCEPT !.pc = "ready"] ELSE Idle]
    /\ UNCHANGED <<task, events, rows, verdict, repair, expired, budgets>>

Outcomes(i) ==
    IF dx[i].phase = "inject" THEN InjectFinal
    ELSE EvaluateFinal \cup {"planned"} \cup
         (IF i[1] \in expired THEN {} ELSE {"waiting_for_source"})

\* The activity reaches its outcome, then reads the task row
\* (project_candidate_task): the same state or a terminal row needs no
\* projection, otherwise the generation read here is the one expected later.
ActivityRead(i, result) ==
    /\ act[i].pc = "ready"
    /\ result \in Outcomes(i)
    /\ act' = [act EXCEPT ![i] =
                IF task[i[1]].state = result \/ task[i[1]].terminal
                THEN [pc |-> "reply", result |-> result, gen |-> 0]
                ELSE [pc |-> "project", result |-> result, gen |-> task[i[1]].gen]]
    /\ UNCHANGED <<task, events, rows, dx, verdict, repair, expired, budgets>>

\* A Stale or Terminal outcome of project_task is dropped.
ActivityProject(i) ==
    /\ act[i].pc = "project"
    /\ ProjectTask(i[1], act[i].gen, act[i].result, act[i].result \in FinalStates)
    /\ act' = [act EXCEPT ![i] = [@ EXCEPT !.pc = "reply", !.gen = 0]]
    /\ UNCHANGED <<rows, dx, verdict, repair, expired, budgets>>

\* The orchestration turn that consumes the activity's result.
Turn(i) ==
    /\ dx[i].status = "running"
    /\ act[i].pc = "reply"
    /\ LET result == act[i].result IN
       \/ /\ result \in FinalStates
          /\ dx' = [dx EXCEPT ![i] = [@ EXCEPT !.status = "completed", !.output = result]]
          /\ act' = [act EXCEPT ![i] = Idle]
       \/ /\ result = "planned"
          /\ dx' = [dx EXCEPT ![i].phase = "inject"]
          /\ act' = [act EXCEPT ![i] = [Idle EXCEPT !.pc = "ready"]]
       \/ /\ result = "waiting_for_source"
          /\ act' = [act EXCEPT ![i] = [Idle EXCEPT !.pc = "ready"]]
          /\ UNCHANGED dx
    /\ UNCHANGED <<task, events, rows, verdict, repair, expired, budgets>>

\* A permanent activity failure, or the last of five transient ones, fails
\* the orchestration.  Nothing projects it.
ActivityFails(i) ==
    /\ dx[i].status = "running"
    /\ act[i].pc \in {"ready", "project"}
    /\ dx' = [dx EXCEPT ![i].status = "failed"]
    /\ act' = [act EXCEPT ![i] = Idle]
    /\ UNCHANGED <<task, events, rows, verdict, repair, expired, budgets>>

\* The turn that handles CancelInstance.  The activity in flight is not
\* stopped: the worker notices at its next lock renewal.
CancelTurn(i) ==
    /\ dx[i].status = "running"
    /\ dx[i].asked
    /\ dx' = [dx EXCEPT ![i].status = "cancelled"]
    /\ UNCHANGED <<task, events, rows, act, verdict, repair, expired, budgets>>

\* The worker aborts, or drops the reply of, an activity whose instance ended.
DropLateActivity(i) ==
    /\ dx[i].status # "running"
    /\ act[i].pc # "idle"
    /\ act' = [act EXCEPT ![i] = Idle]
    /\ UNCHANGED <<task, events, rows, dx, verdict, repair, expired, budgets>>

DeadlinePasses(t) ==
    /\ task[t].state # "absent"
    /\ t \notin expired
    /\ expired' = expired \cup {t}
    /\ UNCHANGED <<task, events, rows, dx, act, verdict, repair, budgets>>

-----------------------------------------------------------------------------
(* The cancellation workflow                                               *)

\* InspectTaskCancellation: a running target is asked to cancel and polled
\* again; any other status gives a verdict to record.
Inspect(i) ==
    /\ rows[i].kind = "cancel"
    /\ dx[i].status = "running"
    /\ verdict[i] = "none"
    /\ LET target == <<i[1], rows[i].target>> IN
       \/ /\ dx[target].status = "running"
          /\ dx' = [dx EXCEPT ![target].asked = TRUE]
          /\ UNCHANGED verdict
       \/ /\ dx[target].status # "running"
          /\ verdict' = [verdict EXCEPT ![i] = CancellationVerdict(dx[target].status)]
          /\ UNCHANGED dx
    /\ UNCHANGED <<task, events, rows, act, repair, expired, budgets>>

\* Faulty variant: the update is not limited to a task that asks for
\* cancellation.
RecordTerminalUnconditional(i) ==
    /\ verdict[i] \in FinalStates
    /\ Advance(i[1], verdict[i], task[i[1]].inst, TRUE)
    /\ verdict' = [verdict EXCEPT ![i] = "recorded"]
    /\ UNCHANGED <<rows, dx, act, repair, expired, budgets>>

\* record_terminal: only a task that still asks for cancellation is changed,
\* whichever instance it is at by now.
RecordTerminal(i) ==
    /\ verdict[i] \in FinalStates
    /\ LET t == i[1] IN
       IF task[t].state = "cancellation_requested" /\ ~task[t].terminal
       THEN Advance(t, verdict[i], task[t].inst, TRUE)
       ELSE UNCHANGED <<task, events>>
    /\ verdict' = [verdict EXCEPT ![i] = "recorded"]
    /\ UNCHANGED <<rows, dx, act, repair, expired, budgets>>

\* The activity replies done and the workflow returns.
CancellationReturns(i) ==
    /\ verdict[i] = "recorded"
    /\ verdict' = [verdict EXCEPT ![i] = "none"]
    /\ dx' = [dx EXCEPT ![i].status = "completed"]
    /\ UNCHANGED <<task, events, rows, act, repair, expired, budgets>>

\* The activity's five attempts are used up on an unavailable dependency.
ReconcileFails(i) ==
    /\ rows[i].kind = "cancel"
    /\ dx[i].status = "running"
    /\ dx' = [dx EXCEPT ![i].status = "failed"]
    /\ verdict' = [verdict EXCEPT ![i] = "none"]
    /\ UNCHANGED <<task, events, rows, act, repair, expired, budgets>>

-----------------------------------------------------------------------------
(* Projection repair                                                       *)

\* The loop reads the rows of the tasks that are not terminal.
RepairSelect ==
    /\ \A t \in Tasks : ~repair[t].held
    /\ repair' = [t \in Tasks |->
                    IF task[t].state # "absent" /\ ~task[t].terminal
                    THEN [held |-> TRUE, gen |-> task[t].gen, inst |-> task[t].inst]
                    ELSE NoSnapshot]
    /\ UNCHANGED <<task, events, rows, dx, act, verdict, expired, budgets>>

\* One row of the batch: inspect the instance that was read, and project its
\* ending against the generation that was read.
RepairOne(t) ==
    /\ repair[t].held
    /\ LET ending == RepairedTerminal(<<t, repair[t].inst>>) IN
       IF ending = "none"
       THEN UNCHANGED <<task, events>>
       ELSE ProjectTask(t, repair[t].gen, ending, TRUE)
    /\ repair' = [repair EXCEPT ![t] = NoSnapshot]
    /\ UNCHANGED <<rows, dx, act, verdict, expired, budgets>>

\* An inspection error ends the pass; the rest of the batch waits for the
\* next one.
RepairAborts ==
    /\ \E t \in Tasks : repair[t].held
    /\ repair' = [t \in Tasks |-> NoSnapshot]
    /\ UNCHANGED <<task, events, rows, dx, act, verdict, expired, budgets>>

-----------------------------------------------------------------------------
(* A crash loses the activities in flight.  Those of a live instance are   *)
(* delivered again, unless their result had become durable (kept).         *)
Crash ==
    /\ crashes < MaxCrashes
    /\ crashes' = crashes + 1
    /\ \E kept \in SUBSET {i \in Inst : act[i].pc = "reply"} :
         act' = [i \in Inst |->
                  IF i \in kept \/ act[i].pc = "idle" THEN act[i]
                  ELSE IF dx[i].status = "running" THEN [Idle EXCEPT !.pc = "ready"]
                  ELSE Idle]
    /\ verdict' = [i \in Inst |-> "none"]
    /\ repair' = [t \in Tasks |-> NoSnapshot]
    /\ UNCHANGED <<task, events, rows, dx, expired, cancels, retries>>

-----------------------------------------------------------------------------
CandidateStep(i) ==
    \/ Begin(i)
    \/ \E result \in Results : ActivityRead(i, result)
    \/ ActivityProject(i)
    \/ Turn(i)

CancellationStep(i) == Inspect(i) \/ RecordTerminal(i) \/ CancellationReturns(i)

Next ==
    \/ \E t \in Tasks : Accept(t) \/ RequestCancel(t) \/ Retry(t) \/ DeadlinePasses(t) \/ RepairOne(t)
    \/ \E i \in Inst : Deliver(i) \/ RejectStart(i)
    \/ \E i \in Inst : CandidateStep(i) \/ ActivityFails(i) \/ CancelTurn(i) \/ DropLateActivity(i)
    \/ \E i \in Inst : CancellationStep(i) \/ ReconcileFails(i)
    \/ RepairSelect
    \/ RepairAborts
    \/ Crash

Spec == Init /\ [][Next]_vars

\* The runtime's workers and dispatchers run for as long as the process does,
\* the repair loop wakes every five seconds, and the candidate's deadline is a
\* moment in time.  A repair pass can be cut short by an inspection error, but
\* not every pass forever.  Nothing obliges an operator, a failure or a crash.
Fairness ==
    /\ \A i \in Inst : WF_vars(CandidateStep(i)) /\ WF_vars(CancelTurn(i))
    /\ \A i \in Inst : WF_vars(CancellationStep(i))
    /\ \A t \in Tasks : WF_vars(DeadlinePasses(t))
    /\ WF_vars(RepairSelect)
    /\ \A t \in Tasks : SF_vars(RepairOne(t))

FairSpec == Spec /\ Fairness

-----------------------------------------------------------------------------
(* Properties                                                              *)

\* The event log of a task is complete and in step with its row: one event for
\* every generation from 0 to projection_generation, the last one carrying the
\* row's state.  Every writer of the row (accept_task_in, project_task,
\* request_cancel, record_terminal, retry) must write both in one transaction.
EventLogTracksGeneration ==
    \A t \in Tasks : task[t].state # "absent" =>
        /\ events[t].seqs = 0 .. task[t].gen
        /\ events[t].count = task[t].gen + 1
        /\ events[t].last = task[t].state

\* retry joins the task to the outbox row of its current instance: that row is
\* always there, is the start of a work instance, and is no newer than the
\* task's generation, so a failed or cancelled task can always be retried.
CurrentInstanceHasItsStart ==
    \A t \in Tasks : task[t].state # "absent" =>
        /\ task[t].inst <= task[t].gen
        /\ rows[Current(t)].kind = "work"

\* A task in cancellation_requested is owned by the cancellation workflow that
\* request_cancel enqueued with it, that workflow aims at the task's current
\* instance, and it has not returned: the request cannot be forgotten.
CancellationIsOwned ==
    \A t \in Tasks : task[t].state = "cancellation_requested" =>
        LET owner == <<t, task[t].gen>> IN
        /\ ~task[t].terminal
        /\ rows[owner].kind = "cancel"
        /\ rows[owner].target = task[t].inst
        /\ verdict[owner] # "recorded"
        /\ dx[owner].status # "completed"

\* The repair loop inspects the instance it read before the operator's retry
\* may have replaced it.  If the generation it read is still the row's, then so
\* is the instance: project_task's compare-and-set keeps an old instance's
\* ending off a retried task.
RepairSnapshotCurrent ==
    \A t \in Tasks :
        repair[t].held /\ repair[t].gen = task[t].gen => repair[t].inst = task[t].inst

\* A task ends as cancelled only if Duroxide cancelled one of its work
\* instances and an operator's cancellation of that instance was enqueued.
CancelledOnlyAfterConfirmation ==
    \A t \in Tasks : task[t].state = "cancelled" =>
        \E g, c \in Gens :
            /\ rows[<<t, g>>].kind = "work"
            /\ dx[<<t, g>>].status = "cancelled"
            /\ rows[<<t, c>>].kind = "cancel"
            /\ rows[<<t, c>>].target = g

\* A terminal task row is left only by an operator's retry of a failed or
\* cancelled task, which puts it back to queued under a new instance; no
\* activity, repair pass or cancellation workflow, however late, reopens it.
TerminalLeftOnlyByRetry ==
    [][\A t \in Tasks : task[t].terminal /\ task'[t] # task[t] =>
            /\ task[t].state \in {"failed", "cancelled"}
            /\ task'[t] = [state |-> "queued", gen |-> task[t].gen + 1,
                           inst |-> task[t].gen + 1, terminal |-> FALSE]]_vars

\* A task whose current instance was handed to Duroxide is eventually terminal,
\* through its own projection, the cancellation workflow or the repair loop,
\* despite dropped projections, failures, crashes and cancellations.
StartedTaskEnds ==
    \A t \in Tasks :
        (task[t].state # "absent" /\ rows[Current(t)].delivery = "dispatched")
            ~> task[t].terminal

Contract == INSTANCE StartDelivery WITH
    Starts <- Inst, delivery <- [i \in Inst |-> rows[i].delivery]

\* The outbox rows of accept_task, retry and request_cancel live by the contract
\* that the dispatcher implements: every row is enqueued once, under an instance
\* id no earlier row used, and delivered or rejected once.
StartsFollowContract == Contract!Spec

\* docs/operations.md, "Cancellation asks Duroxide to cancel the authoritative
\* instance": once the cancellation workflow has ended the task, the instance
\* it was aimed at is not waiting to run or running.
CancellationStopsInstance ==
    \A i \in Inst :
        rows[i].kind = "cancel" /\ dx[i].status = "completed" =>
            LET target == <<i[1], rows[i].target>> IN
            /\ rows[target].delivery # "pending"
            /\ dx[target].status \notin {"queued", "running"}

-----------------------------------------------------------------------------
(* What the safety invariants rest on: together with them, these make an   *)
(* inductive invariant.                                                    *)

\* Nothing of a task exists before it is accepted.
AbsentIsBlank ==
    \A t \in Tasks : task[t].state = "absent" =>
        task[t] = NoTask /\ events[t] = NoEvents /\ ~repair[t].held

\* Instance ids of generations to come are unused.
UnusedIsBlank ==
    \A i \in Inst : (task[i[1]].state = "absent" \/ i[2] > task[i[1]].gen) =>
        rows[i] = NoRow /\ dx[i] = NoInstance /\ verdict[i] = "none"

SnapshotNotAhead ==
    \A t \in Tasks : repair[t].held => repair[t].gen <= task[t].gen

\* Duroxide knows the instances that were delivered, and only work instances
\* run activities of the candidate workflow.
InstancesAreDelivered ==
    \A i \in Inst :
        /\ rows[i].delivery = "pending" => dx[i].status = "none"
        /\ act[i].pc # "idle" => rows[i].kind = "work"

\* A cancellation aims at a work instance, and only such an aim makes an
\* instance end as cancelled or gives a verdict.
CancellationsAreAimed ==
    \A i \in Inst :
        /\ rows[i].kind = "cancel" => rows[<<i[1], rows[i].target>>].kind = "work"
        /\ dx[i].asked => \E c \in Gens : /\ rows[<<i[1], c>>].kind = "cancel"
                                          /\ rows[<<i[1], c>>].target = i[2]
        /\ dx[i].status = "cancelled" => dx[i].asked
        /\ verdict[i] # "none" => rows[i].kind = "cancel" /\ dx[i].status = "running"
        /\ verdict[i] = "cancelled" => dx[<<i[1], rows[i].target>>].status = "cancelled"

Inv ==
    /\ TypeOK
    /\ EventLogTracksGeneration
    /\ CurrentInstanceHasItsStart
    /\ CancellationIsOwned
    /\ RepairSnapshotCurrent
    /\ CancelledOnlyAfterConfirmation
    /\ AbsentIsBlank
    /\ UnusedIsBlank
    /\ SnapshotNotAhead
    /\ InstancesAreDelivered
    /\ CancellationsAreAimed

=============================================================================
