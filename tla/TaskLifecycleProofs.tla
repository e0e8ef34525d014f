------------------------ MODULE TaskLifecycleProofs ------------------------
(***************************************************************************)
(* The safety of TaskLifecycle for any set of tasks and any bounds.        *)
(***************************************************************************)
EXTENDS TaskLifecycle, TLAPS

\* An instance is a pair of a task and the generation that wrote its row.
LEMMA Pairs ==
    /\ \A t \in Tasks, g \in Gens : <<t, g>> \in Inst
    /\ \A i \in Inst : i[1] \in Tasks /\ i[2] \in Gens /\ i = <<i[1], i[2]>>
BY DEF Inst

\* The next generation is one that no earlier one equals.
LEMMA NextIsNew ==
    ASSUME NEW a \in Nat, NEW b \in Nat, a <= b
    PROVE  a <= b + 1 /\ b + 1 > b /\ a # b + 1
OBVIOUS

\* Generations are natural numbers, and the next one exists below the bound.
LEMMA GensNat ==
    /\ Gens \subseteq Nat
    /\ 0 \in Gens
    /\ \A g \in Gens : g < MaxGen => g + 1 \in Gens
BY BoundsAreNaturals DEF Gens

-----------------------------------------------------------------------------
(* Types                                                                   *)

\* A transition of a task row keeps the types of the rows and the event logs.
LEMMA AdvanceType ==
    ASSUME TypeOK, NEW t \in Tasks, NEW state \in States, NEW inst \in Gens,
           NEW terminal \in BOOLEAN, Advance(t, state, inst, terminal)
    PROVE  task' \in [Tasks -> TaskRow] /\ events' \in [Tasks -> EventLog]
<1>1. task[t].gen \in Gens /\ task[t].gen + 1 \in Gens
  BY GensNat, Zenon DEF TypeOK, TaskRow, Advance
<1>2. task' \in [Tasks -> TaskRow]
  BY <1>1 DEF TypeOK, TaskRow, Advance
<1>3. events' \in [Tasks -> EventLog]
  BY <1>1, GensNat DEF TypeOK, EventLog, Advance, InsertEvent
<1> QED BY <1>2, <1>3

\* So does project_task, whether it applies or is stale.
LEMMA ProjectTaskType ==
    ASSUME TypeOK, NEW t \in Tasks, NEW expected, NEW state \in States,
           NEW terminal \in BOOLEAN, ProjectTask(t, expected, state, terminal)
    PROVE  task' \in [Tasks -> TaskRow] /\ events' \in [Tasks -> EventLog]
<1>1. task[t].inst \in Gens
  BY DEF TypeOK, TaskRow
<1> QED BY <1>1, AdvanceType DEF ProjectTask, TypeOK

\* The empty tables have their types.
LEMMA TypeInit == Init => TypeOK
BY GensNat DEF Init, TypeOK, TaskRow, EventLog, OutboxRow, Instance, Activity, Snapshot,
   NoTask, NoEvents, NoRow, NoInstance, Idle, NoSnapshot, States, ActiveStates

\* Every operation of the service keeps the types.
LEMMA TypeStep == TypeOK /\ [Next]_vars => TypeOK'
<1> SUFFICES ASSUME TypeOK, [Next]_vars PROVE TypeOK'
  OBVIOUS
<1>1. ASSUME NEW t \in Tasks, Accept(t) PROVE TypeOK'
  <2>1. task' \in [Tasks -> TaskRow]
    BY <1>1, GensNat, Zenon DEF TypeOK, Accept, TaskRow, NoTask, States, ActiveStates
  <2>2. events' \in [Tasks -> EventLog]
    BY <1>1, GensNat DEF TypeOK, Accept, InsertEvent, EventLog, States, ActiveStates
  <2>3. rows' \in [Inst -> OutboxRow]
    BY <1>1, GensNat, Pairs DEF TypeOK, Accept, OutboxRow, Row
  <2> QED BY <1>1, <2>1, <2>2, <2>3 DEF TypeOK, Accept, budgets
<1>2. ASSUME NEW t \in Tasks, RequestCancel(t) PROVE TypeOK'
  <2>1. task[t].inst \in Gens /\ task[t].gen \in Gens /\ task[t].gen + 1 \in Gens
    BY <1>2, GensNat, Zenon DEF TypeOK, RequestCancel, Advance, TaskRow
  <2>2. task' \in [Tasks -> TaskRow] /\ events' \in [Tasks -> EventLog]
    BY <1>2, <2>1, AdvanceType, Zenon DEF RequestCancel, States, ActiveStates
  <2>3. rows' \in [Inst -> OutboxRow]
    BY <1>2, <2>1, Pairs DEF TypeOK, RequestCancel, OutboxRow, Row
  <2>4. cancels' \in [Tasks -> Nat]
    BY <1>2 DEF TypeOK, RequestCancel
  <2> QED BY <1>2, <2>1, <2>2, <2>3, <2>4 DEF TypeOK, RequestCancel
<1>3. ASSUME NEW t \in Tasks, Retry(t) PROVE TypeOK'
  <2>1. task[t].gen \in Gens /\ task[t].gen + 1 \in Gens
    BY <1>3, GensNat, Zenon DEF TypeOK, Retry, Advance, TaskRow
  <2>2. task' \in [Tasks -> TaskRow] /\ events' \in [Tasks -> EventLog]
    BY <1>3, <2>1, AdvanceType, Zenon DEF Retry, States, ActiveStates
  <2>3. rows' \in [Inst -> OutboxRow]
    BY <1>3, <2>1, GensNat, Pairs DEF TypeOK, Retry, OutboxRow, Row
  <2>4. retries' \in [Tasks -> Nat]
    BY <1>3 DEF TypeOK, Retry
  <2> QED BY <1>3, <2>1, <2>2, <2>3, <2>4 DEF TypeOK, Retry
<1>4. ASSUME NEW t \in Tasks, DeadlinePasses(t) PROVE TypeOK'
  <2> QED BY <1>4 DEF TypeOK, DeadlinePasses, budgets
<1>5. ASSUME NEW t \in Tasks, RepairOne(t) PROVE TypeOK'
  <2>1. RepairedTerminal(<<t, repair[t].inst>>) \in States \cup {"none"}
    BY Pairs DEF TypeOK, RepairedTerminal, Snapshot, Instance, Results, States, FinalStates,
       EvaluateFinal, InjectFinal, ActiveStates
  <2>2. task' \in [Tasks -> TaskRow] /\ events' \in [Tasks -> EventLog]
    BY <1>5, <2>1, ProjectTaskType, Zenon DEF RepairOne, TypeOK
  <2>3. repair' \in [Tasks -> Snapshot]
    BY <1>5, GensNat DEF TypeOK, RepairOne, Snapshot, NoSnapshot
  <2> QED BY <1>5, <2>1, <2>2, <2>3 DEF TypeOK, RepairOne, budgets
<1>6. ASSUME NEW i \in Inst, Deliver(i) PROVE TypeOK'
  <2>1. rows' \in [Inst -> OutboxRow]
    BY <1>6 DEF TypeOK, Deliver, OutboxRow
  <2>2. dx' \in [Inst -> Instance]
    BY <1>6, ZenonT(30) DEF TypeOK, Deliver, Instance
  <2> QED BY <1>6, <2>1, <2>2 DEF TypeOK, Deliver, budgets
<1>7. ASSUME NEW i \in Inst, RejectStart(i) PROVE TypeOK'
  <2>1. rows' \in [Inst -> OutboxRow]
    BY <1>7 DEF TypeOK, RejectStart, OutboxRow
  <2> QED BY <1>7, <2>1 DEF TypeOK, RejectStart, budgets
<1>8. ASSUME NEW i \in Inst, Begin(i) PROVE TypeOK'
  <2>1. dx' \in [Inst -> Instance]
    BY <1>8 DEF TypeOK, Begin, Instance
  <2>2. act' \in [Inst -> Activity]
    BY <1>8 DEF TypeOK, Begin, Activity, Idle
  <2> QED BY <1>8, <2>1, <2>2 DEF TypeOK, Begin, budgets
<1>9. ASSUME NEW i \in Inst, NEW result \in Results, ActivityRead(i, result) PROVE TypeOK'
  <2>1. task[i[1]].gen \in Gens
    BY Pairs DEF TypeOK, TaskRow
  <2>2. act' \in [Inst -> Activity]
    BY <1>9, <2>1, GensNat DEF TypeOK, ActivityRead, Activity
  <2> QED BY <1>9, <2>1, <2>2 DEF TypeOK, ActivityRead, budgets
<1>10. ASSUME NEW i \in Inst, ActivityProject(i) PROVE TypeOK'
  <2>1. act[i].pc = "project" /\ act[i].result \in Results /\ act[i].gen \in Gens
    BY <1>10 DEF TypeOK, ActivityProject, Activity
  <2>2. Results \subseteq States
    BY DEF Results, States, FinalStates, EvaluateFinal, InjectFinal, ActiveStates
  <2>3. task' \in [Tasks -> TaskRow] /\ events' \in [Tasks -> EventLog]
    <3>1. (act[i].result \in FinalStates) \in BOOLEAN
      OBVIOUS
    <3>2. i[1] \in Tasks /\ act[i].result \in States
      BY <2>1, <2>2, Pairs
    <3> QED BY <1>10, <3>1, <3>2, ProjectTaskType, Zenon DEF ActivityProject
  <2>4. act' \in [Inst -> Activity]
    BY <1>10, <2>1, GensNat, Zenon DEF TypeOK, ActivityProject, Activity
  <2> QED BY <1>10, <2>1, <2>2, <2>3, <2>4 DEF TypeOK, ActivityProject, budgets
<1>11. ASSUME NEW i \in Inst, Turn(i) PROVE TypeOK'
  <2>1. act[i].result \in Results
    BY <1>11 DEF TypeOK, Turn, Activity
  <2>2. dx' \in [Inst -> Instance]
    <3>0. dx \in [Inst -> Instance] /\ dx[i] \in Instance
      BY DEF TypeOK
    <3>1. CASE dx' = [dx EXCEPT ![i] = [@ EXCEPT !.status = "completed", !.output = act[i].result]]
      <4>1. [dx[i] EXCEPT !.status = "completed", !.output = act[i].result] \in Instance
        BY <2>1, <3>0, Zenon DEF Instance
      <4> QED BY <3>0, <3>1, <4>1
    <3>2. CASE dx' = [dx EXCEPT ![i].phase = "inject"]
      <4>1. [dx[i] EXCEPT !.phase = "inject"] \in Instance
        BY <3>0 DEF Instance
      <4> QED BY <3>0, <3>2, <4>1
    <3>3. CASE dx' = dx
      BY <3>3 DEF TypeOK
    <3> QED BY <1>11, <3>1, <3>2, <3>3 DEF Turn
  <2>3. act' \in [Inst -> Activity]
    BY <1>11 DEF TypeOK, Turn, Activity, Idle
  <2> QED BY <1>11, <2>1, <2>2, <2>3 DEF TypeOK, Turn, budgets
<1>12. ASSUME NEW i \in Inst, ActivityFails(i) PROVE TypeOK'
  <2>1. dx' \in [Inst -> Instance]
    <3>1. dx \in [Inst -> Instance] /\ dx[i] \in Instance
      BY DEF TypeOK
    <3> QED
      BY <1>12, <3>1 DEF ActivityFails, Instance
  <2>2. act' \in [Inst -> Activity]
    BY <1>12 DEF TypeOK, ActivityFails, Activity, Idle
  <2> QED BY <1>12, <2>1, <2>2 DEF TypeOK, ActivityFails, budgets
<1>13. ASSUME NEW i \in Inst, CancelTurn(i) PROVE TypeOK'
  <2>1. dx' \in [Inst -> Instance]
    BY <1>13, SMTT(30) DEF TypeOK, CancelTurn, Instance
  <2> QED BY <1>13, <2>1 DEF TypeOK, CancelTurn, budgets
<1>14. ASSUME NEW i \in Inst, DropLateActivity(i) PROVE TypeOK'
  <2>1. act' \in [Inst -> Activity]
    BY <1>14 DEF TypeOK, DropLateActivity, Activity, Idle
  <2> QED BY <1>14, <2>1 DEF TypeOK, DropLateActivity, budgets
<1>15. ASSUME NEW i \in Inst, Inspect(i) PROVE TypeOK'
  <2>1. <<i[1], rows[i].target>> \in Inst
    BY Pairs DEF TypeOK, OutboxRow
  <2>2. dx' \in [Inst -> Instance]
    <3> DEFINE target == <<i[1], rows[i].target>>
    <3>1. CASE dx' = [dx EXCEPT ![target].asked = TRUE]
      BY <2>1, <3>1, ZenonT(30) DEF TypeOK, Instance
    <3>2. CASE dx' = dx
      BY <3>2 DEF TypeOK
    <3> QED BY <1>15, <3>1, <3>2 DEF Inspect
  <2>3. \A s : CancellationVerdict(s) \in FinalStates
    BY DEF CancellationVerdict, FinalStates, InjectFinal
  <2>4. verdict' \in [Inst -> FinalStates \cup {"none", "recorded"}]
    BY <1>15, <2>3 DEF TypeOK, Inspect
  <2> QED BY <1>15, <2>1, <2>2, <2>3, <2>4 DEF TypeOK, Inspect, budgets
<1>16. ASSUME NEW i \in Inst, RecordTerminal(i) PROVE TypeOK'
  <2>1. verdict[i] \in States /\ task[i[1]].inst \in Gens
    BY <1>16, Pairs DEF TypeOK, RecordTerminal, TaskRow, States
  <2>2. task' \in [Tasks -> TaskRow] /\ events' \in [Tasks -> EventLog]
    BY <1>16, <2>1, Pairs, AdvanceType, Zenon DEF TypeOK, RecordTerminal
  <2>3. verdict' \in [Inst -> FinalStates \cup {"none", "recorded"}]
    BY <1>16 DEF TypeOK, RecordTerminal
  <2> QED BY <1>16, <2>1, <2>2, <2>3 DEF TypeOK, RecordTerminal, budgets
<1>17. ASSUME NEW i \in Inst, CancellationReturns(i) PROVE TypeOK'
  <2>1. dx' \in [Inst -> Instance]
    BY <1>17, SMTT(30) DEF TypeOK, CancellationReturns, Instance
  <2>2. verdict' \in [Inst -> FinalStates \cup {"none", "recorded"}]
    BY <1>17 DEF TypeOK, CancellationReturns
  <2> QED BY <1>17, <2>1, <2>2 DEF TypeOK, CancellationReturns, budgets
<1>18. ASSUME NEW i \in Inst, ReconcileFails(i) PROVE TypeOK'
  <2>1. dx' \in [Inst -> Instance]
    BY <1>18, SMTT(30) DEF TypeOK, ReconcileFails, Instance
  <2>2. verdict' \in [Inst -> FinalStates \cup {"none", "recorded"}]
    BY <1>18 DEF TypeOK, ReconcileFails
  <2> QED BY <1>18, <2>1, <2>2 DEF TypeOK, ReconcileFails, budgets
<1>19. CASE RepairSelect
  BY <1>19, GensNat DEF TypeOK, RepairSelect, Snapshot, TaskRow, NoSnapshot, budgets
<1>20. CASE RepairAborts
  BY <1>20, GensNat DEF TypeOK, RepairAborts, Snapshot, NoSnapshot, budgets
<1>21. CASE Crash
  BY <1>21, GensNat DEF TypeOK, Crash, Snapshot, NoSnapshot, Activity, Idle
<1>22. CASE UNCHANGED vars
  BY <1>22 DEF TypeOK, vars
<1> QED BY <1>1, <1>2, <1>3, <1>4, <1>5, <1>6, <1>7, <1>8, <1>9, <1>10, <1>11, <1>12, <1>13,
           <1>14, <1>15, <1>16, <1>17, <1>18, <1>19, <1>20, <1>21, <1>22
        DEF Next, CandidateStep, CancellationStep

\* Every row, event log, instance and counter keeps its type: for any tasks and
\* bounds, whatever the interleaving of ingress, operator, workflows and repair.
THEOREM TypeCorrect == Spec => []TypeOK
BY TypeInit, TypeStep, PTL DEF Spec

-----------------------------------------------------------------------------
(* The inductive invariant                                                 *)

\* The empty tables satisfy the inductive invariant.
LEMMA InvInit == Init => Inv
BY TypeInit, Pairs, GensNat DEF Init, Inv, EventLogTracksGeneration, CurrentInstanceHasItsStart,
   CancellationIsOwned, RepairSnapshotCurrent, CancelledOnlyAfterConfirmation, AbsentIsBlank,
   UnusedIsBlank, SnapshotNotAhead, InstancesAreDelivered, CancellationsAreAimed,
   NoTask, NoEvents, NoRow, NoInstance, Idle, NoSnapshot

Target(j) == <<j[1], rows[j].target>>

IsTarget(j) == \E c \in Gens : rows[<<j[1], c>>].kind = "cancel" /\ rows[<<j[1], c>>].target = j[2]

\* What a step of the workflows, the dispatcher or the runtime may do to an
\* instance while it leaves the task rows alone.
QuietAt(j) ==
    /\ rows'[j].kind = rows[j].kind /\ rows'[j].target = rows[j].target
    /\ rows'[j].delivery = "pending" => dx'[j].status = "none"
    /\ rows[j] = NoRow /\ dx[j] = NoInstance /\ verdict[j] = "none" =>
         rows'[j] = NoRow /\ dx'[j] = NoInstance /\ verdict'[j] = "none"
    /\ dx[j].status = "cancelled" => dx'[j].status = "cancelled"
    /\ dx'[j].status = "cancelled" => dx'[j].asked
    /\ dx'[j].asked => IsTarget(j)
    /\ act'[j].pc # "idle" => rows[j].kind = "work"
    /\ verdict'[j] # "none" => rows[j].kind = "cancel" /\ dx'[j].status = "running"
    /\ verdict'[j] = "cancelled" => dx[Target(j)].status = "cancelled"
    /\ rows[j].kind = "cancel" /\ verdict[j] # "recorded" /\ dx[j].status # "completed" =>
         \/ verdict'[j] # "recorded" /\ dx'[j].status # "completed"
         \/ task'[j[1]].state # "cancellation_requested"

\* Quiet steps keep what the invariant says of instances.
LEMMA QuietInstances ==
    ASSUME Inv, \A j \in Inst : QuietAt(j)
    PROVE  InstancesAreDelivered' /\ CancellationsAreAimed'
<1>1. InstancesAreDelivered'
  BY DEF InstancesAreDelivered, QuietAt
<1>2. CancellationsAreAimed'
  <2> SUFFICES ASSUME NEW i \in Inst
               PROVE
        /\ rows'[i].kind = "cancel" => rows'[<<i[1], rows'[i].target>>].kind = "work"
        /\ dx'[i].asked => \E c \in Gens : /\ rows'[<<i[1], c>>].kind = "cancel"
                                           /\ rows'[<<i[1], c>>].target = i[2]
        /\ dx'[i].status = "cancelled" => dx'[i].asked
        /\ verdict'[i] # "none" => rows'[i].kind = "cancel" /\ dx'[i].status = "running"
        /\ verdict'[i] = "cancelled" => dx'[<<i[1], rows'[i].target>>].status = "cancelled"
    BY Zenon DEF CancellationsAreAimed
  <2>1. QuietAt(i) /\ i[1] \in Tasks /\ rows[i].target \in Gens
    BY Pairs DEF Inv, TypeOK, OutboxRow
  <2>2. Target(i) \in Inst /\ QuietAt(Target(i))
    BY <2>1, Pairs DEF Target
  <2>3. rows'[i].kind = "cancel" => rows'[<<i[1], rows'[i].target>>].kind = "work"
    <3>1. rows[i].kind = "cancel" => rows[Target(i)].kind = "work"
      BY Zenon DEF Inv, CancellationsAreAimed, Target
    <3>2. rows'[i].kind = rows[i].kind /\ rows'[i].target = rows[i].target
      BY <2>1 DEF QuietAt
    <3>3. rows'[Target(i)].kind = rows[Target(i)].kind
      BY <2>2 DEF QuietAt
    <3> QED
      BY <3>1, <3>2, <3>3, Zenon DEF Target
  <2>4. ASSUME dx'[i].asked
        PROVE  \E c \in Gens : rows'[<<i[1], c>>].kind = "cancel" /\ rows'[<<i[1], c>>].target = i[2]
    <3>1. PICK c \in Gens : rows[<<i[1], c>>].kind = "cancel" /\ rows[<<i[1], c>>].target = i[2]
      BY <2>1, <2>4 DEF QuietAt, IsTarget
    <3>2. QuietAt(<<i[1], c>>)
      BY <2>1, Pairs
    <3> QED BY <3>1, <3>2, SMTT(30) DEF QuietAt
  <2>5. verdict'[i] = "cancelled" => dx'[<<i[1], rows'[i].target>>].status = "cancelled"
    BY <2>1, <2>2 DEF QuietAt, Target
  <2> QED BY <2>1, <2>3, <2>4, <2>5, SMTT(30) DEF QuietAt
<1> QED BY <1>1, <1>2

Confirmed(t) ==
    \E g, c \in Gens : /\ rows[<<t, g>>].kind = "work"
                       /\ dx[<<t, g>>].status = "cancelled"
                       /\ rows[<<t, c>>].kind = "cancel"
                       /\ rows[<<t, c>>].target = g

\* A confirmed cancellation stays confirmed: rows are never deleted and Duroxide
\* never leaves "cancelled".
LEMMA QuietConfirmed ==
    ASSUME \A j \in Inst : QuietAt(j), NEW t \in Tasks, Confirmed(t)
    PROVE  Confirmed(t)'
<1>1. PICK g \in Gens, c \in Gens : /\ rows[<<t, g>>].kind = "work"
                                    /\ dx[<<t, g>>].status = "cancelled"
                                    /\ rows[<<t, c>>].kind = "cancel"
                                    /\ rows[<<t, c>>].target = g
  BY DEF Confirmed
<1>2. QuietAt(<<t, g>>) /\ QuietAt(<<t, c>>)
  BY Pairs
<1>3. rows'[<<t, g>>].kind = "work" /\ dx'[<<t, g>>].status = "cancelled"
  BY <1>1, <1>2, SMTT(30) DEF QuietAt
<1>4. rows'[<<t, c>>].kind = "cancel" /\ rows'[<<t, c>>].target = g
  BY <1>1, <1>2 DEF QuietAt
<1> QED BY <1>1, <1>3, <1>4 DEF Confirmed

\* A task whose row stays, or moves on without asking for cancellation or
\* changing its instance.
LEMMA QuietTask ==
    ASSUME Inv, \A j \in Inst : QuietAt(j), NEW t \in Tasks,
           task'[t].state = "absent" <=> task[t].state = "absent",
           task'[t].inst = task[t].inst,
           task'[t].gen \in Gens, task'[t].gen >= task[t].gen,
           task'[t] = task[t] \/ task'[t].state # "cancellation_requested"
    PROVE  /\ task'[t].state # "absent" => /\ task'[t].inst <= task'[t].gen
                                          /\ rows'[Current(t)'].kind = "work"
           /\ task'[t].state = "cancellation_requested" =>
                LET owner == <<t, task'[t].gen>> IN
                /\ ~task'[t].terminal
                /\ rows'[owner].kind = "cancel"
                /\ rows'[owner].target = task'[t].inst
                /\ verdict'[owner] # "recorded"
                /\ dx'[owner].status # "completed"
           /\ \A g \in Gens : (task'[t].state = "absent" \/ g > task'[t].gen) =>
                rows'[<<t, g>>] = NoRow /\ dx'[<<t, g>>] = NoInstance /\ verdict'[<<t, g>>] = "none"
<1>1. /\ task[t].gen \in Gens /\ task[t].inst \in Gens
      /\ task[t].gen \in Nat /\ task[t].inst \in Nat /\ task'[t].gen \in Nat
  BY GensNat, Zenon DEF Inv, TypeOK, TaskRow
<1>2. task'[t].state # "absent" => task'[t].inst <= task'[t].gen /\ rows'[Current(t)'].kind = "work"
  <2>1. Current(t) \in Inst /\ Current(t)' = Current(t)
    BY <1>1, Pairs DEF Current
  <2>2. task[t].state # "absent" => task[t].inst <= task[t].gen /\ rows[Current(t)].kind = "work"
    BY DEF Inv, CurrentInstanceHasItsStart
  <2>3. QuietAt(Current(t))
    BY <2>1
  <2> QED BY <1>1, <2>1, <2>2, <2>3, SMTT(30) DEF QuietAt
<1>3. ASSUME task'[t].state = "cancellation_requested"
      PROVE  LET owner == <<t, task'[t].gen>> IN
                /\ ~task'[t].terminal
                /\ rows'[owner].kind = "cancel"
                /\ rows'[owner].target = task'[t].inst
                /\ verdict'[owner] # "recorded"
                /\ dx'[owner].status # "completed"
  <2> DEFINE owner == <<t, task[t].gen>>
  <2>1. owner \in Inst /\ owner[1] = t /\ task'[t] = task[t]
    BY <1>1, <1>3, Pairs
  <2>2. QuietAt(owner)
    BY <2>1
  <2>3. /\ ~task[t].terminal
        /\ rows[owner].kind = "cancel"
        /\ rows[owner].target = task[t].inst
        /\ verdict[owner] # "recorded"
        /\ dx[owner].status # "completed"
    BY <1>3, <2>1 DEF Inv, CancellationIsOwned
  <2> QED BY <1>3, <2>1, <2>2, <2>3, SMTT(30) DEF QuietAt
<1>4. ASSUME NEW g \in Gens, task'[t].state = "absent" \/ g > task'[t].gen
      PROVE  rows'[<<t, g>>] = NoRow /\ dx'[<<t, g>>] = NoInstance /\ verdict'[<<t, g>>] = "none"
  <2>1. <<t, g>> \in Inst /\ <<t, g>>[1] = t /\ <<t, g>>[2] = g /\ QuietAt(<<t, g>>)
    BY Pairs
  <2>2. rows[<<t, g>>] = NoRow /\ dx[<<t, g>>] = NoInstance /\ verdict[<<t, g>>] = "none"
    <3>1. g \in Nat /\ (task[t].state = "absent" \/ g > task[t].gen)
      BY <1>1, <1>4, GensNat
    <3> QED BY <2>1, <3>1 DEF Inv, UnusedIsBlank
  <2> QED BY <2>1, <2>2 DEF QuietAt
<1> QED BY <1>2, <1>3, <1>4

\* A quiet step that leaves the task rows alone keeps what is said of tasks.
LEMMA QuietKeeps ==
    ASSUME Inv, UNCHANGED <<task, events>>, \A j \in Inst : QuietAt(j)
    PROVE  /\ EventLogTracksGeneration'
           /\ CurrentInstanceHasItsStart'
           /\ CancellationIsOwned'
           /\ CancelledOnlyAfterConfirmation'
           /\ UnusedIsBlank'
           /\ InstancesAreDelivered'
           /\ CancellationsAreAimed'
<1>1. EventLogTracksGeneration'
  BY DEF Inv, EventLogTracksGeneration
<1>2. CancelledOnlyAfterConfirmation'
  BY QuietConfirmed, Zenon DEF Inv, CancelledOnlyAfterConfirmation, Confirmed
<1>3. ASSUME NEW t \in Tasks PROVE task[t].gen \in Gens /\ task[t].gen >= task[t].gen
  <2>1. task[t].gen \in Gens
    BY DEF Inv, TypeOK, TaskRow
  <2>2. task[t].gen \in Nat
    BY <2>1, GensNat, Zenon
  <2> QED BY <2>1, <2>2
<1>4. CurrentInstanceHasItsStart'
  BY <1>3, QuietTask, Zenon DEF CurrentInstanceHasItsStart
<1>5. CancellationIsOwned'
  BY <1>3, QuietTask DEF CancellationIsOwned
<1>6. UnusedIsBlank'
  <2> SUFFICES ASSUME NEW i \in Inst, task[i[1]].state = "absent" \/ i[2] > task[i[1]].gen
               PROVE  rows'[i] = NoRow /\ dx'[i] = NoInstance /\ verdict'[i] = "none"
    BY DEF UnusedIsBlank
  <2>1. i[1] \in Tasks /\ i[2] \in Gens /\ i = <<i[1], i[2]>>
    BY Pairs
  <2>2. rows'[<<i[1], i[2]>>] = NoRow /\ dx'[<<i[1], i[2]>>] = NoInstance /\ verdict'[<<i[1], i[2]>>] = "none"
    BY <1>3, <2>1, QuietTask, Zenon
  <2> QED BY <2>1, <2>2
<1> QED BY <1>1, <1>2, <1>4, <1>5, <1>6, QuietInstances

\* What the invariant says of one instance.
LEMMA KnownAt ==
    ASSUME Inv, NEW j \in Inst
    PROVE  /\ rows[j] \in OutboxRow /\ dx[j] \in Instance /\ act[j] \in Activity
           /\ rows[j].delivery = "pending" => dx[j].status = "none"
           /\ act[j].pc # "idle" => rows[j].kind = "work"
           /\ dx[j].asked => IsTarget(j)
           /\ dx[j].status = "cancelled" => dx[j].asked
           /\ verdict[j] # "none" => rows[j].kind = "cancel" /\ dx[j].status = "running"
           /\ verdict[j] = "cancelled" => dx[Target(j)].status = "cancelled"
BY DEF Inv, TypeOK, InstancesAreDelivered, CancellationsAreAimed, IsTarget, Target

\* An instance that a step leaves alone.
LEMMA UntouchedIsQuiet ==
    ASSUME Inv, NEW j \in Inst, dx'[j] = dx[j], verdict'[j] \in {verdict[j], "none"},
           act'[j] = act[j] \/ act'[j].pc = "idle" \/ rows[j].kind = "work",
           rows'[j] = rows[j]
    PROVE  QuietAt(j)
BY DEF Inv, InstancesAreDelivered, CancellationsAreAimed, QuietAt, IsTarget, Target

\* What a cancellation aims at is a work instance, never another cancellation.
LEMMA TargetsAreWork ==
    ASSUME Inv, NEW j \in Inst, IsTarget(j) PROVE rows[j].kind = "work"
<1>1. PICK c \in Gens : rows[<<j[1], c>>].kind = "cancel" /\ rows[<<j[1], c>>].target = j[2]
  BY DEF IsTarget
<1>2. <<j[1], c>> \in Inst /\ <<j[1], c>>[1] = j[1] /\ j = <<j[1], j[2]>>
  BY Pairs
<1> QED BY <1>1, <1>2 DEF Inv, CancellationsAreAimed

\* Steps that leave task, events and repair alone keep the facts about them.
LEMMA NoRepairKeeps ==
    ASSUME Inv, UNCHANGED <<task, events, repair>>
    PROVE  RepairSnapshotCurrent' /\ AbsentIsBlank' /\ SnapshotNotAhead'
BY DEF Inv, RepairSnapshotCurrent, AbsentIsBlank, SnapshotNotAhead

\* A transition of a task's row, whoever makes it, keeps the event log in step
\* and no repair snapshot ahead of the row.
LEMMA AdvanceKeeps ==
    ASSUME Inv, NEW t \in Tasks, NEW state \in States, NEW inst \in Gens, NEW terminal \in BOOLEAN,
           Advance(t, state, inst, terminal), task[t].state # "absent", state # "absent",
           \A u \in Tasks : repair'[u] = repair[u] \/ repair'[u] = NoSnapshot
    PROVE  /\ EventLogTracksGeneration'
           /\ RepairSnapshotCurrent' /\ AbsentIsBlank' /\ SnapshotNotAhead'
           /\ task[t].gen \in Nat /\ task[t].gen + 1 \in Gens
           /\ task'[t] = [state |-> state, gen |-> task[t].gen + 1, inst |-> inst,
                          terminal |-> terminal]
           /\ \A u \in Tasks : u # t => task'[u] = task[u]
<1>1. task[t].gen \in Gens /\ task[t].gen \in Nat /\ task[t].gen + 1 \in Gens
  BY GensNat, Zenon DEF Inv, TypeOK, TaskRow, Advance
<1>2. task'[t] = [state |-> state, gen |-> task[t].gen + 1, inst |-> inst, terminal |-> terminal]
  BY DEF Advance, Inv, TypeOK
<1>3. \A u \in Tasks : u # t => task'[u] = task[u] /\ events'[u] = events[u]
  BY DEF Advance, InsertEvent, Inv, TypeOK
<1>4. events'[t] = [seqs |-> events[t].seqs \cup {task[t].gen + 1}, count |-> events[t].count + 1,
                    last |-> state]
  BY DEF Advance, InsertEvent, Inv, TypeOK
<1>5. EventLogTracksGeneration'
  <2>1. /\ events[t].seqs = 0 .. task[t].gen
        /\ events[t].count = task[t].gen + 1
    BY DEF Inv, EventLogTracksGeneration
  <2>2. 0 .. (task[t].gen + 1) = (0 .. task[t].gen) \cup {task[t].gen + 1}
    BY <1>1
  <2>3. /\ events'[t].seqs = 0 .. task'[t].gen
        /\ events'[t].count = task'[t].gen + 1
        /\ events'[t].last = task'[t].state
    BY <1>2, <1>4, <2>1, <2>2
  <2> QED BY <1>3, <2>3 DEF Inv, EventLogTracksGeneration
<1>6. \A u \in Tasks : repair'[u].held => repair'[u] = repair[u]
  BY DEF NoSnapshot
<1>7. ASSUME NEW u \in Tasks, repair'[u].held
      PROVE  /\ repair'[u].gen <= task'[u].gen
             /\ repair'[u].gen = task'[u].gen => repair'[u].inst = task'[u].inst
  <2>1. repair'[u] = repair[u] /\ repair[u].held /\ repair[u].gen <= task[u].gen
    BY <1>6, <1>7 DEF Inv, SnapshotNotAhead
  <2>2. CASE u = t
    <3>1. repair[u].gen \in Gens
      BY DEF Inv, TypeOK, Snapshot
    <3>2. repair[u].gen \in Nat
      BY <3>1, GensNat
    <3> QED BY <1>1, <1>2, <2>1, <2>2, <3>2
  <2>3. CASE u # t
    BY <1>3, <2>1, <2>3 DEF Inv, RepairSnapshotCurrent
  <2> QED BY <2>2, <2>3
<1>8. AbsentIsBlank'
  BY <1>2, <1>3, <1>6 DEF Inv, AbsentIsBlank
<1> QED BY <1>1, <1>2, <1>3, <1>5, <1>7, <1>8 DEF RepairSnapshotCurrent, SnapshotNotAhead

\* A transition that ends the task or moves it forward under the same instance.
LEMMA ProgressKeeps ==
    ASSUME Inv, NEW t \in Tasks, NEW state \in States, NEW terminal \in BOOLEAN,
           Advance(t, state, task[t].inst, terminal), task[t].state # "absent",
           state \notin {"absent", "cancellation_requested"},
           state = "cancelled" => Confirmed(t),
           \A j \in Inst : QuietAt(j),
           \A u \in Tasks : repair'[u] = repair[u] \/ repair'[u] = NoSnapshot,
           TypeOK'
    PROVE  Inv'
<1>1. \A u \in Tasks : task[u].gen \in Gens /\ task[u].inst \in Gens /\ task[u].gen \in Nat
  BY GensNat, Zenon DEF Inv, TypeOK, TaskRow
<1>2. /\ EventLogTracksGeneration'
      /\ RepairSnapshotCurrent' /\ AbsentIsBlank' /\ SnapshotNotAhead'
      /\ task[t].gen + 1 \in Gens
      /\ task'[t] = [state |-> state, gen |-> task[t].gen + 1, inst |-> task[t].inst,
                     terminal |-> terminal]
      /\ \A u \in Tasks : u # t => task'[u] = task[u]
  <2>1. task[t].inst \in Gens /\ state # "absent"
    BY <1>1
  <2> QED BY <2>1, AdvanceKeeps
<1>3. ASSUME NEW u \in Tasks
      PROVE  /\ task'[u].state = "absent" <=> task[u].state = "absent"
             /\ task'[u].inst = task[u].inst
             /\ task'[u].gen \in Gens /\ task'[u].gen >= task[u].gen
             /\ task'[u] = task[u] \/ task'[u].state # "cancellation_requested"
  <2>1. CASE u = t
    <3>1. /\ task'[u].state = state /\ task'[u].inst = task[u].inst
          /\ task'[u].gen = task[u].gen + 1
      BY <1>2, <2>1
    <3>2. task[u].gen \in Nat
      BY <1>1
    <3>3. task[u].gen + 1 >= task[u].gen
      BY <3>2
    <3> QED BY <1>2, <2>1, <3>1, <3>3
  <2>2. CASE u # t
    <3>1. task'[u] = task[u]
      BY <1>2, <2>2
    <3> QED BY <1>1, <3>1
  <2> QED BY <2>1, <2>2
<1>4. CurrentInstanceHasItsStart'
  BY <1>3, QuietTask, Zenon DEF CurrentInstanceHasItsStart
<1>5. CancellationIsOwned'
  BY <1>3, QuietTask DEF CancellationIsOwned
<1>6. UnusedIsBlank'
  <2> SUFFICES ASSUME NEW i \in Inst, task'[i[1]].state = "absent" \/ i[2] > task'[i[1]].gen
               PROVE  rows'[i] = NoRow /\ dx'[i] = NoInstance /\ verdict'[i] = "none"
    BY DEF UnusedIsBlank
  <2>1. i[1] \in Tasks /\ i[2] \in Gens /\ i = <<i[1], i[2]>>
    BY Pairs
  <2>2. rows'[<<i[1], i[2]>>] = NoRow /\ dx'[<<i[1], i[2]>>] = NoInstance /\ verdict'[<<i[1], i[2]>>] = "none"
    BY <1>3, <2>1, QuietTask, Zenon
  <2> QED BY <2>1, <2>2
<1>7. CancelledOnlyAfterConfirmation'
  <2>1. \A u \in Tasks : task'[u].state = "cancelled" => Confirmed(u)
    <3>1. \A u \in Tasks : task[u].state = "cancelled" => Confirmed(u)
      BY Zenon DEF Inv, CancelledOnlyAfterConfirmation, Confirmed
    <3> QED BY <1>2, <3>1, SMTT(30)
  <2>2. \A u \in Tasks : task'[u].state = "cancelled" => Confirmed(u)'
    BY <2>1, QuietConfirmed
  <2> QED BY <2>2, Zenon DEF CancelledOnlyAfterConfirmation, Confirmed
<1> QED BY <1>2, <1>4, <1>5, <1>6, <1>7, QuietInstances DEF Inv

\* The transactions that write an outbox row with the task's new generation.
LEMMA RowWritten ==
    ASSUME Inv, NEW t \in Tasks, NEW g \in Gens, task[t].state = "absent" \/ g > task[t].gen,
           NEW kind \in {"work", "cancel"}, NEW target \in Gens,
           kind = "cancel" => rows[<<t, target>>].kind = "work",
           rows' = [rows EXCEPT ![<<t, g>>] = Row(kind, target)],
           UNCHANGED <<dx, act, verdict>>,
           \A u \in Tasks : u # t => task'[u] = task[u],
           task'[t].gen = g, task'[t].state \notin {"absent", "cancelled"},
           task'[t].inst \in Gens, task'[t].inst <= g,
           rows'[<<t, task'[t].inst>>].kind = "work",
           task'[t].state = "cancellation_requested" =>
               ~task'[t].terminal /\ kind = "cancel" /\ target = task'[t].inst
    PROVE  /\ CurrentInstanceHasItsStart' /\ CancellationIsOwned'
           /\ CancelledOnlyAfterConfirmation' /\ UnusedIsBlank'
           /\ InstancesAreDelivered' /\ CancellationsAreAimed'
<1> DEFINE n == <<t, g>>
<1>1. n \in Inst /\ n[1] = t /\ n[2] = g
  BY Pairs
<1>2. rows[n] = NoRow /\ dx[n] = NoInstance /\ verdict[n] = "none"
  BY <1>1 DEF Inv, UnusedIsBlank
<1>3. rows'[n] = Row(kind, target) /\ \A j \in Inst : j # n => rows'[j] = rows[j]
  BY <1>1 DEF Inv, TypeOK
<1>4. rows'[n].kind = kind /\ rows'[n].delivery = "pending" /\ rows'[n].target = target
  BY <1>3 DEF Row
<1>5. \A j \in Inst : rows[j].kind # "none" => rows'[j] = rows[j]
  BY <1>2, <1>3 DEF NoRow
<1>6. \A u \in Tasks : task[u].gen \in Gens /\ task[u].inst \in Gens /\ task[u].gen \in Nat
  BY GensNat, Zenon DEF Inv, TypeOK, TaskRow
<1>7. CurrentInstanceHasItsStart'
  <2> SUFFICES ASSUME NEW u \in Tasks, task'[u].state # "absent"
               PROVE  task'[u].inst <= task'[u].gen /\ rows'[<<u, task'[u].inst>>].kind = "work"
    BY DEF CurrentInstanceHasItsStart, Current
  <2>1. CASE u # t
    <3>1. task'[u] = task[u] /\ <<u, task[u].inst>> \in Inst
      BY <1>6, <2>1, Pairs
    <3>2. task[u].inst <= task[u].gen /\ rows[<<u, task[u].inst>>].kind = "work"
      BY <3>1 DEF Inv, CurrentInstanceHasItsStart, Current
    <3> QED BY <1>5, <3>1, <3>2
  <2> QED BY <2>1
<1>8. CancellationIsOwned'
  <2> SUFFICES ASSUME NEW u \in Tasks, task'[u].state = "cancellation_requested"
               PROVE  /\ ~task'[u].terminal
                      /\ rows'[<<u, task'[u].gen>>].kind = "cancel"
                      /\ rows'[<<u, task'[u].gen>>].target = task'[u].inst
                      /\ verdict'[<<u, task'[u].gen>>] # "recorded"
                      /\ dx'[<<u, task'[u].gen>>].status # "completed"
    BY DEF CancellationIsOwned
  <2>1. CASE u # t
    <3>1. task'[u] = task[u] /\ <<u, task[u].gen>> \in Inst
      BY <1>6, <2>1, Pairs
    <3>2. /\ ~task[u].terminal
          /\ rows[<<u, task[u].gen>>].kind = "cancel"
          /\ rows[<<u, task[u].gen>>].target = task[u].inst
          /\ verdict[<<u, task[u].gen>>] # "recorded"
          /\ dx[<<u, task[u].gen>>].status # "completed"
      BY <3>1 DEF Inv, CancellationIsOwned
    <3> QED BY <1>5, <3>1, <3>2
  <2>2. CASE u = t
    BY <1>2, <1>4, <2>2 DEF NoInstance
  <2> QED BY <2>1, <2>2
<1>9. CancelledOnlyAfterConfirmation'
  <2> SUFFICES ASSUME NEW u \in Tasks, task'[u].state = "cancelled" PROVE Confirmed(u)'
    BY Zenon DEF CancelledOnlyAfterConfirmation, Confirmed
  <2>1. PICK h \in Gens, c \in Gens : /\ rows[<<u, h>>].kind = "work"
                                      /\ dx[<<u, h>>].status = "cancelled"
                                      /\ rows[<<u, c>>].kind = "cancel"
                                      /\ rows[<<u, c>>].target = h
    BY DEF Inv, CancelledOnlyAfterConfirmation
  <2>2. rows'[<<u, h>>] = rows[<<u, h>>] /\ rows'[<<u, c>>] = rows[<<u, c>>]
    BY <1>5, <2>1, Pairs
  <2> QED BY <2>1, <2>2 DEF Confirmed
<1>10. UnusedIsBlank'
  <2> SUFFICES ASSUME NEW i \in Inst, task'[i[1]].state = "absent" \/ i[2] > task'[i[1]].gen
               PROVE  rows'[i] = NoRow /\ dx'[i] = NoInstance /\ verdict'[i] = "none"
    BY DEF UnusedIsBlank
  <2>1. i[1] \in Tasks /\ i[2] \in Nat /\ g \in Nat /\ i[2] \in Gens
    BY Pairs, GensNat
  <2>2. i # n
    BY <1>1, <2>1
  <2>3. task[i[1]].state = "absent" \/ i[2] > task[i[1]].gen
    BY <1>6, <2>1
  <2> QED BY <1>3, <2>2, <2>3 DEF Inv, UnusedIsBlank
<1>11. InstancesAreDelivered'
  <2>1. act[n].pc = "idle"
    BY <1>1, <1>2 DEF Inv, InstancesAreDelivered, NoRow
  <2> QED BY <1>2, <1>3, <2>1 DEF Inv, InstancesAreDelivered, NoInstance
<1>12. CancellationsAreAimed'
  <2> SUFFICES ASSUME NEW i \in Inst
               PROVE
        /\ rows'[i].kind = "cancel" => rows'[<<i[1], rows'[i].target>>].kind = "work"
        /\ dx'[i].asked => \E c \in Gens : /\ rows'[<<i[1], c>>].kind = "cancel"
                                           /\ rows'[<<i[1], c>>].target = i[2]
        /\ dx'[i].status = "cancelled" => dx'[i].asked
        /\ verdict'[i] # "none" => rows'[i].kind = "cancel" /\ dx'[i].status = "running"
        /\ verdict'[i] = "cancelled" => dx'[<<i[1], rows'[i].target>>].status = "cancelled"
    BY DEF CancellationsAreAimed
  <2>0. i[1] \in Tasks /\ rows[i].target \in Gens /\ Target(i) \in Inst /\ <<t, target>> \in Inst
    BY Pairs DEF Inv, TypeOK, OutboxRow, Target
  <2>1. CASE i = n
    <3>1. i[1] = t /\ rows'[i].kind = kind /\ rows'[i].target = target
      BY <1>1, <1>4, <2>1
    <3>2. rows'[i].kind = "cancel" => rows'[<<i[1], rows'[i].target>>].kind = "work"
      <4>1. kind = "cancel" => rows'[<<t, target>>].kind = "work"
        BY <1>5, <2>0
      <4> QED BY <3>1, <4>1
    <3>3. dx'[i] = NoInstance /\ verdict'[i] = "none"
      BY <1>2, <2>1
    <3>4. ~dx'[i].asked /\ dx'[i].status # "cancelled"
      BY <3>3 DEF NoInstance
    <3> QED BY <3>2, <3>3, <3>4
  <2>2. CASE i # n
    <3>1. rows'[i] = rows[i]
      BY <1>3, <2>2
    <3>2. rows[i].kind = "cancel" => rows'[Target(i)].kind = "work"
      BY <1>5, <2>0 DEF Inv, CancellationsAreAimed, Target
    <3>3. ASSUME dx[i].asked
          PROVE  \E c \in Gens : rows'[<<i[1], c>>].kind = "cancel" /\ rows'[<<i[1], c>>].target = i[2]
      <4>1. PICK c \in Gens : rows[<<i[1], c>>].kind = "cancel" /\ rows[<<i[1], c>>].target = i[2]
        BY <3>3, Zenon DEF Inv, CancellationsAreAimed
      <4>2. rows'[<<i[1], c>>] = rows[<<i[1], c>>]
        BY <1>5, <2>0, <4>1, Pairs
      <4> QED BY <4>1, <4>2
    <3>4. /\ dx[i].status = "cancelled" => dx[i].asked
          /\ verdict[i] # "none" => rows[i].kind = "cancel" /\ dx[i].status = "running"
          /\ verdict[i] = "cancelled" => dx[<<i[1], rows[i].target>>].status = "cancelled"
      BY KnownAt, Zenon DEF Target
    <3>5. dx' = dx /\ verdict' = verdict
      OBVIOUS
    <3> QED BY <3>1, <3>2, <3>3, <3>4, <3>5, Zenon DEF Target
  <2> QED BY <2>1, <2>2
<1> QED BY <1>7, <1>8, <1>9, <1>10, <1>11, <1>12

\* Every operation of the service preserves the inductive invariant.
LEMMA InvStep == Inv /\ [Next]_vars => Inv'
<1> SUFFICES ASSUME Inv, [Next]_vars PROVE Inv'
  OBVIOUS
<1>0. TypeOK'
  BY TypeStep DEF Inv
<1>1. ASSUME NEW i \in Inst, Deliver(i) PROVE Inv'
  <2>1. \A j \in Inst : j # i => QuietAt(j)
    BY <1>1, UntouchedIsQuiet DEF Deliver, Inv, TypeOK
  <2>2. /\ rows'[i] = [rows[i] EXCEPT !.delivery = "dispatched"]
        /\ dx'[i] = [dx[i] EXCEPT !.status = "queued"]
        /\ act'[i] = act[i]
        /\ verdict'[i] = verdict[i]
    BY <1>1 DEF Deliver, Inv, TypeOK
  <2>3. QuietAt(i)
    BY <1>1, <2>2, KnownAt DEF Deliver, OutboxRow, Instance, Activity, QuietAt, NoRow, NoInstance, Idle
  <2>4. UNCHANGED <<task, events, repair>>
    BY <1>1 DEF Deliver
  <2> QED BY <1>0, <2>1, <2>3, <2>4, QuietKeeps, NoRepairKeeps DEF Inv
<1>2. ASSUME NEW i \in Inst, RejectStart(i) PROVE Inv'
  <2>1. \A j \in Inst : j # i => QuietAt(j)
    BY <1>2, UntouchedIsQuiet DEF RejectStart, Inv, TypeOK
  <2>2. /\ rows'[i] = [rows[i] EXCEPT !.delivery = "rejected"]
        /\ dx'[i] = dx[i]
        /\ act'[i] = act[i]
        /\ verdict'[i] = verdict[i]
    BY <1>2 DEF RejectStart, Inv, TypeOK
  <2>3. QuietAt(i)
    BY <1>2, <2>2, KnownAt DEF RejectStart, OutboxRow, Instance, Activity, QuietAt, NoRow, NoInstance, Idle
  <2>4. UNCHANGED <<task, events, repair>>
    BY <1>2 DEF RejectStart
  <2> QED BY <1>0, <2>1, <2>3, <2>4, QuietKeeps, NoRepairKeeps DEF Inv
<1>3. ASSUME NEW i \in Inst, Begin(i) PROVE Inv'
  <2>1. \A j \in Inst : j # i => QuietAt(j)
    BY <1>3, UntouchedIsQuiet DEF Begin, Inv, TypeOK
  <2>2. /\ rows'[i] = rows[i]
        /\ dx'[i] = [dx[i] EXCEPT !.status = "running"]
        /\ act'[i].pc # "idle" => rows[i].kind = "work"
        /\ verdict'[i] = verdict[i]
    BY <1>3 DEF Begin, Inv, TypeOK, Idle
  <2>3. QuietAt(i)
    BY <1>3, <2>2, KnownAt DEF Begin, OutboxRow, Instance, Activity, QuietAt, NoRow, NoInstance, Idle
  <2>4. UNCHANGED <<task, events, repair>>
    BY <1>3 DEF Begin
  <2> QED BY <1>0, <2>1, <2>3, <2>4, QuietKeeps, NoRepairKeeps DEF Inv
<1>4. ASSUME NEW i \in Inst, NEW result \in Results, ActivityRead(i, result) PROVE Inv'
  <2>1. \A j \in Inst : j # i => QuietAt(j)
    BY <1>4, UntouchedIsQuiet DEF ActivityRead, Inv, TypeOK
  <2>2. /\ rows'[i] = rows[i]
        /\ dx'[i] = dx[i]
        /\ verdict'[i] = verdict[i]
    BY <1>4 DEF ActivityRead, Inv, TypeOK
  <2>3. QuietAt(i)
    BY <1>4, <2>2, KnownAt DEF ActivityRead, OutboxRow, Instance, Activity, QuietAt, NoRow, NoInstance, Idle
  <2>4. UNCHANGED <<task, events, repair>>
    BY <1>4 DEF ActivityRead
  <2> QED BY <1>0, <2>1, <2>3, <2>4, QuietKeeps, NoRepairKeeps DEF Inv
<1>5. ASSUME NEW i \in Inst, Turn(i) PROVE Inv'
  <2>1. \A j \in Inst : j # i => QuietAt(j)
    BY <1>5, UntouchedIsQuiet DEF Turn, Inv, TypeOK
  <2>2. /\ rows'[i] = rows[i]
        /\ verdict'[i] = verdict[i]
        /\ dx'[i].asked = dx[i].asked
        /\ dx'[i].status \in {"running", "completed"}
    <3>1. dx'[i].asked = dx[i].asked /\ dx'[i].status \in {"running", "completed"}
      <4>1. CASE dx' = [dx EXCEPT ![i] = [@ EXCEPT !.status = "completed", !.output = act[i].result]]
        BY <4>1 DEF Inv, TypeOK, Instance
      <4>2. CASE dx' = [dx EXCEPT ![i].phase = "inject"]
        BY <1>5, <4>2 DEF Turn, Inv, TypeOK, Instance
      <4>3. CASE dx' = dx
        BY <1>5, <4>3 DEF Turn
      <4> QED BY <1>5, <4>1, <4>2, <4>3 DEF Turn
    <3> QED BY <1>5, <3>1 DEF Turn
  <2>3. QuietAt(i)
    BY <1>5, <2>2, KnownAt DEF Turn, OutboxRow, Instance, Activity, QuietAt, NoRow, NoInstance, Idle
  <2>4. UNCHANGED <<task, events, repair>>
    BY <1>5 DEF Turn
  <2> QED BY <1>0, <2>1, <2>3, <2>4, QuietKeeps, NoRepairKeeps DEF Inv
<1>6. ASSUME NEW i \in Inst, ActivityFails(i) PROVE Inv'
  <2>1. \A j \in Inst : j # i => QuietAt(j)
    BY <1>6, UntouchedIsQuiet DEF ActivityFails, Inv, TypeOK
  <2>2. /\ rows'[i] = rows[i]
        /\ dx'[i] = [dx[i] EXCEPT !.status = "failed"]
        /\ act'[i].pc = "idle"
        /\ verdict'[i] = verdict[i]
    BY <1>6 DEF ActivityFails, Inv, TypeOK, Idle
  <2>3. QuietAt(i)
    BY <1>6, <2>2, KnownAt DEF ActivityFails, OutboxRow, Instance, Activity, QuietAt, NoRow, NoInstance, Idle
  <2>4. UNCHANGED <<task, events, repair>>
    BY <1>6 DEF ActivityFails
  <2> QED BY <1>0, <2>1, <2>3, <2>4, QuietKeeps, NoRepairKeeps DEF Inv
<1>7. ASSUME NEW i \in Inst, CancelTurn(i) PROVE Inv'
  <2>1. \A j \in Inst : j # i => QuietAt(j)
    BY <1>7, UntouchedIsQuiet DEF CancelTurn, Inv, TypeOK
  <2>2. /\ rows'[i] = rows[i]
        /\ dx'[i] = [dx[i] EXCEPT !.status = "cancelled"]
        /\ act'[i] = act[i]
        /\ verdict'[i] = verdict[i]
    BY <1>7 DEF CancelTurn, Inv, TypeOK
  <2>3. QuietAt(i)
    BY <1>7, <2>2, KnownAt, TargetsAreWork DEF CancelTurn, OutboxRow, Instance, Activity, QuietAt, NoRow, NoInstance, Idle
  <2>4. UNCHANGED <<task, events, repair>>
    BY <1>7 DEF CancelTurn
  <2> QED BY <1>0, <2>1, <2>3, <2>4, QuietKeeps, NoRepairKeeps DEF Inv
<1>8. ASSUME NEW i \in Inst, DropLateActivity(i) PROVE Inv'
  <2>1. \A j \in Inst : j # i => QuietAt(j)
    BY <1>8, UntouchedIsQuiet DEF DropLateActivity, Inv, TypeOK
  <2>2. /\ rows'[i] = rows[i]
        /\ dx'[i] = dx[i]
        /\ act'[i].pc = "idle"
        /\ verdict'[i] = verdict[i]
    BY <1>8 DEF DropLateActivity, Inv, TypeOK, Idle
  <2>3. QuietAt(i)
    BY <2>2, UntouchedIsQuiet, Zenon
  <2>4. UNCHANGED <<task, events, repair>>
    BY <1>8 DEF DropLateActivity
  <2> QED BY <1>0, <2>1, <2>3, <2>4, QuietKeeps, NoRepairKeeps DEF Inv
<1>10. ASSUME NEW i \in Inst, CancellationReturns(i) PROVE Inv'
  <2>1. \A j \in Inst : j # i => QuietAt(j)
    BY <1>10, UntouchedIsQuiet DEF CancellationReturns, Inv, TypeOK
  <2>2. /\ rows'[i] = rows[i]
        /\ dx'[i] = [dx[i] EXCEPT !.status = "completed"]
        /\ act'[i] = act[i]
        /\ verdict'[i] = "none"
    BY <1>10 DEF CancellationReturns, Inv, TypeOK
  <2>3. QuietAt(i)
    BY <1>10, <2>2, KnownAt DEF CancellationReturns, OutboxRow, Instance, Activity, QuietAt, NoRow, NoInstance, Idle
  <2>4. UNCHANGED <<task, events, repair>>
    BY <1>10 DEF CancellationReturns
  <2> QED BY <1>0, <2>1, <2>3, <2>4, QuietKeeps, NoRepairKeeps DEF Inv
<1>11. ASSUME NEW i \in Inst, ReconcileFails(i) PROVE Inv'
  <2>1. \A j \in Inst : j # i => QuietAt(j)
    BY <1>11, UntouchedIsQuiet DEF ReconcileFails, Inv, TypeOK
  <2>2. /\ rows'[i] = rows[i]
        /\ dx'[i] = [dx[i] EXCEPT !.status = "failed"]
        /\ act'[i] = act[i]
        /\ verdict'[i] = "none"
    BY <1>11 DEF ReconcileFails, Inv, TypeOK
  <2>3. QuietAt(i)
    BY <1>11, <2>2, KnownAt DEF ReconcileFails, OutboxRow, Instance, Activity, QuietAt, NoRow, NoInstance, Idle
  <2>4. UNCHANGED <<task, events, repair>>
    BY <1>11 DEF ReconcileFails
  <2> QED BY <1>0, <2>1, <2>3, <2>4, QuietKeeps, NoRepairKeeps DEF Inv
<1>9. ASSUME NEW i \in Inst, Inspect(i) PROVE Inv'
  <2> DEFINE target == Target(i)
  <2>1. target \in Inst /\ i = <<i[1], i[2]>> /\ i[2] \in Gens /\ target[1] = i[1] /\ target[2] = rows[i].target
    BY Pairs DEF Inv, TypeOK, OutboxRow, Target
  <2>2. IsTarget(target)
    BY <1>9, <2>1 DEF Inspect, IsTarget
  <2>3. \A j \in Inst : QuietAt(j)
    <3>1. CASE dx[target].status = "running"
      <4>1. dx' = [dx EXCEPT ![target].asked = TRUE] /\ verdict' = verdict
        BY <1>9, <3>1 DEF Inspect, Target
      <4>2. \A j \in Inst : j # target => QuietAt(j)
        BY <1>9, <4>1, UntouchedIsQuiet DEF Inspect, Inv, TypeOK
      <4>3. dx'[target] = [dx[target] EXCEPT !.asked = TRUE] /\ rows'[target] = rows[target]
            /\ act'[target] = act[target] /\ verdict'[target] = verdict[target]
        BY <1>9, <2>1, <4>1 DEF Inspect, Inv, TypeOK
      <4>4. QuietAt(target)
        BY <2>1, <2>2, <3>1, <4>3, KnownAt DEF OutboxRow, Instance, Activity, QuietAt, NoRow, NoInstance
      <4> QED BY <4>2, <4>4
    <3>2. CASE dx[target].status # "running"
      <4>1. dx' = dx /\ verdict' = [verdict EXCEPT ![i] = CancellationVerdict(dx[target].status)]
        BY <1>9, <3>2 DEF Inspect, Target
      <4>2. \A j \in Inst : j # i => QuietAt(j)
        BY <1>9, <4>1, UntouchedIsQuiet DEF Inspect, Inv, TypeOK
      <4>3. dx'[i] = dx[i] /\ rows'[i] = rows[i] /\ act'[i] = act[i]
            /\ verdict'[i] = CancellationVerdict(dx[target].status)
        BY <1>9, <4>1 DEF Inspect, Inv, TypeOK
      <4>4. QuietAt(i)
        BY <1>9, <4>3, KnownAt DEF Inspect, CancellationVerdict, QuietAt, NoRow
      <4> QED BY <4>2, <4>4
    <3> QED BY <3>1, <3>2
  <2>4. UNCHANGED <<task, events, repair>>
    BY <1>9 DEF Inspect
  <2> QED BY <1>0, <2>3, <2>4, QuietKeeps, NoRepairKeeps DEF Inv
<1>12. ASSUME NEW t \in Tasks, DeadlinePasses(t) PROVE Inv'
  <2>1. \A j \in Inst : QuietAt(j)
    BY <1>12, UntouchedIsQuiet DEF DeadlinePasses
  <2>2. UNCHANGED <<task, events, repair>>
    BY <1>12 DEF DeadlinePasses
  <2> QED BY <1>0, <2>1, <2>2, QuietKeeps, NoRepairKeeps DEF Inv
<1>13. CASE UNCHANGED vars
  <2>1. \A j \in Inst : QuietAt(j)
    BY <1>13, UntouchedIsQuiet DEF vars
  <2>2. UNCHANGED <<task, events, repair>>
    BY <1>13 DEF vars
  <2> QED BY <1>0, <2>1, <2>2, QuietKeeps, NoRepairKeeps DEF Inv
<1>14. CASE Crash
  <2>1. \A j \in Inst : QuietAt(j)
    <3>1. \A j \in Inst : act'[j] = act[j] \/ act'[j].pc = "idle" \/ act[j].pc # "idle"
      BY <1>14 DEF Crash, Idle
    <3> QED BY <1>14, <3>1, KnownAt, UntouchedIsQuiet DEF Crash
  <2>2. UNCHANGED <<task, events>> /\ \A t \in Tasks : ~repair'[t].held
    BY <1>14 DEF Crash, NoSnapshot
  <2>3. RepairSnapshotCurrent' /\ AbsentIsBlank' /\ SnapshotNotAhead'
    BY <2>2 DEF Inv, RepairSnapshotCurrent, AbsentIsBlank, SnapshotNotAhead
  <2> QED BY <1>0, <2>1, <2>2, <2>3, QuietKeeps DEF Inv
<1>15. CASE RepairAborts
  <2>1. \A j \in Inst : QuietAt(j)
    BY <1>15, UntouchedIsQuiet DEF RepairAborts
  <2>2. UNCHANGED <<task, events>> /\ \A t \in Tasks : ~repair'[t].held
    BY <1>15 DEF RepairAborts, NoSnapshot
  <2>3. RepairSnapshotCurrent' /\ AbsentIsBlank' /\ SnapshotNotAhead'
    BY <2>2 DEF Inv, RepairSnapshotCurrent, AbsentIsBlank, SnapshotNotAhead
  <2> QED BY <1>0, <2>1, <2>2, <2>3, QuietKeeps DEF Inv
<1>16. CASE RepairSelect
  <2>1. \A j \in Inst : QuietAt(j)
    BY <1>16, UntouchedIsQuiet DEF RepairSelect
  <2>2. UNCHANGED <<task, events>>
    BY <1>16 DEF RepairSelect
  <2>3. ASSUME NEW t \in Tasks
        PROVE  repair'[t].held => /\ task[t].state # "absent"
                                  /\ repair'[t].gen = task[t].gen
                                  /\ repair'[t].inst = task[t].inst
    BY <1>16 DEF RepairSelect, NoSnapshot
  <2>4. \A t \in Tasks : task[t].gen \in Nat
    BY GensNat, Zenon DEF Inv, TypeOK, TaskRow
  <2>5. RepairSnapshotCurrent' /\ AbsentIsBlank' /\ SnapshotNotAhead'
    BY <2>2, <2>3, <2>4 DEF Inv, RepairSnapshotCurrent, AbsentIsBlank, SnapshotNotAhead
  <2> QED BY <1>0, <2>1, <2>2, <2>5, QuietKeeps DEF Inv
<1>17. ASSUME NEW t \in Tasks, Accept(t) PROVE Inv'
  <2>1. 0 \in Gens /\ 0 <= 0
    BY GensNat
  <2>2. /\ task'[t] = [state |-> "queued", gen |-> 0, inst |-> 0, terminal |-> FALSE]
        /\ \A u \in Tasks : u # t => task'[u] = task[u] /\ events'[u] = events[u]
    BY <1>17, Zenon DEF Accept, InsertEvent, NoTask, Inv, TypeOK
  <2>3. events[t] = NoEvents /\ ~repair[t].held
    BY <1>17 DEF Accept, Inv, AbsentIsBlank
  <2>4. events'[t] = [seqs |-> {0}, count |-> 1, last |-> "queued"]
    BY <1>17, <2>3 DEF Accept, InsertEvent, NoEvents, Inv, TypeOK
  <2>5. EventLogTracksGeneration'
    <3>1. 0 .. 0 = {0}
      OBVIOUS
    <3> QED BY <2>2, <2>4, <3>1, SMTT(30) DEF EventLogTracksGeneration, Inv
  <2>6. RepairSnapshotCurrent' /\ AbsentIsBlank' /\ SnapshotNotAhead'
    BY <1>17, <2>2, <2>3 DEF Accept, Inv, RepairSnapshotCurrent, AbsentIsBlank, SnapshotNotAhead
  <2>7. rows'[<<t, 0>>].kind = "work"
    BY <1>17, <2>1, Pairs DEF Accept, Row, Inv, TypeOK
  <2>8. /\ CurrentInstanceHasItsStart' /\ CancellationIsOwned'
        /\ CancelledOnlyAfterConfirmation' /\ UnusedIsBlank'
        /\ InstancesAreDelivered' /\ CancellationsAreAimed'
    <3>1. /\ task[t].state = "absent" /\ rows' = [rows EXCEPT ![<<t, 0>>] = Row("work", 0)]
          /\ UNCHANGED <<dx, act, verdict>>
      BY <1>17 DEF Accept
    <3>2. /\ \A u \in Tasks : u # t => task'[u] = task[u]
          /\ task'[t].gen = 0 /\ task'[t].inst = 0
          /\ task'[t].state \notin {"absent", "cancelled", "cancellation_requested"}
      BY <2>2, SMTT(30)
    <3>3. rows'[<<t, task'[t].inst>>].kind = "work"
      BY <2>7, <3>2
    <3> QED BY <2>1, <3>1, <3>2, <3>3, RowWritten, Zenon
  <2> QED BY <1>0, <2>5, <2>6, <2>8 DEF Inv
<1>18. ASSUME NEW t \in Tasks, RequestCancel(t) PROVE Inv'
  <2> DEFINE g == task[t].gen + 1
  <2>1. task[t].inst \in Gens /\ "cancellation_requested" \in States /\ task[t].state # "absent"
    BY <1>18 DEF RequestCancel, Inv, TypeOK, TaskRow, States, ActiveStates
  <2>2. /\ EventLogTracksGeneration'
        /\ RepairSnapshotCurrent' /\ AbsentIsBlank' /\ SnapshotNotAhead'
        /\ task[t].gen \in Nat /\ g \in Gens
        /\ task'[t] = [state |-> "cancellation_requested", gen |-> g, inst |-> task[t].inst,
                       terminal |-> FALSE]
        /\ \A u \in Tasks : u # t => task'[u] = task[u]
    BY <1>18, <2>1, AdvanceKeeps, Zenon DEF RequestCancel
  <2>3. task[t].inst \in Nat /\ task[t].inst <= task[t].gen /\ rows[<<t, task[t].inst>>].kind = "work"
    BY <2>1, GensNat, Zenon DEF Inv, CurrentInstanceHasItsStart, Current
  <2>4. task[t].inst <= g /\ g > task[t].gen /\ task[t].inst # g
    BY <2>2, <2>3, NextIsNew, Zenon
  <2>5. rows'[<<t, task[t].inst>>].kind = "work"
    <3>1. <<t, task[t].inst>> \in Inst /\ <<t, task[t].inst>> # <<t, g>>
      BY <2>1, <2>4, Pairs
    <3> QED BY <1>18, <2>3, <3>1 DEF RequestCancel, Inv, TypeOK
  <2>6. /\ CurrentInstanceHasItsStart' /\ CancellationIsOwned'
        /\ CancelledOnlyAfterConfirmation' /\ UnusedIsBlank'
        /\ InstancesAreDelivered' /\ CancellationsAreAimed'
    <3>1. /\ rows' = [rows EXCEPT ![<<t, g>>] = Row("cancel", task[t].inst)]
          /\ UNCHANGED <<dx, act, verdict>>
      BY <1>18 DEF RequestCancel
    <3>2. /\ \A u \in Tasks : u # t => task'[u] = task[u]
          /\ task'[t].gen = g /\ task'[t].inst = task[t].inst /\ ~task'[t].terminal
          /\ task'[t].state \notin {"absent", "cancelled"}
      BY <2>2
    <3>3. rows'[<<t, task'[t].inst>>].kind = "work"
      BY <2>5, <3>2
    <3>4. task'[t].inst \in Gens /\ task'[t].inst <= g /\ g \in Gens /\ g > task[t].gen
          /\ rows[<<t, task[t].inst>>].kind = "work"
      BY <2>1, <2>2, <2>3, <2>4, <3>2
    <3> HIDE DEF g
    <3> QED BY <2>1, <3>1, <3>2, <3>3, <3>4, RowWritten, Zenon
  <2> QED BY <1>0, <2>2, <2>6 DEF Inv
<1>19. ASSUME NEW t \in Tasks, Retry(t) PROVE Inv'
  <2> DEFINE g == task[t].gen + 1
  <2>1. "queued" \in States /\ task[t].state # "absent" /\ task[t].gen \in Nat /\ g \in Gens /\ 0 \in Gens
    BY <1>19, GensNat, Zenon DEF Retry, Advance, Inv, TypeOK, TaskRow, States, ActiveStates
  <2>2. /\ EventLogTracksGeneration'
        /\ RepairSnapshotCurrent' /\ AbsentIsBlank' /\ SnapshotNotAhead'
        /\ task'[t] = [state |-> "queued", gen |-> g, inst |-> g, terminal |-> FALSE]
        /\ \A u \in Tasks : u # t => task'[u] = task[u]
    BY <1>19, <2>1, AdvanceKeeps, Zenon DEF Retry
  <2>3. g <= g /\ g > task[t].gen
    BY <2>1
  <2>4. rows'[<<t, g>>].kind = "work"
    BY <1>19, <2>1, Pairs DEF Retry, Row, Inv, TypeOK
  <2>5. /\ CurrentInstanceHasItsStart' /\ CancellationIsOwned'
        /\ CancelledOnlyAfterConfirmation' /\ UnusedIsBlank'
        /\ InstancesAreDelivered' /\ CancellationsAreAimed'
    <3>1. /\ rows' = [rows EXCEPT ![<<t, g>>] = Row("work", 0)]
          /\ UNCHANGED <<dx, act, verdict>>
      BY <1>19 DEF Retry
    <3>2. /\ \A u \in Tasks : u # t => task'[u] = task[u]
          /\ task'[t].gen = g /\ task'[t].inst = g
          /\ task'[t].state \notin {"absent", "cancelled", "cancellation_requested"}
      BY <2>2
    <3>3. rows'[<<t, task'[t].inst>>].kind = "work"
      BY <2>4, <3>2
    <3>4. task'[t].inst \in Gens /\ task'[t].inst <= g /\ g \in Gens /\ g > task[t].gen
      BY <2>1, <2>3, <3>2
    <3> HIDE DEF g
    <3> QED BY <2>1, <3>1, <3>2, <3>3, <3>4, RowWritten, Zenon
  <2> QED BY <1>0, <2>2, <2>5 DEF Inv
<1>20. ASSUME NEW t \in Tasks, RepairOne(t) PROVE Inv'
  <2> DEFINE i == <<t, repair[t].inst>>
             ending == RepairedTerminal(i)
  <2>1. task[t].state # "absent" /\ repair[t].inst \in Gens /\ i \in Inst /\ i[1] = t /\ i[2] = repair[t].inst
    BY <1>20, Pairs DEF RepairOne, Inv, AbsentIsBlank, TypeOK, Snapshot
  <2>2. \A j \in Inst : QuietAt(j)
    BY <1>20, UntouchedIsQuiet DEF RepairOne
  <2>3. \A u \in Tasks : repair'[u] = repair[u] \/ repair'[u] = NoSnapshot
    BY <1>20 DEF RepairOne, Inv, TypeOK
  <2>4. CASE UNCHANGED <<task, events>>
    <3>1. \A u \in Tasks : repair'[u].held => repair'[u] = repair[u]
      BY <2>3 DEF NoSnapshot
    <3>2. RepairSnapshotCurrent' /\ AbsentIsBlank' /\ SnapshotNotAhead'
      BY <2>4, <3>1 DEF Inv, RepairSnapshotCurrent, AbsentIsBlank, SnapshotNotAhead
    <3> QED BY <1>0, <2>2, <2>4, <3>2, QuietKeeps DEF Inv
  <2>5. CASE ending # "none" /\ Advance(t, ending, task[t].inst, TRUE)
    <3>1. dx[i].output \in Results \cup {"none"}
      BY <2>1 DEF Inv, TypeOK, Instance
    <3>2. ending \in States /\ ending \notin {"absent", "cancellation_requested"}
      BY <2>5, <3>1 DEF RepairedTerminal, Results, States, FinalStates, EvaluateFinal, InjectFinal,
         ActiveStates
    <3>3. ASSUME ending = "cancelled" PROVE Confirmed(t)
      <4>1. dx[i].status = "cancelled"
        BY <3>1, <3>3 DEF RepairedTerminal, Results, EvaluateFinal, InjectFinal
      <4>2. IsTarget(i)
        BY <2>1, <4>1, KnownAt
      <4>3. rows[i].kind = "work"
        BY <2>1, <4>2, TargetsAreWork
      <4> QED BY <2>1, <4>1, <4>2, <4>3 DEF IsTarget, Confirmed
    <3> HIDE DEF ending
    <3> QED BY <1>0, <2>1, <2>2, <2>3, <2>5, <3>2, <3>3, ProgressKeeps, Zenon
  <2> QED BY <1>20, <2>4, <2>5, Zenon DEF RepairOne, ProjectTask
<1>21. ASSUME NEW i \in Inst, ActivityProject(i) PROVE Inv'
  <2> DEFINE t == i[1]
             state == act[i].result
  <2>1. i[1] \in Tasks /\ i = <<i[1], i[2]>> /\ rows[i].kind = "work"
    BY <1>21, Pairs, KnownAt DEF ActivityProject
  <2>2. task[t].state # "absent"
    BY <2>1 DEF Inv, UnusedIsBlank, NoRow
  <2>3. \A j \in Inst : QuietAt(j)
    <3>1. \A j \in Inst : j # i => act'[j] = act[j]
      BY <1>21 DEF ActivityProject, Inv, TypeOK
    <3> QED BY <1>21, <2>1, <3>1, UntouchedIsQuiet DEF ActivityProject
  <2>4. UNCHANGED repair
    BY <1>21 DEF ActivityProject
  <2>5. CASE UNCHANGED <<task, events>>
    BY <1>0, <2>3, <2>4, <2>5, QuietKeeps, NoRepairKeeps DEF Inv
  <2>6. CASE Advance(t, state, task[t].inst, state \in FinalStates)
    <3>1. act[i] \in Activity
      BY DEF Inv, TypeOK
    <3>2. state \in Results
      BY <1>21, <3>1 DEF ActivityProject, Activity
    <3>3. state \in States /\ state \notin {"absent", "cancellation_requested", "cancelled"}
      BY <3>2 DEF Results, States, FinalStates, EvaluateFinal, InjectFinal, ActiveStates
    <3>4. (state \in FinalStates) \in BOOLEAN
      OBVIOUS
    <3>5. \A u \in Tasks : repair'[u] = repair[u] \/ repair'[u] = NoSnapshot
      BY <2>4
    <3> HIDE DEF state
    <3> QED BY <1>0, <2>1, <2>2, <2>3, <2>6, <3>3, <3>4, <3>5, ProgressKeeps, ZenonT(30)
  <2> QED BY <1>21, <2>5, <2>6 DEF ActivityProject, ProjectTask
<1>22. ASSUME NEW i \in Inst, RecordTerminal(i) PROVE Inv'
  <2> DEFINE t == i[1]
  <2>1. /\ i[1] \in Tasks /\ i[2] \in Gens /\ i = <<i[1], i[2]>>
        /\ rows[i].kind = "cancel" /\ dx[i].status = "running" /\ rows[i].target \in Gens
    <3>1. verdict[i] # "none"
      BY <1>22 DEF RecordTerminal, FinalStates, EvaluateFinal, InjectFinal
    <3>2. rows[i] \in OutboxRow /\ rows[i].kind = "cancel" /\ dx[i].status = "running"
      BY <3>1, KnownAt, Zenon
    <3>3. rows[i].target \in Gens
      BY <3>2 DEF OutboxRow
    <3> QED BY <3>2, <3>3, Pairs, Zenon
  <2>2. verdict[i] \in FinalStates /\ UNCHANGED <<rows, dx, act, repair>>
    BY <1>22 DEF RecordTerminal
  <2>3. \A j \in Inst : j # i => QuietAt(j)
    BY <1>22, <2>2, UntouchedIsQuiet DEF RecordTerminal, Inv, TypeOK
  <2>4. verdict'[i] = "recorded"
    BY <1>22 DEF RecordTerminal, Inv, TypeOK
  <2>5. task'[t].state # "cancellation_requested" => QuietAt(i)
    BY <2>1, <2>2, <2>4, KnownAt, SMTT(30) DEF QuietAt, NoRow
  <2>6. CASE task[t].state = "cancellation_requested" /\ ~task[t].terminal
    <3>1. Advance(t, verdict[i], task[t].inst, TRUE)
      BY <1>22, <2>6, Zenon DEF RecordTerminal
    <3>2. verdict[i] \in States /\ verdict[i] \notin {"absent", "cancellation_requested"}
      BY <2>2 DEF States, FinalStates, EvaluateFinal, InjectFinal
    <3>3. task'[t].state = verdict[i]
      BY <2>1, <3>1 DEF Advance, Inv, TypeOK
    <3>4. \A j \in Inst : QuietAt(j)
      BY <2>3, <2>5, <3>2, <3>3
    <3>5. ASSUME verdict[i] = "cancelled" PROVE Confirmed(t)
      <4>1. dx[<<i[1], rows[i].target>>].status = "cancelled" /\ rows[<<i[1], rows[i].target>>].kind = "work"
        BY <2>1, <3>5 DEF Inv, CancellationsAreAimed
      <4> QED BY <2>1, <4>1 DEF Confirmed
    <3>6. \A u \in Tasks : repair'[u] = repair[u] \/ repair'[u] = NoSnapshot
      BY <2>2
    <3> QED BY <1>0, <2>1, <2>6, <3>1, <3>2, <3>4, <3>5, <3>6, ProgressKeeps, Zenon
  <2>7. CASE task[t].state # "cancellation_requested"
    <3>1. UNCHANGED <<task, events>>
      BY <1>22, <2>7, Zenon DEF RecordTerminal
    <3>2. \A j \in Inst : QuietAt(j)
      BY <2>3, <2>5, <2>7, <3>1
    <3> QED BY <1>0, <2>2, <3>1, <3>2, QuietKeeps, NoRepairKeeps DEF Inv
  <2>8. task[t].state = "cancellation_requested" => ~task[t].terminal
    BY <2>1, ZenonT(30) DEF Inv, CancellationIsOwned
  <2> QED BY <2>6, <2>7, <2>8
<1> QED BY <1>1, <1>2, <1>3, <1>4, <1>5, <1>6, <1>7, <1>8, <1>9, <1>10, <1>11, <1>12, <1>13,
           <1>14, <1>15, <1>16, <1>17, <1>18, <1>19, <1>20, <1>21, <1>22
        DEF Next, CandidateStep, CancellationStep

\* The task row, its event log, its outbox rows, the cancellation workflows and
\* the repair loop agree in every reachable state, for any tasks and bounds.
THEOREM Safety == Spec => []Inv
BY InvInit, InvStep, PTL DEF Spec

\* No writer of the row skips or repeats an event: the log holds one event per
\* generation and its newest one shows the row's state.
THEOREM EventLogCorrect == Spec => []EventLogTracksGeneration
<1>1. Inv => EventLogTracksGeneration
  BY DEF Inv
<1> QED BY <1>1, Safety, PTL

\* A failed or cancelled task can always be retried: retry's join finds the start
\* of its current instance.
THEOREM RetryFindsStart == Spec => []CurrentInstanceHasItsStart
<1>1. Inv => CurrentInstanceHasItsStart
  BY DEF Inv
<1> QED BY <1>1, Safety, PTL

\* A requested cancellation is never orphaned: a workflow that aims at the
\* current instance still has it to do.
THEOREM CancellationOwned == Spec => []CancellationIsOwned
<1>1. Inv => CancellationIsOwned
  BY DEF Inv
<1> QED BY <1>1, Safety, PTL

\* The generation alone tells the repair loop that its instance is current.
THEOREM RepairCurrent == Spec => []RepairSnapshotCurrent
<1>1. Inv => RepairSnapshotCurrent
  BY DEF Inv
<1> QED BY <1>1, Safety, PTL

\* "cancelled" is shown only after Duroxide confirmed a requested cancellation.
THEOREM CancelledConfirmed == Spec => []CancelledOnlyAfterConfirmation
<1>1. Inv => CancelledOnlyAfterConfirmation
  BY DEF Inv
<1> QED BY <1>1, Safety, PTL

-----------------------------------------------------------------------------
(* What a step may do                                                      *)

Reopened(t) ==
    /\ task[t].state \in {"failed", "cancelled"}
    /\ task'[t] = [state |-> "queued", gen |-> task[t].gen + 1,
                   inst |-> task[t].gen + 1, terminal |-> FALSE]

\* project_task leaves a terminal row alone.
LEMMA ProjectTaskSparesTerminal ==
    ASSUME TypeOK, NEW u \in Tasks, NEW expected, NEW state, NEW terminal,
           ProjectTask(u, expected, state, terminal), NEW t \in Tasks, task[t].terminal
    PROVE  task'[t] = task[t]
BY DEF ProjectTask, Advance, TypeOK

\* A terminal row is left only by Retry.
LEMMA TerminalStep ==
    ASSUME Inv, Next, NEW t \in Tasks, task[t].terminal, task'[t] # task[t]
    PROVE  Reopened(t)
<1>1. TypeOK /\ task[t].state # "absent"
  BY DEF Inv, AbsentIsBlank, NoTask
<1>2. ASSUME NEW u \in Tasks, Accept(u) PROVE FALSE
  BY <1>1, <1>2 DEF Accept, TypeOK
<1>3. ASSUME NEW u \in Tasks, RequestCancel(u) PROVE FALSE
  BY <1>1, <1>3 DEF RequestCancel, Advance, TypeOK
<1>4. ASSUME NEW u \in Tasks, Retry(u) PROVE Reopened(t)
  BY <1>1, <1>4, Zenon DEF Retry, Advance, TypeOK, Reopened
<1>5. ASSUME NEW u \in Tasks, RepairOne(u) PROVE FALSE
  BY <1>1, <1>5, ProjectTaskSparesTerminal, Zenon DEF RepairOne
<1>6. ASSUME NEW i \in Inst, ActivityProject(i) PROVE FALSE
  BY <1>1, <1>6, Pairs, ProjectTaskSparesTerminal DEF ActivityProject
<1>7. ASSUME NEW i \in Inst, RecordTerminal(i) PROVE FALSE
  BY <1>1, <1>7, Pairs DEF RecordTerminal, Advance, TypeOK
<1>8. ASSUME UNCHANGED task PROVE FALSE
  BY <1>8
<1> QED BY <1>2, <1>3, <1>4, <1>5, <1>6, <1>7, <1>8, Zenon
        DEF Next, CandidateStep, CancellationStep, DeadlinePasses, Deliver, RejectStart, Begin,
            ActivityRead, Turn, ActivityFails, CancelTurn, DropLateActivity, Inspect,
            CancellationReturns, ReconcileFails, RepairSelect, RepairAborts, Crash

\* No late activity, repair pass or cancellation workflow reopens a task that
\* ended: only an operator's retry does, and under a new instance.
THEOREM TerminalIsFinal == Spec => TerminalLeftOnlyByRetry
<1>1. Inv /\ [Next]_vars =>
        [\A t \in Tasks : task[t].terminal /\ task'[t] # task[t] =>
            /\ task[t].state \in {"failed", "cancelled"}
            /\ task'[t] = [state |-> "queued", gen |-> task[t].gen + 1,
                           inst |-> task[t].gen + 1, terminal |-> FALSE]]_vars
  BY TerminalStep DEF Reopened, vars
<1> QED BY <1>1, Safety, PTL DEF Spec, TerminalLeftOnlyByRetry

-----------------------------------------------------------------------------
(* The outbox rows live by the contract of StartDelivery                   *)

Deliveries == [i \in Inst |-> rows[i].delivery]

\* A step that changes at most one row, along the contract.
LEMMA OneRowMoves ==
    ASSUME TypeOK, TypeOK', NEW i \in Inst, \A j \in Inst : j # i => rows'[j] = rows[j],
           \/ rows'[i].delivery = rows[i].delivery
           \/ rows[i].delivery = "none" /\ rows'[i].delivery = "pending"
           \/ rows[i].delivery = "pending" /\ rows'[i].delivery \in {"dispatched", "rejected"}
    PROVE  [Contract!Next]_Deliveries
<1>1. CASE rows'[i].delivery = rows[i].delivery
  BY <1>1 DEF Deliveries
<1>2. CASE rows[i].delivery = "none" /\ rows'[i].delivery = "pending"
  <2>1. Contract!Enqueue(i)
    BY <1>2, Zenon DEF Contract!Enqueue, Contract!Move
  <2> QED BY <2>1 DEF Contract!Next
<1>3. CASE rows[i].delivery = "pending" /\ rows'[i].delivery \in {"dispatched", "rejected"}
  <2>1. Contract!Deliver(i) \/ Contract!Reject(i)
    BY <1>3, Zenon DEF Contract!Deliver, Contract!Reject, Contract!Move
  <2> QED BY <2>1 DEF Contract!Next
<1> QED BY <1>1, <1>2, <1>3

\* The row of a new generation was not used before.
LEMMA NewRowIsFresh ==
    ASSUME Inv, NEW t \in Tasks, task[t].gen < MaxGen
    PROVE  <<t, task[t].gen + 1>> \in Inst /\ rows[<<t, task[t].gen + 1>>].delivery = "none"
<1>1. task[t].gen \in Nat /\ task[t].gen + 1 \in Gens /\ task[t].gen + 1 > task[t].gen
  <2>1. task[t].gen \in Gens
    BY DEF Inv, TypeOK, TaskRow
  <2>2. task[t].gen \in Nat /\ task[t].gen + 1 \in Gens
    BY <2>1, GensNat
  <2> QED BY <2>2
<1>2. <<t, task[t].gen + 1>> \in Inst
  BY <1>1, Pairs
<1>3. <<t, task[t].gen + 1>>[1] = t /\ <<t, task[t].gen + 1>>[2] = task[t].gen + 1
  OBVIOUS
<1>4. rows[<<t, task[t].gen + 1>>] = NoRow
  BY <1>1, <1>2, <1>3, Zenon DEF Inv, UnusedIsBlank
<1> QED BY <1>2, <1>4 DEF NoRow

\* Every step of the tasks is a step, or a stutter, of the contract.
LEMMA ContractStep == Inv /\ [Next]_vars => [Contract!Next]_Deliveries
<1> SUFFICES ASSUME Inv, [Next]_vars PROVE [Contract!Next]_Deliveries
  OBVIOUS
<1>0. TypeOK /\ TypeOK'
  BY TypeStep DEF Inv
<1>1. ASSUME NEW t \in Tasks, Accept(t) PROVE [Contract!Next]_Deliveries
  <2>1. <<t, 0>> \in Inst /\ <<t, 0>>[1] = t
    BY Pairs, GensNat
  <2>2. rows[<<t, 0>>].delivery = "none" /\ rows'[<<t, 0>>].delivery = "pending"
    BY <1>1, <2>1 DEF Accept, Inv, UnusedIsBlank, NoRow, Row, TypeOK
  <2>3. \A j \in Inst : j # <<t, 0>> => rows'[j] = rows[j]
    BY <1>0, <1>1 DEF Accept, TypeOK
  <2> QED BY <1>0, <2>1, <2>2, <2>3, OneRowMoves
<1>2. ASSUME NEW t \in Tasks, RequestCancel(t) PROVE [Contract!Next]_Deliveries
  <2> DEFINE n == <<t, task[t].gen + 1>>
  <2>1. n \in Inst /\ rows[n].delivery = "none"
    BY <1>2, NewRowIsFresh DEF RequestCancel, Advance
  <2>2. rows'[n].delivery = "pending" /\ \A j \in Inst : j # n => rows'[j] = rows[j]
    BY <1>0, <1>2, <2>1 DEF RequestCancel, Row, TypeOK
  <2> QED BY <1>0, <2>1, <2>2, OneRowMoves
<1>3. ASSUME NEW t \in Tasks, Retry(t) PROVE [Contract!Next]_Deliveries
  <2> DEFINE n == <<t, task[t].gen + 1>>
  <2>1. n \in Inst /\ rows[n].delivery = "none"
    BY <1>3, NewRowIsFresh DEF Retry, Advance
  <2>2. rows'[n].delivery = "pending" /\ \A j \in Inst : j # n => rows'[j] = rows[j]
    BY <1>0, <1>3, <2>1 DEF Retry, Row, TypeOK
  <2> QED BY <1>0, <2>1, <2>2, OneRowMoves
<1>4. ASSUME NEW i \in Inst, Deliver(i) PROVE [Contract!Next]_Deliveries
  <2>1. /\ rows[i].delivery = "pending" /\ rows'[i].delivery = "dispatched"
        /\ \A j \in Inst : j # i => rows'[j] = rows[j]
    BY <1>0, <1>4 DEF Deliver, TypeOK, OutboxRow
  <2> QED BY <1>0, <2>1, OneRowMoves
<1>5. ASSUME NEW i \in Inst, RejectStart(i) PROVE [Contract!Next]_Deliveries
  <2>1. /\ rows[i].delivery = "pending" /\ rows'[i].delivery = "rejected"
        /\ \A j \in Inst : j # i => rows'[j] = rows[j]
    BY <1>0, <1>5 DEF RejectStart, TypeOK, OutboxRow
  <2> QED BY <1>0, <2>1, OneRowMoves
<1>6. CASE UNCHANGED rows
  BY <1>6 DEF Deliveries
<1> QED BY <1>1, <1>2, <1>3, <1>4, <1>5, <1>6, Zenon
        DEF Next, CandidateStep, CancellationStep, DeadlinePasses, RepairOne, Begin,
            ActivityRead, ActivityProject, Turn, ActivityFails, CancelTurn, DropLateActivity,
            Inspect, RecordTerminal, CancellationReturns, ReconcileFails, RepairSelect,
            RepairAborts, Crash, vars

\* The rows that accept_task, request_cancel and retry write are enqueued once,
\* under an instance id no earlier row used, and settle once.
THEOREM StartsRefineContract == Spec => StartsFollowContract
<1>1. Init => Contract!Init
  BY DEF Init, Contract!Init, NoRow
<1> QED BY <1>1, ContractStep, Safety, PTL DEF Spec, StartsFollowContract, Contract!Spec, Deliveries
=============================================================================
