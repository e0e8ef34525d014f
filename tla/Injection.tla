----------------------------- MODULE Injection -----------------------------
(***************************************************************************)
(* The injection workflow (injection.rs) against qBittorrent, the managed  *)
(* link tree and the database.  A run is one workflow instance of the      *)
(* candidate's task; an operator's cancel and retry start a second run     *)
(* while an activity of the first may still be in flight.  Runs may follow *)
(* different plans (the sources have changed), but they share the torrent, *)
(* its save path and the link tree, which belong to the candidate.         *)
(*                                                                         *)
(* A plan is the set of candidate files it maps to source files.  `good`   *)
(* are the files whose source really holds the candidate's bytes, which    *)
(* only qBittorrent's recheck finds out.  Every await of an activity is a  *)
(* step of its own, so an error or a crash may strike between any two.     *)
(***************************************************************************)
EXTENDS Naturals

CONSTANTS
    Files,         \* files of the candidate torrent
    Plans,         \* mapped file sets that evaluation may choose
    MaxRuns,       \* workflow instances of the task
    MaxAttempts,   \* MAX_FINAL_VERIFY_ATTEMPTS
    MaxFaults      \* bound on errors and crashes

ASSUME InjectionAssumption ==
    /\ Plans \subseteq SUBSET Files
    /\ Plans # {}
    /\ MaxRuns \in Nat \ {0}
    /\ MaxAttempts \in Nat \ {0}
    /\ MaxFaults \in Nat

Runs == 1 .. MaxRuns

VARIABLES
    qbit,       \* the torrent in qBittorrent
    links,      \* files hardlinked into the candidate's namespace
    good,       \* files whose source content is the candidate's
    inj,        \* sporos_injection rows, by plan
    task,       \* the task row, as far as the injection moves it
    candidate,  \* state of the sporos_candidate row
    wf,         \* the workflow instances and their activity in flight
    faults

vars == <<qbit, links, good, inj, task, candidate, wf, faults>>

NoTorrent == [present |-> FALSE, pending |-> FALSE, foreign |-> FALSE, started |-> FALSE,
              recheck |-> "none", pieces |-> {}]
NoInjection == [state |-> "none", decision |-> "none", safe |-> FALSE, attempts |-> 0]
NoRun == [plan |-> {}, stage |-> "none", pc |-> "idle", live |-> FALSE,
          row |-> "none", decision |-> "none", safe |-> FALSE, result |-> "none"]

InjectionStates == {"none", "added_stopped", "links_complete", "links_partial",
    "recheck_requested", "recheck_settling", "checking", "finalizing", "completed", "failed"}
Decisions == {"none", "resume", "stop"}
Outcomes == {"planned", "completed", "failed", "cancelled"}

\* One type invariant for qBittorrent, the tables and the workflow instances.
TypeOK ==
    /\ qbit \in [present : BOOLEAN, pending : BOOLEAN, foreign : BOOLEAN,
                 started : BOOLEAN, recheck : {"none", "asked", "running"}, pieces : SUBSET Files]
    /\ links \in SUBSET Files
    /\ good \in SUBSET Files
    /\ inj \in [SUBSET Files -> [state : InjectionStates, decision : Decisions, safe : BOOLEAN,
                                 attempts : Nat]]
    /\ task \in Outcomes
    /\ candidate \in Outcomes
    /\ wf \in [Runs -> [plan : SUBSET Files,
                        stage : {"none", "prepare", "materialize", "recheck", "observe", "ended"},
                        pc : {"idle", "add", "stop", "record", "link", "persist", "mark", "look",
                              "checking", "settling", "bump", "inspect", "decide", "send",
                              "finish", "finish_task", "fail", "fail_task", "reply"},
                        live : BOOLEAN, row : InjectionStates, decision : Decisions,
                        safe : BOOLEAN,
                        result : {"none", "ready", "waiting", "completed", "failed"}]]
    /\ faults \in Nat

\* The torrent may already be in qBittorrent, put there by someone else.
Init ==
    /\ qbit \in {NoTorrent, [NoTorrent EXCEPT !.present = TRUE, !.foreign = TRUE]}
    /\ links = {}
    /\ good \in SUBSET Files
    /\ inj = [p \in SUBSET Files |-> NoInjection]
    /\ task = "planned"
    /\ candidate = "planned"
    /\ \E p \in Plans : wf = [r \in Runs |-> IF r = 1
            THEN [NoRun EXCEPT !.plan = p, !.stage = "prepare", !.live = TRUE] ELSE NoRun]
    /\ faults = 0

-----------------------------------------------------------------------------
(* Helpers                                                                 *)

\* An activity begins only for a live run, and ends whether or not it is live.
At(r, stage, pc) == wf[r].stage = stage /\ wf[r].pc = pc /\ (pc = "idle" => wf[r].live)

Goto(r, pc) == wf' = [wf EXCEPT ![r].pc = pc]

Reply(r, result) == wf' = [wf EXCEPT ![r] = [@ EXCEPT !.pc = "reply", !.result = result]]

\* A permanent activity failure ends the orchestration with an error.
Abort(r) ==
    wf' = [wf EXCEPT ![r] = [@ EXCEPT !.pc = "idle", !.stage = "ended", !.live = FALSE,
                                      !.result = "none"]]

\* What torrents/info may say of the torrent: a started one is transferring or
\* queued, and any may be in none of the states that the predicates of
\* TorrentState know (moving, error, missingFiles), for as long as it likes.
Shown ==
    IF qbit.recheck = "running" THEN {"checking"}
    ELSE IF qbit.started THEN {"active", "queued", "other"}
    ELSE {"stopped", "other"}

\* UPDATE sporos_injection ... WHERE plan_id = ?
Update(p, row) == inj' = IF inj[p].state = "none" THEN inj ELSE [inj EXCEPT ![p] = row]

\* The first terminal projection of the task wins (project_candidate_task).
Project(outcome) ==
    /\ candidate' = outcome
    /\ task' = IF task = "planned" THEN outcome ELSE task

-----------------------------------------------------------------------------
(* PrepareInjection                                                        *)

\* The torrent is looked up by its hashes.
PrepareRead(r) ==
    /\ At(r, "prepare", "idle")
    /\ \E shown \in Shown :
         Goto(r, IF ~qbit.present THEN "add"
                 ELSE IF qbit.foreign THEN "fail"
                 ELSE IF shown # "stopped" THEN "stop"
                 ELSE "record")
    /\ UNCHANGED <<qbit, links, good, inj, task, candidate, faults>>

\* A torrent that qBittorrent has just taken: skip_checking = false, so it may
\* check the save path at once.
Arrived(recheck) == [NoTorrent EXCEPT !.present = TRUE, !.recheck = recheck]

\* The receipt counts the torrent as added or as pending, and a pending one is
\* not seen by the next poll, which adds it again.
AddStopped(r) ==
    /\ At(r, "prepare", "add")
    /\ ~qbit.present
    /\ \/ \E recheck \in {"none", "running"} : qbit' = Arrived(recheck)
       \/ qbit' = [NoTorrent EXCEPT !.pending = TRUE]
    /\ Reply(r, "waiting")
    /\ UNCHANGED <<links, good, inj, task, candidate, faults>>

\* qBittorrent has it by now, or had it pending (what it answers then is not
\* known): AddRejected is a permanent failure.
AddRejected(r) ==
    /\ At(r, "prepare", "add")
    /\ qbit.present \/ qbit.pending
    /\ Abort(r)
    /\ UNCHANGED <<qbit, links, good, inj, task, candidate, faults>>

Stop(r) ==
    /\ At(r, "prepare", "stop")
    /\ qbit' = [qbit EXCEPT !.started = FALSE]
    /\ Reply(r, "waiting")
    /\ UNCHANGED <<links, good, inj, task, candidate, faults>>

\* record_injection inserts the row or resets all but its attempts.
RecordInjection(r) ==
    /\ At(r, "prepare", "record")
    /\ inj' = [inj EXCEPT ![wf[r].plan] =
                [@ EXCEPT !.state = "added_stopped", !.decision = "none", !.safe = FALSE]]
    /\ Reply(r, "ready")
    /\ UNCHANGED <<qbit, links, good, task, candidate, faults>>

-----------------------------------------------------------------------------
(* MaterializeInjectionLinks                                               *)

MaterializeRead(r) ==
    /\ At(r, "materialize", "idle")
    /\ \E shown \in Shown :
         Goto(r, IF qbit.present /\ ~qbit.foreign /\ shown = "stopped" THEN "link" ELSE "fail")
    /\ UNCHANGED <<qbit, links, good, inj, task, candidate, faults>>

\* The links are made one by one; the first that fails ends it.
Link(r) ==
    /\ At(r, "materialize", "link")
    /\ \E made \in SUBSET wf[r].plan :
         /\ links' = links \cup made
         /\ wf' = [wf EXCEPT ![r] = [@ EXCEPT !.pc = "persist",
                    !.result = IF made = wf[r].plan THEN "ready" ELSE "failed"]]
    /\ UNCHANGED <<qbit, good, inj, task, candidate, faults>>

PersistLinks(r) ==
    LET p == wf[r].plan
        complete == wf[r].result = "ready"
    IN
    /\ At(r, "materialize", "persist")
    /\ Update(p, [inj[p] EXCEPT !.state = IF complete THEN "links_complete" ELSE "links_partial"])
    /\ Goto(r, IF complete THEN "reply" ELSE "fail")
    /\ UNCHANGED <<qbit, links, good, task, candidate, faults>>

-----------------------------------------------------------------------------
(* RequestInjectionRecheck                                                 *)

ForceRecheck(r) ==
    /\ At(r, "recheck", "idle")
    /\ qbit' = IF qbit.present THEN [qbit EXCEPT !.recheck = "asked"] ELSE qbit
    /\ Goto(r, "mark")
    /\ UNCHANGED <<links, good, inj, task, candidate, faults>>

SetRecheckRequested(r) ==
    LET p == wf[r].plan IN
    /\ At(r, "recheck", "mark")
    /\ Update(p, [inj[p] EXCEPT !.state = "recheck_requested", !.attempts = 0])
    /\ Reply(r, "waiting")
    /\ UNCHANGED <<qbit, links, good, task, candidate, faults>>

-----------------------------------------------------------------------------
(* ObserveInjectionRecheck                                                 *)

\* load_injection
Load(r) ==
    LET row == inj[wf[r].plan] IN
    /\ At(r, "observe", "idle")
    /\ wf' = [wf EXCEPT ![r] = [@ EXCEPT !.pc = "look", !.row = row.state, !.decision = row.decision]]
    /\ UNCHANGED <<qbit, links, good, inj, task, candidate, faults>>

\* Faulty variant: a torrent that is not yet checking counts as checked.
ObservationUnsettled(row, shown) ==
    IF shown = "checking" THEN "checking"
    ELSE IF shown = "queued" THEN "bump"
    ELSE IF row \in {"recheck_requested", "recheck_settling", "checking"} THEN "inspect"
    ELSE "bump"

\* recheck_observation
Observation(row, shown) ==
    IF shown = "checking" THEN "checking"
    ELSE IF shown = "queued" THEN "bump"
    ELSE IF row = "recheck_requested" THEN "settling"
    ELSE IF row \in {"recheck_settling", "checking"} THEN "inspect"
    ELSE "bump"

\* verify_final: the torrent shows what was decided.
Settled(decision, shown) ==
    \/ decision = "resume" /\ shown \in {"active", "queued"}
    \/ decision # "resume" /\ shown = "stopped"

\* qBittorrent begins a recheck it was asked for within the poll delay, so that
\* a settling run does not read the torrent before the recheck has begun.
PromptRecheck(r) == wf[r].row = "recheck_settling" => qbit.recheck # "asked"

\* Faulty variant: a torrent that does not show the decision is inspected again.
LookInspectsAgain(r) ==
    /\ At(r, "observe", "look")
    /\ PromptRecheck(r)
    /\ \E shown \in Shown :
         Goto(r, IF ~qbit.present THEN "fail"
                 ELSE IF wf[r].row = "finalizing"
                 THEN IF Settled(wf[r].decision, shown) THEN "finish" ELSE "inspect"
                 ELSE Observation(wf[r].row, shown))
    /\ UNCHANGED <<qbit, links, good, inj, task, candidate, faults>>

\* The torrent is read, and the row loaded before decides what is made of it.
Look(r) ==
    /\ At(r, "observe", "look")
    /\ PromptRecheck(r)
    /\ \E shown \in Shown :
         Goto(r, IF ~qbit.present THEN "fail"
                 ELSE IF wf[r].row = "finalizing"
                 THEN IF Settled(wf[r].decision, shown) THEN "finish" ELSE "bump"
                 ELSE Observation(wf[r].row, shown))
    /\ UNCHANGED <<qbit, links, good, inj, task, candidate, faults>>

UpdateObservation(r) ==
    LET p == wf[r].plan IN
    /\ wf[r].pc \in {"checking", "settling"}
    /\ Update(p, [inj[p] EXCEPT !.state = IF wf[r].pc = "checking" THEN "checking"
                                           ELSE "recheck_settling"])
    /\ Reply(r, "waiting")
    /\ UNCHANGED <<qbit, links, good, task, candidate, faults>>

\* Faulty variant: the attempts are not counted.
BumpUncounted(r) ==
    /\ wf[r].pc = "bump"
    /\ IF wf[r].row = "finalizing" THEN Goto(r, "send") ELSE Reply(r, "waiting")
    /\ UNCHANGED <<qbit, links, good, inj, task, candidate, faults>>

\* bump_verification, then give up, send the decision again, or wait.
Bump(r) ==
    LET p == wf[r].plan
        attempts == inj[p].attempts + 1
    IN
    /\ wf[r].pc = "bump"
    /\ Update(p, [inj[p] EXCEPT !.attempts = attempts])
    /\ IF attempts >= MaxAttempts THEN Goto(r, "fail")
       ELSE IF wf[r].row = "finalizing" THEN Goto(r, "send")
       ELSE Reply(r, "waiting")
    /\ UNCHANGED <<qbit, links, good, task, candidate, faults>>

\* inspect_pieces: integrity_safe when no missing piece touches a mapped file
\* (module PieceIntegrity); piece_states of a torrent that is gone is a permanent
\* failure.
Inspect(r) ==
    /\ wf[r].pc = "inspect"
    /\ IF qbit.present
       THEN wf' = [wf EXCEPT ![r] = [@ EXCEPT !.pc = "decide",
                                              !.safe = wf[r].plan \subseteq qbit.pieces]]
       ELSE Abort(r)
    /\ UNCHANGED <<qbit, links, good, inj, task, candidate, faults>>

\* Faulty variant: the policy alone decides.
DecideWithoutIntegrity(r) ==
    LET p == wf[r].plan IN
    /\ wf[r].pc = "decide"
    /\ \E decision \in {"resume", "stop"} :
         /\ Update(p, [inj[p] EXCEPT !.state = "finalizing", !.attempts = 0, !.decision = decision,
                                     !.safe = wf[r].safe])
         /\ wf' = [wf EXCEPT ![r] = [@ EXCEPT !.pc = "send", !.decision = decision]]
    /\ UNCHANGED <<qbit, links, good, task, candidate, faults>>

\* record_resume_decision: integrity and the resume policy (any) must agree.
Decide(r) ==
    LET p == wf[r].plan IN
    /\ wf[r].pc = "decide"
    /\ \E allowed \in BOOLEAN :
         LET decision == IF wf[r].safe /\ allowed THEN "resume" ELSE "stop" IN
         /\ Update(p, [inj[p] EXCEPT !.state = "finalizing", !.attempts = 0, !.decision = decision,
                                     !.safe = wf[r].safe])
         /\ wf' = [wf EXCEPT ![r] = [@ EXCEPT !.pc = "send", !.decision = decision]]
    /\ UNCHANGED <<qbit, links, good, task, candidate, faults>>

\* qbit.start or qbit.stop, here and in verify_final.
Send(r) ==
    /\ wf[r].pc = "send"
    /\ qbit' = IF qbit.present THEN [qbit EXCEPT !.started = wf[r].decision = "resume"] ELSE qbit
    /\ Reply(r, "waiting")
    /\ UNCHANGED <<links, good, inj, task, candidate, faults>>

\* finish_injection and fail_injection write the injection row first and the
\* candidate and task rows later, in statements of their own.
FinishRow(r) ==
    LET p == wf[r].plan IN
    /\ wf[r].pc = "finish"
    /\ Update(p, [inj[p] EXCEPT !.state = "completed"])
    /\ Goto(r, "finish_task")
    /\ UNCHANGED <<qbit, links, good, task, candidate, faults>>

FinishTask(r) ==
    /\ wf[r].pc = "finish_task"
    /\ Project("completed")
    /\ Reply(r, "completed")
    /\ UNCHANGED <<qbit, links, good, inj, faults>>

FailRow(r) ==
    LET p == wf[r].plan IN
    /\ wf[r].pc = "fail"
    /\ Update(p, [inj[p] EXCEPT !.state = "failed"])
    /\ Goto(r, "fail_task")
    /\ UNCHANGED <<qbit, links, good, task, candidate, faults>>

FailTask(r) ==
    /\ wf[r].pc = "fail_task"
    /\ Project("failed")
    /\ Reply(r, "failed")
    /\ UNCHANGED <<qbit, links, good, inj, faults>>

-----------------------------------------------------------------------------
(* The workflow and its surroundings                                       *)

NextStage(stage, result) ==
    IF result \in {"completed", "failed"} THEN "ended"
    ELSE CASE stage = "prepare" /\ result = "ready" -> "materialize"
           [] stage = "materialize" -> "recheck"
           [] stage = "recheck" -> "observe"
           [] OTHER -> stage

\* The turn that consumes an activity's reply.
Turn(r) ==
    LET next == NextStage(wf[r].stage, wf[r].result) IN
    /\ wf[r].pc = "reply"
    /\ wf[r].live
    /\ wf' = [wf EXCEPT ![r] = [@ EXCEPT !.stage = next, !.pc = "idle", !.live = next # "ended",
                                         !.result = "none"]]
    /\ UNCHANGED <<qbit, links, good, inj, task, candidate, faults>>

\* A transient error or a crash: the activity of a live run is delivered again;
\* a permanent error, or the last transient one, fails the orchestration.
Fault(r) ==
    /\ wf[r].stage \notin {"none", "ended"}
    /\ faults < MaxFaults
    /\ faults' = faults + 1
    /\ \E again \in {wf[r].live, FALSE} :
         wf' = [wf EXCEPT ![r] = [@ EXCEPT !.pc = "idle", !.result = "none", !.live = again,
                                           !.stage = IF again THEN wf[r].stage ELSE "ended"]]
    /\ UNCHANGED <<qbit, links, good, inj, task, candidate>>

\* After a restart without a qBittorrent client an activity fails the plan.
Unconfigured(r) ==
    /\ wf[r].live
    /\ wf[r].stage \notin {"none", "ended"}
    /\ wf[r].pc = "idle"
    /\ faults < MaxFaults
    /\ faults' = faults + 1
    /\ Goto(r, "fail")
    /\ UNCHANGED <<qbit, links, good, inj, task, candidate>>

\* The reply of an ended instance goes nowhere.
DropReply(r) ==
    /\ ~wf[r].live
    /\ wf[r].pc \in {"reply", "idle"}
    /\ wf[r].stage \notin {"none", "ended"}
    /\ wf' = [wf EXCEPT ![r] = [@ EXCEPT !.pc = "idle", !.stage = "ended"]]
    /\ UNCHANGED <<qbit, links, good, inj, task, candidate, faults>>

\* An operator's cancel ends the instance, not the activity in flight (module
\* TaskLifecycle); an ended instance whose task is open is repaired to failed.
Cancel(r) ==
    /\ r < MaxRuns
    /\ wf[r].live
    /\ task = "planned"
    /\ wf' = [wf EXCEPT ![r].live = FALSE]
    /\ task' = "cancelled"
    /\ UNCHANGED <<qbit, links, good, inj, candidate, faults>>

Repair(r) ==
    /\ wf[r].stage = "ended"
    /\ \A s \in Runs : s > r => wf[s].stage = "none"
    /\ task = "planned"
    /\ task' = "failed"
    /\ UNCHANGED <<qbit, links, good, inj, candidate, wf, faults>>

\* The retried instance evaluates again and may choose another plan.
Retry(r) ==
    /\ r > 1
    /\ wf[r].stage = "none"
    /\ wf[r - 1].stage # "none" /\ ~wf[r - 1].live
    /\ task \in {"failed", "cancelled"}
    /\ task' = "planned"
    /\ candidate' = "planned"
    /\ \E p \in Plans :
         wf' = [wf EXCEPT ![r] = [NoRun EXCEPT !.plan = p, !.stage = "prepare", !.live = TRUE]]
    /\ UNCHANGED <<qbit, links, good, inj, faults>>

\* A pending torrent appears, sooner or later or never.
Appears ==
    /\ qbit.pending
    /\ \E recheck \in {"none", "running"} : qbit' = Arrived(recheck)
    /\ UNCHANGED <<links, good, inj, task, candidate, wf, faults>>

\* qBittorrent's recheck: forgets the pieces, then finds the linked good ones.
RecheckBegins ==
    /\ qbit.recheck = "asked"
    /\ qbit' = [qbit EXCEPT !.recheck = "running", !.pieces = {}]
    /\ UNCHANGED <<links, good, inj, task, candidate, wf, faults>>

RecheckEnds ==
    /\ qbit.recheck = "running"
    /\ qbit' = [qbit EXCEPT !.recheck = "none", !.pieces = links \cap good]
    /\ UNCHANGED <<links, good, inj, task, candidate, wf, faults>>

\* Somebody else deletes the torrent from qBittorrent.
Removed ==
    /\ qbit.present
    /\ faults < MaxFaults
    /\ faults' = faults + 1
    /\ qbit' = NoTorrent
    /\ UNCHANGED <<links, good, inj, task, candidate, wf>>

Activity(r) ==
    \/ PrepareRead(r) \/ AddStopped(r) \/ AddRejected(r) \/ Stop(r) \/ RecordInjection(r)
    \/ MaterializeRead(r) \/ Link(r) \/ PersistLinks(r)
    \/ ForceRecheck(r) \/ SetRecheckRequested(r)
    \/ Load(r) \/ Look(r) \/ UpdateObservation(r) \/ Bump(r)
    \/ Inspect(r) \/ Decide(r) \/ Send(r)
    \/ FinishRow(r) \/ FinishTask(r) \/ FailRow(r) \/ FailTask(r)

Qbittorrent == RecheckBegins \/ RecheckEnds

Next ==
    \/ \E r \in Runs : Activity(r)
    \/ \E r \in Runs : Turn(r) \/ Fault(r) \/ Unconfigured(r) \/ DropReply(r)
    \/ \E r \in Runs : Cancel(r) \/ Repair(r) \/ Retry(r)
    \/ Qbittorrent
    \/ Appears
    \/ Removed

Spec == Init /\ [][Next]_vars

\* Tokio runs activities and turns that can run, projection repair sweeps the
\* open tasks, and qBittorrent works off the rechecks it is asked for.
Fairness ==
    /\ \A r \in Runs : /\ WF_vars(Activity(r))
                        /\ WF_vars(Turn(r) \/ DropReply(r))
                        /\ WF_vars(Repair(r))
    /\ WF_vars(Qbittorrent)

FairSpec == Spec /\ Fairness

-----------------------------------------------------------------------------
(* Properties                                                              *)

\* "It can never start if a missing or failed piece intersects a hardlinked
\* file" (docs/matching.md): qBittorrent would download over the inode that a
\* source torrent shares.  The torrent is started only while every file linked
\* into its save path holds the candidate's bytes.
NothingUnsafeStarts == qbit.started => links \subseteq good

\* The verdict recorded by record_resume_decision is the one of a recheck that
\* followed the last link: a plan is found safe exactly if its content is good.
VerdictIsTrue ==
    \A p \in Plans : inj[p].state = "finalizing" => (inj[p].safe <=> p \subseteq good)

\* However often the observation is delivered again, it does not change a
\* decision that record_resume_decision has stored.
DecidedOnce ==
    [][\A p \in Plans : inj[p].decision # "none" => inj'[p].decision = inj[p].decision]_vars

\* An injection recorded as completed is not later recorded as failed.
CompletedStays ==
    [][\A p \in Plans : inj[p].state = "completed" => inj'[p].state # "failed"]_vars

\* Every injection ends, and its task with it, unless it stays in prepare, which
\* polls without bound for a torrent that qBittorrent never shows as stopped.  Once
\* the links are begun nothing qBittorrent shows keeps it from its end: the polls of
\* the observation are bounded by the attempts that bump_verification counts, or by
\* the recheck they wait for.
InjectionEnds ==
    \/ <>(wf[1].stage = "ended" /\ task # "planned")
    \/ <>[](wf[1].stage = "prepare")
=============================================================================
