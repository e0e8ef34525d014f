-------------------------- MODULE InjectionProofs --------------------------
(***************************************************************************)
(* Proofs about the injection workflow: nothing unsafe is started, by one  *)
(* instance or by overlapping instances that follow one plan, and what a   *)
(* single instance records as its verdict is true and stays.               *)
(***************************************************************************)
EXTENDS Injection, TLAPS

\* Either the task has a single instance, or all its instances follow the same plan.
\* Without it the property fails (run injection_left_links).
OnePlan == MaxRuns = 1 \/ \A p, q \in Plans : p = q

-----------------------------------------------------------------------------
(* The invariant of any number of instances                                *)

Torrent(t) == DOMAIN t = {"present", "pending", "foreign", "started", "recheck", "pieces"}
Row(i) == DOMAIN i = {"state", "decision", "safe", "attempts"}
Run(w) == DOMAIN w = {"plan", "stage", "pc", "live", "row", "decision", "safe", "result"}

\* Every instance that has begun follows the one plan, only files of that plan are linked,
\* and an instance that found it safe, or decided to resume, has the content to show for it.
RunsOK ==
    /\ wf = [r \in Runs |-> wf[r]]
    /\ \A r \in Runs : Run(wf[r])
    /\ wf[1].stage # "none" /\ wf[1].plan \in Plans
    /\ links \subseteq wf[1].plan
    /\ \A r \in Runs :
          /\ wf[r].stage = "none" => wf[r].pc = "idle" /\ wf[r].live = FALSE
          /\ wf[r].stage # "none" => wf[r].plan = wf[1].plan
          /\ wf[r].safe => wf[r].plan \subseteq good
          /\ wf[r].decision = "resume" => wf[r].plan \subseteq good

\* qBittorrent has only good pieces, and is started only for a plan whose content is good.
QbitOK ==
    /\ Torrent(qbit) /\ qbit.recheck \in {"none", "asked", "running"}
    /\ qbit.pieces \subseteq good
    /\ qbit.started => wf[1].plan \subseteq good

\* A decision to resume that is stored is one for good content.
RowsOK ==
    /\ inj = [p \in SUBSET Files |-> inj[p]]
    /\ \A p \in SUBSET Files : Row(inj[p]) /\ (inj[p].decision = "resume" => p \subseteq good)

IInv == RunsOK /\ QbitOK /\ RowsOK

-----------------------------------------------------------------------------
(* The invariant of a single instance                                      *)

Observing == {"look", "checking", "settling", "bump", "inspect", "decide", "send", "finish",
              "finish_task"}

\* What qBittorrent knows of the pieces is not older than the last link, or will be
\* forgotten by a recheck.
Fresh == \/ ~qbit.present
         \/ qbit.recheck # "none"
         \/ qbit.pieces = links \cap good

\* Where the instance is: an ended one runs no activity, and an observation is one of the
\* stage "observe".
PlaceOK(w) ==
    /\ w.stage = "ended" => w.pc = "idle"
    /\ w.pc \in Observing => w.stage = "observe"

\* The links are whole before the recheck is asked for, and it is asked for before the
\* torrent is observed.
LinkedOK(w) ==
    /\ w.stage = "materialize" /\ w.pc = "persist" /\ w.result = "ready" => w.plan \subseteq links
    /\ w.stage = "materialize" /\ w.pc = "reply" /\ w.result \notin {"completed", "failed"}
          => w.plan \subseteq links
    /\ w.stage \in {"recheck", "observe"} => w.plan \subseteq links
    /\ w.stage = "recheck" /\ w.pc = "mark" => Fresh
    /\ w.stage = "recheck" /\ w.pc = "reply" /\ w.result \notin {"completed", "failed"} => Fresh
    /\ w.stage = "observe" => Fresh

\* The row before anything is observed, and how far it agrees with the recheck after.
StateOK(w, i) ==
    /\ w.stage \in {"prepare", "materialize", "recheck"}
          => /\ i.decision = "none"
             /\ i.state \notin {"recheck_settling", "checking", "finalizing", "completed"}
    /\ w.stage = "observe" /\ i.state = "checking" => qbit.recheck # "asked"
    /\ w.stage = "observe" /\ i.decision # "none" => qbit.recheck = "none"
    /\ i.state \in {"recheck_requested", "recheck_settling", "checking"} => i.decision = "none"
    /\ i.state = "finalizing" => (i.safe <=> w.plan \subseteq good)

\* What an observation has read of the row is still so, and so is what it has read of qBittorrent.
ReadOK(w, i) ==
    /\ w.pc \in {"look", "checking", "settling", "inspect", "decide"} => w.row = i.state
    /\ w.pc = "checking" => qbit.recheck # "asked"
    /\ w.pc \in {"checking", "settling", "inspect", "decide"} => i.decision = "none"
    /\ w.pc \in {"inspect", "decide"} => qbit.recheck = "none"
    /\ w.pc = "decide" => (w.safe <=> w.plan \subseteq good)

\* The plans that are not followed have no row.
SingleOK ==
    /\ PlaceOK(wf[1]) /\ LinkedOK(wf[1])
    /\ StateOK(wf[1], inj[wf[1].plan]) /\ ReadOK(wf[1], inj[wf[1].plan])
    /\ \A p \in SUBSET Files : p # wf[1].plan => inj[p] = NoInjection

\* A pending torrent is one that prepare has not found yet.
PendingOK ==
    qbit.pending => /\ ~qbit.present
                    /\ wf[1].stage \in {"prepare", "ended"}
                    /\ wf[1].pc # "record"
                    /\ wf[1].pc = "reply" => wf[1].result # "ready"

SingleInv == IInv /\ PendingOK /\ SingleOK

-----------------------------------------------------------------------------
(* Steps of one kind                                                       *)

\* One instance moves and keeps its plan.
LEMMA RunMoves ==
    ASSUME IInv, NEW r \in Runs, NEW e, wf' = [wf EXCEPT ![r] = e], links' = links, good' = good,
           Run(e), e.plan = wf[r].plan, e.stage # "none", wf[r].stage # "none",
           e.safe => wf[r].plan \subseteq good,
           e.decision = "resume" => wf[r].plan \subseteq good
    PROVE  /\ RunsOK'
           /\ wf'[1].plan = wf[1].plan
<1>1. 1 \in Runs
  BY InjectionAssumption DEF Runs
<1>2. /\ wf' = [s \in Runs |-> wf'[s]] /\ wf'[r] = e
      /\ \A s \in Runs \ {r} : wf'[s] = wf[s]
  BY DEF IInv, RunsOK
<1>3. wf'[1].plan = wf[1].plan /\ wf'[1].stage # "none"
  BY <1>1, <1>2 DEF IInv, RunsOK
<1> QED
  BY <1>1, <1>2, <1>3 DEF IInv, RunsOK

\* What the helpers of the actions leave of a run: an activity that is under way belongs to
\* an instance that has begun.
LEMMA RunFields ==
    ASSUME IInv, NEW r \in Runs
    PROVE  /\ Run(wf[r]) /\ (wf[r].pc # "idle" \/ wf[r].live => wf[r].stage # "none")
           /\ wf[r].safe => wf[r].plan \subseteq good
           /\ wf[r].decision = "resume" => wf[r].plan \subseteq good
           /\ wf[r].stage # "none" => wf[r].plan = wf[1].plan /\ wf[r].plan \in SUBSET Files
           /\ links \subseteq wf[1].plan /\ wf[1].plan \in SUBSET Files
BY InjectionAssumption DEF IInv, RunsOK

\* Goto, Reply and Abort keep what the invariant says of the instances.
LEMMA HelpersMove ==
    ASSUME IInv, NEW r \in Runs, wf[r].stage # "none", links' = links, good' = good,
           (\E pc : Goto(r, pc)) \/ (\E result : Reply(r, result)) \/ Abort(r)
    PROVE  RunsOK' /\ wf'[1].plan = wf[1].plan
<1>1. ASSUME NEW pc, Goto(r, pc)
      PROVE  RunsOK' /\ wf'[1].plan = wf[1].plan
  <2> DEFINE e == [wf[r] EXCEPT !.pc = pc]
  <2>1. wf' = [wf EXCEPT ![r] = e]
    BY <1>1 DEF Goto
  <2>2. Run(e) /\ e.plan = wf[r].plan /\ e.stage = wf[r].stage /\ e.safe = wf[r].safe
        /\ e.decision = wf[r].decision
    BY RunFields DEF Run
  <2> HIDE DEF e
  <2> QED
    BY <2>1, <2>2, RunMoves, RunFields, Zenon
<1>2. ASSUME NEW result, Reply(r, result)
      PROVE  RunsOK' /\ wf'[1].plan = wf[1].plan
  <2> DEFINE e == [wf[r] EXCEPT !.pc = "reply", !.result = result]
  <2>1. wf' = [wf EXCEPT ![r] = e]
    BY <1>2, Zenon DEF Reply
  <2>2. Run(e) /\ e.plan = wf[r].plan /\ e.stage = wf[r].stage /\ e.safe = wf[r].safe
        /\ e.decision = wf[r].decision
    BY RunFields DEF Run
  <2> HIDE DEF e
  <2> QED
    BY <2>1, <2>2, RunMoves, RunFields, Zenon
<1>3. ASSUME Abort(r)
      PROVE  RunsOK' /\ wf'[1].plan = wf[1].plan
  <2> DEFINE e == [wf[r] EXCEPT !.pc = "idle", !.stage = "ended", !.live = FALSE, !.result = "none"]
  <2>1. wf' = [wf EXCEPT ![r] = e]
    BY <1>3 DEF Abort
  <2>2. Run(e) /\ e.plan = wf[r].plan /\ e.stage = "ended" /\ e.safe = wf[r].safe
        /\ e.decision = wf[r].decision
    BY RunFields DEF Run
  <2> HIDE DEF e
  <2> QED
    BY <2>1, <2>2, RunMoves, RunFields, Zenon
<1> QED
  BY <1>1, <1>2, <1>3

\* What the tables and qBittorrent say is not disturbed by a step that leaves them alone.
LEMMA Undisturbed ==
    ASSUME IInv, good' = good
    PROVE  /\ inj' = inj => RowsOK'
           /\ qbit' = qbit /\ wf'[1].plan = wf[1].plan => QbitOK'
BY Zenon DEF IInv, RowsOK, QbitOK

\* An update of a row that keeps its decision, or decides to resume only for good content.
LEMMA RowMoves ==
    ASSUME IInv, good' = good, NEW p \in SUBSET Files, NEW row, Row(row),
           row.decision = "resume" => p \subseteq good,
           inj' = [inj EXCEPT ![p] = row] \/ Update(p, row)
    PROVE  RowsOK'
<1>1. CASE inj' = inj
  BY <1>1, Undisturbed
<1>2. CASE inj' = [inj EXCEPT ![p] = row]
  BY <1>2, Zenon DEF IInv, RowsOK
<1> QED
  BY <1>1, <1>2 DEF Update

-----------------------------------------------------------------------------
(* The invariant of any number of instances is inductive                   *)

\* A task begins without links, torrent and rows.
LEMMA InitInv == Init => IInv
<1> SUFFICES ASSUME Init PROVE IInv
  OBVIOUS
<1>1. 1 \in Runs
  BY InjectionAssumption DEF Runs
<1>2. PICK p \in Plans : wf = [r \in Runs |-> IF r = 1
            THEN [NoRun EXCEPT !.plan = p, !.stage = "prepare", !.live = TRUE] ELSE NoRun]
  BY Zenon DEF Init
<1>3. RunsOK
  BY <1>1, <1>2, Zenon DEF Init, RunsOK, NoRun, Run
<1>4. QbitOK
  <2>1. CASE qbit = NoTorrent
    BY <2>1 DEF QbitOK, NoTorrent, Torrent
  <2>2. CASE qbit = [NoTorrent EXCEPT !.present = TRUE, !.foreign = TRUE]
    BY <2>2 DEF QbitOK, NoTorrent, Torrent
  <2> QED
    BY <2>1, <2>2 DEF Init
<1>5. RowsOK
  BY DEF Init, RowsOK, NoInjection, Row
<1> QED
  BY <1>3, <1>4, <1>5 DEF IInv

\* Steps that only move the instance by Goto, Reply or Abort.
LEMMA OnlyMovesStep ==
    ASSUME IInv, NEW r \in Runs,
           PrepareRead(r) \/ AddRejected(r) \/ MaterializeRead(r) \/ Look(r) \/ Unconfigured(r)
           \/ FinishTask(r) \/ FailTask(r)
    PROVE  IInv'
<1>1. wf[r].stage # "none" /\ links' = links /\ good' = good /\ qbit' = qbit /\ inj' = inj
  BY RunFields
  DEF PrepareRead, AddRejected, MaterializeRead, Look, Unconfigured, FinishTask, FailTask, At
<1>2. (\E pc : Goto(r, pc)) \/ (\E result : Reply(r, result)) \/ Abort(r)
  BY DEF PrepareRead, AddRejected, MaterializeRead, Look, Unconfigured, FinishTask, FailTask
<1>3. RunsOK' /\ wf'[1].plan = wf[1].plan
  BY <1>1, <1>2, HelpersMove
<1> QED
  BY <1>1, <1>3, Undisturbed DEF IInv

\* Steps that change a field of the instance's own: none of them without its reason.
LEMMA OwnFieldsStep ==
    ASSUME IInv, NEW r \in Runs,
           Load(r) \/ Inspect(r) \/ Turn(r) \/ Fault(r) \/ DropReply(r) \/ Cancel(r)
    PROVE  IInv'
<1>1. links' = links /\ good' = good /\ qbit' = qbit /\ inj' = inj
  BY DEF Load, Inspect, Turn, Fault, DropReply, Cancel
<1>2. wf[r].stage # "none"
  BY RunFields DEF Load, Inspect, Turn, Fault, DropReply, Cancel, At
<1>3. Run(wf[r]) /\ wf[r].plan \in SUBSET Files
  BY <1>2, RunFields
<1> SUFFICES RunsOK' /\ wf'[1].plan = wf[1].plan
  BY <1>1, Undisturbed DEF IInv
<1>4. CASE Load(r)
  <2> DEFINE e == [wf[r] EXCEPT !.pc = "look", !.row = inj[wf[r].plan].state,
                                !.decision = inj[wf[r].plan].decision]
  <2>1. wf' = [wf EXCEPT ![r] = e]
    BY <1>4 DEF Load
  <2>2. Run(e) /\ e.plan = wf[r].plan /\ e.stage = wf[r].stage /\ e.safe = wf[r].safe
        /\ e.decision = inj[wf[r].plan].decision
    BY <1>3 DEF Run
  <2>3. e.decision = "resume" => wf[r].plan \subseteq good
    BY <1>3, <2>2, Zenon DEF IInv, RowsOK
  <2> HIDE DEF e
  <2> QED
    BY <1>1, <1>2, <2>1, <2>2, <2>3, RunMoves, RunFields, Zenon
<1>5. CASE Inspect(r)
  <2>1. CASE Abort(r)
    BY <1>1, <1>2, <2>1, HelpersMove
  <2>2. CASE ~Abort(r)
    <3> DEFINE e == [wf[r] EXCEPT !.pc = "decide", !.safe = wf[r].plan \subseteq qbit.pieces]
    <3>1. wf' = [wf EXCEPT ![r] = e]
      BY <1>5, <2>2 DEF Inspect
    <3>2. Run(e) /\ e.plan = wf[r].plan /\ e.stage = wf[r].stage /\ e.decision = wf[r].decision
          /\ e.safe = (wf[r].plan \subseteq qbit.pieces)
      BY <1>3 DEF Run
    <3>3. e.safe => wf[r].plan \subseteq good
      BY <3>2, Zenon DEF IInv, QbitOK
    <3> HIDE DEF e
    <3> QED
      BY <1>1, <1>2, <3>1, <3>2, <3>3, RunMoves, RunFields, Zenon
  <2> QED
    BY <2>1, <2>2
<1>6. CASE Turn(r) \/ Fault(r) \/ DropReply(r) \/ Cancel(r)
  <2>1. PICK e : /\ wf' = [wf EXCEPT ![r] = e]
                 /\ Run(e) /\ e.plan = wf[r].plan /\ e.safe = wf[r].safe /\ e.decision = wf[r].decision
                 /\ e.stage # "none"
    <3>1. CASE Turn(r)
      <4> DEFINE next == NextStage(wf[r].stage, wf[r].result)
      <4>1. next # "none"
        BY <1>2 DEF NextStage
      <4> HIDE DEF next
      <4> DEFINE e == [wf[r] EXCEPT !.stage = next, !.pc = "idle", !.live = next # "ended",
                                    !.result = "none"]
      <4>2. wf' = [wf EXCEPT ![r] = e]
        BY <3>1 DEF Turn, next
      <4>3. Run(e) /\ e.plan = wf[r].plan /\ e.safe = wf[r].safe /\ e.decision = wf[r].decision
            /\ e.stage # "none"
        BY <1>3, <4>1 DEF Run
      <4> QED
        BY <4>2, <4>3, Zenon
    <3>2. CASE Fault(r)
      <4>1. PICK again \in {wf[r].live, FALSE} :
                  wf' = [wf EXCEPT ![r] = [@ EXCEPT !.pc = "idle", !.result = "none", !.live = again,
                                                    !.stage = IF again THEN wf[r].stage ELSE "ended"]]
        BY <3>2, Zenon DEF Fault
      <4> DEFINE e == [wf[r] EXCEPT !.pc = "idle", !.result = "none", !.live = again,
                                    !.stage = IF again THEN wf[r].stage ELSE "ended"]
      <4>3. wf' = [wf EXCEPT ![r] = e]
        BY <4>1
      <4>2. Run(e) /\ e.plan = wf[r].plan /\ e.safe = wf[r].safe /\ e.decision = wf[r].decision
            /\ e.stage # "none"
        BY <1>2, <1>3 DEF Run
      <4> QED
        BY <4>2, <4>3, Zenon
    <3>3. CASE DropReply(r)
      <4> DEFINE e == [wf[r] EXCEPT !.pc = "idle", !.stage = "ended"]
      <4>1. wf' = [wf EXCEPT ![r] = e]
        BY <3>3 DEF DropReply
      <4>2. Run(e) /\ e.plan = wf[r].plan /\ e.safe = wf[r].safe /\ e.decision = wf[r].decision
            /\ e.stage # "none"
        BY <1>3 DEF Run
      <4> QED
        BY <4>1, <4>2, Zenon
    <3>4. CASE Cancel(r)
      <4> DEFINE e == [wf[r] EXCEPT !.live = FALSE]
      <4>1. wf' = [wf EXCEPT ![r] = e]
        BY <3>4 DEF Cancel
      <4>2. Run(e) /\ e.plan = wf[r].plan /\ e.safe = wf[r].safe /\ e.decision = wf[r].decision
            /\ e.stage # "none"
        BY <1>2, <1>3 DEF Run
      <4> QED
        BY <4>1, <4>2, Zenon
    <3> QED
      BY <1>6, <3>1, <3>2, <3>3, <3>4
  <2> QED
    BY <1>1, <1>2, <2>1, RunMoves, RunFields, Zenon
<1> QED
  BY <1>4, <1>5, <1>6

\* Steps that write the row of the plan.
LEMMA RowStep ==
    ASSUME IInv, NEW r \in Runs,
           RecordInjection(r) \/ PersistLinks(r) \/ SetRecheckRequested(r) \/ UpdateObservation(r)
           \/ Bump(r) \/ FinishRow(r) \/ FailRow(r)
    PROVE  IInv'
<1> DEFINE p == wf[r].plan
           i == inj[p]
<1>1. wf[r].stage # "none" /\ links' = links /\ good' = good /\ qbit' = qbit
  BY RunFields DEF RecordInjection, PersistLinks, SetRecheckRequested, UpdateObservation, Bump,
                   FinishRow, FailRow, At
<1>2. (\E pc : Goto(r, pc)) \/ (\E result : Reply(r, result))
  BY DEF RecordInjection, PersistLinks, SetRecheckRequested, UpdateObservation, Bump, FinishRow, FailRow
<1>3. RunsOK' /\ wf'[1].plan = wf[1].plan
  BY <1>1, <1>2, HelpersMove
<1>4. p \in SUBSET Files
  BY <1>1, RunFields
<1>5. Row(i) /\ (i.decision = "resume" => p \subseteq good)
  BY <1>4, Zenon DEF IInv, RowsOK
<1>6. PICK row : /\ inj' = [inj EXCEPT ![p] = row] \/ Update(p, row)
                 /\ Row(row) /\ (row.decision = "resume" => p \subseteq good)
  <2>1. CASE RecordInjection(r)
    <3> DEFINE row == [i EXCEPT !.state = "added_stopped", !.decision = "none", !.safe = FALSE]
    <3>1. Row(row) /\ row.decision = "none"
      BY <1>5 DEF Row
    <3>2. inj' = [inj EXCEPT ![p] = row]
      BY <2>1 DEF RecordInjection
    <3> QED
      BY <3>1, <3>2, Zenon
  <2>2. ASSUME NEW state, Update(p, [i EXCEPT !.state = state])
        PROVE  \E row : Update(p, row) /\ Row(row) /\ (row.decision = "resume" => p \subseteq good)
    <3> DEFINE row == [i EXCEPT !.state = state]
    <3>1. Row(row) /\ row.decision = i.decision
      BY <1>5 DEF Row
    <3> HIDE DEF i
    <3> QED
      BY <1>5, <2>2, <3>1, Zenon
  <2>3. CASE SetRecheckRequested(r)
    <3> DEFINE row == [i EXCEPT !.state = "recheck_requested", !.attempts = 0]
    <3>1. Row(row) /\ row.decision = i.decision
      BY <1>5 DEF Row
    <3>2. Update(p, row)
      BY <2>3 DEF SetRecheckRequested
    <3> QED
      BY <1>5, <3>1, <3>2, Zenon
  <2>4. CASE Bump(r)
    <3> DEFINE row == [i EXCEPT !.attempts = i.attempts + 1]
    <3>1. Row(row) /\ row.decision = i.decision
      BY <1>5 DEF Row
    <3>2. Update(p, row)
      BY <2>4 DEF Bump
    <3> QED
      BY <1>5, <3>1, <3>2, Zenon
  <2>5. CASE PersistLinks(r) \/ UpdateObservation(r) \/ FinishRow(r) \/ FailRow(r)
    <3>1. \E state : Update(p, [i EXCEPT !.state = state])
      BY <2>5, Zenon DEF PersistLinks, UpdateObservation, FinishRow, FailRow
    <3> QED
      BY <2>2, <3>1
  <2> QED
    BY <2>1, <2>3, <2>4, <2>5
<1>7. RowsOK'
  BY <1>1, <1>4, <1>6, RowMoves
<1>8. QbitOK'
  BY <1>1, <1>3, Undisturbed
<1> QED
  BY <1>3, <1>7, <1>8 DEF IInv

\* Decide resumes only what the instance has found safe.
LEMMA DecideStep ==
    ASSUME IInv, NEW r \in Runs, Decide(r)
    PROVE  IInv'
<1> DEFINE p == wf[r].plan
           i == inj[p]
<1>1. /\ wf[r].stage # "none" /\ links' = links /\ good' = good /\ qbit' = qbit
      /\ Run(wf[r]) /\ p \in SUBSET Files /\ (wf[r].safe => p \subseteq good)
  BY RunFields DEF Decide
<1>2. Row(i)
  BY <1>1, Zenon DEF IInv, RowsOK
<1>3. PICK decision : /\ decision = "resume" => wf[r].safe
                      /\ Update(p, [i EXCEPT !.state = "finalizing", !.attempts = 0,
                                             !.decision = decision, !.safe = wf[r].safe])
                      /\ wf' = [wf EXCEPT ![r] = [wf[r] EXCEPT !.pc = "send", !.decision = decision]]
  BY Zenon DEF Decide
<1> DEFINE row == [i EXCEPT !.state = "finalizing", !.attempts = 0,
                            !.decision = decision, !.safe = wf[r].safe]
           e == [wf[r] EXCEPT !.pc = "send", !.decision = decision]
<1>4. Row(row) /\ row.decision = decision
  BY <1>2 DEF Row
<1>5. Run(e) /\ e.plan = p /\ e.stage = wf[r].stage /\ e.safe = wf[r].safe /\ e.decision = decision
  BY <1>1 DEF Run
<1>6. Update(p, row) /\ wf' = [wf EXCEPT ![r] = e]
  BY <1>3
<1> HIDE DEF row, e
<1>7. RowsOK'
  BY <1>1, <1>3, <1>4, <1>6, RowMoves
<1>8. RunsOK' /\ wf'[1].plan = wf[1].plan
  BY <1>1, <1>3, <1>5, <1>6, RunMoves, Zenon
<1> QED
  BY <1>1, <1>7, <1>8, Undisturbed DEF IInv

\* Link adds files of the plan.
LEMMA LinkStep ==
    ASSUME IInv, NEW r \in Runs, Link(r)
    PROVE  IInv'
<1>1. /\ wf[r].stage # "none" /\ good' = good /\ qbit' = qbit /\ inj' = inj
      /\ Run(wf[r]) /\ wf[r].plan = wf[1].plan
  BY RunFields DEF Link, At
<1>2. PICK made \in SUBSET wf[r].plan :
         /\ links' = links \cup made
         /\ wf' = [wf EXCEPT ![r] = [wf[r] EXCEPT !.pc = "persist",
                    !.result = IF made = wf[r].plan THEN "ready" ELSE "failed"]]
  BY Zenon DEF Link
<1> DEFINE e == [wf[r] EXCEPT !.pc = "persist",
                    !.result = IF made = wf[r].plan THEN "ready" ELSE "failed"]
<1>3. Run(e) /\ e.plan = wf[r].plan /\ e.stage = wf[r].stage /\ e.safe = wf[r].safe
      /\ e.decision = wf[r].decision
  BY <1>1 DEF Run
<1>4. wf' = [wf EXCEPT ![r] = e]
  BY <1>2
<1> HIDE DEF e
<1>5. links' \subseteq wf[1].plan
  BY <1>1, <1>2, RunFields
<1>6. 1 \in Runs
  BY InjectionAssumption DEF Runs
<1>7. /\ wf' = [s \in Runs |-> wf'[s]] /\ wf'[r] = e
      /\ \A s \in Runs \ {r} : wf'[s] = wf[s]
  BY <1>4 DEF IInv, RunsOK
<1>8. wf'[1].plan = wf[1].plan /\ wf'[1].stage # "none"
  BY <1>1, <1>3, <1>6, <1>7 DEF IInv, RunsOK
<1>9. RunsOK'
  BY <1>1, <1>3, <1>5, <1>7, <1>8, RunFields DEF IInv, RunsOK
<1> QED
  BY <1>1, <1>8, <1>9, Undisturbed DEF IInv

\* Steps that ask something of qBittorrent: only Send starts the torrent.
LEMMA AskStep ==
    ASSUME IInv, NEW r \in Runs, AddStopped(r) \/ Stop(r) \/ ForceRecheck(r) \/ Send(r)
    PROVE  IInv'
<1>1. wf[r].stage # "none" /\ links' = links /\ good' = good /\ inj' = inj
  BY RunFields DEF AddStopped, Stop, ForceRecheck, Send, At
<1>2. (\E pc : Goto(r, pc)) \/ (\E result : Reply(r, result))
  BY DEF AddStopped, Stop, ForceRecheck, Send
<1>3. RunsOK' /\ wf'[1].plan = wf[1].plan
  BY <1>1, <1>2, HelpersMove
<1>4. /\ Torrent(qbit) /\ qbit.recheck \in {"none", "asked", "running"}
      /\ qbit.pieces \subseteq good /\ (qbit.started => wf[1].plan \subseteq good)
  BY DEF IInv, QbitOK
<1>5. QbitOK'
  <2>1. CASE AddStopped(r)
    BY <1>1, <1>3, <2>1 DEF AddStopped, Arrived, QbitOK, Torrent, NoTorrent
  <2>2. CASE Stop(r)
    BY <1>1, <1>3, <1>4, <2>2 DEF Stop, QbitOK, Torrent
  <2>3. CASE ForceRecheck(r)
    BY <1>1, <1>3, <1>4, <2>3 DEF ForceRecheck, QbitOK, Torrent
  <2>4. CASE Send(r)
    <3>1. wf[r].decision = "resume" => wf[1].plan \subseteq good
      BY <1>1, RunFields
    <3> QED
      BY <1>1, <1>3, <1>4, <2>4, <3>1, Zenon DEF Send, QbitOK, Torrent
  <2> QED
    BY <2>1, <2>2, <2>3, <2>4
<1> QED
  BY <1>1, <1>3, <1>5, Undisturbed DEF IInv

\* qBittorrent's own steps, a deletion, and repair of the task row.
LEMMA OutsideStep ==
    ASSUME IInv, RecheckBegins \/ RecheckEnds \/ Appears \/ Removed \/ (\E r \in Runs : Repair(r))
    PROVE  IInv'
<1>1. links' = links /\ good' = good /\ inj' = inj /\ wf' = wf
  BY DEF RecheckBegins, RecheckEnds, Appears, Removed, Repair
<1>2. RunsOK'
  BY <1>1 DEF IInv, RunsOK
<1>3. QbitOK'
  <2>1. /\ Torrent(qbit) /\ qbit.recheck \in {"none", "asked", "running"}
        /\ qbit.pieces \subseteq good /\ (qbit.started => wf[1].plan \subseteq good)
    BY DEF IInv, QbitOK
  <2>2. CASE RecheckBegins
    BY <1>1, <2>1, <2>2 DEF QbitOK, RecheckBegins, Torrent
  <2>3. CASE RecheckEnds
    BY <1>1, <2>1, <2>3 DEF QbitOK, RecheckEnds, Torrent
  <2>4. CASE Removed
    BY <1>1, <2>1, <2>4 DEF QbitOK, Removed, NoTorrent, Torrent
  <2>6. CASE Appears
    BY <1>1, <2>6 DEF QbitOK, Appears, Arrived, NoTorrent, Torrent
  <2>5. CASE \E r \in Runs : Repair(r)
    BY <1>1, <2>1, <2>5 DEF QbitOK, Repair
  <2> QED
    BY <2>2, <2>3, <2>4, <2>5, <2>6
<1> QED
  BY <1>1, <1>2, <1>3, Undisturbed DEF IInv

\* A retried instance follows the plan of the first.
LEMMA RetryStep ==
    ASSUME OnePlan, IInv, NEW r \in Runs, Retry(r)
    PROVE  IInv'
<1>1. /\ r # 1 /\ links' = links /\ good' = good /\ qbit' = qbit /\ inj' = inj /\ 1 \in Runs
      /\ MaxRuns # 1
  BY InjectionAssumption DEF Retry, Runs
<1>2. PICK p \in Plans :
         wf' = [wf EXCEPT ![r] = [NoRun EXCEPT !.plan = p, !.stage = "prepare", !.live = TRUE]]
  BY Zenon DEF Retry
<1> DEFINE e == [NoRun EXCEPT !.plan = p, !.stage = "prepare", !.live = TRUE]
<1>3. Run(e) /\ e.plan = p /\ e.stage = "prepare" /\ e.safe = FALSE /\ e.decision = "none"
  BY DEF Run, NoRun
<1>4. wf' = [wf EXCEPT ![r] = e]
  BY <1>2
<1> HIDE DEF e
<1>5. p = wf[1].plan
  BY <1>1 DEF OnePlan, IInv, RunsOK
<1>6. /\ wf' = [s \in Runs |-> wf'[s]] /\ wf'[r] = e
      /\ \A s \in Runs \ {r} : wf'[s] = wf[s]
  BY <1>4 DEF IInv, RunsOK
<1>7. wf'[1] = wf[1]
  BY <1>1, <1>6
<1>8. RunsOK'
  BY <1>1, <1>3, <1>5, <1>6, <1>7 DEF IInv, RunsOK
<1> QED
  BY <1>1, <1>7, <1>8, Undisturbed DEF IInv

\* Every step preserves the invariant.
LEMMA NextInv ==
    ASSUME OnePlan, IInv, [Next]_vars
    PROVE  IInv'
<1>1. CASE UNCHANGED vars
  BY <1>1, Zenon DEF vars, IInv, RunsOK, QbitOK, RowsOK
<1>2. ASSUME NEW r \in Runs, Activity(r)
      PROVE  IInv'
  BY <1>2, OnlyMovesStep, OwnFieldsStep, RowStep, DecideStep, LinkStep, AskStep DEF Activity
<1>3. ASSUME NEW r \in Runs, Turn(r) \/ Fault(r) \/ Unconfigured(r) \/ DropReply(r)
      PROVE  IInv'
  BY <1>3, OnlyMovesStep, OwnFieldsStep
<1>4. ASSUME NEW r \in Runs, Cancel(r) \/ Repair(r) \/ Retry(r)
      PROVE  IInv'
  BY <1>4, OwnFieldsStep, OutsideStep, RetryStep
<1>5. CASE Qbittorrent \/ Appears \/ Removed
  BY <1>5, OutsideStep DEF Qbittorrent
<1> QED
  BY <1>1, <1>2, <1>3, <1>4, <1>5 DEF Next

\* The torrent is started only while every file linked into its save path holds the
\* candidate's bytes, whatever fails, is delivered again, cancelled or retried, as long as
\* the instances of the task follow one plan (record_resume_decision, verify_final and
\* prepare against the torrent and links that the instances share).
THEOREM UnsafeNeverStarts ==
    ASSUME OnePlan
    PROVE  Spec => []NothingUnsafeStarts
<1>1. IInv => NothingUnsafeStarts
  BY DEF IInv, RunsOK, QbitOK, NothingUnsafeStarts
<1> QED
  BY <1>1, InitInv, NextInv, PTL DEF Spec

-----------------------------------------------------------------------------
(* The invariant of a single instance is inductive                         *)

\* What a step of the instance leaves of it.
Kept == /\ wf'[1].plan = wf[1].plan
        /\ wf'[1].stage = wf[1].stage
        /\ wf'[1].row = wf[1].row
        /\ wf'[1].decision = wf[1].decision
        /\ wf'[1].safe = wf[1].safe

\* The shapes of the one instance and of the row of its plan.
LEMMA SingleShape ==
    ASSUME MaxRuns = 1, IInv
    PROVE  /\ Runs = {1}
           /\ wf = [r \in Runs |-> wf[r]] /\ Run(wf[1])
           /\ inj = [p \in SUBSET Files |-> inj[p]] /\ wf[1].plan \in SUBSET Files
           /\ Row(inj[wf[1].plan]) /\ Torrent(qbit)
           /\ links \subseteq wf[1].plan
<1>1. Runs = {1}
  BY DEF Runs
<1> QED
  BY <1>1, InjectionAssumption, Zenon DEF IInv, RunsOK, RowsOK, QbitOK

\* Goto, Reply and Abort, field by field.
LEMMA GotoIs ==
    ASSUME MaxRuns = 1, IInv, NEW pc, Goto(1, pc)
    PROVE  Kept /\ wf'[1].pc = pc /\ wf'[1].result = wf[1].result
BY SingleShape DEF Goto, Run, Kept

\* What a reply does to the instance.
LEMMA ReplyIs ==
    ASSUME MaxRuns = 1, IInv, NEW result, Reply(1, result)
    PROVE  Kept /\ wf'[1].pc = "reply" /\ wf'[1].result = result
BY SingleShape DEF Reply, Run, Kept

\* What a failure does to the instance.
LEMMA AbortIs ==
    ASSUME MaxRuns = 1, IInv, Abort(1)
    PROVE  wf'[1].plan = wf[1].plan /\ wf'[1].stage = "ended" /\ wf'[1].pc = "idle"
BY SingleShape DEF Abort, Run

\* An update of the plan's row leaves the other rows alone.
LEMMA UpdateIs ==
    ASSUME MaxRuns = 1, IInv, NEW row,
           Update(wf[1].plan, row) \/ inj' = [inj EXCEPT ![wf[1].plan] = row]
    PROVE  /\ \/ inj[wf[1].plan].state = "none" /\ inj'[wf[1].plan] = inj[wf[1].plan]
              \/ inj'[wf[1].plan] = row
           /\ \A p \in SUBSET Files : p # wf[1].plan => inj'[p] = inj[p]
BY SingleShape DEF Update

\* A step that ends the instance keeps the verdict.
LEMMA EndsStep ==
    ASSUME MaxRuns = 1, SingleInv, UNCHANGED <<qbit, links, good, inj>>,
           wf'[1].plan = wf[1].plan, wf'[1].stage = "ended", wf'[1].pc = "idle"
    PROVE  SingleOK'
BY DEF SingleInv, SingleOK, PlaceOK, LinkedOK, StateOK, ReadOK, Fresh, Observing

\* A step that leaves the instance where it is, but at a place of which nothing is said.
LEMMA PlainStep ==
    ASSUME MaxRuns = 1, SingleInv, UNCHANGED <<qbit, links, good, inj>>, Kept,
           \/ wf'[1].pc \in {"idle", "add", "stop", "record", "link", "fail", "fail_task"} 
           \/ wf'[1].pc = "reply" /\ wf'[1].result = "failed"
           \/ wf'[1].pc = "reply" /\ wf[1].stage \in {"prepare", "observe"},
           wf[1].stage # "ended" \/ wf'[1].pc = "idle"
    PROVE  SingleOK'
BY DEF SingleInv, SingleOK, PlaceOK, LinkedOK, StateOK, ReadOK, Fresh, Observing, Kept

\* Where no activity runs, the instance may have ended; elsewhere it has not.
LEMMA NotEnded ==
    ASSUME SingleInv, wf[1].pc # "idle"
    PROVE  wf[1].stage # "ended"
BY DEF SingleInv, SingleOK, PlaceOK

\* A single instance begins as its invariant says.
LEMMA SingleInit ==
    ASSUME MaxRuns = 1, Init
    PROVE  SingleInv
<1>1. PICK p \in Plans : wf = [r \in Runs |-> IF r = 1
            THEN [NoRun EXCEPT !.plan = p, !.stage = "prepare", !.live = TRUE] ELSE NoRun]
  BY Zenon DEF Init
<1>2. 1 \in Runs /\ p \in SUBSET Files
  BY InjectionAssumption DEF Runs
<1>3. /\ wf[1].plan = p /\ wf[1].stage = "prepare" /\ wf[1].pc = "idle"
  BY <1>1, <1>2, Zenon DEF NoRun
<1>4. \A q \in SUBSET Files : inj[q] = NoInjection
  BY DEF Init
<1>5. SingleOK
  BY <1>2, <1>3, <1>4
  DEF SingleOK, PlaceOK, LinkedOK, StateOK, ReadOK, Observing, NoInjection
<1>6. qbit.pending = FALSE
  <2>1. CASE qbit = NoTorrent
    BY <2>1 DEF NoTorrent
  <2>2. CASE qbit = [NoTorrent EXCEPT !.present = TRUE, !.foreign = TRUE]
    BY <2>2 DEF NoTorrent
  <2> QED
    BY <2>1, <2>2 DEF Init
<1>7. PendingOK
  BY <1>6 DEF PendingOK
<1> QED
  BY <1>5, <1>7, InitInv DEF SingleInv

\* PrepareInjection
LEMMA PrepareSteps ==
    ASSUME MaxRuns = 1, SingleInv,
           PrepareRead(1) \/ AddStopped(1) \/ AddRejected(1) \/ Stop(1) \/ RecordInjection(1)
    PROVE  SingleOK'
<1>1. IInv /\ wf[1].stage = "prepare"
  BY DEF SingleInv, PrepareRead, AddStopped, AddRejected, Stop, RecordInjection, At
<1>2. CASE PrepareRead(1)
  <2>1. PICK pc \in {"add", "fail", "stop", "record"} : Goto(1, pc)
    BY <1>2 DEF PrepareRead
  <2>2. UNCHANGED <<qbit, links, good, inj>>
    BY <1>2 DEF PrepareRead
  <2> QED
    BY <1>1, <2>1, <2>2, GotoIs, PlainStep
<1>3. CASE AddRejected(1)
  BY <1>1, <1>3, AbortIs, EndsStep DEF AddRejected
<1>4. CASE AddStopped(1) \/ Stop(1)
  <2>1. Kept /\ wf'[1].pc = "reply" /\ wf'[1].result = "waiting" /\ UNCHANGED <<links, good, inj>>
    BY <1>1, <1>4, ReplyIs DEF AddStopped, Stop
  <2> QED
    BY <1>1, <2>1 DEF SingleInv, SingleOK, PlaceOK, LinkedOK, StateOK, ReadOK, Observing, Kept
<1>5. CASE RecordInjection(1)
  <2> DEFINE i == inj[wf[1].plan]
             row == [i EXCEPT !.state = "added_stopped", !.decision = "none", !.safe = FALSE]
  <2>1. Kept /\ wf'[1].pc = "reply" /\ wf'[1].result = "ready" /\ UNCHANGED <<qbit, links, good>>
    BY <1>1, <1>5, ReplyIs DEF RecordInjection
  <2>2. inj' = [inj EXCEPT ![wf[1].plan] = row]
    BY <1>5 DEF RecordInjection
  <2>3. row.state = "added_stopped" /\ row.decision = "none"
    BY <1>1, SingleShape DEF Row
  <2> HIDE DEF row
  <2>4. /\ inj'[wf[1].plan] = row
        /\ \A p \in SUBSET Files : p # wf[1].plan => inj'[p] = inj[p]
    BY <1>1, <2>2, SingleShape
  <2> QED
    BY <1>1, <2>1, <2>3, <2>4
    DEF SingleInv, SingleOK, PlaceOK, LinkedOK, StateOK, ReadOK, Observing, Kept
<1> QED
  BY <1>2, <1>3, <1>4, <1>5

\* MaterializeInjectionLinks
LEMMA MaterializeSteps ==
    ASSUME MaxRuns = 1, SingleInv, MaterializeRead(1) \/ Link(1) \/ PersistLinks(1)
    PROVE  SingleOK'
<1>1. IInv /\ wf[1].stage = "materialize"
  BY Zenon DEF SingleInv, MaterializeRead, Link, PersistLinks, At
<1>2. CASE MaterializeRead(1)
  <2>1. PICK pc \in {"link", "fail"} : Goto(1, pc)
    BY <1>2 DEF MaterializeRead
  <2>2. UNCHANGED <<qbit, links, good, inj>>
    BY <1>2 DEF MaterializeRead
  <2> QED
    BY <1>1, <2>1, <2>2, GotoIs, PlainStep
<1>3. CASE Link(1)
  <2>1. PICK made \in SUBSET wf[1].plan :
          /\ links' = links \cup made
          /\ wf' = [wf EXCEPT ![1] = [@ EXCEPT !.pc = "persist",
                     !.result = IF made = wf[1].plan THEN "ready" ELSE "failed"]]
    BY <1>3, Zenon DEF Link
  <2>2. /\ Kept /\ wf'[1].pc = "persist"
        /\ wf'[1].result = IF made = wf[1].plan THEN "ready" ELSE "failed"
    BY <1>1, <2>1, SingleShape DEF Run, Kept
  <2>3. wf'[1].result = "ready" => wf[1].plan \subseteq links'
    BY <2>1, <2>2
  <2>4. UNCHANGED <<qbit, good, inj>>
    BY <1>3, Zenon DEF Link
  <2> QED
    BY <1>1, <2>2, <2>3, <2>4
    DEF SingleInv, SingleOK, PlaceOK, LinkedOK, StateOK, ReadOK, Observing, Kept
<1>4. CASE PersistLinks(1)
  <2> DEFINE complete == wf[1].result = "ready"
             i == inj[wf[1].plan]
             row == [i EXCEPT !.state = IF complete THEN "links_complete" ELSE "links_partial"]
  <2>1. Update(wf[1].plan, row) /\ Goto(1, IF complete THEN "reply" ELSE "fail")
    BY <1>4 DEF PersistLinks
  <2>2. UNCHANGED <<qbit, links, good>> /\ wf[1].pc = "persist"
    BY <1>4 DEF PersistLinks, At
  <2>3. row.state \in {"links_complete", "links_partial"} /\ row.decision = i.decision
    BY <1>1, SingleShape DEF Row
  <2>4. Kept /\ wf'[1].pc = (IF complete THEN "reply" ELSE "fail") /\ wf'[1].result = wf[1].result
    BY <1>1, <2>1, GotoIs
  <2> HIDE DEF row
  <2>5. /\ inj'[wf[1].plan] = i \/ inj'[wf[1].plan] = row
        /\ \A p \in SUBSET Files : p # wf[1].plan => inj'[p] = inj[p]
    BY <1>1, <2>1, UpdateIs
  <2> QED
    BY <1>1, <2>2, <2>3, <2>4, <2>5, SMTT(30)
    DEF SingleInv, SingleOK, PlaceOK, LinkedOK, StateOK, ReadOK, Observing, Kept
<1> QED
  BY <1>2, <1>3, <1>4

\* RequestInjectionRecheck
LEMMA RecheckSteps ==
    ASSUME MaxRuns = 1, SingleInv, ForceRecheck(1) \/ SetRecheckRequested(1)
    PROVE  SingleOK'
<1>1. IInv /\ wf[1].stage = "recheck"
  BY DEF SingleInv, ForceRecheck, SetRecheckRequested, At
<1>2. CASE ForceRecheck(1)
  <2>1. Kept /\ wf'[1].pc = "mark" /\ UNCHANGED <<links, good, inj>>
    BY <1>1, <1>2, GotoIs DEF ForceRecheck
  <2>2. Fresh'
    BY <1>1, <1>2, SingleShape DEF ForceRecheck, Fresh, Torrent
  <2> QED
    BY <1>1, <2>1, <2>2
    DEF SingleInv, SingleOK, PlaceOK, LinkedOK, StateOK, ReadOK, Observing, Kept
<1>3. CASE SetRecheckRequested(1)
  <2> DEFINE i == inj[wf[1].plan]
             row == [i EXCEPT !.state = "recheck_requested", !.attempts = 0]
  <2>1. /\ Kept /\ wf'[1].pc = "reply" /\ wf'[1].result = "waiting"
        /\ UNCHANGED <<qbit, links, good>> /\ wf[1].pc = "mark"
    BY <1>1, <1>3, ReplyIs DEF SetRecheckRequested, At
  <2>2. Update(wf[1].plan, row)
    BY <1>3 DEF SetRecheckRequested
  <2>3. row.state = "recheck_requested" /\ row.decision = i.decision
    BY <1>1, SingleShape DEF Row
  <2> HIDE DEF row
  <2>4. /\ inj'[wf[1].plan] = i \/ inj'[wf[1].plan] = row
        /\ \A p \in SUBSET Files : p # wf[1].plan => inj'[p] = inj[p]
    BY <1>1, <2>2, UpdateIs
  <2>5. Fresh'
    BY <1>1, <2>1 DEF SingleInv, SingleOK, LinkedOK, Fresh
  <2> QED
    BY <1>1, <2>1, <2>3, <2>4, <2>5, SMTT(30)
    DEF SingleInv, SingleOK, PlaceOK, LinkedOK, StateOK, ReadOK, Observing, Kept
<1> QED
  BY <1>2, <1>3

\* ObserveInjectionRecheck: what is read.
LEMMA ReadingSteps ==
    ASSUME MaxRuns = 1, SingleInv, Load(1) \/ Look(1) \/ Inspect(1)
    PROVE  SingleOK'
<1>1. IInv /\ wf[1].stage = "observe" /\ UNCHANGED <<qbit, links, good, inj>>
  BY DEF SingleInv, SingleOK, PlaceOK, Observing, Load, Look, Inspect, At
<1>2. CASE Load(1)
  <2>1. /\ wf'[1].plan = wf[1].plan /\ wf'[1].stage = wf[1].stage /\ wf'[1].pc = "look"
        /\ wf'[1].row = inj[wf[1].plan].state
    BY <1>1, <1>2, SingleShape DEF Load, Run
  <2> QED
    BY <1>1, <2>1 DEF SingleInv, SingleOK, PlaceOK, LinkedOK, StateOK, ReadOK, Observing, Fresh
<1>3. CASE Look(1)
  <2> DEFINE i == inj[wf[1].plan]
  <2>1. PICK shown \in Shown :
            Goto(1, IF ~qbit.present THEN "fail"
                    ELSE IF wf[1].row = "finalizing"
                    THEN IF Settled(wf[1].decision, shown) THEN "finish" ELSE "bump"
                    ELSE Observation(wf[1].row, shown))
    BY <1>3 DEF Look
  <2>2. /\ shown = "checking" <=> qbit.recheck = "running"
        /\ wf[1].row = "recheck_settling" => qbit.recheck # "asked"
        /\ wf[1].pc = "look"
    BY <1>3 DEF Shown, Look, PromptRecheck, At
  <2>3. wf[1].row = i.state
    BY <2>2 DEF SingleInv, SingleOK, ReadOK
  <2>4. Kept /\ wf'[1].pc \in {"fail", "finish", "bump", "checking", "settling", "inspect"}
    BY <1>1, <2>1, GotoIs DEF Observation
  <2>5. /\ wf'[1].pc = "checking" => qbit.recheck = "running"
        /\ wf'[1].pc = "settling" => i.state = "recheck_requested"
        /\ wf'[1].pc = "inspect" => i.state \in {"recheck_settling", "checking"} /\ qbit.recheck # "running"
    <3>1. CASE ~qbit.present \/ wf[1].row = "finalizing"
      <4>1. \E pc \in {"fail", "finish", "bump"} : Goto(1, pc)
        BY <2>1, <3>1
      <4> QED
        BY <1>1, <4>1, GotoIs
    <3>2. CASE ~(~qbit.present \/ wf[1].row = "finalizing")
      <4>1. Goto(1, Observation(wf[1].row, shown))
        BY <2>1, <3>2
      <4>2. wf'[1].pc = Observation(i.state, shown)
        BY <1>1, <2>3, <4>1, GotoIs
      <4> QED
        BY <2>2, <4>2 DEF Observation
    <3> QED
      BY <3>1, <3>2
  <2>6. wf'[1].pc = "inspect" => qbit.recheck \notin {"asked", "running"}
    BY <1>1, <2>2, <2>3, <2>5 DEF SingleInv, SingleOK, StateOK
  <2>7. qbit.recheck \in {"none", "asked", "running"}
    BY DEF SingleInv, IInv, QbitOK
  <2> QED
    BY <1>1, <2>3, <2>4, <2>5, <2>6, <2>7
    DEF SingleInv, SingleOK, PlaceOK, LinkedOK, StateOK, ReadOK, Observing, Fresh, Kept
<1>4. CASE Inspect(1)
  <2>1. CASE Abort(1)
    BY <1>1, <2>1, AbortIs, EndsStep
  <2>2. CASE ~Abort(1)
    <3>1. qbit.present /\ wf' = [wf EXCEPT ![1] = [@ EXCEPT !.pc = "decide",
                                              !.safe = wf[1].plan \subseteq qbit.pieces]]
      BY <1>4, <2>2 DEF Inspect
    <3>2. /\ wf'[1].plan = wf[1].plan /\ wf'[1].stage = wf[1].stage /\ wf'[1].pc = "decide"
          /\ wf'[1].row = wf[1].row
          /\ wf'[1].safe = (wf[1].plan \subseteq qbit.pieces)
      BY <1>1, <3>1, SingleShape DEF Run
    <3>3. wf[1].pc = "inspect" /\ qbit.recheck = "none"
      BY <1>4 DEF Inspect, SingleInv, SingleOK, ReadOK
    <3>4. wf[1].plan \subseteq qbit.pieces <=> wf[1].plan \subseteq good
      BY <1>1, <3>1, <3>3 DEF SingleInv, SingleOK, LinkedOK, Fresh
    <3> QED
      BY <1>1, <3>2, <3>3, <3>4, Zenon
      DEF SingleInv, SingleOK, PlaceOK, LinkedOK, StateOK, ReadOK, Observing, Fresh
  <2> QED
    BY <2>1, <2>2
<1> QED
  BY <1>2, <1>3, <1>4

\* ObserveInjectionRecheck: what is written.
LEMMA WritingSteps ==
    ASSUME MaxRuns = 1, SingleInv,
           UpdateObservation(1) \/ Bump(1) \/ FinishRow(1) \/ FailRow(1)
    PROVE  SingleOK'
<1> DEFINE i == inj[wf[1].plan]
<1>1. IInv /\ wf[1].stage # "ended" /\ UNCHANGED <<qbit, links, good>>
  BY NotEnded DEF SingleInv, UpdateObservation, Bump, FinishRow, FailRow
<1>2. CASE UpdateObservation(1)
  <2> DEFINE state == IF wf[1].pc = "checking" THEN "checking" ELSE "recheck_settling"
             row == [i EXCEPT !.state = state]
  <2>1. Update(wf[1].plan, row) /\ wf[1].pc \in {"checking", "settling"}
    BY <1>2 DEF UpdateObservation
  <2>2. Kept /\ wf'[1].pc = "reply" /\ wf'[1].result = "waiting"
    BY <1>1, <1>2, ReplyIs DEF UpdateObservation
  <2>3. row.state = state /\ row.decision = i.decision
    BY <1>1, SingleShape DEF Row
  <2>4. /\ wf[1].stage = "observe" /\ i.decision = "none" /\ state # "finalizing"
        /\ state = "checking" => qbit.recheck # "asked"
    BY <2>1 DEF SingleInv, SingleOK, PlaceOK, ReadOK, Observing
  <2> HIDE DEF row, state
  <2>5. /\ inj'[wf[1].plan] = i \/ inj'[wf[1].plan] = row
        /\ \A p \in SUBSET Files : p # wf[1].plan => inj'[p] = inj[p]
    BY <1>1, <2>1, UpdateIs
  <2>P1. PlaceOK(wf[1])'
    BY <1>1, <2>2, <2>3, <2>4, <2>5 DEF SingleInv, SingleOK, PlaceOK, Observing, Kept
  <2>P2. LinkedOK(wf[1])'
    BY <1>1, <2>2, <2>3, <2>4, <2>5 DEF SingleInv, SingleOK, LinkedOK, Fresh, Observing, Kept
  <2>P3. StateOK(wf[1], inj[wf[1].plan])'
    BY <1>1, <2>2, <2>3, <2>4, <2>5 DEF SingleInv, SingleOK, StateOK, Observing, Kept
  <2>P4. ReadOK(wf[1], inj[wf[1].plan])'
    BY <1>1, <2>2, <2>3, <2>4, <2>5 DEF SingleInv, SingleOK, ReadOK, Observing, Kept
  <2>P5. (\A p \in SUBSET Files : p # wf[1].plan => inj[p] = NoInjection)'
    BY <1>1, <2>2, <2>3, <2>4, <2>5 DEF SingleInv, SingleOK, Observing, Kept
  <2> QED
    BY <2>P1, <2>P2, <2>P3, <2>P4, <2>P5, Zenon DEF SingleOK
<1>3. CASE Bump(1)
  <2> DEFINE row == [i EXCEPT !.attempts = i.attempts + 1]
  <2>1. Update(wf[1].plan, row) /\ wf[1].pc = "bump"
    BY <1>3 DEF Bump
  <2>2. Kept /\ wf'[1].pc \in {"fail", "send", "reply"} /\ wf[1].stage = "observe"
    BY <1>1, <1>3, GotoIs, ReplyIs DEF Bump, SingleInv, SingleOK, PlaceOK, Observing
  <2>3. row.state = i.state /\ row.decision = i.decision /\ row.safe = i.safe
    BY <1>1, SingleShape DEF Row
  <2> HIDE DEF row
  <2>4. /\ inj'[wf[1].plan] = i \/ inj'[wf[1].plan] = row
        /\ \A p \in SUBSET Files : p # wf[1].plan => inj'[p] = inj[p]
    BY <1>1, <2>1, UpdateIs
  <2>P1. PlaceOK(wf[1])'
    BY <1>1, <2>2, <2>3, <2>4 DEF SingleInv, SingleOK, PlaceOK, Observing, Kept
  <2>P2. LinkedOK(wf[1])'
    BY <1>1, <2>2, <2>3, <2>4 DEF SingleInv, SingleOK, LinkedOK, Fresh, Observing, Kept
  <2>P3. StateOK(wf[1], inj[wf[1].plan])'
    BY <1>1, <2>2, <2>3, <2>4 DEF SingleInv, SingleOK, StateOK, Observing, Kept
  <2>P4. ReadOK(wf[1], inj[wf[1].plan])'
    BY <1>1, <2>2, <2>3, <2>4 DEF SingleInv, SingleOK, ReadOK, Observing, Kept
  <2>P5. (\A p \in SUBSET Files : p # wf[1].plan => inj[p] = NoInjection)'
    BY <1>1, <2>2, <2>3, <2>4 DEF SingleInv, SingleOK, Observing, Kept
  <2> QED
    BY <2>P1, <2>P2, <2>P3, <2>P4, <2>P5, Zenon DEF SingleOK
<1>4. CASE FinishRow(1) \/ FailRow(1)
  <2>1. PICK state \in {"completed", "failed"} :
            /\ Update(wf[1].plan, [i EXCEPT !.state = state])
            /\ state = "completed" => wf[1].pc = "finish"
            /\ state = "failed" => wf[1].pc = "fail"
    BY <1>4 DEF FinishRow, FailRow
  <2>2. Kept /\ wf'[1].pc = (IF state = "completed" THEN "finish_task" ELSE "fail_task")
    BY <1>1, <1>4, <2>1, GotoIs DEF FinishRow, FailRow
  <2> DEFINE row == [i EXCEPT !.state = state]
  <2>3. row.state = state /\ row.decision = i.decision
    BY <1>1, SingleShape DEF Row
  <2> HIDE DEF row
  <2>4. /\ inj'[wf[1].plan] = i \/ inj'[wf[1].plan] = row
        /\ \A p \in SUBSET Files : p # wf[1].plan => inj'[p] = inj[p]
    BY <1>1, <2>1, UpdateIs DEF row
  <2>5. state = "completed" => wf[1].stage = "observe"
    BY <2>1 DEF SingleInv, SingleOK, PlaceOK, Observing
  <2> QED
    BY <1>1, <2>1, <2>2, <2>3, <2>4, <2>5
    DEF SingleInv, SingleOK, PlaceOK, LinkedOK, StateOK, ReadOK, Observing, Fresh, Kept
<1> QED
  BY <1>2, <1>3, <1>4

\* record_resume_decision, for a row that has none yet.
LEMMA DecideSingle ==
    ASSUME MaxRuns = 1, SingleInv, Decide(1)
    PROVE  SingleOK'
<1> DEFINE i == inj[wf[1].plan]
<1>1. IInv /\ wf[1].pc = "decide" /\ UNCHANGED <<qbit, links, good>>
  BY DEF SingleInv, Decide
<1>2. /\ wf[1].stage = "observe" /\ i.decision = "none" /\ qbit.recheck = "none"
      /\ wf[1].safe <=> wf[1].plan \subseteq good
  BY <1>1 DEF SingleInv, SingleOK, PlaceOK, ReadOK, Observing
<1>3. PICK decision \in {"resume", "stop"} :
            /\ Update(wf[1].plan, [i EXCEPT !.state = "finalizing", !.attempts = 0,
                                            !.decision = decision, !.safe = wf[1].safe])
            /\ wf' = [wf EXCEPT ![1] = [@ EXCEPT !.pc = "send", !.decision = decision]]
  BY Zenon DEF Decide
<1> DEFINE row == [i EXCEPT !.state = "finalizing", !.attempts = 0,
                            !.decision = decision, !.safe = wf[1].safe]
<1>4. row.state = "finalizing" /\ row.decision = decision /\ row.safe = wf[1].safe
  BY <1>1, SingleShape DEF Row
<1>5. wf'[1].plan = wf[1].plan /\ wf'[1].stage = wf[1].stage /\ wf'[1].pc = "send"
  BY <1>1, <1>3, SingleShape DEF Run
<1> HIDE DEF row
<1>6. /\ inj'[wf[1].plan] = i \/ inj'[wf[1].plan] = row
      /\ \A p \in SUBSET Files : p # wf[1].plan => inj'[p] = inj[p]
  BY <1>1, <1>3, UpdateIs DEF row
<1>P1. PlaceOK(wf[1])'
  BY <1>1, <1>2, <1>4, <1>5, <1>6 DEF SingleInv, SingleOK, PlaceOK, Observing
<1>P2. LinkedOK(wf[1])'
  BY <1>1, <1>2, <1>4, <1>5, <1>6 DEF SingleInv, SingleOK, LinkedOK, Fresh, Observing
<1>P3. StateOK(wf[1], inj[wf[1].plan])'
  BY <1>1, <1>2, <1>4, <1>5, <1>6 DEF SingleInv, SingleOK, StateOK, Observing
<1>P4. ReadOK(wf[1], inj[wf[1].plan])'
  BY <1>1, <1>2, <1>4, <1>5, <1>6 DEF SingleInv, SingleOK, ReadOK, Observing
<1>P5. (\A p \in SUBSET Files : p # wf[1].plan => inj[p] = NoInjection)'
  BY <1>1, <1>2, <1>4, <1>5, <1>6 DEF SingleInv, SingleOK, Observing
<1> QED
  BY <1>P1, <1>P2, <1>P3, <1>P4, <1>P5, Zenon DEF SingleOK

\* Sending the decision, and the projections of the task.
LEMMA SendSteps ==
    ASSUME MaxRuns = 1, SingleInv, Send(1) \/ FinishTask(1) \/ FailTask(1)
    PROVE  SingleOK'
<1>1. IInv /\ wf[1].stage # "ended" /\ UNCHANGED <<links, good, inj>>
  BY NotEnded DEF SingleInv, Send, FinishTask, FailTask
<1>2. CASE Send(1)
  <2>1. Kept /\ wf'[1].pc = "reply" /\ wf[1].stage = "observe"
    BY <1>1, <1>2, ReplyIs DEF Send, SingleInv, SingleOK, PlaceOK, Observing
  <2>2. qbit'.present = qbit.present /\ qbit'.recheck = qbit.recheck /\ qbit'.pieces = qbit.pieces
    BY <1>1, <1>2, SingleShape DEF Send, Torrent
  <2> QED
    BY <1>1, <2>1, <2>2
    DEF SingleInv, SingleOK, PlaceOK, LinkedOK, StateOK, ReadOK, Observing, Fresh, Kept
<1>3. CASE FinishTask(1)
  BY <1>1, <1>3, ReplyIs, PlainStep DEF FinishTask, SingleInv, SingleOK, PlaceOK, Observing
<1>4. CASE FailTask(1)
  BY <1>1, <1>4, ReplyIs, PlainStep DEF FailTask
<1> QED
  BY <1>2, <1>3, <1>4

\* The turn that consumes a reply, faults, and the end of the instance.
LEMMA TurnSteps ==
    ASSUME MaxRuns = 1, SingleInv, Turn(1) \/ Fault(1) \/ Unconfigured(1) \/ DropReply(1) \/ Cancel(1)
    PROVE  SingleOK'
<1>1. IInv
  BY DEF SingleInv
<1>2. CASE Turn(1)
  <2> DEFINE next == NextStage(wf[1].stage, wf[1].result)
  <2>1. /\ wf'[1].plan = wf[1].plan /\ wf'[1].stage = next /\ wf'[1].pc = "idle"
        /\ UNCHANGED <<qbit, links, good, inj>> /\ wf[1].pc = "reply"
    BY <1>1, <1>2, SingleShape DEF Turn, Run
  <2>2. \/ next = "ended"
        \/ next = wf[1].stage
        \/ /\ wf[1].result \notin {"completed", "failed"}
           /\ \/ wf[1].stage = "prepare" /\ next = "materialize"
              \/ wf[1].stage = "materialize" /\ next = "recheck"
              \/ wf[1].stage = "recheck" /\ next = "observe"
    <3>1. CASE wf[1].result \in {"completed", "failed"}
      BY <3>1 DEF NextStage
    <3>2. CASE wf[1].result \notin {"completed", "failed"}
      BY <3>2 DEF NextStage
    <3> QED
      BY <3>1, <3>2
  <2> HIDE DEF next
  <2> QED
    BY <1>1, <2>1, <2>2
    DEF SingleInv, SingleOK, PlaceOK, LinkedOK, StateOK, ReadOK, Observing, Fresh
<1>3. CASE Fault(1)
  <2>1. PICK again \in {wf[1].live, FALSE} :
            wf' = [wf EXCEPT ![1] = [@ EXCEPT !.pc = "idle", !.result = "none", !.live = again,
                                              !.stage = IF again THEN wf[1].stage ELSE "ended"]]
    BY <1>3, Zenon DEF Fault
  <2>2. /\ wf'[1].plan = wf[1].plan /\ wf'[1].pc = "idle"
        /\ wf'[1].stage = wf[1].stage \/ wf'[1].stage = "ended"
    <3>1. CASE again
      BY <1>1, <2>1, <3>1, SingleShape DEF Run
    <3>2. CASE ~again
      BY <1>1, <2>1, <3>2, SingleShape DEF Run
    <3> QED
      BY <3>1, <3>2
  <2>3. UNCHANGED <<qbit, links, good, inj>>
    BY <1>3 DEF Fault
  <2> QED
    BY <1>1, <2>2, <2>3
    DEF SingleInv, SingleOK, PlaceOK, LinkedOK, StateOK, ReadOK, Observing, Fresh
<1>4. CASE Unconfigured(1)
  BY <1>1, <1>4, GotoIs, PlainStep DEF Unconfigured
<1>5. CASE DropReply(1)
  <2>1. wf'[1].plan = wf[1].plan /\ wf'[1].stage = "ended" /\ wf'[1].pc = "idle"
    BY <1>1, <1>5, SingleShape DEF DropReply, Run
  <2> QED
    BY <1>5, <2>1, EndsStep DEF DropReply
<1>6. CASE Cancel(1)
  BY <1>6 DEF Cancel
<1> QED
  BY <1>2, <1>3, <1>4, <1>5, <1>6

\* Only prepare's add makes a torrent pending, and prepare goes on only when it has appeared.
LEMMA PendingStep ==
    ASSUME MaxRuns = 1, SingleInv, [Next]_vars
    PROVE  PendingOK'
<1> SUFFICES ASSUME qbit'.pending
             PROVE  PendingOK'
  BY DEF PendingOK
<1>1. IInv /\ PendingOK /\ PlaceOK(wf[1]) /\ Runs = {1} /\ Torrent(qbit) /\ Run(wf[1])
  BY SingleShape DEF SingleInv, SingleOK
<1>2. CASE AddStopped(1)
  <2>1. qbit' = [NoTorrent EXCEPT !.pending = TRUE] /\ wf[1].stage = "prepare" /\ Reply(1, "waiting")
    BY <1>2 DEF AddStopped, Arrived, NoTorrent, At
  <2> QED
    BY <1>1, <2>1, ReplyIs DEF PendingOK, Kept, NoTorrent
<1>3. CASE ~AddStopped(1)
  <2>1. qbit.pending /\ qbit'.present = qbit.present
    <3>1. CASE Stop(1) \/ ForceRecheck(1) \/ Send(1)
      BY <1>1, <3>1 DEF Stop, ForceRecheck, Send, Torrent
    <3>2. CASE RecheckBegins \/ RecheckEnds
      BY <1>1, <3>2 DEF RecheckBegins, RecheckEnds, Torrent
    <3>3. ~Appears /\ ~Removed
      <4>1. ~NoTorrent.pending /\ \A recheck : ~Arrived(recheck).pending
        BY DEF NoTorrent, Arrived
      <4> QED
        BY <4>1 DEF Appears, Removed
    <3>4. \/ qbit' = qbit
          \/ Stop(1) \/ ForceRecheck(1) \/ Send(1) \/ RecheckBegins \/ RecheckEnds \/ Appears \/ Removed
      BY <1>1, <1>3, Zenon
      DEF Next, vars, Activity, Qbittorrent, PrepareRead, AddRejected, RecordInjection, MaterializeRead,
          Link, PersistLinks, SetRecheckRequested, Load, Look, UpdateObservation, Bump, Inspect, Decide,
          FinishRow, FinishTask, FailRow, FailTask, Turn, Fault, Unconfigured, DropReply, Cancel, Repair,
          Retry
    <3> QED
      BY <3>1, <3>2, <3>3, <3>4
  <2>2. /\ ~qbit.present /\ wf[1].stage \in {"prepare", "ended"} /\ wf[1].pc # "record"
        /\ wf[1].pc = "reply" => wf[1].result # "ready"
        /\ wf[1].pc \notin Observing
    BY <1>1, <2>1 DEF PendingOK, PlaceOK, Observing
  <2>3. ASSUME NEW pc, Goto(1, pc), pc \in {"add", "fail", "fail_task"}
        PROVE  PendingOK'
    BY <1>1, <2>1, <2>2, <2>3, GotoIs DEF PendingOK, Kept
  <2>4. CASE PrepareRead(1)
    BY <2>2, <2>3, <2>4 DEF PrepareRead
  <2>5. CASE FailRow(1) \/ Unconfigured(1)
    BY <2>3, <2>5 DEF FailRow, Unconfigured
  <2>6. CASE Stop(1) \/ FailTask(1)
    BY <1>1, <2>1, <2>2, <2>6, ReplyIs DEF Stop, FailTask, PendingOK, Kept
  <2>7. CASE AddRejected(1)
    BY <1>1, <2>1, <2>2, <2>7, AbortIs DEF AddRejected, PendingOK
  <2>8. CASE Turn(1)
    <3>1. NextStage(wf[1].stage, wf[1].result) \in {"prepare", "ended"}
      BY <2>2, <2>8 DEF NextStage, Turn
    <3>2. wf'[1].stage = NextStage(wf[1].stage, wf[1].result) /\ wf'[1].pc = "idle"
      BY <1>1, <2>8, SingleShape DEF Turn, Run
    <3> QED
      BY <2>1, <2>2, <3>1, <3>2 DEF PendingOK
  <2>9. CASE Fault(1) \/ DropReply(1)
    <3>1. wf'[1].pc = "idle" /\ wf'[1].stage \in {wf[1].stage, "ended"}
      <4>1. CASE DropReply(1)
        BY <1>1, <4>1, SingleShape DEF DropReply, Run
      <4>2. CASE Fault(1)
        <5>1. PICK again \in {wf[1].live, FALSE} :
                  wf' = [wf EXCEPT ![1] = [@ EXCEPT !.pc = "idle", !.result = "none", !.live = again,
                                                    !.stage = IF again THEN wf[1].stage ELSE "ended"]]
          BY <4>2, Zenon DEF Fault
        <5>2. CASE again
          BY <1>1, <5>1, <5>2, SingleShape DEF Run
        <5>3. CASE ~again
          BY <1>1, <5>1, <5>3, SingleShape DEF Run
        <5> QED
          BY <5>2, <5>3
      <4> QED
        BY <2>9, <4>1, <4>2
    <3> QED
      BY <2>1, <2>2, <3>1 DEF PendingOK
  <2>10. CASE wf' = wf
    BY <2>1, <2>2, <2>10 DEF PendingOK
  <2>11. /\ ~RecordInjection(1) /\ ~MaterializeRead(1) /\ ~Link(1) /\ ~PersistLinks(1)
         /\ ~ForceRecheck(1) /\ ~SetRecheckRequested(1) /\ ~Load(1) /\ ~Look(1)
    BY <2>2 DEF RecordInjection, MaterializeRead, Link, PersistLinks, ForceRecheck, SetRecheckRequested,
                Load, Look, At
  <2>12. /\ ~UpdateObservation(1) /\ ~Bump(1) /\ ~Inspect(1) /\ ~Decide(1) /\ ~Send(1)
         /\ ~FinishRow(1) /\ ~FinishTask(1)
    BY <2>2 DEF UpdateObservation, Bump, Inspect, Decide, Send, FinishRow, FinishTask, Observing
  <2>13. ~Cancel(1) /\ ~Retry(1)
    BY DEF Cancel, Retry
  <2>14. \/ wf' = wf
         \/ Activity(1)
         \/ Turn(1) \/ Fault(1) \/ Unconfigured(1) \/ DropReply(1)
    BY <1>1, <2>13, Zenon DEF Next, vars, Repair, Qbittorrent, RecheckBegins, RecheckEnds, Appears, Removed
  <2> QED
    BY <1>3, <2>4, <2>5, <2>6, <2>7, <2>8, <2>9, <2>10, <2>11, <2>12, <2>14 DEF Activity
<1> QED
  BY <1>2, <1>3

\* qBittorrent rechecks what it was asked to, and may lose the torrent.
LEMMA QbitSteps ==
    ASSUME MaxRuns = 1, SingleInv, RecheckBegins \/ RecheckEnds \/ Removed \/ Repair(1)
    PROVE  SingleOK'
<1>1. UNCHANGED <<links, good, inj, wf>> /\ IInv
  BY DEF RecheckBegins, RecheckEnds, Removed, Repair, SingleInv
<1>2. \/ qbit.recheck = "asked" /\ qbit'.recheck = "running"
      \/ /\ qbit.recheck = "running" /\ qbit'.recheck = "none"
         /\ qbit'.pieces = links \cap good
      \/ ~qbit'.present /\ qbit'.recheck = "none"
      \/ qbit' = qbit
  <2>1. CASE RecheckBegins
    BY <1>1, <2>1, SingleShape DEF RecheckBegins, Torrent
  <2>2. CASE RecheckEnds
    BY <1>1, <2>2, SingleShape DEF RecheckEnds, Torrent
  <2>3. CASE Removed
    BY <2>3 DEF Removed, NoTorrent
  <2>4. CASE Repair(1)
    BY <2>4 DEF Repair
  <2> QED
    BY <2>1, <2>2, <2>3, <2>4
<1> QED
  BY <1>1, <1>2 DEF SingleInv, SingleOK, PlaceOK, LinkedOK, StateOK, ReadOK, Observing, Fresh

\* A pending torrent appears before the instance looks for anything in it.
LEMMA AppearsStep ==
    ASSUME SingleInv, Appears
    PROVE  SingleOK'
<1>1. UNCHANGED <<links, good, inj, wf>> /\ wf[1].stage \in {"prepare", "ended"}
  BY DEF Appears, SingleInv, PendingOK
<1> QED
  BY <1>1 DEF SingleInv, SingleOK, PlaceOK, LinkedOK, StateOK, ReadOK, Observing

\* Every step preserves the invariant of the single instance.
LEMMA SingleNext ==
    ASSUME MaxRuns = 1, SingleInv, [Next]_vars
    PROVE  SingleInv'
<1>1. IInv' /\ PendingOK' /\ Runs = {1}
  BY NextInv, PendingStep, SingleShape DEF SingleInv, OnePlan
<1>2. CASE UNCHANGED vars
  <2>1. SingleOK'
    <3>P1. PlaceOK(wf[1])'
      BY <1>2 DEF SingleInv, SingleOK, PlaceOK, vars
    <3>P2. LinkedOK(wf[1])'
      BY <1>2 DEF SingleInv, SingleOK, LinkedOK, Fresh, vars
    <3>P3. StateOK(wf[1], inj[wf[1].plan])'
      BY <1>2 DEF SingleInv, SingleOK, StateOK, vars
    <3>P4. ReadOK(wf[1], inj[wf[1].plan])'
      BY <1>2 DEF SingleInv, SingleOK, ReadOK, vars
    <3>P5. (\A p \in SUBSET Files : p # wf[1].plan => inj[p] = NoInjection)'
      BY <1>2 DEF SingleInv, SingleOK, vars
    <3> QED
      BY <3>P1, <3>P2, <3>P3, <3>P4, <3>P5, Zenon DEF SingleOK
  <2> QED
    BY <1>1, <2>1 DEF SingleInv
<1>3. ASSUME Activity(1)
      PROVE  SingleOK'
  BY <1>3, PrepareSteps, MaterializeSteps, RecheckSteps, ReadingSteps, WritingSteps, DecideSingle,
     SendSteps DEF Activity
<1>4. ~Retry(1)
  BY DEF Retry
<1>5. CASE Next
  BY <1>1, <1>3, <1>4, <1>5, TurnSteps, QbitSteps, AppearsStep DEF Next, Qbittorrent, SingleInv
<1> QED
  BY <1>2, <1>5

\* The verdict that record_resume_decision stores is the one of a recheck that followed the
\* last link, in every behaviour of a task with a single instance.
THEOREM VerdictsAreTrue ==
    ASSUME MaxRuns = 1
    PROVE  Spec => []VerdictIsTrue
<1>1. SingleInv => VerdictIsTrue
  BY InjectionAssumption DEF SingleInv, SingleOK, StateOK, VerdictIsTrue, NoInjection
<1> QED
  BY <1>1, SingleInit, SingleNext, PTL DEF Spec

\* However often prepare or the observation is delivered again, a decision that
\* record_resume_decision has stored stays, in every behaviour of a task with a single instance.
THEOREM DecisionsStay ==
    ASSUME MaxRuns = 1
    PROVE  Spec => DecidedOnce
<1>1. ASSUME SingleInv, [Next]_vars, NEW p \in Plans, inj[p].decision # "none"
      PROVE  inj'[p].decision = inj[p].decision
  <2>1. IInv /\ Runs = {1} /\ p = wf[1].plan
    BY <1>1, SingleShape, InjectionAssumption DEF SingleInv, SingleOK, NoInjection
  <2> DEFINE i == inj[wf[1].plan]
  <2>2. Row(i)
    BY <1>1, <2>1, SingleShape
  <2>3. ASSUME NEW row, Update(wf[1].plan, row), row.decision = i.decision
        PROVE  inj'[wf[1].plan].decision = i.decision
    BY <2>1, <2>3, UpdateIs
  <2>4. CASE inj' = inj
    BY <2>4
  <2>5. ASSUME NEW state, Update(wf[1].plan, [i EXCEPT !.state = state])
        PROVE  inj'[wf[1].plan].decision = i.decision
    <3>1. [i EXCEPT !.state = state].decision = i.decision
      BY <2>2 DEF Row
    <3> QED
      BY <2>3, <2>5, <3>1, Zenon
  <2>6. CASE PersistLinks(1) \/ UpdateObservation(1) \/ FinishRow(1) \/ FailRow(1)
    <3>1. \E state : Update(wf[1].plan, [i EXCEPT !.state = state])
      BY <2>6, Zenon DEF PersistLinks, UpdateObservation, FinishRow, FailRow
    <3> QED
      BY <2>1, <2>5, <3>1
  <2>7. CASE SetRecheckRequested(1)
    <3>1. [i EXCEPT !.state = "recheck_requested", !.attempts = 0].decision = i.decision
      BY <2>2 DEF Row
    <3> QED
      BY <2>1, <2>3, <2>7, <3>1, Zenon DEF SetRecheckRequested
  <2>8. CASE Bump(1)
    <3>1. [i EXCEPT !.attempts = i.attempts + 1].decision = i.decision
      BY <2>2 DEF Row
    <3> QED
      BY <2>1, <2>3, <2>8, <3>1, ZenonT(30) DEF Bump
  <2>9. ~RecordInjection(1) /\ ~Decide(1)
    BY <1>1, <2>1, Zenon DEF RecordInjection, Decide, At, SingleInv, SingleOK, StateOK, ReadOK
  <2>10. \/ inj' = inj
         \/ PersistLinks(1) \/ UpdateObservation(1) \/ FinishRow(1) \/ FailRow(1)
         \/ SetRecheckRequested(1) \/ Bump(1) \/ RecordInjection(1) \/ Decide(1)
    BY <1>1, <2>1, Zenon
    DEF Next, vars, Activity, Qbittorrent, PrepareRead, AddStopped, AddRejected, Stop, MaterializeRead,
        Link, ForceRecheck, Load, Look, Inspect, Send, FinishTask, FailTask, Turn, Fault, Unconfigured,
        DropReply, Cancel, Repair, Retry, RecheckBegins, RecheckEnds, Appears, Removed
  <2> QED
    BY <2>1, <2>4, <2>6, <2>7, <2>8, <2>9, <2>10
<1>2. SingleInv /\ [Next]_vars
         => [\A p \in Plans : inj[p].decision # "none" => inj'[p].decision = inj[p].decision]_vars
  BY <1>1
<1> QED
  BY <1>2, SingleInit, SingleNext, PTL DEF Spec, DecidedOnce
=============================================================================
