------------------------------- MODULE Outbox -------------------------------
(***************************************************************************)
(* The outbox dispatcher (outbox.rs, app.rs dispatch_loop): it claims due  *)
(* rows under a lease, asks Duroxide to start each one, reconciles an      *)
(* ambiguous answer with what Duroxide has stored, and marks the row only  *)
(* while the row still carries the token of its own lease.                 *)
(*                                                                         *)
(* The service runs one dispatcher; the leases are written so that several *)
(* overlapping run_once calls would do, so the set of them is a parameter. *)
(* Time is a logical clock that moves only while some row waits for it.    *)
(***************************************************************************)
EXTENDS Naturals, Sequences

CONSTANTS
    Rows,             \* outbox row ids, in insertion order
    Occupied,         \* rows whose instance id is taken by another start
    Dispatchers,      \* concurrent calls of run_once
    BatchSize,        \* limits.outbox_batch_size
    Lease,            \* lease_duration
    InitialBackoff,   \* INITIAL_BACKOFF_MS
    MaxBackoff,       \* MAX_BACKOFF_MS
    MaxFailures,      \* bound on errors and crashes
    MaxTime           \* bound on the clock

ASSUME OutboxAssumption ==
    /\ Rows \subseteq Nat
    /\ Occupied \subseteq Rows
    /\ BatchSize \in Nat \ {0}
    /\ Lease \in Nat \ {0}
    /\ InitialBackoff \in Nat \ {0}
    /\ MaxBackoff \in Nat \ {0}
    /\ MaxFailures \in Nat
    /\ MaxTime \in Nat

VARIABLES
    outbox,     \* sporos_outbox rows
    started,    \* rows whose start Duroxide has reserved
    run,        \* the run_once call each dispatcher is in
    clock,
    sequence,   \* LEASE_SEQUENCE
    failures    \* errors and crashes so far

vars == <<outbox, started, run, clock, sequence, failures>>

NoToken == <<>>
Token == (Nat \X Nat) \cup {NoToken}
Absent == [status |-> "absent", visible |-> 0, token |-> NoToken, until |-> 0, attempts |-> 0]
NotRunning == [pc |-> "idle", batch |-> <<>>, token |-> NoToken, now |-> 0, answer |-> "none"]

OutboxRow == [status : {"absent", "pending", "dispatched", "permanent"},
              visible : Nat, token : Token, until : Nat, attempts : Nat]
Run == [pc : {"idle", "start", "inspect", "mark"},
        batch : Seq(Rows), token : Token, now : Nat,
        answer : {"none", "ok", "retryable", "permanent", "same", "missing_retryable",
                  "missing_permanent", "collision"}]

\* One type invariant for the table, the runs and the counters.
TypeOK ==
    /\ outbox \in [Rows -> OutboxRow]
    /\ started \in SUBSET (Rows \ Occupied)
    /\ run \in [Dispatchers -> Run]
    /\ clock \in Nat
    /\ sequence \in Nat
    /\ failures \in Nat

Init ==
    /\ outbox = [r \in Rows |-> Absent]
    /\ started = {}
    /\ run = [d \in Dispatchers |-> NotRunning]
    /\ clock = 0
    /\ sequence = 0
    /\ failures = 0

-----------------------------------------------------------------------------
(* Claiming                                                                *)

\* Faulty variants: settled rows are claimed again; a lease that expired is
\* still respected.
DueIgnoresSettled(r) ==
    /\ outbox[r].status # "absent"
    /\ outbox[r].visible <= clock
    /\ outbox[r].until <= clock

DueOnlyUnleased(r) ==
    /\ outbox[r].status = "pending"
    /\ outbox[r].visible <= clock
    /\ outbox[r].token = NoToken

\* dispatched_at and permanent_failure_at are null, visible_at has come, and
\* there is no lease or it has expired.
Due(r) ==
    /\ outbox[r].status = "pending"
    /\ outbox[r].visible <= clock
    /\ outbox[r].until <= clock

\* ORDER BY visible_at, id
Before(a, b) ==
    \/ outbox[a].visible < outbox[b].visible
    \/ outbox[a].visible = outbox[b].visible /\ a < b

\* The first BatchSize rows that are due, in that order (one sequence, or none
\* when no row is due).
Batches ==
    {b \in UNION {[1..n -> Rows] : n \in 1..BatchSize} :
        /\ \A k \in DOMAIN b : Due(b[k])
        /\ \A j, k \in DOMAIN b : j < k => Before(b[j], b[k])
        /\ \A r \in Rows : Due(r) =>
              \/ \E k \in DOMAIN b : b[k] = r
              \/ BatchSize \in DOMAIN b /\ Before(b[BatchSize], r)}

\* lease_token: time of the claim and a process-wide sequence.
LeaseToken == <<clock, sequence>>

\* claim: one transaction leases the whole batch.
Claim(d) ==
    /\ run[d].pc = "idle"
    /\ \E batch \in Batches :
         /\ outbox' = [r \in Rows |->
                IF \E k \in DOMAIN batch : batch[k] = r
                THEN [outbox[r] EXCEPT !.token = LeaseToken, !.until = clock + Lease]
                ELSE outbox[r]]
         /\ run' = [run EXCEPT ![d] = [pc |-> "start", batch |-> batch, token |-> LeaseToken,
                                       now |-> clock, answer |-> "none"]]
    /\ sequence' = sequence + 1
    /\ UNCHANGED <<started, clock, failures>>

-----------------------------------------------------------------------------
(* Delivering                                                              *)

Answered(d, pc, answer) == run' = [run EXCEPT ![d].pc = pc, ![d].answer = answer]

\* start_orchestration_versioned reserves the identity and its queue entry in
\* one transaction.
StartAccepted(d) ==
    LET r == Head(run[d].batch) IN
    /\ run[d].pc = "start"
    /\ r \notin started \cup Occupied
    /\ started' = started \cup {r}
    /\ Answered(d, "mark", "ok")
    /\ UNCHANGED <<outbox, clock, sequence, failures>>

\* ... and its answer is lost.
StartAnswerLost(d) ==
    LET r == Head(run[d].batch) IN
    /\ run[d].pc = "start"
    /\ failures < MaxFailures
    /\ r \notin started \cup Occupied
    /\ started' = started \cup {r}
    /\ Answered(d, "inspect", "retryable")
    /\ failures' = failures + 1
    /\ UNCHANGED <<outbox, clock, sequence>>

\* An identity that is already reserved is a permanent error.
StartDuplicate(d) ==
    /\ run[d].pc = "start"
    /\ Head(run[d].batch) \in started \cup Occupied
    /\ Answered(d, "inspect", "permanent")
    /\ UNCHANGED <<outbox, started, clock, sequence, failures>>

StartRefused(d) ==
    /\ run[d].pc = "start"
    /\ failures < MaxFailures
    /\ \E class \in {"retryable", "permanent"} : Answered(d, "inspect", class)
    /\ failures' = failures + 1
    /\ UNCHANGED <<outbox, started, clock, sequence>>

\* reconcile: compare with the start that Duroxide has stored.
Reconcile(r, class) ==
    IF r \in started THEN "same"
    ELSE IF r \in Occupied THEN "collision"
    ELSE IF class = "retryable" THEN "missing_retryable"
    ELSE "missing_permanent"

Inspect(d) ==
    /\ run[d].pc = "inspect"
    /\ Answered(d, "mark", Reconcile(Head(run[d].batch), run[d].answer))
    /\ UNCHANGED <<outbox, started, clock, sequence, failures>>

-----------------------------------------------------------------------------
(* Marking                                                                 *)

\* retry_delay: exponential with at most a fifth of jitter.  The jitter mixes
\* the row id with the attempt; any value of the window is allowed here.
RetryDelays(attempt) ==
    LET exponent == IF attempt - 1 < 18 THEN attempt - 1 ELSE 18
        raw == InitialBackoff * 2 ^ exponent
        base == IF raw < MaxBackoff THEN raw ELSE MaxBackoff
        window == IF base \div 5 > 1 THEN base \div 5 ELSE 1
    IN {delay \in 1..MaxBackoff : base <= delay /\ delay < base + window}

Unleased(row) == [row EXCEPT !.token = NoToken, !.until = 0]

\* Faulty variant: a row whose start was refused is stored as dispatched.
MarkedRowsGiveUp(r, now, answer) ==
    IF answer \in {"ok", "same", "missing_permanent"}
    THEN {[Unleased(outbox[r]) EXCEPT !.status = "dispatched"]}
    ELSE IF answer = "collision"
    THEN {[Unleased(outbox[r]) EXCEPT !.status = "permanent"]}
    ELSE {[Unleased(outbox[r]) EXCEPT !.attempts = @ + 1, !.visible = now + delay] :
            delay \in RetryDelays(outbox[r].attempts + 1)}

\* mark_dispatched, mark_permanent and mark_retry: what they store.
MarkedRows(r, now, answer) ==
    CASE answer \in {"ok", "same"} ->
            {[Unleased(outbox[r]) EXCEPT !.status = "dispatched"]}
      [] answer \in {"collision", "missing_permanent"} ->
            {[Unleased(outbox[r]) EXCEPT !.status = "permanent"]}
      [] OTHER ->
            {[Unleased(outbox[r]) EXCEPT !.attempts = @ + 1, !.visible = now + delay] :
                delay \in RetryDelays(outbox[r].attempts + 1)}

Proceed(d) ==
    LET rest == Tail(run[d].batch) IN
    run' = [run EXCEPT ![d] = IF rest = <<>> THEN NotRunning
                              ELSE [@ EXCEPT !.pc = "start", !.batch = rest, !.answer = "none"]]

\* UPDATE ... WHERE id = ? AND lease_token = ?
Mark(d) ==
    LET r == Head(run[d].batch) IN
    /\ run[d].pc = "mark"
    /\ outbox[r].token = run[d].token
    /\ \E row \in MarkedRows(r, run[d].now, run[d].answer) : outbox' = [outbox EXCEPT ![r] = row]
    /\ Proceed(d)
    /\ UNCHANGED <<started, clock, sequence, failures>>

\* require_lease: no row was updated; the batch is abandoned.
LostLease(d) ==
    /\ run[d].pc = "mark"
    /\ outbox[Head(run[d].batch)].token # run[d].token
    /\ run' = [run EXCEPT ![d] = NotRunning]
    /\ UNCHANGED <<outbox, started, clock, sequence, failures>>

-----------------------------------------------------------------------------
(* The surroundings                                                        *)

\* A transaction of accept_task, retry or request_cancel commits.
Enqueue(r) ==
    /\ outbox[r].status = "absent"
    /\ outbox' = [outbox EXCEPT ![r] = [Absent EXCEPT !.status = "pending", !.visible = clock]]
    /\ UNCHANGED <<started, run, clock, sequence, failures>>

\* A database or inspection error ends run_once; its leases stay.
Abort(d) ==
    /\ run[d].pc # "idle"
    /\ failures < MaxFailures
    /\ failures' = failures + 1
    /\ run' = [run EXCEPT ![d] = NotRunning]
    /\ UNCHANGED <<outbox, started, clock, sequence>>

Crash ==
    /\ failures < MaxFailures
    /\ failures' = failures + 1
    /\ run' = [d \in Dispatchers |-> NotRunning]
    /\ sequence' = 0
    /\ UNCHANGED <<outbox, started, clock>>

Tick ==
    /\ \E r \in Rows : /\ outbox[r].status = "pending"
                       /\ outbox[r].visible > clock \/ outbox[r].until > clock
    /\ clock < MaxTime
    /\ clock' = clock + 1
    /\ UNCHANGED <<outbox, started, run, sequence, failures>>

Step(d) ==
    \/ Claim(d)
    \/ StartAccepted(d) \/ StartAnswerLost(d) \/ StartDuplicate(d) \/ StartRefused(d)
    \/ Inspect(d)
    \/ Mark(d) \/ LostLease(d)

Next ==
    \/ \E r \in Rows : Enqueue(r)
    \/ \E d \in Dispatchers : Step(d) \/ Abort(d)
    \/ Crash
    \/ Tick

Spec == Init /\ [][Next]_vars

\* dispatch_loop calls run_once again after every report and, with backoff,
\* after every error; time passes.
FairSpec == Spec /\ (\A d \in Dispatchers : WF_vars(Step(d))) /\ WF_vars(Tick)

-----------------------------------------------------------------------------
(* Properties                                                              *)

\* A row marked dispatched was accepted by Duroxide: whatever errors, crashes
\* and lost leases came before, no start is dropped (mark_dispatched is reached
\* only from an accepted start or a stored one that is the same).
DispatchedWasStarted == \A r \in Rows : outbox[r].status = "dispatched" => r \in started

\* dispatched_at and permanent_failure_at are final: the marks ask for the lease
\* token only, so this rests on every mark clearing the token and on claim
\* passing over settled rows.
SettledRowsStay ==
    [][\A r \in Rows : outbox[r].status \in {"dispatched", "permanent"} =>
            outbox'[r] = outbox[r]]_vars

\* Of two runs that both still have a row to do, at most one can mark it: runs
\* that overlap never carry the same lease token.
OneHolder ==
    \A d, e \in Dispatchers : d # e /\ run[d].pc # "idle" /\ run[e].pc # "idle" =>
        run[d].token # run[e].token

Delivery ==
    [r \in Rows |-> IF r \in started THEN "dispatched"
                    ELSE IF outbox[r].status = "permanent" THEN "rejected"
                    ELSE IF outbox[r].status = "absent" THEN "none"
                    ELSE "pending"]

Contract == INSTANCE StartDelivery WITH Starts <- Rows, delivery <- Delivery

\* With one dispatcher the outbox implements its contract: a start enters
\* Duroxide at most once, or is rejected for good, and never both.
ImplementsDelivery == Contract!Spec

\* Every enqueued row is delivered or rejected, despite aborted batches, lost
\* answers, expired leases, backoff and crashes.
StartsSettle == Contract!StartsSettle
=============================================================================
