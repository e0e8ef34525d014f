---------------------------- MODULE OutboxProofs ----------------------------
(***************************************************************************)
(* The lease discipline of the outbox for any set of rows, any number of   *)
(* overlapping runs, any batch size, lease and backoff.                    *)
(***************************************************************************)
EXTENDS Outbox, SequenceTheorems, TLAPS

Active(d) == run[d].pc # "idle"

\* A run at work has a row in hand and a token of its own process.
RunInv ==
    \A d \in Dispatchers : Active(d) =>
        /\ run[d].batch # <<>>
        /\ run[d].token \in Nat \X Nat
        /\ run[d].token[2] < sequence

\* A settled row carries no token.
SettledInv ==
    \A r \in Rows : outbox[r].status \in {"dispatched", "permanent"} => outbox[r].token = NoToken

\* An accepted or recognised start is in Duroxide before its row is marked.
AnswerInv ==
    \A d \in Dispatchers : run[d].pc = "mark" /\ run[d].answer \in {"ok", "same"} =>
        Head(run[d].batch) \in started

IInv ==
    TypeOK /\ RunInv /\ SettledInv /\ AnswerInv /\ OneHolder /\ DispatchedWasStarted

-----------------------------------------------------------------------------

\* The row in hand is a row of the table, and the rest of a batch is a batch.
LEMMA BatchFacts ==
    ASSUME IInv, NEW d \in Dispatchers, Active(d)
    PROVE  /\ Head(run[d].batch) \in Rows
           /\ Tail(run[d].batch) \in Seq(Rows)
           /\ run[d].token # NoToken
           /\ run[d] \in Run
<1>1. run[d] \in Run /\ run[d].batch \in Seq(Rows) /\ run[d].batch # <<>>
  BY DEF IInv, TypeOK, RunInv, Run
<1>2. run[d].token \in Nat \X Nat
  BY DEF IInv, RunInv
<1>3. run[d].token # NoToken
  <2>1. PICK a \in Nat, b \in Nat : run[d].token = <<a, b>>
    BY <1>2
  <2>2. Len(<<a, b>>) = 2 /\ Len(<<>>) = 0
    OBVIOUS
  <2> QED
    BY <2>1, <2>2 DEF NoToken
<1> QED
  BY <1>1, <1>3

\* A batch that claim selects is a sequence of rows that are due.
LEMMA ClaimedBatch ==
    ASSUME NEW batch \in Batches
    PROVE  /\ batch \in Seq(Rows)
           /\ batch # <<>>
           /\ \A k \in DOMAIN batch : outbox[batch[k]].status = "pending"
<1>1. PICK n \in 1 .. BatchSize : batch \in [1 .. n -> Rows]
  BY DEF Batches
<1>2. n \in Nat /\ n > 0
  BY <1>1, OutboxAssumption
<1>3. batch \in Seq(Rows)
  BY <1>1, <1>2
<1>4. batch # <<>>
  BY <1>1, <1>2
<1>5. \A k \in DOMAIN batch : Due(batch[k])
  BY DEF Batches
<1> QED
  BY <1>3, <1>4, <1>5 DEF Due

\* An idle run is typed.
LEMMA IdleRun == NotRunning \in Run /\ NotRunning.pc = "idle"
<1>1. <<>> \in Seq(Rows)
  OBVIOUS
<1> QED
  BY <1>1 DEF NotRunning, Run, Token

\* What the mark statements store is a row without a lease, and it is stored as
\* dispatched only on an accepted or recognised start.
LEMMA MarkedRowFacts ==
    ASSUME NEW r \in Rows, outbox[r] \in OutboxRow, NEW now \in Nat, NEW answer,
           NEW row \in MarkedRows(r, now, answer)
    PROVE  /\ row \in OutboxRow
           /\ row.token = NoToken
           /\ row.status = "dispatched" =>
                answer \in {"ok", "same"} \/ outbox[r].status = "dispatched"
<1> DEFINE old == outbox[r]
           bare == Unleased(old)
<1>1. /\ bare \in OutboxRow
      /\ bare.token = NoToken
      /\ bare.status = old.status
      /\ bare.attempts \in Nat
  BY Zenon DEF Unleased, OutboxRow, Token
<1>2. CASE answer \in {"ok", "same"}
  <2>1. row = [bare EXCEPT !.status = "dispatched"]
    BY <1>2, Zenon DEF MarkedRows
  <2> HIDE DEF bare
  <2> QED
    BY <1>1, <1>2, <2>1 DEF OutboxRow
<1>3. CASE answer \in {"collision", "missing_permanent"}
  <2>1. row = [bare EXCEPT !.status = "permanent"]
    BY <1>3 DEF MarkedRows
  <2> HIDE DEF bare
  <2> QED
    BY <1>1, <2>1 DEF OutboxRow
<1>4. CASE answer \notin {"ok", "same", "collision", "missing_permanent"}
  <2>1. PICK delay \in RetryDelays(old.attempts + 1) :
          row = [bare EXCEPT !.attempts = @ + 1, !.visible = now + delay]
    BY <1>4, Zenon DEF MarkedRows
  <2>2. delay \in Nat
    BY OutboxAssumption DEF RetryDelays
  <2>3. now + delay \in Nat /\ bare.attempts + 1 \in Nat
    BY <1>1, <2>2
  <2> HIDE DEF bare
  <2>4. row \in OutboxRow /\ row.token = NoToken /\ row.status = bare.status
    BY <1>1, <2>1, <2>3, Zenon DEF OutboxRow
  <2> QED
    BY <1>1, <2>4
<1> QED
  BY <1>2, <1>3, <1>4

-----------------------------------------------------------------------------

\* The empty outbox and idle runs satisfy the invariant.
LEMMA InitIInv == Init => IInv
<1> SUFFICES ASSUME Init PROVE IInv
  OBVIOUS
<1>1. TypeOK
  BY IdleRun DEF Init, TypeOK, Absent, OutboxRow, Token
<1>2. \A d \in Dispatchers : ~Active(d) /\ run[d].pc # "mark"
  BY IdleRun DEF Init, Active
<1>3. \A r \in Rows : outbox[r].status = "absent"
  BY Zenon DEF Init, Absent
<1> QED
  BY <1>1, <1>2, <1>3
     DEF IInv, RunInv, SettledInv, AnswerInv, OneHolder, DispatchedWasStarted, Active

\* A step that touches neither the table nor the leases of a run, and moves one
\* run within its row or to idle, keeps the lease discipline.
LEMMA RunMoves ==
    ASSUME IInv, NEW d \in Dispatchers, Active(d),
           outbox' = outbox, sequence' = sequence, clock' = clock, failures' \in Nat,
           started \subseteq started', started' \in SUBSET (Rows \ Occupied),
           NEW new, run' = [run EXCEPT ![d] = new], new \in Run,
           new.pc # "idle" => new.batch = run[d].batch /\ new.token = run[d].token,
           new.pc = "mark" /\ new.answer \in {"ok", "same"} => Head(new.batch) \in started'
    PROVE  IInv'
<1>0. run \in [Dispatchers -> Run]
  BY DEF IInv, TypeOK
<1>1. run'[d] = new /\ \A e \in Dispatchers : e # d => run'[e] = run[e]
  BY <1>0
<1>2. TypeOK'
  BY <1>0 DEF IInv, TypeOK
<1>3. RunInv'
  BY <1>1 DEF IInv, RunInv, Active
<1>4. SettledInv'
  BY DEF IInv, SettledInv
<1>5. AnswerInv'
  BY <1>1 DEF IInv, AnswerInv
<1>6. OneHolder'
  BY <1>1 DEF IInv, OneHolder, Active
<1>7. DispatchedWasStarted'
  BY DEF IInv, DispatchedWasStarted
<1> QED
  BY <1>2, <1>3, <1>4, <1>5, <1>6, <1>7 DEF IInv

\* The answers of Duroxide, reconcile, a lost lease and an aborted batch.
LEMMA AnswerSteps ==
    ASSUME IInv, NEW d \in Dispatchers,
           \/ StartAccepted(d) \/ StartAnswerLost(d) \/ StartDuplicate(d) \/ StartRefused(d)
           \/ Inspect(d) \/ LostLease(d) \/ Abort(d)
    PROVE  IInv'
<1>0. Active(d)
  BY DEF Active, StartAccepted, StartAnswerLost, StartDuplicate, StartRefused, Inspect,
         LostLease, Abort
<1>1. /\ Head(run[d].batch) \in Rows
      /\ run[d] \in Run
      /\ started \in SUBSET (Rows \ Occupied)
      /\ failures \in Nat
  BY <1>0, BatchFacts DEF IInv, TypeOK
<1> DEFINE r == Head(run[d].batch)
           To(pc, answer) == [run[d] EXCEPT !.pc = pc, !.answer = answer]
<1>2. ASSUME NEW pc, NEW answer, Answered(d, pc, answer)
      PROVE  run' = [run EXCEPT ![d] = To(pc, answer)]
  BY <1>2, Zenon DEF Answered, IInv, TypeOK
<1>3. \A pc \in {"inspect", "mark"},
         answer \in {"ok", "retryable", "permanent", "same", "missing_retryable",
                     "missing_permanent", "collision"} :
        /\ To(pc, answer) \in Run
        /\ To(pc, answer).batch = run[d].batch
        /\ To(pc, answer).token = run[d].token
        /\ To(pc, answer).pc = pc
        /\ To(pc, answer).answer = answer
  BY <1>1, ZenonT(30) DEF Run
<1> HIDE DEF To
<1>4. CASE StartAccepted(d)
  <2>1. run' = [run EXCEPT ![d] = To("mark", "ok")]
    BY <1>2, <1>4 DEF StartAccepted
  <2>2. /\ started' = started \cup {r}
        /\ r \notin started \cup Occupied
        /\ UNCHANGED <<outbox, clock, sequence, failures>>
    BY <1>4 DEF StartAccepted
  <2>3. started' \in SUBSET (Rows \ Occupied) /\ started \subseteq started' /\ r \in started'
    BY <1>1, <2>2
  <2> QED
    BY <1>0, <1>1, <1>3, <2>1, <2>2, <2>3, RunMoves, Zenon
<1>5. CASE StartAnswerLost(d)
  <2>1. run' = [run EXCEPT ![d] = To("inspect", "retryable")]
    BY <1>2, <1>5 DEF StartAnswerLost
  <2>2. /\ started' = started \cup {r}
        /\ r \notin started \cup Occupied
        /\ UNCHANGED <<outbox, clock, sequence>>
        /\ failures' = failures + 1
    BY <1>5 DEF StartAnswerLost
  <2>3. started' \in SUBSET (Rows \ Occupied) /\ started \subseteq started' /\ failures' \in Nat
    BY <1>1, <2>2
  <2> QED
    BY <1>0, <1>1, <1>3, <2>1, <2>2, <2>3, RunMoves, Zenon
<1>6. CASE StartDuplicate(d)
  <2>1. run' = [run EXCEPT ![d] = To("inspect", "permanent")]
    BY <1>2, <1>6 DEF StartDuplicate
  <2>2. UNCHANGED <<outbox, started, clock, sequence, failures>>
    BY <1>6 DEF StartDuplicate
  <2> QED
    BY <1>0, <1>1, <1>3, <2>1, <2>2, RunMoves, Zenon
<1>7. CASE StartRefused(d)
  <2>1. PICK class \in {"retryable", "permanent"} : run' = [run EXCEPT ![d] = To("inspect", class)]
    BY <1>2, <1>7 DEF StartRefused
  <2>2. UNCHANGED <<outbox, started, clock, sequence>> /\ failures' \in Nat
    BY <1>1, <1>7 DEF StartRefused
  <2> QED
    BY <1>0, <1>1, <1>3, <2>1, <2>2, RunMoves, ZenonT(30)
<1>8. CASE Inspect(d)
  <2> DEFINE answer == Reconcile(r, run[d].answer)
  <2>1. run' = [run EXCEPT ![d] = To("mark", answer)]
    BY <1>2, <1>8 DEF Inspect
  <2>2. UNCHANGED <<outbox, started, clock, sequence, failures>>
    BY <1>8 DEF Inspect
  <2>3. /\ answer \in {"same", "collision", "missing_retryable", "missing_permanent"}
        /\ answer = "same" => r \in started
    BY DEF Reconcile
  <2> DEFINE new == To("mark", answer)
  <2> HIDE DEF answer
  <2>4. /\ new \in Run /\ new.batch = run[d].batch /\ new.token = run[d].token
        /\ new.pc = "mark" /\ new.answer = answer
    BY <1>3, <2>3
  <2>5. new.answer \in {"ok", "same"} => Head(new.batch) \in started'
    BY <2>2, <2>3, <2>4
  <2>6. run' = [run EXCEPT ![d] = new]
    BY <2>1
  <2> HIDE DEF new
  <2> QED
    BY <1>0, <1>1, <2>2, <2>4, <2>5, <2>6, RunMoves, Zenon
<1>9. CASE LostLease(d) \/ Abort(d)
  <2>1. /\ run' = [run EXCEPT ![d] = NotRunning]
        /\ UNCHANGED <<outbox, started, clock, sequence>>
        /\ failures' \in Nat
    BY <1>1, <1>9 DEF LostLease, Abort
  <2> QED
    BY <1>0, <1>1, <2>1, IdleRun, RunMoves, ZenonT(30)
<1> QED
  BY <1>4, <1>5, <1>6, <1>7, <1>8, <1>9

\* A claim gives its rows and its run a token that no other run at work has.
LEMMA ClaimStep ==
    ASSUME IInv, NEW d \in Dispatchers, Claim(d)
    PROVE  IInv'
<1>1. PICK batch \in Batches :
        /\ outbox' = [r \in Rows |->
                IF \E k \in DOMAIN batch : batch[k] = r
                THEN [outbox[r] EXCEPT !.token = LeaseToken, !.until = clock + Lease]
                ELSE outbox[r]]
        /\ run' = [run EXCEPT ![d] = [pc |-> "start", batch |-> batch, token |-> LeaseToken,
                                      now |-> clock, answer |-> "none"]]
  BY Zenon DEF Claim
<1>2. /\ sequence' = sequence + 1 /\ UNCHANGED <<started, clock, failures>>
      /\ run \in [Dispatchers -> Run] /\ outbox \in [Rows -> OutboxRow]
      /\ clock \in Nat /\ sequence \in Nat /\ Lease \in Nat
  BY OutboxAssumption, Zenon DEF Claim, IInv, TypeOK
<1>3. /\ batch \in Seq(Rows)
      /\ batch # <<>>
      /\ \A k \in DOMAIN batch : outbox[batch[k]].status = "pending"
  BY ClaimedBatch
<1>4. LeaseToken \in Nat \X Nat /\ LeaseToken[2] = sequence /\ LeaseToken \in Token
  BY <1>2 DEF LeaseToken, Token
<1> DEFINE new == [pc |-> "start", batch |-> batch, token |-> LeaseToken, now |-> clock,
                   answer |-> "none"]
<1>5. new \in Run
  BY <1>2, <1>3, <1>4 DEF Run
<1>6. run'[d] = new /\ \A e \in Dispatchers : e # d => run'[e] = run[e]
  BY <1>1, <1>2, Zenon
<1>7. \A r \in Rows : /\ outbox'[r] \in OutboxRow
                      /\ outbox'[r].status = outbox[r].status
                      /\ outbox'[r] # outbox[r] => outbox[r].status = "pending"
  <2> SUFFICES ASSUME NEW r \in Rows
               PROVE  /\ outbox'[r] \in OutboxRow
                      /\ outbox'[r].status = outbox[r].status
                      /\ outbox'[r] # outbox[r] => outbox[r].status = "pending"
    OBVIOUS
  <2>1. clock + Lease \in Nat /\ outbox[r] \in OutboxRow
    BY <1>2
  <2>2. CASE \E k \in DOMAIN batch : batch[k] = r
    <3>1. outbox'[r] = [outbox[r] EXCEPT !.token = LeaseToken, !.until = clock + Lease]
      BY <1>1, <2>2, Zenon
    <3>2. outbox[r].status = "pending"
      BY <1>3, <2>2
    <3> QED
      BY <1>4, <2>1, <3>1, <3>2, ZenonT(30) DEF OutboxRow
  <2>3. CASE ~\E k \in DOMAIN batch : batch[k] = r
    BY <1>1, <2>1, <2>3, Zenon
  <2> QED
    BY <2>2, <2>3
<1>8. TypeOK'
  <2>1. outbox' \in [Rows -> OutboxRow]
    BY <1>1, <1>7, ZenonT(30)
  <2>2. run' \in [Dispatchers -> Run]
    BY <1>1, <1>2, <1>5, Zenon
  <2> QED
    BY <1>2, <2>1, <2>2 DEF IInv, TypeOK
<1>9. RunInv'
  <2> SUFFICES ASSUME NEW e \in Dispatchers, run'[e].pc # "idle"
               PROVE  /\ run'[e].batch # <<>>
                      /\ run'[e].token \in Nat \X Nat
                      /\ run'[e].token[2] < sequence'
    BY DEF RunInv, Active
  <2>1. CASE e = d
    BY <1>2, <1>3, <1>4, <1>6, <2>1
  <2>2. CASE e # d
    <3>1. /\ run[e].batch # <<>> /\ run[e].token \in Nat \X Nat /\ run[e].token[2] < sequence
          /\ run'[e] = run[e]
      BY <1>6, <2>2 DEF IInv, RunInv, Active
    <3>2. run[e].token[2] \in Nat
      BY <3>1
    <3>3. run[e].token[2] < sequence'
      BY <1>2, <3>1, <3>2
    <3> QED
      BY <3>1, <3>3
  <2> QED
    BY <2>1, <2>2
<1>10. SettledInv'
  <2>1. \A r \in Rows : outbox[r].status # "pending" => outbox'[r] = outbox[r]
    BY <1>7
  <2> QED
    BY <1>7, <2>1 DEF IInv, SettledInv
<1>11. AnswerInv'
  BY <1>2, <1>6 DEF IInv, AnswerInv
<1>12. OneHolder'
  <2>1. ASSUME NEW e \in Dispatchers, e # d, run[e].pc # "idle"
        PROVE  run[e].token # LeaseToken
    <3>1. run[e].token \in Nat \X Nat /\ run[e].token[2] < sequence
      BY <2>1 DEF IInv, RunInv, Active
    <3>2. run[e].token[2] \in Nat
      BY <3>1
    <3>3. run[e].token[2] # sequence
      BY <1>2, <3>1, <3>2
    <3> QED
      BY <1>4, <3>3
  <2> QED
    BY <1>6, <2>1 DEF IInv, OneHolder
<1>13. DispatchedWasStarted'
  BY <1>2, <1>7 DEF IInv, DispatchedWasStarted
<1> QED
  BY <1>8, <1>9, <1>10, <1>11, <1>12, <1>13 DEF IInv

\* A mark stores a row without a lease, as dispatched only if it was started.
LEMMA MarkStep ==
    ASSUME IInv, NEW d \in Dispatchers, Mark(d)
    PROVE  IInv'
<1> DEFINE r == Head(run[d].batch)
           rest == Tail(run[d].batch)
           new == IF rest = <<>> THEN NotRunning
                  ELSE [run[d] EXCEPT !.pc = "start", !.batch = rest, !.answer = "none"]
<1>0. Active(d) /\ run[d].pc = "mark"
  BY DEF Active, Mark
<1>1. /\ r \in Rows /\ rest \in Seq(Rows) /\ run[d].token # NoToken /\ run[d] \in Run
      /\ run \in [Dispatchers -> Run] /\ outbox \in [Rows -> OutboxRow] /\ outbox[r] \in OutboxRow
      /\ run[d].now \in Nat
      /\ UNCHANGED <<started, clock, sequence, failures>>
  BY <1>0, BatchFacts DEF IInv, TypeOK, Run, Mark
<1>2. PICK row \in MarkedRows(r, run[d].now, run[d].answer) : outbox' = [outbox EXCEPT ![r] = row]
  BY Zenon DEF Mark
<1>3. /\ row \in OutboxRow
      /\ row.token = NoToken
      /\ row.status = "dispatched" =>
           run[d].answer \in {"ok", "same"} \/ outbox[r].status = "dispatched"
  <2> DEFINE now == run[d].now
             answer == run[d].answer
  <2> HIDE DEF now, answer, r
  <2>1. now \in Nat /\ row \in MarkedRows(r, now, answer)
    BY <1>1, <1>2 DEF now, answer, r
  <2>2. /\ row \in OutboxRow
        /\ row.token = NoToken
        /\ row.status = "dispatched" => answer \in {"ok", "same"} \/ outbox[r].status = "dispatched"
    BY <1>1, <2>1, MarkedRowFacts
  <2> QED
    BY <2>2 DEF answer
<1>4. run' = [run EXCEPT ![d] = new]
  BY <1>1 DEF Mark, Proceed
<1>5. /\ new \in Run
      /\ new.pc \in {"idle", "start"}
      /\ new.pc # "idle" => new.batch # <<>> /\ new.token = run[d].token
  <2>1. CASE rest = <<>>
    BY <2>1, IdleRun
  <2>2. CASE rest # <<>>
    <3>1. new = [run[d] EXCEPT !.pc = "start", !.batch = rest, !.answer = "none"]
      BY <2>2
    <3> HIDE DEF rest, new
    <3> QED
      BY <1>1, <2>2, <3>1, Zenon DEF Run
  <2> QED
    BY <2>1, <2>2, Zenon
<1> HIDE DEF new, r, rest
<1>6. run'[d] = new /\ \A e \in Dispatchers : e # d => run'[e] = run[e]
  BY <1>1, <1>4
<1>7. outbox'[r] = row /\ \A q \in Rows : q # r => outbox'[q] = outbox[q]
  BY <1>1, <1>2
<1>8. TypeOK'
  BY <1>1, <1>2, <1>3, <1>4, <1>5 DEF IInv, TypeOK
<1>9. RunInv'
  BY <1>0, <1>1, <1>5, <1>6 DEF IInv, RunInv, Active
<1>10. SettledInv'
  BY <1>3, <1>7 DEF IInv, SettledInv
<1>11. AnswerInv'
  BY <1>1, <1>5, <1>6 DEF IInv, AnswerInv
<1>12. OneHolder'
  BY <1>0, <1>5, <1>6 DEF IInv, OneHolder, Active
<1>13. DispatchedWasStarted'
  <2>1. row.status = "dispatched" => r \in started
    BY <1>0, <1>1, <1>3 DEF IInv, AnswerInv, DispatchedWasStarted, r
  <2> QED
    BY <1>1, <1>7, <2>1 DEF IInv, DispatchedWasStarted
<1> QED
  BY <1>8, <1>9, <1>10, <1>11, <1>12, <1>13 DEF IInv

\* New rows, crashes and the clock.
LEMMA SurroundingSteps ==
    ASSUME IInv, (\E r \in Rows : Enqueue(r)) \/ Crash \/ Tick \/ UNCHANGED vars
    PROVE  IInv'
<1>1. ASSUME NEW r \in Rows, Enqueue(r) PROVE IInv'
  <2> DEFINE new == [Absent EXCEPT !.status = "pending", !.visible = clock]
  <2>1. /\ outbox' = [outbox EXCEPT ![r] = new]
        /\ UNCHANGED <<started, run, clock, sequence, failures>>
        /\ outbox \in [Rows -> OutboxRow] /\ clock \in Nat
    BY <1>1 DEF Enqueue, IInv, TypeOK
  <2>2. new \in OutboxRow /\ new.status = "pending"
    BY <2>1, Zenon DEF Absent, OutboxRow, Token
  <2> HIDE DEF new
  <2>3. outbox'[r] = new /\ \A q \in Rows : q # r => outbox'[q] = outbox[q]
    BY <2>1
  <2>4. TypeOK'
    BY <2>1, <2>2 DEF IInv, TypeOK
  <2>5. RunInv' /\ AnswerInv' /\ OneHolder'
    BY <2>1 DEF IInv, RunInv, AnswerInv, OneHolder, Active
  <2>6. SettledInv' /\ DispatchedWasStarted'
    BY <2>1, <2>2, <2>3 DEF IInv, SettledInv, DispatchedWasStarted
  <2> QED
    BY <2>4, <2>5, <2>6 DEF IInv
<1>2. CASE Crash
  <2>1. /\ UNCHANGED <<outbox, started, clock>>
        /\ run' = [d \in Dispatchers |-> NotRunning] /\ sequence' = 0 /\ failures' \in Nat
    BY <1>2 DEF Crash, IInv, TypeOK
  <2>2. \A d \in Dispatchers : run'[d].pc = "idle"
    BY <2>1, IdleRun
  <2>3. TypeOK'
    BY <2>1, IdleRun DEF IInv, TypeOK
  <2>4. RunInv' /\ AnswerInv' /\ OneHolder'
    BY <2>2 DEF RunInv, AnswerInv, OneHolder, Active
  <2>5. SettledInv' /\ DispatchedWasStarted'
    BY <2>1 DEF IInv, SettledInv, DispatchedWasStarted
  <2> QED
    BY <2>3, <2>4, <2>5 DEF IInv
<1>3. CASE Tick
  <2>1. UNCHANGED <<outbox, started, run, sequence, failures>> /\ clock' \in Nat
    BY <1>3 DEF Tick, IInv, TypeOK
  <2> QED
    BY <2>1 DEF IInv, TypeOK, RunInv, AnswerInv, OneHolder, Active, SettledInv, DispatchedWasStarted
<1>4. CASE UNCHANGED vars
  BY <1>4 DEF vars, IInv, TypeOK, RunInv, AnswerInv, OneHolder, Active, SettledInv,
              DispatchedWasStarted
<1> QED
  BY <1>1, <1>2, <1>3, <1>4

\* The lease discipline holds for overlapping runs without bound.
THEOREM LeaseDiscipline == Spec => []IInv
<1>1. IInv /\ [Next]_vars => IInv'
  BY AnswerSteps, ClaimStep, MarkStep, SurroundingSteps DEF Next, Step
<1> QED
  BY InitIInv, <1>1, PTL DEF Spec

\* mark_dispatched is reached only for a start that Duroxide has accepted.
THEOREM NoStartIsDropped == Spec => []DispatchedWasStarted
<1>1. IInv => DispatchedWasStarted
  BY DEF IInv
<1> QED
  BY <1>1, LeaseDiscipline, PTL

\* Overlapping runs never hold the same lease token.
THEOREM TokensDiffer == Spec => []OneHolder
<1>1. IInv => OneHolder
  BY DEF IInv
<1> QED
  BY <1>1, LeaseDiscipline, PTL

\* dispatched_at and permanent_failure_at are final.
THEOREM SettledIsFinal == Spec => SettledRowsStay
<1> DEFINE Stays == \A r \in Rows : outbox[r].status \in {"dispatched", "permanent"} =>
                        outbox'[r] = outbox[r]
<1>1. IInv /\ [Next]_vars => [Stays]_vars
  <2> SUFFICES ASSUME IInv, [Next]_vars,
                      NEW r \in Rows, outbox[r].status \in {"dispatched", "permanent"}
               PROVE  outbox'[r] = outbox[r]
    OBVIOUS
  <2>0. outbox[r].token = NoToken /\ outbox \in [Rows -> OutboxRow]
    BY DEF IInv, SettledInv, TypeOK
  <2>1. ASSUME NEW q \in Rows, Enqueue(q) PROVE outbox'[r] = outbox[r]
    <3>1. q # r
      BY <2>1 DEF Enqueue
    <3> QED
      BY <2>0, <2>1, <3>1 DEF Enqueue
  <2>2. ASSUME NEW d \in Dispatchers, Claim(d) PROVE outbox'[r] = outbox[r]
    <3>1. PICK batch \in Batches :
            outbox' = [q \in Rows |->
                IF \E k \in DOMAIN batch : batch[k] = q
                THEN [outbox[q] EXCEPT !.token = LeaseToken, !.until = clock + Lease]
                ELSE outbox[q]]
      BY <2>2, Zenon DEF Claim
    <3>2. ~\E k \in DOMAIN batch : batch[k] = r
      BY ClaimedBatch
    <3> QED
      BY <3>1, <3>2, ZenonT(30)
  <2>3. ASSUME NEW d \in Dispatchers, Mark(d) PROVE outbox'[r] = outbox[r]
    <3>1. Active(d)
      BY <2>3 DEF Active, Mark
    <3>2. run[d].token # NoToken /\ Head(run[d].batch) \in Rows
      BY <3>1, BatchFacts
    <3>3. Head(run[d].batch) # r
      BY <2>0, <2>3, <3>2 DEF Mark
    <3>4. \E row : outbox' = [outbox EXCEPT ![Head(run[d].batch)] = row]
      BY <2>3, Zenon DEF Mark
    <3> QED
      BY <2>0, <3>2, <3>3, <3>4
  <2>4. ASSUME UNCHANGED outbox PROVE outbox'[r] = outbox[r]
    BY <2>4
  <2> QED
    BY <2>1, <2>2, <2>3, <2>4 DEF Next, Step, StartAccepted, StartAnswerLost, StartDuplicate,
       StartRefused, Inspect, LostLease, Abort, Crash, Tick, vars
<1> QED
  BY <1>1, LeaseDiscipline, PTL DEF Spec, SettledRowsStay

-----------------------------------------------------------------------------
(* One dispatcher implements the contract of StartDelivery                 *)

\* The service runs a single dispatcher.
OneDispatcher == \A d, e \in Dispatchers : d = e

\* The rows of a batch that is not done yet are pending, and each is in it once; a row
\* about to be rejected has not been started.
SoleRun(w, table, begun) ==
    w.pc # "idle" =>
        /\ \A k \in DOMAIN w.batch : table[w.batch[k]].status = "pending"
        /\ \A j, k \in DOMAIN w.batch : j # k => w.batch[j] # w.batch[k]
        /\ w.pc = "mark" /\ w.answer \in {"collision", "missing_permanent"} =>
              Head(w.batch) \notin begun

\* What has been started had been enqueued.  A second dispatcher could settle a row of the
\* batch of the first one, after its lease has expired.
SoleInv ==
    /\ \A d \in Dispatchers : SoleRun(run[d], outbox, started)
    /\ \A r \in started : outbox[r].status # "absent"

\* What the contract sees of a row follows from its status and from Duroxide.
LEMMA DeliveryIs ==
    /\ \A r \in Rows :
          /\ r \in started => Delivery[r] = "dispatched"
          /\ r \notin started /\ outbox[r].status = "permanent" => Delivery[r] = "rejected"
          /\ r \notin started /\ outbox[r].status = "absent" => Delivery[r] = "none"
          /\ r \notin started /\ outbox[r].status = "pending" => Delivery[r] = "pending"
BY DEF Delivery

\* A step that changes neither a status nor what has been started is a stutter.
LEMMA DeliveryStays ==
    ASSUME started' = started, \A r \in Rows : outbox'[r].status = outbox[r].status
    PROVE  UNCHANGED Delivery
BY DEF Delivery

\* A step that changes what the contract sees of one row is a step of that row.
LEMMA DeliveryMoves ==
    ASSUME NEW r \in Rows, NEW to, Delivery'[r] = to,
           \A q \in Rows \ {r} : (q \in started' <=> q \in started) /\ outbox'[q].status = outbox[q].status
    PROVE  Delivery' = [Delivery EXCEPT ![r] = to]
<1>1. \A q \in Rows \ {r} : Delivery'[q] = Delivery[q]
  BY DEF Delivery
<1>2. Delivery = [q \in Rows |-> Delivery[q]] /\ Delivery' = [q \in Rows |-> Delivery'[q]]
  BY DEF Delivery
<1> HIDE DEF Delivery
<1> QED
  BY <1>1, <1>2, Zenon

\* The first row of a batch, and what is left when it is done.
LEMMA BatchParts ==
    ASSUME NEW b \in Seq(Rows), b # <<>>
    PROVE  /\ 1 \in DOMAIN b /\ Head(b) = b[1]
           /\ \A k \in DOMAIN Tail(b) : k + 1 \in DOMAIN b /\ k + 1 # 1 /\ Tail(b)[k] = b[k + 1]
           /\ \A j, k \in DOMAIN Tail(b) : j # k => j + 1 # k + 1
<1>1. Len(b) \in Nat /\ Len(b) # 0 /\ DOMAIN b = 1 .. Len(b) /\ Head(b) = b[1]
  BY EmptySeq
<1>2. /\ Tail(b) \in Seq(Rows) /\ Len(Tail(b)) = Len(b) - 1
      /\ \A i \in 1 .. Len(Tail(b)) : Tail(b)[i] = b[i + 1]
  BY HeadTailProperties
<1>3. DOMAIN Tail(b) = 1 .. Len(b) - 1
  BY <1>2
<1> QED
  BY <1>1, <1>2, <1>3

\* The answers of Duroxide: a new start is a delivery, anything else a stutter.
LEMMA SoleAnswers ==
    ASSUME OneDispatcher, IInv, SoleInv, NEW d \in Dispatchers,
           \/ StartAccepted(d) \/ StartAnswerLost(d) \/ StartDuplicate(d) \/ StartRefused(d)
           \/ Inspect(d) \/ LostLease(d) \/ Abort(d)
    PROVE  SoleInv' /\ [Contract!Next]_Delivery
<1> DEFINE r == Head(run[d].batch)
<1>1. Active(d)
  BY DEF Active, StartAccepted, StartAnswerLost, StartDuplicate, StartRefused, Inspect,
         LostLease, Abort
<1>2. /\ run[d].batch \in Seq(Rows) /\ run[d].batch # <<>> /\ r \in Rows
      /\ run \in [Dispatchers -> Run] /\ run[d] \in Run
  BY <1>1, BatchFacts DEF IInv, TypeOK, RunInv, Run
<1>3. outbox[r].status = "pending"
  BY <1>1, <1>2, BatchParts DEF SoleInv, SoleRun, Active
<1>4. outbox' = outbox
  BY DEF StartAccepted, StartAnswerLost, StartDuplicate, StartRefused, Inspect, LostLease, Abort
<1>5. ASSUME NEW pc, NEW answer, Answered(d, pc, answer),
             pc = "mark" /\ answer \in {"collision", "missing_permanent"} => r \notin started'
      PROVE  SoleRun(run'[d], outbox', started')
  <2>1. run'[d].pc = pc /\ run'[d].answer = answer /\ run'[d].batch = run[d].batch
    BY <1>2, <1>5 DEF Answered, Run
  <2> QED
    BY <1>1, <1>4, <1>5, <2>1 DEF SoleInv, SoleRun, Active
<1>6. ASSUME SoleRun(run'[d], outbox', started'),
             \A q \in started' : outbox'[q].status # "absent"
      PROVE  SoleInv'
  <2>1. \A e \in Dispatchers : e = d
    BY DEF OneDispatcher
  <2> QED
    BY <1>6, <2>1 DEF SoleInv
<1>7. ASSUME started' = started PROVE [Contract!Next]_Delivery
  BY <1>4, <1>7, DeliveryStays
<1>8. CASE StartAccepted(d) \/ StartAnswerLost(d)
  <2>1. /\ started' = started \cup {r} /\ r \notin started
        /\ Answered(d, "mark", "ok") \/ Answered(d, "inspect", "retryable")
    BY <1>8 DEF StartAccepted, StartAnswerLost
  <2>2. SoleRun(run'[d], outbox', started')
    BY <1>5, <2>1
  <2>3. \A q \in started' : outbox'[q].status # "absent"
    BY <1>3, <1>4, <2>1 DEF SoleInv
  <2>4. Delivery[r] = "pending"
    BY <1>2, <1>3, <2>1, DeliveryIs, Zenon
  <2>5. Delivery'[r] = "dispatched"
    BY <1>2, <2>1 DEF Delivery
  <2>6. Delivery' = [Delivery EXCEPT ![r] = "dispatched"]
    <3>1. \A q \in Rows \ {r} : /\ q \in started' <=> q \in started
                               /\ outbox'[q].status = outbox[q].status
      BY <1>4, <2>1
    <3> HIDE DEF r
    <3> QED
      BY <1>2, <2>5, <3>1, DeliveryMoves
  <2>7. Contract!Deliver(r)
    BY <2>4, <2>6, Zenon DEF Contract!Deliver, Contract!Move
  <2> QED
    BY <1>2, <1>6, <2>2, <2>3, <2>7 DEF Contract!Next
<1>9. CASE StartDuplicate(d) \/ StartRefused(d)
  <2>1. started' = started /\ \E class : Answered(d, "inspect", class)
    BY <1>9 DEF StartDuplicate, StartRefused
  <2>2. SoleRun(run'[d], outbox', started')
    BY <1>5, <2>1
  <2> QED
    BY <1>4, <1>6, <1>7, <2>1, <2>2 DEF SoleInv
<1>10. CASE Inspect(d)
  <2>1. started' = started /\ Answered(d, "mark", Reconcile(r, run[d].answer))
    BY <1>10 DEF Inspect
  <2>2. Reconcile(r, run[d].answer) \in {"collision", "missing_permanent"} => r \notin started
    BY DEF Reconcile
  <2>3. SoleRun(run'[d], outbox', started')
    BY <1>5, <2>1, <2>2
  <2> QED
    BY <1>4, <1>6, <1>7, <2>1, <2>3 DEF SoleInv
<1>11. CASE LostLease(d) \/ Abort(d)
  <2>1. started' = started /\ run' = [run EXCEPT ![d] = NotRunning]
    BY <1>11 DEF LostLease, Abort
  <2>2. SoleRun(run'[d], outbox', started')
    BY <1>2, <2>1, IdleRun DEF SoleRun
  <2> QED
    BY <1>4, <1>6, <1>7, <2>1, <2>2 DEF SoleInv
<1> QED
  BY <1>8, <1>9, <1>10, <1>11

\* A claim leases rows that are pending, each once: they are ordered.
LEMMA SoleClaim ==
    ASSUME OneDispatcher, IInv, SoleInv, NEW d \in Dispatchers, Claim(d)
    PROVE  SoleInv' /\ UNCHANGED Delivery
<1>1. PICK batch \in Batches :
        /\ outbox' = [r \in Rows |->
                IF \E k \in DOMAIN batch : batch[k] = r
                THEN [outbox[r] EXCEPT !.token = LeaseToken, !.until = clock + Lease]
                ELSE outbox[r]]
        /\ run' = [run EXCEPT ![d] = [pc |-> "start", batch |-> batch, token |-> LeaseToken,
                                      now |-> clock, answer |-> "none"]]
  BY Zenon DEF Claim
<1>2. /\ started' = started /\ started \subseteq Rows
      /\ run \in [Dispatchers -> Run] /\ outbox \in [Rows -> OutboxRow]
  BY Zenon DEF Claim, IInv, TypeOK
<1>3. /\ batch \in Seq(Rows)
      /\ \A k \in DOMAIN batch : outbox[batch[k]].status = "pending"
  BY ClaimedBatch
<1>4. \A r \in Rows : outbox'[r].status = outbox[r].status
  BY <1>1, <1>2 DEF OutboxRow
<1>5. run'[d].pc = "start" /\ run'[d].batch = batch
  BY <1>1, <1>2
<1>6. \A k \in DOMAIN batch : batch[k] \in Rows /\ k \in Nat
  BY <1>3
<1>7. \A r \in Rows : ~Before(r, r)
  <2> SUFFICES ASSUME NEW r \in Rows PROVE ~Before(r, r)
    OBVIOUS
  <2>1. r \in Nat /\ outbox[r].visible \in Nat
    BY <1>2, OutboxAssumption DEF OutboxRow
  <2> QED
    BY <2>1 DEF Before
<1>8. \A j, k \in DOMAIN batch : j # k => batch[j] # batch[k]
  <2> SUFFICES ASSUME NEW j \in DOMAIN batch, NEW k \in DOMAIN batch, j # k, batch[j] = batch[k]
               PROVE  FALSE
    OBVIOUS
  <2>1. j < k \/ k < j
    BY <1>6
  <2>2. Before(batch[j], batch[k]) \/ Before(batch[k], batch[j])
    BY <2>1 DEF Batches
  <2> QED
    BY <1>6, <1>7, <2>2
<1>9. SoleRun(run'[d], outbox', started')
  BY <1>3, <1>4, <1>5, <1>6, <1>8 DEF SoleRun
<1>10. SoleInv'
  <2>1. \A e \in Dispatchers : e = d
    BY DEF OneDispatcher
  <2> QED
    BY <1>2, <1>4, <1>9, <2>1 DEF SoleInv
<1> QED
  BY <1>2, <1>4, <1>10, DeliveryStays

\* What the mark statements store as the state of a row.
LEMMA MarkedStatus ==
    ASSUME NEW r \in Rows, outbox[r] \in OutboxRow, NEW now, NEW answer,
           NEW row \in MarkedRows(r, now, answer)
    PROVE  \/ answer \in {"ok", "same"} /\ row.status = "dispatched"
           \/ answer \in {"collision", "missing_permanent"} /\ row.status = "permanent"
           \/ row.status = outbox[r].status
<1> DEFINE bare == Unleased(outbox[r])
<1>1. DOMAIN bare = {"status", "visible", "token", "until", "attempts"} /\ bare.status = outbox[r].status
  BY DEF Unleased, OutboxRow
<1> HIDE DEF bare
<1>2. CASE answer \in {"ok", "same"}
  <2>1. row = [bare EXCEPT !.status = "dispatched"]
    BY <1>2, Zenon DEF MarkedRows, bare
  <2> QED
    BY <1>1, <1>2, <2>1
<1>3. CASE answer \in {"collision", "missing_permanent"}
  <2>1. row = [bare EXCEPT !.status = "permanent"]
    BY <1>3 DEF MarkedRows, bare
  <2> QED
    BY <1>1, <1>3, <2>1
<1>4. CASE answer \notin {"ok", "same", "collision", "missing_permanent"}
  <2>1. PICK delay \in RetryDelays(outbox[r].attempts + 1) :
          row = [bare EXCEPT !.attempts = @ + 1, !.visible = now + delay]
    BY <1>4, Zenon DEF MarkedRows, bare
  <2> QED
    BY <1>1, <2>1, Zenon
<1> QED
  BY <1>2, <1>3, <1>4

\* A mark that rejects a start is the only one that the contract sees.
LEMMA SoleMark ==
    ASSUME OneDispatcher, IInv, SoleInv, NEW d \in Dispatchers, Mark(d)
    PROVE  SoleInv' /\ [Contract!Next]_Delivery
<1> DEFINE b == run[d].batch
           r == Head(b)
           rest == Tail(b)
           new == IF rest = <<>> THEN NotRunning
                  ELSE [run[d] EXCEPT !.pc = "start", !.batch = rest, !.answer = "none"]
<1>1. Active(d) /\ run[d].pc = "mark" /\ UNCHANGED started
  BY DEF Active, Mark
<1>2. /\ b \in Seq(Rows) /\ b # <<>> /\ r \in Rows
      /\ run \in [Dispatchers -> Run] /\ run[d] \in Run
      /\ outbox \in [Rows -> OutboxRow] /\ outbox[r] \in OutboxRow
  BY <1>1, BatchFacts DEF IInv, TypeOK, RunInv, Run
<1>3. /\ outbox[r].status = "pending"
      /\ run[d].answer \in {"ok", "same"} => r \in started
      /\ run[d].answer \in {"collision", "missing_permanent"} => r \notin started
  BY <1>1, <1>2, BatchParts DEF SoleInv, SoleRun, Active, IInv, AnswerInv
<1>4. PICK row \in MarkedRows(r, run[d].now, run[d].answer) : outbox' = [outbox EXCEPT ![r] = row]
  BY Zenon DEF Mark
<1>5. \/ run[d].answer \in {"ok", "same"} /\ row.status = "dispatched"
      \/ run[d].answer \in {"collision", "missing_permanent"} /\ row.status = "permanent"
      \/ row.status = outbox[r].status
  <2> DEFINE now == run[d].now
             answer == run[d].answer
  <2> HIDE DEF now, answer, r
  <2>1. row \in MarkedRows(r, now, answer)
    BY <1>4 DEF now, answer, r
  <2> QED
    BY <1>2, <2>1, MarkedStatus, Zenon DEF answer
<1>6. outbox'[r] = row /\ \A q \in Rows \ {r} : outbox'[q] = outbox[q]
  BY <1>2, <1>4
<1>7. run'[d] = new
  BY <1>2, Zenon DEF Mark, Proceed
<1>8. SoleRun(run'[d], outbox', started')
  <2>1. CASE rest = <<>>
    BY <1>7, <2>1, IdleRun DEF SoleRun
  <2>2. CASE rest # <<>>
    <3>1. run'[d].pc = "start" /\ run'[d].batch = rest
      BY <1>2, <1>7, <2>2 DEF Run
    <3>2. /\ \A k \in DOMAIN b : b[k] \in Rows /\ outbox[b[k]].status = "pending"
          /\ \A j, k \in DOMAIN b : j # k => b[j] # b[k]
      BY <1>1, <1>2 DEF SoleInv, SoleRun, Active
    <3>3. /\ 1 \in DOMAIN b /\ r = b[1]
          /\ \A k \in DOMAIN rest : k + 1 \in DOMAIN b /\ k + 1 # 1 /\ rest[k] = b[k + 1]
          /\ \A j, k \in DOMAIN rest : j # k => j + 1 # k + 1
      BY <1>2, BatchParts
    <3> HIDE DEF b, r, rest, new
    <3>4. \A k \in DOMAIN rest : outbox'[rest[k]].status = "pending"
      BY <1>6, <3>2, <3>3
    <3>5. \A j, k \in DOMAIN rest : j # k => rest[j] # rest[k]
      <4> SUFFICES ASSUME NEW j \in DOMAIN rest, NEW k \in DOMAIN rest, j # k
                   PROVE  rest[j] # rest[k]
        OBVIOUS
      <4>1. j + 1 # k + 1 /\ b[j + 1] # b[k + 1]
        BY <3>2, <3>3
      <4> QED
        BY <3>3, <4>1
    <3> QED
      BY <3>1, <3>4, <3>5, Zenon DEF SoleRun
  <2> QED
    BY <2>1, <2>2
<1>9. \A q \in started' : outbox'[q].status # "absent"
  <2>1. started \subseteq Rows
    BY DEF IInv, TypeOK
  <2> QED
    BY <1>1, <1>3, <1>5, <1>6, <2>1 DEF SoleInv
<1>10. SoleInv'
  <2>1. \A e \in Dispatchers : e = d
    BY DEF OneDispatcher
  <2> QED
    BY <1>8, <1>9, <2>1 DEF SoleInv
<1>11. CASE r \in started
  <2>1. UNCHANGED Delivery
    BY <1>1, <1>6, <1>11 DEF Delivery
  <2> QED
    BY <1>10, <2>1
<1>12. CASE r \notin started /\ row.status = "permanent"
  <2>1. Delivery[r] = "pending"
    BY <1>2, <1>3, <1>12, DeliveryIs, Zenon
  <2>2. Delivery'[r] = "rejected"
    BY <1>1, <1>2, <1>6, <1>12 DEF Delivery
  <2>3. Delivery' = [Delivery EXCEPT ![r] = "rejected"]
    <3>1. \A q \in Rows \ {r} : /\ q \in started' <=> q \in started
                               /\ outbox'[q].status = outbox[q].status
      BY <1>1, <1>6
    <3> HIDE DEF r
    <3> QED
      BY <1>2, <2>2, <3>1, DeliveryMoves
  <2>4. Contract!Reject(r)
    BY <2>1, <2>3, Zenon DEF Contract!Reject, Contract!Move
  <2> QED
    BY <1>2, <1>10, <2>4 DEF Contract!Next
<1>13. CASE r \notin started /\ row.status # "permanent"
  <2>1. row.status = outbox[r].status
    BY <1>3, <1>5, <1>13
  <2>2. \A q \in Rows : outbox'[q].status = outbox[q].status
    BY <1>6, <2>1
  <2> QED
    BY <1>1, <1>10, <2>2, DeliveryStays
<1> QED
  BY <1>11, <1>12, <1>13

\* New rows, crashes and the clock: only a new row is a step of the contract.
LEMMA SoleSurroundings ==
    ASSUME OneDispatcher, IInv, SoleInv, (\E r \in Rows : Enqueue(r)) \/ Crash \/ Tick \/ UNCHANGED vars
    PROVE  SoleInv' /\ [Contract!Next]_Delivery
<1>1. ASSUME NEW r \in Rows, Enqueue(r) PROVE SoleInv' /\ Contract!Enqueue(r)
  <2>1. /\ outbox[r].status = "absent" /\ UNCHANGED <<started, run>>
        /\ outbox'[r].status = "pending" /\ \A q \in Rows \ {r} : outbox'[q] = outbox[q]
    BY <1>1 DEF Enqueue, Absent, IInv, TypeOK
  <2>2. r \notin started
    BY <2>1 DEF SoleInv
  <2>3. \A d \in Dispatchers : SoleRun(run'[d], outbox', started')
    <3> SUFFICES ASSUME NEW d \in Dispatchers, run[d].pc # "idle"
                 PROVE  SoleRun(run[d], outbox', started)
      BY <2>1 DEF SoleRun
    <3>1. run[d].batch \in Seq(Rows)
      BY DEF IInv, TypeOK, Run
    <3>2. \A k \in DOMAIN run[d].batch : run[d].batch[k] \in Rows
      BY <3>1
    <3> QED
      BY <2>1, <3>2 DEF SoleInv, SoleRun
  <2>4. \A q \in started' : outbox'[q].status # "absent"
    <3>1. started \subseteq Rows
      BY DEF IInv, TypeOK
    <3> QED
      BY <2>1, <3>1 DEF SoleInv
  <2>5. Delivery[r] = "none"
    BY <2>1, <2>2, DeliveryIs, Zenon
  <2>6. Delivery'[r] = "pending"
    BY <2>1, <2>2 DEF Delivery
  <2>7. Delivery' = [Delivery EXCEPT ![r] = "pending"]
    <3>1. \A q \in Rows \ {r} : /\ q \in started' <=> q \in started
                               /\ outbox'[q].status = outbox[q].status
      BY <2>1
    <3> QED
      BY <2>6, <3>1, DeliveryMoves
  <2> QED
    BY <2>3, <2>4, <2>5, <2>7 DEF SoleInv, Contract!Enqueue, Contract!Move
<1>2. CASE Crash
  <2>1. UNCHANGED <<outbox, started>> /\ run' = [d \in Dispatchers |-> NotRunning]
    BY <1>2 DEF Crash
  <2>2. \A d \in Dispatchers : SoleRun(run'[d], outbox', started')
    BY <2>1, IdleRun DEF SoleRun
  <2> QED
    BY <2>1, <2>2, DeliveryStays DEF SoleInv
<1>3. CASE Tick \/ UNCHANGED vars
  <2>1. UNCHANGED <<outbox, started, run>>
    BY <1>3 DEF Tick, vars
  <2> QED
    BY <2>1, DeliveryStays DEF SoleInv
<1> QED
  BY <1>1, <1>2, <1>3 DEF Contract!Next

\* The initial states of the outbox are initial states of the contract.
LEMMA SoleInit == Init => SoleInv /\ Contract!Init
<1> SUFFICES ASSUME Init PROVE SoleInv /\ Contract!Init
  OBVIOUS
<1>1. \A r \in Rows : outbox[r].status = "absent" /\ r \notin started
  BY DEF Init, Absent
<1>2. \A d \in Dispatchers : run[d].pc = "idle"
  BY IdleRun DEF Init
<1>3. Contract!Init
  BY <1>1 DEF Contract!Init, Delivery
<1> QED
  BY <1>2, <1>3 DEF SoleInv, SoleRun, Init

\* The outbox with the one dispatcher that the service runs implements StartDelivery: a
\* start enters Duroxide at most once, or is rejected for good, and never both, whatever
\* answers are lost, leases expire and crashes happen.
THEOREM DeliveryRefined == ASSUME OneDispatcher PROVE Spec => ImplementsDelivery
<1>1. IInv /\ SoleInv /\ [Next]_vars => SoleInv' /\ [Contract!Next]_Delivery
  BY SoleAnswers, SoleClaim, SoleMark, SoleSurroundings DEF Next, Step
<1> QED
  BY <1>1, SoleInit, LeaseDiscipline, PTL DEF Spec, ImplementsDelivery, Contract!Spec

=============================================================================
