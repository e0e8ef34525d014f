--------------------------- MODULE CandidateProofs ---------------------------
(***************************************************************************)
(* The two safety properties of a candidate's evaluation, for any sources, *)
(* policies, deadline and budget, and any number of faults, submissions    *)
(* and changes of the inventory; and the manifest of one source, for any   *)
(* contents, sizes of its listing and number of failures.                  *)
(***************************************************************************)
EXTENDS Candidates, TLAPS

\* The shape of the variables that are updated by field.
Shape ==
    /\ age \in Int
    /\ source = [s \in Sources |-> source[s]]
    /\ DOMAIN exec = {"pc", "now", "rows", "lost", "result"}
    /\ exec.now \in Int
    /\ DOMAIN instance = {"at", "wake", "event", "plan"}
    /\ exec.pc \in {"persist", "return"} =>
          exec.result.outcome \in {"match", "already_present", "no_match", "timeout", "budget", "wait"}

\* A plan is in the state that the policy it is named after asks for.
PlansFollowPolicy ==
    \A plan \in plans : plan = [match |-> plan.match, state |-> TerminalState(plan.match.policy, "match")]

\* What an evaluation is about to return is stored.
MatchIsStored ==
    exec.pc = "return" /\ exec.result.outcome = "match" =>
        [match |-> MatchId(Policy, exec.result.sources), state |-> TerminalState(Policy, "match")] \in plans

\* Before its first submission a task does nothing; an evaluation's clock is in the past.
EvaluationIsLate ==
    /\ task = "none" => exec.pc = "idle"
    /\ instance.at = "activity" => task # "none"
    /\ instance.at = "waiting" => task # "none"
    /\ exec.pc \in {"rows", "files"} => exec.now <= age
    /\ exec.pc \in {"idle", "rows"} => exec.lost = {}

\* Overdue sources match and are loaded, and an evaluation of after the deadline has read
\* them as such.
OverdueIsRead ==
    /\ overdue \subseteq Matching
    /\ exec.pc = "files" /\ exec.now >= Deadline =>
          \A s \in overdue : exec.rows[s] = "loaded" /\ s \notin exec.lost

IInv ==
    /\ Shape /\ PlansFollowPolicy /\ MatchIsStored /\ EvaluationIsLate /\ OverdueIsRead
    /\ InjectedPlanIsPlanned /\ TimeoutIsHonest

-----------------------------------------------------------------------------

\* persist_plan stores a plan under its policy's state, or finds it stored so.
LEMMA PlanIsStored ==
    ASSUME NEW policy, NEW sources, PlansFollowPolicy
    PROVE  LET stored == PersistPlan(policy, sources)
           IN  /\ plans \subseteq stored
               /\ [match |-> MatchId(policy, sources), state |-> TerminalState(policy, "match")] \in stored
               /\ \A plan \in stored :
                     plan = [match |-> plan.match, state |-> TerminalState(plan.match.policy, "match")]
<1> DEFINE id == MatchId(policy, sources)
           new == [match |-> id, state |-> TerminalState(policy, "match")]
<1>1. id.policy = policy
  BY DEF MatchId
<1>2. CASE \E plan \in plans : plan.match = id
  <2>1. PICK plan \in plans : plan.match = id
    BY <1>2
  <2>2. plan = new
    BY <1>1, <2>1 DEF PlansFollowPolicy
  <2>3. PersistPlan(policy, sources) = plans
    BY <1>2 DEF PersistPlan
  <2> QED
    BY <2>1, <2>2, <2>3 DEF PlansFollowPolicy
<1>3. CASE ~\E plan \in plans : plan.match = id
  <2>1. PersistPlan(policy, sources) = plans \cup {new}
    BY <1>3 DEF PersistPlan
  <2>2. new = [match |-> new.match, state |-> TerminalState(new.match.policy, "match")]
    BY <1>1
  <2> QED
    BY <2>1, <2>2 DEF PlansFollowPolicy
<1> QED
  BY <1>2, <1>3

\* An evaluation of after the deadline that finds no match has no overdue source.
LEMMA NoMatchMeansNoneOverdue ==
    ASSUME OverdueIsRead, exec.pc = "files", exec.now >= Deadline, Decision(Judged).outcome = "no_match"
    PROVE  overdue = {}
<1>1. {s \in Judged : VerdictOf[s] = "match"} = {}
  BY DEF Decision, Result
<1>2. \A s \in overdue : s \in Judged /\ VerdictOf[s] = "match"
  BY DEF OverdueIsRead, Matching, Judged
<1> QED
  BY <1>1, <1>2

\* Initially there is neither a task nor a plan.
LEMMA InitInv ==
    ASSUME Init
    PROVE  IInv
BY CandidateAssumption DEF Init, IInv, Shape, PlansFollowPolicy, MatchIsStored, EvaluationIsLate, OverdueIsRead,
       InjectedPlanIsPlanned, TimeoutIsHonest, Idle

\* A submission, under the policy or another, starts a task that has read nothing, and at
\* most adds plans.
LEMMA SubmitStep ==
    ASSUME IInv, Submit \/ \E policy \in OtherPolicies : SubmitOther(policy)
    PROVE  IInv'
<1>1. CASE Submit
  <2>1. UNCHANGED <<age, source, plans, exec>>
    BY <1>1 DEF Submit
  <2>2. Shape'
    BY <1>1, <2>1 DEF IInv, Shape, Submit
  <2>3. PlansFollowPolicy' /\ MatchIsStored'
    BY <2>1 DEF IInv, PlansFollowPolicy, MatchIsStored
  <2>4. EvaluationIsLate'
    BY <1>1, <2>1 DEF IInv, Shape, EvaluationIsLate, Submit
  <2>5. OverdueIsRead' /\ TimeoutIsHonest'
    BY <1>1, <2>1 DEF IInv, EvaluationIsLate, OverdueIsRead, TimeoutIsHonest, Submit, Matching
  <2>6. InjectedPlanIsPlanned'
    BY <1>1, <2>1 DEF IInv, Shape, InjectedPlanIsPlanned, Submit
  <2> QED
    BY <2>2, <2>3, <2>4, <2>5, <2>6 DEF IInv
<1>2. ASSUME NEW policy \in OtherPolicies, SubmitOther(policy)
      PROVE  IInv'
  <2>1. UNCHANGED <<age, task, source, instance, exec, overdue>>
    BY <1>2 DEF SubmitOther
  <2>2. plans \subseteq plans' /\ PlansFollowPolicy'
    <3>1. plans' = plans \/ \E s \in Matching : plans' = PersistPlan(policy, {s})
      BY <1>2 DEF SubmitOther
    <3>2. \A s \in Matching : LET stored == PersistPlan(policy, {s})
                               IN  /\ plans \subseteq stored
                                   /\ \A plan \in stored : plan = [match |-> plan.match,
                                                            state |-> TerminalState(plan.match.policy, "match")]
      BY PlanIsStored DEF IInv
    <3> QED
      BY <3>1, <3>2 DEF IInv, PlansFollowPolicy
  <2>3. Shape' /\ EvaluationIsLate' /\ OverdueIsRead' /\ TimeoutIsHonest'
    BY <2>1 DEF IInv, Shape, EvaluationIsLate, OverdueIsRead, TimeoutIsHonest, Matching
  <2>4. MatchIsStored' /\ InjectedPlanIsPlanned'
    BY <2>1, <2>2 DEF IInv, MatchIsStored, InjectedPlanIsPlanned
  <2> QED
    BY <2>2, <2>3, <2>4 DEF IInv
<1> QED
  BY <1>1, <1>2

\* The clock and the rows of an evaluation.
LEMMA ReadStep ==
    ASSUME IInv, Begin \/ ReadRows
    PROVE  IInv'
<1>1. UNCHANGED <<age, task, source, plans, instance, overdue>>
  BY DEF Begin, ReadRows
<1>2. CASE Begin
  <2>1. exec'.pc = "rows" /\ exec'.now = age /\ DOMAIN exec' = DOMAIN exec
    BY <1>2 DEF Begin, IInv, Shape
  <2>2. Shape' /\ EvaluationIsLate'
    BY <1>1, <1>2, <2>1 DEF IInv, Shape, EvaluationIsLate, Begin
  <2>3. PlansFollowPolicy' /\ MatchIsStored' /\ OverdueIsRead' /\ InjectedPlanIsPlanned' /\ TimeoutIsHonest'
    BY <1>1, <2>1 DEF IInv, PlansFollowPolicy, MatchIsStored, OverdueIsRead, InjectedPlanIsPlanned,
                      TimeoutIsHonest, Matching
  <2> QED
    BY <2>2, <2>3 DEF IInv
<1>3. CASE ReadRows /\ OverBudget(source)
  <2>1. exec' = [pc |-> "persist", now |-> 0, rows |-> None, lost |-> {}, result |-> Result("budget", {})]
    BY <1>3 DEF ReadRows, Idle
  <2>2. Shape' /\ EvaluationIsLate'
    <3>1. /\ exec'.pc = "persist" /\ exec'.now = 0 /\ DOMAIN exec' = {"pc", "now", "rows", "lost", "result"}
          /\ exec'.result.outcome = "budget"
      BY <2>1 DEF Result
    <3>2. exec.pc = "rows"
      BY <1>3 DEF ReadRows
    <3> QED
      BY <1>1, <3>1, <3>2 DEF IInv, Shape, EvaluationIsLate
  <2>3. PlansFollowPolicy' /\ MatchIsStored' /\ OverdueIsRead' /\ InjectedPlanIsPlanned' /\ TimeoutIsHonest'
    BY <1>1, <2>1 DEF IInv, PlansFollowPolicy, MatchIsStored, OverdueIsRead, InjectedPlanIsPlanned,
                      TimeoutIsHonest, Matching, Result
  <2> QED
    BY <2>2, <2>3 DEF IInv
<1>4. CASE ReadRows /\ ~OverBudget(source)
  <2>1. /\ exec' = [exec EXCEPT !.pc = "files", !.rows = source]
        /\ exec.pc = "rows"
    BY <1>4 DEF ReadRows
  <2>2. Shape' /\ EvaluationIsLate'
    BY <1>1, <2>1 DEF IInv, Shape, EvaluationIsLate
  <2>3. PlansFollowPolicy' /\ MatchIsStored' /\ InjectedPlanIsPlanned' /\ TimeoutIsHonest'
    BY <1>1, <2>1 DEF IInv, Shape, PlansFollowPolicy, MatchIsStored, InjectedPlanIsPlanned, TimeoutIsHonest
  <2>4. OverdueIsRead'
    <3>1. exec.lost = {}
      BY <2>1 DEF IInv, EvaluationIsLate
    <3> QED
      BY <1>1, <2>1, <3>1 DEF IInv, Shape, OverdueIsRead, Matching
  <2> QED
    BY <2>2, <2>3, <2>4 DEF IInv
<1> QED
  BY <1>2, <1>3, <1>4

\* The verdict: after the deadline it is a timeout only if no overdue source was read.
LEMMA JudgeStep ==
    ASSUME IInv, Judge
    PROVE  IInv'
<1> DEFINE decision == Decision(Judged)
           result == IF decision.outcome # "no_match" \/ Awaited = {} THEN decision
                     ELSE IF EvaluatedAt < Deadline THEN Result("wait", Awaited)
                     ELSE Result("timeout", {})
           now == IF result.outcome = "wait" THEN WakeTime ELSE 0
<1>1. UNCHANGED <<age, task, plans, instance, overdue>> /\ exec.pc = "files"
  BY DEF Judge
<1>2. exec' = [pc |-> "persist", now |-> now, rows |-> None, lost |-> {}, result |-> result]
  BY DEF Judge, Idle
<1>3. now \in Int
  BY CandidateAssumption DEF WakeTime, IInv, Shape
<1> HIDE DEF now
<1>4. /\ exec'.pc = "persist" /\ exec'.now \in Int /\ exec'.result = result
      /\ DOMAIN exec' = {"pc", "now", "rows", "lost", "result"}
  BY <1>2, <1>3
<1>5. /\ source' = [s \in Sources |-> source'[s]]
      /\ \A s \in Sources : source[s] = "loaded" => source'[s] = "loaded"
  BY DEF Judge
<1>6. Shape' /\ EvaluationIsLate'
  <2>1. result.outcome \in {"match", "already_present", "no_match", "timeout", "budget", "wait"}
    BY DEF Decision, Result
  <2> QED
    BY <1>1, <1>4, <1>5, <2>1 DEF IInv, Shape, EvaluationIsLate
<1>7. OverdueIsRead'
  BY <1>1, <1>4, <1>5 DEF IInv, OverdueIsRead, Matching
<1>8. PlansFollowPolicy' /\ MatchIsStored' /\ InjectedPlanIsPlanned'
  BY <1>1, <1>4 DEF IInv, PlansFollowPolicy, MatchIsStored, InjectedPlanIsPlanned
<1>9. TimeoutIsHonest'
  <2>1. SUFFICES ASSUME result.outcome = "timeout"
                 PROVE  age >= Deadline /\ overdue = {}
    BY <1>1, <1>4 DEF TimeoutIsHonest
  <2>2. decision.outcome # "timeout"
    BY DEF Decision, Result
  <2>3. decision.outcome = "no_match" /\ ~(exec.now < Deadline)
    BY <2>1, <2>2 DEF Result, EvaluatedAt
  <2>4. exec.now >= Deadline /\ exec.now <= age /\ age >= Deadline
    BY <1>1, <2>3, CandidateAssumption DEF IInv, Shape, EvaluationIsLate
  <2> QED
    BY <1>1, <2>3, <2>4, NoMatchMeansNoneOverdue DEF IInv
<1> QED
  BY <1>6, <1>7, <1>8, <1>9 DEF IInv

\* The transaction stores the plan, the reply hands it on.
LEMMA ReplyStep ==
    ASSUME IInv, Persist \/ Return
    PROVE  IInv'
<1>1. CASE Persist
  <2>1. UNCHANGED <<age, task, source, instance, overdue>>
    BY <1>1 DEF Persist
  <2>2. /\ exec.pc = "persist" /\ exec'.pc = "return" /\ exec'.result = exec.result /\ exec'.now = exec.now
        /\ DOMAIN exec' = DOMAIN exec
    BY <1>1 DEF Persist, IInv, Shape
  <2>3. plans' = IF exec.result.outcome = "match" THEN PersistPlan(Policy, exec.result.sources) ELSE plans
    BY <1>1 DEF Persist
  <2>4. PlansFollowPolicy' /\ MatchIsStored' /\ plans \subseteq plans'
    <3>1. CASE exec.result.outcome = "match"
      <4>1. plans' = PersistPlan(Policy, exec.result.sources)
        BY <2>3, <3>1
      <4> QED
        BY <2>2, <4>1, PlanIsStored DEF IInv, PlansFollowPolicy, MatchIsStored
    <3>2. CASE exec.result.outcome # "match"
      BY <2>2, <2>3, <3>2 DEF IInv, PlansFollowPolicy, MatchIsStored
    <3> QED
      BY <3>1, <3>2
  <2>5. Shape' /\ EvaluationIsLate' /\ OverdueIsRead' /\ TimeoutIsHonest'
    BY <2>1, <2>2 DEF IInv, Shape, EvaluationIsLate, OverdueIsRead, TimeoutIsHonest, Matching
  <2>6. InjectedPlanIsPlanned'
    BY <2>1, <2>4 DEF IInv, InjectedPlanIsPlanned
  <2> QED
    BY <2>4, <2>5, <2>6 DEF IInv
<1>2. CASE Return
  <2> DEFINE result == exec.result
             state == IF result.outcome = "wait" THEN "waiting_for_source"
                      ELSE TerminalState(Policy, result.outcome)
  <2>1. UNCHANGED <<age, source, plans, overdue>> /\ exec.pc = "return" /\ task # "none"
    BY <1>2 DEF Return, IInv, EvaluationIsLate
  <2>2. exec' = [pc |-> "idle", now |-> 0, rows |-> None, lost |-> {}, result |-> None]
    BY <1>2 DEF Return, Idle
  <2>3. /\ task' = IF task \in Ended THEN task ELSE state
        /\ instance' = CASE state = "waiting_for_source" -> [instance EXCEPT !.at = "waiting", !.wake = exec.now]
                         [] state = "planned" ->
                              [instance EXCEPT !.at = "injecting", !.plan = MatchId(Policy, result.sources)]
                         [] state \in Ended -> [instance EXCEPT !.at = "ended"]
    BY <1>2 DEF Return
  <2>4. /\ result.outcome \in {"match", "already_present", "no_match", "timeout", "budget", "wait"}
        /\ DOMAIN instance = {"at", "wake", "event", "plan"}
    BY <2>1 DEF IInv, Shape
  <2>5. \/ state \in Ended \cup {"waiting_for_source"}
        \/ state = "planned" /\ result.outcome = "match" /\ Policy \notin DryRun
    BY <2>4 DEF TerminalState, Ended
  <2>6. task' # "none" /\ DOMAIN instance' = DOMAIN instance /\ instance'.at \in {"waiting", "injecting", "ended"}
    BY <2>1, <2>3, <2>4, <2>5 DEF Ended
  <2>7. Shape'
    BY <2>1, <2>2, <2>6 DEF IInv, Shape
  <2>8. EvaluationIsLate' /\ OverdueIsRead' /\ TimeoutIsHonest'
    BY <2>1, <2>2, <2>6 DEF IInv, EvaluationIsLate, OverdueIsRead, TimeoutIsHonest, Matching
  <2>9. PlansFollowPolicy' /\ MatchIsStored'
    BY <2>1, <2>2 DEF IInv, PlansFollowPolicy, MatchIsStored
  <2>10. InjectedPlanIsPlanned'
    <3>1. CASE state = "planned"
      <4>1. result.outcome = "match" /\ Policy \notin DryRun
        BY <2>5, <3>1 DEF Ended
      <4>2. instance'.plan = MatchId(Policy, result.sources)
        <5> HIDE DEF state, result
        <5>1. instance' = [instance EXCEPT !.at = "injecting", !.plan = MatchId(Policy, result.sources)]
          BY <2>3, <3>1 DEF Ended
        <5> QED
          BY <2>4, <5>1
      <4>3. TerminalState(Policy, "match") = "planned"
        BY <4>1 DEF TerminalState
      <4>4. [match |-> MatchId(Policy, result.sources), state |-> TerminalState(Policy, "match")] \in plans
        BY <2>1, <4>1 DEF IInv, MatchIsStored
      <4> QED
        BY <2>1, <4>1, <4>2, <4>3, <4>4 DEF InjectedPlanIsPlanned
    <3>2. CASE state # "planned"
      <4>1. instance'.at # "injecting"
        BY <2>3, <2>4, <2>5, <3>2 DEF Ended
      <4> QED
        BY <4>1 DEF InjectedPlanIsPlanned
    <3> QED
      BY <3>1, <3>2
  <2> QED
    BY <2>7, <2>8, <2>9, <2>10 DEF IInv
<1> QED
  BY <1>1, <1>2

\* Waking, signalling, and a source's progress leave evaluation, plans and verdict alone.
LEMMA OutsideStep ==
    ASSUME IInv, Wake \/ \E s \in Sources : Advance(s) \/ Signal(s)
    PROVE  IInv'
<1>1. UNCHANGED <<age, task, plans, exec, overdue>>
  BY DEF Wake, Advance, Signal
<1>2. CASE Wake \/ \E s \in Sources : Signal(s)
  <2>1. source' = source
    BY <1>2 DEF Wake, Signal
  <2>2. /\ DOMAIN instance' = DOMAIN instance /\ instance'.plan = instance.plan
        /\ instance'.at = instance.at \/ (instance.at = "waiting" /\ instance'.at = "activity")
    <3>1. ASSUME Wake
          PROVE  /\ DOMAIN instance' = DOMAIN instance /\ instance'.plan = instance.plan
                 /\ instance.at = "waiting" /\ instance'.at = "activity"
      BY <3>1 DEF Wake, IInv, Shape
    <3>2. ASSUME NEW s \in Sources, Signal(s)
          PROVE  DOMAIN instance' = DOMAIN instance /\ instance'.plan = instance.plan /\ instance'.at = instance.at
      BY <3>2 DEF Signal, IInv, Shape
    <3> QED
      BY <1>2, <3>1, <3>2
  <2>3. Shape' /\ EvaluationIsLate' /\ OverdueIsRead' /\ TimeoutIsHonest'
    BY <1>1, <2>1, <2>2 DEF IInv, Shape, EvaluationIsLate, OverdueIsRead, TimeoutIsHonest, Matching
  <2>4. PlansFollowPolicy' /\ MatchIsStored' /\ InjectedPlanIsPlanned'
    BY <1>1, <2>2 DEF IInv, PlansFollowPolicy, MatchIsStored, InjectedPlanIsPlanned
  <2> QED
    BY <2>3, <2>4 DEF IInv
<1>3. ASSUME NEW s \in Sources, Advance(s)
      PROVE  IInv'
  <2>1. /\ instance' = instance
        /\ source' = [q \in Sources |-> source'[q]]
        /\ \A q \in Sources : source[q] = "loaded" => source'[q] = "loaded"
    BY <1>3 DEF Advance, IInv, Shape
  <2>2. Shape' /\ EvaluationIsLate' /\ OverdueIsRead' /\ TimeoutIsHonest'
    BY <1>1, <2>1 DEF IInv, Shape, EvaluationIsLate, OverdueIsRead, TimeoutIsHonest, Matching
  <2>3. PlansFollowPolicy' /\ MatchIsStored' /\ InjectedPlanIsPlanned'
    BY <1>1, <2>1 DEF IInv, PlansFollowPolicy, MatchIsStored, InjectedPlanIsPlanned
  <2> QED
    BY <2>2, <2>3 DEF IInv
<1> QED
  BY <1>2, <1>3

\* When the deadline passes, no evaluation has a clock of after it.
LEMMA TickStep ==
    ASSUME IInv, Tick
    PROVE  IInv'
<1>1. /\ UNCHANGED <<task, source, plans, instance, exec>> /\ age' = age + 1
      /\ overdue' = IF age' = Deadline THEN Matching ELSE overdue
  BY DEF Tick
<1>2. Shape' /\ EvaluationIsLate'
  BY <1>1 DEF IInv, Shape, EvaluationIsLate
<1>3. OverdueIsRead'
  <2>1. exec.pc = "files" /\ exec.now >= Deadline => age' # Deadline
    BY <1>1, CandidateAssumption DEF IInv, Shape, EvaluationIsLate
  <2> QED
    BY <1>1, <2>1 DEF IInv, OverdueIsRead, Matching
<1>4. TimeoutIsHonest'
  <2>1. age >= Deadline => age' >= Deadline /\ age' # Deadline
    BY <1>1, CandidateAssumption DEF IInv, Shape
  <2> QED
    BY <1>1, <2>1 DEF IInv, TimeoutIsHonest
<1>5. PlansFollowPolicy' /\ MatchIsStored' /\ InjectedPlanIsPlanned'
  BY <1>1 DEF IInv, PlansFollowPolicy, MatchIsStored, InjectedPlanIsPlanned
<1> QED
  BY <1>2, <1>3, <1>4, <1>5 DEF IInv

\* A crash forgets the evaluation; a source that changes is no longer overdue.
LEMMA FaultStep ==
    ASSUME IInv, Fault
    PROVE  IInv'
<1>1. UNCHANGED <<age, task, plans, instance>>
  BY DEF Fault
<1>2. CASE Crash
  <2>1. exec' = [pc |-> "idle", now |-> 0, rows |-> None, lost |-> {}, result |-> None] /\ UNCHANGED <<source, overdue>>
    BY <1>2 DEF Crash, Idle
  <2>2. Shape' /\ EvaluationIsLate' /\ OverdueIsRead' /\ TimeoutIsHonest'
    BY <1>1, <2>1 DEF IInv, Shape, EvaluationIsLate, OverdueIsRead, TimeoutIsHonest, Matching
  <2>3. PlansFollowPolicy' /\ MatchIsStored' /\ InjectedPlanIsPlanned'
    BY <1>1, <2>1 DEF IInv, PlansFollowPolicy, MatchIsStored, InjectedPlanIsPlanned
  <2> QED
    BY <2>2, <2>3 DEF IInv
<1>3. ASSUME NEW s \in Sources, Appear(s) \/ Disappear(s)
      PROVE  IInv'
  <2>1. /\ exec' = exec
        /\ source' = [q \in Sources |-> source'[q]]
        /\ overdue' \subseteq overdue
        /\ \A q \in Sources : source[q] = "loaded" => source'[q] = "loaded" \/ q \notin overdue'
    BY <1>3 DEF Appear, Disappear, IInv, Shape
  <2>2. Shape' /\ EvaluationIsLate' /\ TimeoutIsHonest'
    BY <1>1, <2>1 DEF IInv, Shape, EvaluationIsLate, TimeoutIsHonest
  <2>3. OverdueIsRead'
    BY <2>1 DEF IInv, OverdueIsRead, Matching
  <2>4. PlansFollowPolicy' /\ MatchIsStored' /\ InjectedPlanIsPlanned'
    BY <1>1, <2>1 DEF IInv, PlansFollowPolicy, MatchIsStored, InjectedPlanIsPlanned
  <2> QED
    BY <2>2, <2>3, <2>4 DEF IInv
<1>4. ASSUME NEW s \in Sources, Republish(s)
      PROVE  IInv'
  <2>1. /\ source' = source /\ overdue' = overdue \ {s} /\ exec.pc = "files"
        /\ exec' = [exec EXCEPT !.lost = @ \cup {s}]
    BY <1>4 DEF Republish
  <2>2. /\ exec'.pc = "files" /\ exec'.now = exec.now /\ exec'.rows = exec.rows
        /\ exec'.lost = exec.lost \cup {s} /\ DOMAIN exec' = DOMAIN exec
    BY <2>1 DEF IInv, Shape
  <2>3. Shape' /\ EvaluationIsLate' /\ TimeoutIsHonest'
    BY <1>1, <2>1, <2>2 DEF IInv, Shape, EvaluationIsLate, TimeoutIsHonest
  <2>4. OverdueIsRead'
    BY <2>1, <2>2 DEF IInv, OverdueIsRead, Matching
  <2>5. PlansFollowPolicy' /\ MatchIsStored' /\ InjectedPlanIsPlanned'
    BY <1>1, <2>2 DEF IInv, PlansFollowPolicy, MatchIsStored, InjectedPlanIsPlanned
  <2> QED
    BY <2>3, <2>4, <2>5 DEF IInv
<1> QED
  BY <1>2, <1>3, <1>4 DEF Fault

\* Every step keeps the inductive invariant.
LEMMA NextInv ==
    ASSUME IInv, [Next]_vars
    PROVE  IInv'
<1>1. CASE Next
  BY <1>1, SubmitStep, ReadStep, JudgeStep, ReplyStep, OutsideStep, TickStep, FaultStep DEF Next, Step
<1>2. CASE UNCHANGED vars
  BY <1>2 DEF vars, IInv, Shape, PlansFollowPolicy, MatchIsStored, EvaluationIsLate, OverdueIsRead,
              InjectedPlanIsPlanned, TimeoutIsHonest, Matching
<1> QED
  BY <1>1, <1>2

\* IInv is an invariant of the candidate's workflow.
LEMMA Inductive == Spec => []IInv
<1>1. Init => IInv
  BY InitInv
<1>2. IInv /\ [Next]_vars => IInv'
  BY NextInv
<1> QED
  BY <1>1, <1>2, PTL DEF Spec

\* No match is overlooked at the deadline: candidate_workflow.rs decides on a timeout only
\* after pending_source_timeout, by a clock that is read before the sources, and so never
\* while a source that was loaded in time, and has stayed, matches.
THEOREM TimeoutWaitsForSources == Spec => []TimeoutIsHonest
<1>1. IInv => TimeoutIsHonest
  BY DEF IInv
<1> QED
  BY <1>1, Inductive, PTL

\* What candidate_workflow.rs hands to the injection is stored as planned under the policy
\* of the task, whatever the tasks of other policies store for the same torrent.
THEOREM InjectionFollowsPolicy == Spec => []InjectedPlanIsPlanned
<1>1. IInv => InjectedPlanIsPlanned
  BY DEF IInv
<1> QED
  BY <1>1, Inductive, PTL

-----------------------------------------------------------------------------
(* The file manifest of a torrent (module QbitManifest), which tells an    *)
(* evaluation what a source has                                            *)

\* Contents and the number of their files.
ManifestBounds == Manifest!Bounds

\* The shape of the row, the files and the two readers of them; the row is not ahead of
\* qBittorrent.
ManifestShape ==
    /\ DOMAIN torrent = {"content", "done"} /\ torrent.content \in 0 .. MaxContent
    /\ DOMAIN row = {"content", "since", "done", "version", "state"}
    /\ row.content \in 0 .. torrent.content /\ row.since \in 0 .. row.content /\ row.version \in Nat
    /\ row.done \in BOOLEAN /\ torrent.done \in BOOLEAN
    /\ row.done => torrent.done
    /\ row.state = "loaded" => row.version > 0
    /\ \A f \in files : DOMAIN f = {"version", "ordinal", "content", "available"} /\ f.ordinal \in Nat
    /\ DOMAIN loader = {"pc", "version", "content", "next"}
    /\ DOMAIN reader = {"pc", "version", "count", "files"}

\* What is available belongs to the version of the row, and is one whole listing, no older
\* than the row's fingerprint if the row says that it is loaded.
PublishedOK ==
    /\ \A f \in files : f.available => f.version = row.version
    /\ row.version > 0 =>
          \E c \in 0 .. torrent.content :
              /\ Manifest!Shown(Manifest!Available(row.version)) = Manifest!Listing(c)
              /\ row.state = "loaded" => row.since <= c

\* A load stages the next version: the files below its position are of the content it fetched.
StagedOK ==
    /\ loader.pc \in {"idle", "fetch", "stage"}
    /\ loader.pc # "idle" => loader.version = row.version + 1 /\ loader.next \in Nat
    /\ loader.pc = "fetch" => loader.next = 0
    /\ loader.pc = "stage" =>
          /\ loader.content \in row.since .. torrent.content
          /\ \A f \in files : f.version = loader.version /\ f.ordinal < loader.next
                                  => f.content = loader.content
          /\ \A i \in 0 .. loader.next - 1 :
                \E f \in files : f.version = loader.version /\ f.ordinal = i

\* What an evaluation is about to read is what it has counted, or has gone.
ReaderOK ==
    /\ reader.pc = "read" =>
          /\ reader.version \in 1 .. row.version
          /\ reader.version = row.version => reader.count = Manifest!Cardinality(Manifest!Available(row.version))
    /\ Manifest!ReadIsWholeOrEmpty

ManifestInv == ManifestShape /\ PublishedOK /\ StagedOK /\ ReaderOK

\* Nothing has been loaded or read.
LEMMA ManifestInit ==
    ASSUME ManifestBounds, Manifest!Init
    PROVE  ManifestInv
<1>1. PICK done \in BOOLEAN : torrent = [content |-> 0, done |-> done]
  BY DEF Manifest!Init
<1>2. ManifestShape
  BY <1>1 DEF Manifest!Init, ManifestBounds, Manifest!Bounds, ManifestShape, Manifest!NoLoad, Manifest!NoRead
<1>3. PublishedOK /\ StagedOK
  BY DEF Manifest!Init, PublishedOK, StagedOK, Manifest!NoLoad
<1>4. ReaderOK
  BY DEF Manifest!Init, ReaderOK, Manifest!NoRead, Manifest!ReadIsWholeOrEmpty
<1> QED
  BY <1>2, <1>3, <1>4 DEF ManifestInv

\* qBittorrent goes ahead of what is stored.
LEMMA TorrentStep ==
    ASSUME ManifestBounds, ManifestInv, Manifest!Rename \/ Manifest!Complete
    PROVE  ManifestInv'
<1>1. UNCHANGED <<row, files, loader, reader>>
  BY DEF Manifest!Rename, Manifest!Complete
<1>2. /\ DOMAIN torrent' = {"content", "done"} /\ torrent'.content \in 0 .. MaxContent
      /\ torrent'.content >= torrent.content
      /\ torrent'.done \in BOOLEAN /\ (torrent.done => torrent'.done)
  <2>1. CASE Manifest!Rename
    BY <2>1 DEF Manifest!Rename, ManifestInv, ManifestShape, ManifestBounds, Manifest!Bounds
  <2>2. CASE Manifest!Complete
    BY <2>2 DEF Manifest!Complete, ManifestInv, ManifestShape, ManifestBounds, Manifest!Bounds
  <2> QED
    BY <2>1, <2>2
<1>3. row.content \in Nat /\ row.since \in Nat /\ torrent.content \in Nat
  BY DEF ManifestInv, ManifestShape, ManifestBounds, Manifest!Bounds
<1>4. ManifestShape'
  BY <1>1, <1>2, <1>3 DEF ManifestInv, ManifestShape
<1>5. PublishedOK'
  BY <1>1, <1>2, <1>3 DEF ManifestInv, PublishedOK, Manifest!Shown, Manifest!Available, Manifest!Listing
<1>6. StagedOK'
  BY <1>1, <1>2, <1>3 DEF ManifestInv, StagedOK
<1>7. ReaderOK'
  BY <1>1 DEF ManifestInv, ReaderOK, Manifest!Available, Manifest!ReadIsWholeOrEmpty, Manifest!Shown,
              Manifest!Listing
<1> QED
  BY <1>4, <1>5, <1>6, <1>7 DEF ManifestInv

\* A step that leaves the available files and the version alone keeps what was published and
\* what is being read.
LEMMA NotPublished ==
    ASSUME ManifestInv, row'.version = row.version, row'.state = "loaded" => row.state = "loaded",
           row.state = "loaded" /\ row'.state = "loaded" => row'.since = row.since,
           torrent' = torrent,
           \A f : f \in files' /\ f.available <=> f \in files /\ f.available,
           reader' = reader
    PROVE  PublishedOK' /\ ReaderOK'
<1>1. Manifest!Available(row.version)' = Manifest!Available(row.version)
  BY DEF Manifest!Available
<1>2. PublishedOK'
  <2>1. \A f \in files' : f.available => f.version = row'.version
    BY DEF ManifestInv, PublishedOK
  <2> QED
    BY <1>1, <2>1 DEF ManifestInv, PublishedOK, Manifest!Shown, Manifest!Listing
<1>3. ReaderOK'
  BY <1>1 DEF ManifestInv, ReaderOK, Manifest!ReadIsWholeOrEmpty, Manifest!Shown, Manifest!Listing
<1> QED
  BY <1>2, <1>3

\* project_torrent: what it changes of a loaded manifest makes it stale.
LEMMA ProjectManifest ==
    ASSUME ManifestBounds, ManifestInv, Manifest!Project
    PROVE  ManifestInv'
<1>1. UNCHANGED <<torrent, files, loader, reader>> /\ loader.pc = "idle"
  BY DEF Manifest!Project
<1>2. /\ DOMAIN row' = {"content", "since", "done", "version", "state"}
      /\ row'.content = torrent.content /\ row'.done = torrent.done /\ row'.version = row.version
      /\ row'.since = IF Manifest!FingerprintChanged THEN torrent.content ELSE row.since
      /\ row'.state = IF Manifest!ManifestNeeded THEN "stale" ELSE row.state
  BY DEF Manifest!Project, ManifestInv, ManifestShape
<1>3. row.state = "loaded" /\ row'.state = "loaded" => row'.since = row.since
  BY <1>2 DEF Manifest!ManifestNeeded, ManifestInv, ManifestShape
<1>4. row'.state = "loaded" => row.state = "loaded"
  BY <1>2
<1>5. PublishedOK' /\ ReaderOK'
  BY <1>1, <1>2, <1>3, <1>4, NotPublished
<1>6. ManifestShape'
  BY <1>1, <1>2, <1>3, <1>4 DEF ManifestInv, ManifestShape, ManifestBounds, Manifest!Bounds
<1>7. StagedOK'
  BY <1>1 DEF ManifestInv, StagedOK
<1> QED
  BY <1>5, <1>6, <1>7 DEF ManifestInv

\* prepare_qbit_manifest, torrent_files and the error path.
LEMMA LoadSteps ==
    ASSUME ManifestBounds, ManifestInv, Manifest!Prepare \/ Manifest!Fetch \/ Manifest!Fail
    PROVE  ManifestInv'
<1>1. UNCHANGED <<torrent, reader>>
  BY DEF Manifest!Prepare, Manifest!Fetch, Manifest!Fail
<1>2. CASE Manifest!Prepare
  <2>1. /\ DOMAIN row' = {"content", "since", "done", "version", "state"} /\ row'.state = "loading"
        /\ row'.content = row.content /\ row'.since = row.since /\ row'.done = row.done /\ row'.version = row.version
    BY <1>2 DEF Manifest!Prepare, ManifestInv, ManifestShape
  <2>2. /\ DOMAIN loader' = {"pc", "version", "content", "next"} /\ loader'.pc = "fetch"
        /\ loader'.version = row.version + 1 /\ loader'.next = 0
    BY <1>2 DEF Manifest!Prepare, Manifest!NoLoad
  <2>3. /\ \A f \in files : f.version = row.version + 1 => ~f.available
        /\ \A f \in files : /\ DOMAIN Manifest!Off(f) = DOMAIN f
                            /\ Manifest!Off(f).ordinal = f.ordinal
                            /\ Manifest!Off(f).available = FALSE
    BY DEF ManifestInv, ManifestShape, PublishedOK, Manifest!Off
  <2>4. files' = {IF f.version = row.version + 1 THEN Manifest!Off(f) ELSE f : f \in files}
    BY <1>2 DEF Manifest!Prepare
  <2>5. \A f : f \in files' /\ f.available <=> f \in files /\ f.available
    BY <2>3, <2>4
  <2>6. PublishedOK' /\ ReaderOK'
    BY <1>1, <2>1, <2>5, NotPublished
  <2>7. \A f \in files' : DOMAIN f = {"version", "ordinal", "content", "available"} /\ f.ordinal \in Nat
    BY <2>3, <2>4 DEF ManifestInv, ManifestShape
  <2>8. ManifestShape'
    BY <1>1, <2>1, <2>2, <2>7 DEF ManifestInv, ManifestShape
  <2>9. StagedOK'
    BY <2>1, <2>2 DEF StagedOK
  <2> QED
    BY <2>6, <2>8, <2>9 DEF ManifestInv
<1>3. CASE Manifest!Fetch
  <2>1. UNCHANGED <<row, files>> /\ loader.pc = "fetch"
    BY <1>3 DEF Manifest!Fetch
  <2>2. /\ DOMAIN loader' = {"pc", "version", "content", "next"} /\ loader'.pc = "stage"
        /\ loader'.version = loader.version /\ loader'.next = loader.next
        /\ loader'.content = torrent.content
    BY <1>3 DEF Manifest!Fetch, ManifestInv, ManifestShape
  <2>3. PublishedOK' /\ ReaderOK'
    BY <1>1, <2>1, NotPublished
  <2>4. ManifestShape'
    BY <1>1, <2>1, <2>2 DEF ManifestInv, ManifestShape
  <2>5. StagedOK'
    <3>1. loader.next = 0 /\ loader.version = row.version + 1
      BY <2>1 DEF ManifestInv, StagedOK
    <3>2. loader'.content \in row'.since .. torrent'.content
      BY <1>1, <2>1, <2>2 DEF ManifestInv, ManifestShape
    <3>3. \A f \in files : ~(f.ordinal < 0)
      BY DEF ManifestInv, ManifestShape
    <3> QED
      BY <2>1, <2>2, <3>1, <3>2, <3>3 DEF StagedOK
  <2> QED
    BY <2>3, <2>4, <2>5 DEF ManifestInv
<1>4. CASE Manifest!Fail
  <2>1. UNCHANGED files /\ loader' = Manifest!NoLoad
    BY <1>4 DEF Manifest!Fail
  <2>2. /\ DOMAIN row' = {"content", "since", "done", "version", "state"}
        /\ row'.content = row.content /\ row'.since = row.since /\ row'.done = row.done /\ row'.version = row.version
        /\ row'.state = "loaded" => row.state = "loaded"
    <3>1. CASE row' = row
      BY <3>1 DEF ManifestInv, ManifestShape
    <3>2. CASE row' = [row EXCEPT !.state = "stale"]
      BY <3>2 DEF ManifestInv, ManifestShape
    <3> QED
      BY <1>4, <3>1, <3>2 DEF Manifest!Fail
  <2>3. PublishedOK' /\ ReaderOK'
    BY <1>1, <2>1, <2>2, NotPublished
  <2>4. ManifestShape'
    BY <1>1, <2>1, <2>2 DEF ManifestInv, ManifestShape, Manifest!NoLoad
  <2>5. StagedOK'
    BY <2>1 DEF StagedOK, Manifest!NoLoad
  <2> QED
    BY <2>3, <2>4, <2>5 DEF ManifestInv
<1> QED
  BY <1>2, <1>3, <1>4

\* project_qbit_files: the next file of the listing, over what an earlier load has left.
LEMMA StageStep ==
    ASSUME ManifestBounds, ManifestInv, Manifest!Stage
    PROVE  ManifestInv'
<1> DEFINE new == [version |-> loader.version, ordinal |-> loader.next, content |-> loader.content,
                   available |-> FALSE]
<1>1. /\ UNCHANGED <<torrent, row, reader>> /\ loader.pc = "stage"
      /\ files' = {f \in files : f.version # loader.version \/ f.ordinal # loader.next} \cup {new}
  BY DEF Manifest!Stage
<1>2. /\ DOMAIN loader' = {"pc", "version", "content", "next"} /\ loader'.pc = "stage"
      /\ loader'.version = loader.version /\ loader'.content = loader.content
      /\ loader'.next = loader.next + 1
  BY <1>1 DEF Manifest!Stage, ManifestInv, ManifestShape
<1>3. loader.version = row.version + 1 /\ loader.next \in Nat /\ row.version \in Nat
  BY <1>1 DEF ManifestInv, StagedOK, ManifestShape
<1>4. /\ DOMAIN new = {"version", "ordinal", "content", "available"} /\ new.ordinal = loader.next
      /\ new.version = loader.version /\ new.content = loader.content /\ new.available = FALSE
  OBVIOUS
<1> HIDE DEF new
<1>5. \A f : f \in files' /\ f.available <=> f \in files /\ f.available
  <2>1. \A f \in files : f.available => f.version # loader.version
    BY <1>3 DEF ManifestInv, PublishedOK
  <2> QED
    BY <1>1, <1>4, <2>1
<1>6. PublishedOK' /\ ReaderOK'
  BY <1>1, <1>5, NotPublished
<1>7. ManifestShape'
  BY <1>1, <1>2, <1>3, <1>4 DEF ManifestInv, ManifestShape
<1>8. StagedOK'
  <2>1. \A f \in files' : f.version = loader.version /\ f.ordinal < loader.next + 1
                              => f.content = loader.content
    <3> SUFFICES ASSUME NEW f \in files', f.version = loader.version, f.ordinal < loader.next + 1
                 PROVE  f.content = loader.content
      OBVIOUS
    <3>1. CASE f = new
      BY <3>1, <1>4
    <3>2. CASE f # new
      <4>1. f \in files /\ f.ordinal # loader.next
        BY <1>1, <3>2
      <4>2. f.ordinal < loader.next
        BY <1>3, <4>1 DEF ManifestInv, ManifestShape
      <4> QED
        BY <1>1, <4>1, <4>2 DEF ManifestInv, StagedOK
    <3> QED
      BY <3>1, <3>2
  <2>2. \A i \in 0 .. (loader.next + 1) - 1 :
            \E f \in files' : f.version = loader.version /\ f.ordinal = i
    <3> SUFFICES ASSUME NEW i \in 0 .. (loader.next + 1) - 1
                 PROVE  \E f \in files' : f.version = loader.version /\ f.ordinal = i
      OBVIOUS
    <3>1. CASE i = loader.next
      BY <1>1, <1>4, <3>1
    <3>2. CASE i # loader.next
      <4>1. i \in 0 .. loader.next - 1
        BY <1>3, <3>2
      <4>2. PICK f \in files : f.version = loader.version /\ f.ordinal = i
        BY <1>1, <4>1 DEF ManifestInv, StagedOK
      <4> QED
        BY <1>1, <3>2, <4>2
    <3> QED
      BY <3>1, <3>2
  <2>3. loader'.content \in row'.since .. torrent'.content
    BY <1>1, <1>2 DEF ManifestInv, StagedOK
  <2> QED
    BY <1>1, <1>2, <1>3, <2>1, <2>2, <2>3 DEF StagedOK
<1> QED
  BY <1>6, <1>7, <1>8 DEF ManifestInv

\* finish_qbit_manifest: the whole listing becomes available, and nothing else is.
LEMMA PublishStep ==
    ASSUME ManifestBounds, ManifestInv, Manifest!Publish
    PROVE  ManifestInv'
<1> DEFINE v == loader.version
           c == loader.content
           On(f) == [f EXCEPT !.available = Manifest!PublishedFiles(f)]
<1>1. /\ UNCHANGED <<torrent, reader>> /\ loader.pc = "stage" /\ loader.next = Count[c]
      /\ loader' = Manifest!NoLoad /\ files' = {On(f) : f \in files}
  BY DEF Manifest!Publish
<1>2. /\ DOMAIN row' = {"content", "since", "done", "version", "state"} /\ row'.state = "loaded"
      /\ row'.content = row.content /\ row'.since = row.since /\ row'.done = row.done /\ row'.version = v
  BY DEF Manifest!Publish, ManifestInv, ManifestShape
<1>3. /\ v = row.version + 1 /\ row.version \in Nat /\ c \in row.since .. torrent.content
      /\ row.since \in Nat /\ torrent.content \in 0 .. MaxContent
      /\ \A f \in files : f.version = v /\ f.ordinal < loader.next => f.content = c
      /\ \A i \in 0 .. loader.next - 1 : \E f \in files : f.version = v /\ f.ordinal = i
  BY <1>1 DEF ManifestInv, ManifestShape, StagedOK, ManifestBounds, Manifest!Bounds
<1>4. c \in 0 .. torrent.content /\ Count[c] \in Nat
  BY <1>3 DEF ManifestBounds, Manifest!Bounds
<1>5. \A f \in files : /\ DOMAIN On(f) = {"version", "ordinal", "content", "available"}
                       /\ On(f).version = f.version /\ On(f).ordinal = f.ordinal
                       /\ On(f).content = f.content
                       /\ On(f).available <=> f.version = v /\ f.ordinal < Count[c]
                       /\ f.ordinal \in Nat
  BY Zenon DEF ManifestInv, ManifestShape, Manifest!PublishedFiles
<1> HIDE DEF On
<1>6. \A g \in files' : g.available => g.version = v
  BY <1>1, <1>5
<1>7. PublishedOK'
  <2>1. \A g \in files' : g.version = v /\ g.available
            => g.ordinal \in 0 .. Count[c] - 1 /\ g.content = c
    BY <1>1, <1>3, <1>4, <1>5
  <2>2. \A i \in 0 .. Count[c] - 1 :
            \E g \in files' : g.version = v /\ g.available /\ g.ordinal = i /\ g.content = c
    <3> SUFFICES ASSUME NEW i \in 0 .. Count[c] - 1
                 PROVE  \E g \in files' : g.version = v /\ g.available /\ g.ordinal = i /\ g.content = c
      OBVIOUS
    <3>1. PICK f \in files : f.version = v /\ f.ordinal = i
      BY <1>1, <1>3
    <3>2. i < Count[c]
      BY <1>4
    <3>3. On(f) \in files'
      BY <1>1
    <3> QED
      BY <1>1, <1>3, <1>5, <3>1, <3>2, <3>3
  <2> DEFINE available == {g \in files' : g.version = v /\ g.available}
  <2>3. {[ordinal |-> g.ordinal, content |-> g.content] : g \in available} = Manifest!Listing(c)
    BY <2>1, <2>2 DEF Manifest!Listing
  <2>4. Manifest!Shown(Manifest!Available(row.version))' = Manifest!Listing(c)
    BY <1>2, <2>3 DEF Manifest!Shown, Manifest!Available
  <2>5. row'.since <= c
    BY <1>2, <1>3
  <2> HIDE DEF v, c
  <2>6. \E d \in 0 .. torrent.content : /\ Manifest!Shown(Manifest!Available(row.version))' = Manifest!Listing(d)
                                  /\ row'.since <= d
    BY <1>4, <2>4, <2>5
  <2> QED
    BY <1>1, <1>2, <1>6, <2>6 DEF PublishedOK, Manifest!Listing
<1>8. ManifestShape'
  <2>1. \A g \in files' : DOMAIN g = {"version", "ordinal", "content", "available"} /\ g.ordinal \in Nat
    BY <1>1, <1>5
  <2> QED
    BY <1>1, <1>2, <1>3, <2>1 DEF ManifestInv, ManifestShape, Manifest!NoLoad
<1>9. StagedOK'
  BY <1>1 DEF StagedOK, Manifest!NoLoad
<1>10. ReaderOK'
  <2>1. ReaderOK
    BY DEF ManifestInv
  <2>2. reader.pc = "read" => /\ reader.version \in 1 .. row'.version
                             /\ reader.version # row'.version
    BY <1>2, <1>3, <2>1 DEF ReaderOK
  <2>3. Manifest!ReadIsWholeOrEmpty'
    BY <1>1, <2>1, Zenon DEF ReaderOK, Manifest!ReadIsWholeOrEmpty, Manifest!Shown, Manifest!Listing
  <2> QED
    BY <1>1, <2>2, <2>3 DEF ReaderOK
<1> QED
  BY <1>7, <1>8, <1>9, <1>10 DEF ManifestInv

\* The available files of a version that was published are one listing.
LEMMA PublishedListing ==
    ASSUME ManifestBounds, ManifestInv, row.version > 0
    PROVE  \E c \in 0 .. MaxContent : Manifest!Shown(Manifest!Available(row.version)) = Manifest!Listing(c)
<1>1. PICK c \in 0 .. torrent.content : Manifest!Shown(Manifest!Available(row.version)) = Manifest!Listing(c)
  BY DEF ManifestInv, PublishedOK
<1>2. c \in 0 .. MaxContent
  BY <1>1 DEF ManifestInv, ManifestShape, ManifestBounds, Manifest!Bounds
<1> QED
  BY <1>1, <1>2

\* candidate_sources and source_files: an evaluation reads the files of the version it has
\* counted, or finds none of it any more.
LEMMA ReaderStep ==
    ASSUME ManifestBounds, ManifestInv, Manifest!Reader
    PROVE  ManifestInv'
<1>1. UNCHANGED <<torrent, files, loader>>
  BY DEF Manifest!Reader, Manifest!ReadRow, Manifest!ReadFiles, Manifest!Again
<1>2. CASE Manifest!ReadRow
  <2>1. /\ DOMAIN row' = {"content", "since", "done", "version", "state"}
        /\ row'.content = row.content /\ row'.since = row.since /\ row'.done = row.done /\ row'.version = row.version
        /\ row'.state = "loaded" <=> row.state = "loaded"
    <3>1. CASE row' = row
      BY <3>1 DEF ManifestInv, ManifestShape
    <3>2. CASE row.state = "unloaded" /\ row' = [row EXCEPT !.state = "stale"]
      BY <3>2 DEF ManifestInv, ManifestShape
    <3> QED
      BY <1>2, <3>1, <3>2 DEF Manifest!ReadRow
  <2>2. /\ DOMAIN reader' = {"pc", "version", "count", "files"}
        /\ reader'.pc \in {"read", "waiting"} /\ reader'.version = row.version
        /\ reader'.pc = "read" => row.version > 0
        /\ reader'.count = Manifest!Cardinality(Manifest!Available(row.version))
    BY <1>2 DEF Manifest!ReadRow, Manifest!NoRead
  <2>3. ManifestShape'
    BY <1>1, <2>1, <2>2 DEF ManifestInv, ManifestShape
  <2>4. PublishedOK'
    BY <1>1, <2>1 DEF ManifestInv, PublishedOK, Manifest!Shown, Manifest!Available, Manifest!Listing
  <2>5. StagedOK'
    BY <1>1, <2>1 DEF ManifestInv, StagedOK
  <2>6. Manifest!Available(row.version)' = Manifest!Available(row.version)
    BY <1>1, <2>1 DEF Manifest!Available
  <2>7. row.version \in Nat
    BY DEF ManifestInv, ManifestShape
  <2>8. ReaderOK'
    BY <2>1, <2>2, <2>6, <2>7 DEF ReaderOK, Manifest!ReadIsWholeOrEmpty
  <2> QED
    BY <2>3, <2>4, <2>5, <2>8 DEF ManifestInv
<1>3. CASE Manifest!ReadFiles
  <2>1. UNCHANGED row /\ reader.pc = "read"
    BY <1>3 DEF Manifest!ReadFiles
  <2>2. /\ DOMAIN reader' = {"pc", "version", "count", "files"} /\ reader'.pc = "judged"
        /\ reader'.count = reader.count
        /\ reader'.files = Manifest!Available(reader.version)
    BY <1>3 DEF Manifest!ReadFiles, ManifestInv, ManifestShape
  <2>3. ManifestShape'
    BY <1>1, <2>1, <2>2 DEF ManifestInv, ManifestShape
  <2>4. PublishedOK' /\ StagedOK'
    BY <1>1, <2>1 DEF ManifestInv, PublishedOK, StagedOK, Manifest!Shown, Manifest!Available,
                      Manifest!Listing
  <2>5. CASE reader.version = row.version
    <3>1. reader'.count = Manifest!Cardinality(reader'.files)
      BY <2>1, <2>2, <2>5 DEF ManifestInv, ReaderOK
    <3>2. row.version > 0
      BY <2>1, <2>5 DEF ManifestInv, ManifestShape, ReaderOK
    <3>3. \E c \in 0 .. MaxContent : Manifest!Shown(reader'.files) = Manifest!Listing(c)
      BY <2>2, <2>5, <3>2, PublishedListing
    <3>4. Manifest!ReadIsWholeOrEmpty'
      BY <3>1, <3>3 DEF Manifest!ReadIsWholeOrEmpty, Manifest!Shown, Manifest!Listing
    <3> QED
      BY <2>2, <2>3, <2>4, <3>4 DEF ManifestInv, ReaderOK
  <2>6. CASE reader.version # row.version
    <3>1. reader'.files = {}
      BY <2>2, <2>6 DEF ManifestInv, PublishedOK, Manifest!Available
    <3> QED
      BY <2>2, <2>3, <2>4, <3>1 DEF ManifestInv, ReaderOK, Manifest!ReadIsWholeOrEmpty
  <2> QED
    BY <2>5, <2>6
<1>4. CASE Manifest!Again
  <2>1. UNCHANGED row /\ reader' = Manifest!NoRead
    BY <1>4 DEF Manifest!Again
  <2>2. ManifestShape'
    BY <1>1, <2>1 DEF ManifestInv, ManifestShape, Manifest!NoRead
  <2>3. PublishedOK' /\ StagedOK'
    BY <1>1, <2>1 DEF ManifestInv, PublishedOK, StagedOK, Manifest!Shown, Manifest!Available,
                      Manifest!Listing
  <2>4. ReaderOK'
    BY <2>1 DEF ReaderOK, Manifest!ReadIsWholeOrEmpty, Manifest!NoRead
  <2> QED
    BY <2>2, <2>3, <2>4 DEF ManifestInv
<1> QED
  BY <1>2, <1>3, <1>4 DEF Manifest!Reader

\* Every step of the loop, qBittorrent and the evaluation keeps the invariant.
LEMMA ManifestNext ==
    ASSUME ManifestBounds, ManifestInv, [Manifest!Next]_manifestVars
    PROVE  ManifestInv'
<1>1. CASE Manifest!Next
  BY <1>1, TorrentStep, ProjectManifest, LoadSteps, StageStep, PublishStep, ReaderStep
     DEF Manifest!Next, Manifest!Loop
<1>2. CASE UNCHANGED manifestVars
  <2>1. UNCHANGED <<row, torrent, files, loader, reader>>
    BY <1>2 DEF manifestVars
  <2>2. ManifestShape' /\ StagedOK'
    BY <2>1 DEF ManifestInv, ManifestShape, StagedOK
  <2>3. PublishedOK'
    BY <2>1, Zenon DEF ManifestInv, PublishedOK, Manifest!Available, Manifest!Shown, Manifest!Listing
  <2>4. ReaderOK'
    BY <2>1, Zenon DEF ManifestInv, ReaderOK, Manifest!Available, Manifest!Shown, Manifest!Listing,
                       Manifest!ReadIsWholeOrEmpty
  <2> QED
    BY <2>2, <2>3, <2>4 DEF ManifestInv
<1> QED
  BY <1>1, <1>2

\* The whole listing of the row's version is what is available, of any version.
LEMMA ManifestImplies ==
    ASSUME ManifestBounds, ManifestInv
    PROVE  Manifest!WholeListings /\ Manifest!LoadedAfterLastChange
<1>1. {f \in files : f.available} = Manifest!Available(row.version)
  BY DEF ManifestInv, PublishedOK, Manifest!Available
<1>2. Manifest!WholeListings
  BY <1>1, PublishedListing
     DEF Manifest!WholeListings, Manifest!PublishedIsOneListing, ManifestInv, ReaderOK
<1>3. Manifest!LoadedAfterLastChange
  <2> SUFFICES ASSUME row.state = "loaded"
               PROVE  \E c \in row.since .. torrent.content :
                          Manifest!Shown(Manifest!Available(row.version)) = Manifest!Listing(c)
    BY DEF Manifest!LoadedAfterLastChange
  <2>1. PICK c \in 0 .. torrent.content :
               /\ Manifest!Shown(Manifest!Available(row.version)) = Manifest!Listing(c)
               /\ row.since <= c
    BY DEF ManifestInv, ManifestShape, PublishedOK
  <2>2. c \in row.since .. torrent.content
    BY <2>1 DEF ManifestInv, ManifestShape
  <2> QED
    BY <2>1, <2>2
<1> QED
  BY <1>2, <1>3

\* finish_qbit_manifest and source_files, for any contents, sizes of a listing and number of
\* failures: what is published is one whole listing, and what an evaluation judges is one, or
\* nothing.
THEOREM ListingsAreWhole ==
    ASSUME ManifestBounds
    PROVE  Manifest!Spec => []WholeListings
<1>1. ManifestInv /\ [Manifest!Next]_Manifest!vars => ManifestInv'
  BY ManifestNext DEF Manifest!vars, manifestVars
<1>2. Manifest!Init => ManifestInv
  BY ManifestInit
<1>3. ManifestInv => WholeListings
  BY ManifestImplies DEF WholeListings
<1> QED
  BY <1>1, <1>2, <1>3, PTL DEF Manifest!Spec

\* project_torrent and finish_qbit_manifest: a manifest that counts as loaded is no older than
\* the last change of the fingerprint that the projection has seen, whatever the fingerprint
\* of a content is.
THEOREM ChangesAreLoadedAgain ==
    ASSUME ManifestBounds
    PROVE  Manifest!Spec => []LoadedAfterLastChange
<1>1. ManifestInv /\ [Manifest!Next]_Manifest!vars => ManifestInv'
  BY ManifestNext DEF Manifest!vars, manifestVars
<1>2. Manifest!Init => ManifestInv
  BY ManifestInit
<1>3. ManifestInv => LoadedAfterLastChange
  BY ManifestImplies DEF LoadedAfterLastChange
<1> QED
  BY <1>1, <1>2, <1>3, PTL DEF Manifest!Spec
=============================================================================
