---------------------------- MODULE SearchProofs ----------------------------
(***************************************************************************)
(* Searches for any number of attempts and indexers, results and delays:   *)
(* the indexer's limit, the task's state, and the count of candidates.     *)
(* Backfills for any number of torrents and any page size: what they cover.*)
(***************************************************************************)
EXTENDS Searches, FiniteSetTheorems, WellFoundedInduction, TLAPS

Below(ordinals, n) == {o \in ordinals : o < n}

\* The shape of an execution.
Execution(e) ==
    /\ DOMAIN e = {"pc", "age", "left", "ordinal", "downloaded", "reason", "delay"}
    /\ e.age \in Nat /\ e.ordinal \in Nat /\ e.downloaded \in Nat

ExecOK ==
    /\ exec = [a \in Attempts |-> exec[a]]
    /\ \A a \in Attempts : Execution(exec[a])

\* The row of an indexer is earlier than the end of what has been imposed on its searches by
\* no more than the search that was given it had been under way.
LimitOK ==
    /\ limit = [i \in Indexers |-> limit[i]]
    /\ imposed = [i \in Indexers |-> imposed[i]]
    /\ lag = [i \in Indexers |-> lag[i]]
    /\ \A i \in Indexers :
          /\ limit[i] \in Int /\ imposed[i] \in Nat /\ lag[i] \in Nat
          /\ imposed[i] = 0 \/ imposed[i] - lag[i] <= limit[i]

TaskOK ==
    /\ task = [a \in Attempts |-> task[a]]
    /\ \A a \in Attempts : DOMAIN task[a] = {"state", "terminal"} /\ task[a].terminal \in BOOLEAN
    /\ TerminalStateIsTerminal

\* The summaries of an attempt, and what it has counted.
CountOK ==
    /\ attempt = [a \in Attempts |-> attempt[a]]
    /\ linked = [a \in Attempts |-> linked[a]]
    /\ \A a \in Attempts :
          /\ DOMAIN attempt[a] = {"waits", "downloaded"}
          /\ attempt[a].downloaded \in Nat
          /\ linked[a] \subseteq Nat /\ IsFiniteSet(linked[a])
          /\ attempt[a].downloaded <= Cardinality(linked[a])

\* What a running execution has counted so far is linked below the ordinal it is at: the
\* ordinals only grow, so that a download never counts a row a second time.
Counted(e, ordinals) ==
    /\ e.pc \in {"permit", "prepare", "claim", "mark", "request"} => e.downloaded = 0
    /\ e.pc = "judge" => e.downloaded <= Cardinality(Below(ordinals, e.ordinal + 1))
    /\ e.pc \in {"download", "refused"} => e.downloaded <= Cardinality(Below(ordinals, e.ordinal))
    /\ e.pc = "accepted" => e.downloaded <= Cardinality(Below(ordinals, e.ordinal)) + 1
    /\ e.pc = "finish_attempt" => e.downloaded <= Cardinality(ordinals)

RunningOK == \A a \in Attempts : Counted(exec[a], linked[a])

IInv == ExecOK /\ LimitOK /\ TaskOK /\ CountOK /\ RunningOK

-----------------------------------------------------------------------------

\* Counting the linked rows below an ordinal.
LEMMA BelowCounts ==
    ASSUME NEW S, S \subseteq Nat, IsFiniteSet(S), NEW n \in Nat
    PROVE  /\ Cardinality(S) \in Nat
           /\ Cardinality(Below(S, n)) \in Nat
           /\ Cardinality(Below(S, n)) <= Cardinality(Below(S, n + 1))
           /\ Cardinality(Below(S, n)) <= Cardinality(S)
           /\ Cardinality(Below(S \cup {n}, n + 1)) = Cardinality(Below(S, n)) + 1
<1>1. Below(S, n) \subseteq Below(S, n + 1) /\ Below(S, n + 1) \subseteq S
  <2>1. \A o \in Nat : o < n => o < n + 1
    OBVIOUS
  <2> QED
    BY <2>1, Zenon DEF Below
<1>2. IsFiniteSet(Below(S, n + 1)) /\ IsFiniteSet(Below(S, n))
  BY <1>1, FS_Subset
<1>3. /\ Cardinality(Below(S, n + 1)) \in Nat /\ Cardinality(Below(S, n)) \in Nat
      /\ Cardinality(S) \in Nat
  BY <1>2, FS_CardinalityType
<1>4. /\ Cardinality(Below(S, n)) <= Cardinality(Below(S, n + 1))
      /\ Cardinality(Below(S, n + 1)) <= Cardinality(S)
  BY <1>1, <1>2, FS_Subset
<1>5. Below(S \cup {n}, n + 1) = Below(S, n) \cup {n} /\ n \notin Below(S, n)
  <2>1. \A o \in Nat : o < n + 1 <=> o < n \/ o = n
    OBVIOUS
  <2>2. ~(n < n) /\ n < n + 1
    OBVIOUS
  <2>3. \A o : o \in Below(S \cup {n}, n + 1) <=> o \in Below(S, n) \cup {n}
    BY <2>1, <2>2, Zenon DEF Below
  <2> QED
    BY <2>2, <2>3 DEF Below
<1>6. Cardinality(Below(S, n) \cup {n}) = Cardinality(Below(S, n)) + 1
  BY <1>2, <1>5, FS_AddElement, Zenon
<1> QED
  BY <1>3, <1>4, <1>5, <1>6

\* Linking another row keeps the sets finite and loses none.
LEMMA LinkedGrows ==
    ASSUME NEW S, S \subseteq Nat, IsFiniteSet(S), NEW n \in Nat
    PROVE  /\ S \cup {n} \subseteq Nat
           /\ IsFiniteSet(S \cup {n})
           /\ Cardinality(S) \in Nat
           /\ Cardinality(S \cup {n}) \in Nat
           /\ Cardinality(S) <= Cardinality(S \cup {n})
<1>1. IsFiniteSet(S \cup {n})
  BY FS_AddElement
<1> QED
  BY <1>1, FS_Subset, FS_CardinalityType

\* Initially nothing has been imposed, counted or linked.
LEMMA InitInv == Init => IInv
<1> SUFFICES ASSUME Init PROVE IInv
  OBVIOUS
<1>1. ExecOK
  BY DEF Init, ExecOK, Execution, Idle
<1>2. LimitOK
  BY SearchAssumption DEF Init, LimitOK, Past
<1>3. TaskOK
  BY Zenon DEF Init, TaskOK, TerminalStateIsTerminal, Terminal
<1>4. CountOK
  BY FS_EmptySet DEF Init, CountOK
<1>5. RunningOK
  BY DEF Init, RunningOK, Counted, Idle
<1> QED
  BY <1>1, <1>2, <1>3, <1>4, <1>5 DEF IInv

\* A step that touches no row of the database keeps what is said of the rows.
LEMMA RowsStay ==
    ASSUME IInv, UNCHANGED <<limit, imposed, lag, task, attempt, linked>>
    PROVE  LimitOK' /\ TaskOK' /\ CountOK'
BY DEF IInv, LimitOK, TaskOK, CountOK, TerminalStateIsTerminal

\* One execution moves, and the rows of the others stay.
LEMMA OneMoves ==
    ASSUME IInv, NEW a \in Attempts, NEW e, exec' = [exec EXCEPT ![a] = e], linked' = linked,
           Execution(e), Counted(e, linked[a])
    PROVE  ExecOK' /\ RunningOK'
BY DEF IInv, ExecOK, RunningOK

\* An execution that has just begun, or that has ended, has nothing counted.
LEMMA IdleCounts ==
    /\ Execution(Idle) /\ \A ordinals : Counted(Idle, ordinals)
    /\ \A ordinals : LET e == [Idle EXCEPT !.pc = "permit"] IN Execution(e) /\ Counted(e, ordinals)
    /\ \A ordinals, delay :
          LET e == [Idle EXCEPT !.pc = "wait_attempt", !.delay = delay]
          IN  Execution(e) /\ Counted(e, ordinals)
    /\ \A ordinals, reason : \A downloaded \in Nat :
          LET e == [Idle EXCEPT !.pc = "finish_attempt", !.reason = reason, !.downloaded = downloaded]
          IN  Execution(e) /\ (downloaded <= Cardinality(ordinals) => Counted(e, ordinals))
BY DEF Idle, Execution, Counted

\* A step to a place at which nothing more is known of the count.
LEMMA GotoCounts ==
    ASSUME NEW e, Execution(e), NEW ordinals, Counted(e, ordinals),
           NEW pc \in {"prepare", "claim", "mark", "request", "finish_task", "ended", "wait_task", "waits"},
           pc \in {"prepare", "claim", "mark", "request"}
               => e.pc \in {"permit", "prepare", "claim", "mark"}
    PROVE  LET f == [e EXCEPT !.pc = pc] IN Execution(f) /\ Counted(f, ordinals)
BY DEF Execution, Counted

\* What is counted, as a number.
LEMMA Numbers ==
    ASSUME IInv, NEW a \in Attempts
    PROVE  /\ exec[a].ordinal \in Nat /\ exec[a].downloaded \in Nat /\ exec[a].age \in Nat
           /\ Execution(exec[a]) /\ Counted(exec[a], linked[a])
           /\ linked[a] \subseteq Nat /\ IsFiniteSet(linked[a])
           /\ exec = [b \in Attempts |-> exec[b]]
BY DEF IInv, ExecOK, Execution, CountOK, RunningOK

\* The steps of an execution that only read keep what it has counted.
LEMMA ReadStep ==
    ASSUME IInv, NEW a \in Attempts,
           \/ Dispatch(a) \/ Permit(a) \/ Prepare(a) \/ Listed(a) \/ InvalidResponse(a)
           \/ Judge(a) \/ Download(a) \/ AllJudged(a) \/ Return(a) \/ TimerFires(a)
    PROVE  IInv'
<1> DEFINE n == exec[a].ordinal
           S == linked[a]
           d == exec[a].downloaded
<1>1. UNCHANGED <<limit, imposed, lag, task, attempt, linked>>
  BY DEF Dispatch, Permit, Prepare, Listed, InvalidResponse, Judge, Download, AllJudged, Return,
         TimerFires, rows
<1> SUFFICES ExecOK' /\ RunningOK'
  BY <1>1, RowsStay DEF IInv
<1>2. /\ Execution(exec[a]) /\ Counted(exec[a], S) /\ n \in Nat /\ d \in Nat
      /\ exec = [b \in Attempts |-> exec[b]]
  BY Numbers
<1>3. S \subseteq Nat /\ IsFiniteSet(S) /\ n + 1 \in Nat /\ n + 1 + 1 \in Nat
  BY Numbers
<1>4. /\ Cardinality(S) \in Nat
      /\ Cardinality(Below(S, n)) \in Nat
      /\ Cardinality(Below(S, n)) <= Cardinality(Below(S, n + 1))
  BY <1>2, <1>3, BelowCounts, Zenon
<1>5. /\ Cardinality(Below(S, n + 1)) \in Nat
      /\ Cardinality(Below(S, n + 1)) <= Cardinality(Below(S, n + 1 + 1))
      /\ Cardinality(Below(S, n + 1)) <= Cardinality(S)
  BY <1>3, BelowCounts, Zenon
<1>6. Cardinality(Below(S, n + 1 + 1)) \in Nat
  BY <1>3, BelowCounts, Zenon
<1>7. CASE Dispatch(a) \/ Return(a)
  <2>1. exec' = [exec EXCEPT ![a] = Idle] \/ exec' = [exec EXCEPT ![a] = [Idle EXCEPT !.pc = "permit"]]
    BY <1>7 DEF Dispatch, Return
  <2> QED
    BY <1>1, <2>1, OneMoves, IdleCounts, Zenon
<1>8. CASE Permit(a)
  <2>1. exec' = [exec EXCEPT ![a] = [exec[a] EXCEPT !.pc = "prepare"]] /\ exec[a].pc = "permit"
    BY <1>8 DEF Permit, Goto
  <2> QED
    BY <1>1, <1>2, <2>1, OneMoves, GotoCounts, Zenon
<1>9. CASE TimerFires(a)
  BY <1>1, <1>9 DEF TimerFires, IInv, ExecOK, RunningOK
<1>10. CASE Prepare(a) \/ InvalidResponse(a) \/ AllJudged(a)
  <2>1. CASE Prepare(a) /\ exec' = [exec EXCEPT ![a] = [exec[a] EXCEPT !.pc = "claim"]]
    <3>1. exec[a].pc = "prepare"
      BY <2>1 DEF Prepare
    <3> QED
      BY <1>1, <1>2, <2>1, <3>1, OneMoves, GotoCounts, Zenon
  <2>2. ASSUME NEW reason, exec' = [exec EXCEPT ![a] = [Idle EXCEPT !.pc = "finish_attempt",
                                      !.reason = reason, !.downloaded = d]]
        PROVE  ExecOK' /\ RunningOK'
    <3>1. d <= Cardinality(S)
      BY <1>2, <1>4, <1>5, <1>10 DEF Counted, Prepare, InvalidResponse, AllJudged
    <3> DEFINE e == [Idle EXCEPT !.pc = "finish_attempt", !.reason = reason, !.downloaded = d]
    <3>2. Execution(e) /\ Counted(e, S)
      BY <1>2, <3>1, IdleCounts, Zenon
    <3> HIDE DEF e
    <3>3. exec' = [exec EXCEPT ![a] = e]
      BY <2>2 DEF e
    <3> QED
      BY <1>1, <3>2, <3>3, OneMoves, Zenon
  <2> QED
    BY <1>10, <2>1, <2>2, Zenon DEF Prepare, InvalidResponse, AllJudged, FinishWith, Goto
<1>11. CASE Listed(a)
  <2>1. PICK results : exec' = [exec EXCEPT ![a] = [exec[a] EXCEPT !.pc = "judge", !.left = results]]
    BY <1>11, Zenon DEF Listed
  <2> DEFINE e == [exec[a] EXCEPT !.pc = "judge", !.left = results]
  <2>2. d = 0
    BY <1>2, <1>11, Zenon DEF Counted, Listed
  <2>3. Execution(e) /\ Counted(e, S)
    BY <1>2, <1>5, <2>2 DEF Execution, Counted
  <2> QED
    BY <1>1, <2>1, <2>3, OneMoves, Zenon
<1>12. CASE Judge(a)
  <2>1. d <= Cardinality(Below(S, n + 1))
    BY <1>2, <1>12 DEF Counted, Judge
  <2>2. CASE exec' = [exec EXCEPT ![a] = [exec[a] EXCEPT !.ordinal = n + 1, !.pc = "download"]]
    <3> DEFINE e == [exec[a] EXCEPT !.ordinal = n + 1, !.pc = "download"]
    <3>1. Execution(e) /\ Counted(e, S)
      BY <1>2, <1>3, <2>1 DEF Execution, Counted
    <3> QED
      BY <1>1, <2>2, <3>1, OneMoves, Zenon
  <2>3. ASSUME NEW left, exec' = [exec EXCEPT ![a] = [exec[a] EXCEPT !.ordinal = n + 1, !.left = left]]
        PROVE  ExecOK' /\ RunningOK'
    <3> DEFINE e == [exec[a] EXCEPT !.ordinal = n + 1, !.left = left]
    <3>1. e.pc = "judge" /\ e.ordinal = n + 1 /\ e.downloaded = d /\ Execution(e)
      BY <1>2, <1>3, <1>12 DEF Execution, Judge
    <3> HIDE DEF e
    <3>2. Counted(e, S)
      BY <1>2, <1>5, <1>6, <2>1, <3>1 DEF Counted
    <3>3. exec' = [exec EXCEPT ![a] = e]
      BY <2>3 DEF e
    <3> QED
      BY <1>1, <3>1, <3>2, <3>3, OneMoves, Zenon
  <2> QED
    BY <1>12, <2>2, <2>3, Zenon DEF Judge
<1>13. CASE Download(a)
  <2>1. d <= Cardinality(Below(S, n))
    BY <1>2, <1>13 DEF Counted, Download
  <2>2. CASE exec' = [exec EXCEPT ![a] = [exec[a] EXCEPT !.pc = "accepted", !.downloaded = d + 1]]
    <3> DEFINE e == [exec[a] EXCEPT !.pc = "accepted", !.downloaded = d + 1]
    <3>1. Execution(e) /\ Counted(e, S)
      BY <1>2, <1>4, <2>1 DEF Execution, Counted
    <3> QED
      BY <1>1, <2>2, <3>1, OneMoves, Zenon
  <2>3. CASE exec' = [exec EXCEPT ![a] = [exec[a] EXCEPT !.pc = "refused"]]
    <3> DEFINE e == [exec[a] EXCEPT !.pc = "refused"]
    <3>1. Execution(e) /\ Counted(e, S)
      BY <1>2, <2>1 DEF Execution, Counted
    <3> QED
      BY <1>1, <2>3, <3>1, OneMoves, Zenon
  <2> QED
    BY <1>13, <2>2, <2>3, Zenon DEF Download
<1> QED
  BY <1>7, <1>8, <1>9, <1>10, <1>11, <1>12, <1>13

\* A row moves to a later instant, in the time of a search, and that search is told so.
LEMMA MovedTogether ==
    ASSUME LimitOK, NEW i \in Indexers, NEW gap \in Nat, NEW age \in Nat,
           limit' = [limit EXCEPT ![i] = MaxOf(limit[i], gap - age)],
           Impose(i, gap, age)
    PROVE  LimitOK'
<1>1. /\ limit' = [j \in Indexers |-> limit'[j]] /\ limit'[i] = MaxOf(limit[i], gap - age)
      /\ \A j \in Indexers : j # i => limit'[j] = limit[j]
  BY Zenon DEF LimitOK
<1>2. /\ limit[i] \in Int /\ imposed[i] \in Nat /\ lag[i] \in Nat
      /\ imposed[i] = 0 \/ imposed[i] - lag[i] <= limit[i]
  BY DEF LimitOK
<1>3. limit'[i] \in Int /\ limit'[i] >= limit[i] /\ limit'[i] >= gap - age
  BY <1>1, <1>2 DEF MaxOf
<1>4. CASE imposed' = [imposed EXCEPT ![i] = gap] /\ lag' = [lag EXCEPT ![i] = age]
  <2>1. /\ imposed' = [j \in Indexers |-> imposed'[j]] /\ lag' = [j \in Indexers |-> lag'[j]]
        /\ imposed'[i] = gap /\ lag'[i] = age
        /\ \A j \in Indexers : j # i => imposed'[j] = imposed[j] /\ lag'[j] = lag[j]
    BY <1>4, Zenon DEF LimitOK
  <2> QED
    BY <1>1, <1>3, <2>1 DEF LimitOK
<1>5. CASE UNCHANGED <<imposed, lag>>
  <2>1. imposed[i] = 0 \/ imposed[i] - lag[i] <= limit'[i]
    BY <1>2, <1>3
  <2> QED
    BY <1>1, <1>3, <1>5, <2>1 DEF LimitOK
<1> QED
  BY <1>4, <1>5 DEF Impose

\* A claim in the time of the execution, a penalty and the requests of others: the row moves
\* at least as far as what is imposed.
LEMMA LimitStep ==
    ASSUME IInv, NEW a \in Attempts, Claim(a) \/ DependencyError(a)
    PROVE  IInv'
<1>1. UNCHANGED <<task, attempt, linked>> /\ IndexerOf[a] \in Indexers
  BY SearchAssumption DEF Claim, DependencyError, rows
<1>2. TaskOK' /\ CountOK'
  BY <1>1 DEF IInv, TaskOK, CountOK, TerminalStateIsTerminal
<1>3. CASE Claim(a)
  <2>1. LimitOK'
    <3> DEFINE i == IndexerOf[a]
               age == exec[a].age
    <3>1. i \in Indexers /\ age \in Nat /\ limit[i] \in Int /\ LimitOK
      BY <1>1, Numbers DEF IInv, LimitOK
    <3>2. CASE UNCHANGED <<limit, imposed, lag>>
      BY <3>1, <3>2 DEF LimitOK
    <3>3. CASE ~(limit[i] > -age) /\ limit' = [limit EXCEPT ![i] = -age + 1] /\ Impose(i, 1, age)
      <4>1. MaxOf(limit[i], 1 - age) = -age + 1
        BY <3>1, <3>3 DEF MaxOf
      <4> HIDE DEF i, age
      <4> QED
        BY <3>1, <3>3, <4>1, MovedTogether
    <3> QED
      BY <1>3, <3>2, <3>3, Zenon DEF Claim
  <2>2. \/ exec' = [exec EXCEPT ![a] = [exec[a] EXCEPT !.pc = "mark"]]
        \/ \E delay : exec' = [exec EXCEPT ![a] = [Idle EXCEPT !.pc = "wait_attempt", !.delay = delay]]
    BY <1>3, Zenon DEF Claim, Goto, WaitFor
  <2>3. exec[a].pc = "claim"
    BY <1>3 DEF Claim
  <2>4. ExecOK' /\ RunningOK'
    BY <1>1, <2>2, <2>3, Numbers, OneMoves, GotoCounts, IdleCounts, Zenon
  <2> QED
    BY <1>2, <2>1, <2>4 DEF IInv
<1>4. CASE DependencyError(a)
  <2>1. PICK retryAfter \in RetryAfters, calculated \in Calculated(attempt[a].waits + 1) :
            LET wanted == IF retryAfter = None THEN calculated ELSE MaxOf(retryAfter, calculated)
                delay == MaxOf(wanted, 1)
                next == delay - exec[a].age
            IN  /\ Penalty(IndexerOf[a], next)
                /\ Impose(IndexerOf[a], delay, exec[a].age)
                /\ WaitFor(a, delay)
    BY <1>4, Zenon DEF DependencyError
  <2>2. calculated \in Int
    BY <2>1, SearchAssumption DEF Calculated
  <2> DEFINE delay == MaxOf(IF retryAfter = None THEN calculated ELSE MaxOf(retryAfter, calculated), 1)
  <2>3. delay \in Nat
    BY <2>2, SearchAssumption DEF MaxOf
  <2> DEFINE i == IndexerOf[a]
             age == exec[a].age
  <2>4. /\ limit' = [limit EXCEPT ![i] = MaxOf(limit[i], delay - age)]
        /\ Impose(i, delay, age)
        /\ WaitFor(a, delay)
    BY <2>1 DEF Penalty
  <2>4a. age \in Nat /\ i \in Indexers /\ LimitOK
    BY <1>1, Numbers DEF IInv
  <2> HIDE DEF delay, age, i
  <2>5. LimitOK'
    BY <2>3, <2>4, <2>4a, MovedTogether, Zenon
  <2>6. ExecOK' /\ RunningOK'
    BY <1>1, <2>4, OneMoves, IdleCounts, Zenon DEF WaitFor
  <2> QED
    BY <1>2, <2>5, <2>6 DEF IInv
<1> QED
  BY <1>3, <1>4

\* Other searches of an indexer, in times of their own.
LEMMA OthersStep ==
    ASSUME IInv, NEW i \in Indexers, OthersClaim(i) \/ OthersFail(i)
    PROVE  IInv'
<1>1. UNCHANGED <<exec, task, attempt, linked>>
  BY DEF OthersClaim, OthersFail, rows
<1>2. TaskOK' /\ CountOK' /\ ExecOK' /\ RunningOK'
  BY <1>1 DEF IInv, TaskOK, CountOK, TerminalStateIsTerminal, ExecOK, RunningOK
<1>3. CASE OthersClaim(i)
  <2>1. PICK age \in 0 .. MaxAge : /\ limit[i] <= -age
                                   /\ limit' = [limit EXCEPT ![i] = 1 - age]
                                   /\ Impose(i, 1, age)
    BY <1>3, Zenon DEF OthersClaim
  <2>2. age \in Nat /\ limit[i] \in Int /\ LimitOK
    BY SearchAssumption DEF IInv, LimitOK
  <2>3. MaxOf(limit[i], 1 - age) = 1 - age
    BY <2>1, <2>2 DEF MaxOf
  <2>4. limit' = [limit EXCEPT ![i] = MaxOf(limit[i], 1 - age)]
    BY <2>1, <2>3, Zenon
  <2>5. LimitOK'
    BY <2>1, <2>2, <2>4, MovedTogether
  <2> QED
    BY <1>2, <2>5 DEF IInv
<1>4. CASE OthersFail(i)
  <2>1. PICK age \in 0 .. MaxAge, delay \in Calculated(1) \cup (RetryAfters \ {None}) :
            /\ limit' = [limit EXCEPT ![i] = MaxOf(@, delay - age)]
            /\ Impose(i, delay, age)
    BY <1>4, Zenon DEF OthersFail, Penalty
  <2>2. delay \in Nat /\ age \in Nat /\ LimitOK
    BY SearchAssumption DEF Calculated, IInv
  <2>3. LimitOK'
    BY <2>1, <2>2, MovedTogether
  <2> QED
    BY <1>2, <2>3 DEF IInv
<1> QED
  BY <1>3, <1>4

\* Summarize links the ordinal of an accepted download, which no earlier one of the
\* execution has.
LEMMA SummarizeStep ==
    ASSUME IInv, NEW a \in Attempts, Summarize(a)
    PROVE  IInv'
<1> DEFINE n == exec[a].ordinal
           S == linked[a]
<1>1. UNCHANGED <<limit, imposed, lag, task, attempt>> /\ LimitOK' /\ TaskOK'
  BY DEF IInv, Summarize, rows, LimitOK, TaskOK, TerminalStateIsTerminal
<1>2. S \subseteq Nat /\ IsFiniteSet(S) /\ n \in Nat /\ exec[a].downloaded \in Nat
  BY Numbers
<1>3. /\ Cardinality(Below(S, n)) \in Nat
      /\ Cardinality(Below(S, n)) <= Cardinality(Below(S, n + 1))
      /\ Cardinality(Below(S, n + 1)) \in Nat
      /\ Cardinality(Below(S \cup {n}, n + 1)) = Cardinality(Below(S, n)) + 1
  <2>1. n + 1 \in Nat
    BY <1>2
  <2> QED
    BY <1>2, <2>1, BelowCounts, Zenon
<1>4. /\ S \cup {n} \subseteq Nat /\ IsFiniteSet(S \cup {n})
      /\ Cardinality(S) \in Nat /\ Cardinality(S \cup {n}) \in Nat
      /\ Cardinality(S) <= Cardinality(S \cup {n})
  BY <1>2, LinkedGrows
<1>5. linked'[a] = IF exec[a].pc = "accepted" THEN S \cup {n} ELSE S
  BY DEF Summarize, Summary, IInv, CountOK
<1>6. CountOK'
  <2>1. /\ attempt[a].downloaded \in Nat /\ attempt[a].downloaded <= Cardinality(S)
        /\ linked' = [b \in Attempts |-> linked'[b]]
        /\ \A b \in Attempts \ {a} : linked'[b] = linked[b]
    BY DEF IInv, CountOK, Summarize
  <2>2. /\ linked'[a] \subseteq Nat /\ IsFiniteSet(linked'[a])
        /\ attempt[a].downloaded <= Cardinality(linked'[a])
    BY <1>2, <1>4, <1>5, <2>1
  <2> QED
    BY <1>1, <2>1, <2>2 DEF IInv, CountOK
<1>7. PICK left : exec' = [exec EXCEPT ![a] = [exec[a] EXCEPT !.pc = "judge", !.left = left]]
  BY Zenon DEF Summarize
<1> DEFINE e == [exec[a] EXCEPT !.pc = "judge", !.left = left]
<1>8. Execution(e) /\ e.pc = "judge" /\ e.ordinal = n /\ e.downloaded = exec[a].downloaded
  BY Numbers DEF Execution
<1>9. exec[a].downloaded <= Cardinality(Below(linked'[a], n + 1))
  BY <1>2, <1>3, <1>5, Numbers DEF Counted, Summarize
<1> HIDE DEF e
<1>10. Counted(e, linked'[a])
  BY <1>8, <1>9 DEF Counted
<1>11. \A b \in Attempts \ {a} : exec'[b] = exec[b] /\ linked'[b] = linked[b]
  BY <1>7 DEF IInv, ExecOK, CountOK, Summarize
<1>12. exec' = [exec EXCEPT ![a] = e]
  BY <1>7 DEF e
<1>13. ExecOK' /\ RunningOK'
  BY <1>8, <1>10, <1>11, <1>12 DEF IInv, ExecOK, RunningOK
<1> QED
  BY <1>1, <1>6, <1>13 DEF IInv

\* The steps that write the task: a terminal state is left only by finish, which writes
\* another one together with terminal_at.
LEMMA TaskStep ==
    ASSUME IInv, NEW a \in Attempts,
           MarkSearching(a) \/ Finish(a) \/ Wait(a) \/ ActivityFails(a) \/ Cancel(a)
    PROVE  TaskOK'
<1>1. task' = task \/ \E state :
          \/ task' = [task EXCEPT ![a].state = IF task[a].terminal THEN @ ELSE state]
             /\ state \in {"searching", "waiting_dependency"}
          \/ task' = [task EXCEPT ![a] = [state |-> state, terminal |-> TRUE]] /\ state \in Terminal
  BY DEF MarkSearching, Finish, Wait, WaitingTask, ActivityFails, Cancel, Terminal, IInv, TaskOK
<1>2. CASE task' = task
  BY <1>2 DEF IInv, TaskOK, TerminalStateIsTerminal
<1>3. ASSUME NEW state \in {"searching", "waiting_dependency"},
             task' = [task EXCEPT ![a].state = IF task[a].terminal THEN @ ELSE state]
      PROVE  TaskOK'
  BY <1>3 DEF IInv, TaskOK, TerminalStateIsTerminal, Terminal
<1>4. ASSUME NEW state \in Terminal, task' = [task EXCEPT ![a] = [state |-> state, terminal |-> TRUE]]
      PROVE  TaskOK'
  BY <1>4, Zenon DEF IInv, TaskOK, TerminalStateIsTerminal
<1> QED
  BY <1>1, <1>2, <1>3, <1>4

\* The end of an activity: finish and wait write the attempt, then the task; an error or a
\* cancellation leaves the attempt as it is.
LEMMA EndStep ==
    ASSUME IInv, NEW a \in Attempts,
           MarkSearching(a) \/ Finish(a) \/ Wait(a) \/ ActivityFails(a) \/ Cancel(a)
    PROVE  IInv'
<1>1. UNCHANGED <<limit, imposed, lag, linked>>
  BY DEF MarkSearching, Finish, Wait, ActivityFails, Cancel
<1>2. LimitOK' /\ TaskOK'
  BY <1>1, TaskStep DEF IInv, LimitOK
<1>3. CountOK'
  <2>1. CASE attempt' = attempt
    BY <1>1, <2>1 DEF IInv, CountOK
  <2>2. CASE Finish(a) /\ exec[a].pc = "finish_attempt"
    <3>1. /\ exec[a].downloaded <= Cardinality(linked[a]) /\ exec[a].downloaded \in Nat
          /\ attempt' = [attempt EXCEPT ![a].downloaded = MaxOf(@, exec[a].downloaded)]
      BY <2>2, Numbers DEF Counted, Finish
    <3> QED
      BY <1>1, <3>1 DEF IInv, CountOK, MaxOf
  <2>3. CASE Wait(a) /\ exec[a].pc = "wait_attempt"
    <3>1. PICK waits : attempt' = [attempt EXCEPT ![a].waits = waits]
      BY <2>3 DEF Wait
    <3> QED
      BY <1>1, <3>1 DEF IInv, CountOK
  <2> QED
    BY <2>1, <2>2, <2>3 DEF MarkSearching, Finish, Wait, ActivityFails, Cancel
<1>4. ExecOK' /\ RunningOK'
  <2>1. CASE MarkSearching(a) \/ Finish(a) \/ Wait(a)
    <3>1. PICK pc \in {"request", "finish_task", "ended", "wait_task", "waits"} :
              /\ exec' = [exec EXCEPT ![a].pc = pc]
              /\ pc = "request" => exec[a].pc = "mark"
      BY <2>1 DEF MarkSearching, Finish, Wait, Goto
    <3> QED
      BY <1>1, <3>1, Numbers, OneMoves, GotoCounts, Zenon
  <2>2. CASE ActivityFails(a)
    BY <1>1, <2>2, OneMoves, IdleCounts, Zenon DEF ActivityFails
  <2>3. CASE Cancel(a)
    BY <1>1, <2>3 DEF IInv, ExecOK, RunningOK, Cancel
  <2> QED
    BY <2>1, <2>2, <2>3
<1> QED
  BY <1>2, <1>3, <1>4 DEF IInv

\* Time, a crash and a refresh of the indexers.
LEMMA OutsideStep ==
    ASSUME IInv, Tick \/ Crash \/ RefreshIndexers \/ UNCHANGED vars
    PROVE  IInv'
<1>1. CASE Tick
  <2>1. UNCHANGED <<task, attempt, linked>> /\ TaskOK' /\ CountOK'
    BY <1>1 DEF IInv, Tick, rows, TaskOK, CountOK, TerminalStateIsTerminal
  <2>2. LimitOK'
    BY <1>1, SearchAssumption DEF IInv, LimitOK, Tick, Earlier, Past, MaxOf
  <2>3. /\ exec' = [b \in Attempts |-> exec'[b]]
        /\ \A b \in Attempts : exec'[b] = [exec[b] EXCEPT !.age = @ + 1] \/ exec'[b] = exec[b]
    BY <1>1 DEF Tick
  <2>4. ExecOK' /\ RunningOK'
    BY <2>1, <2>3 DEF IInv, ExecOK, RunningOK, Execution, Counted
  <2> QED
    BY <2>1, <2>2, <2>4 DEF IInv
<1>2. CASE Crash
  <2>1. UNCHANGED <<limit, imposed, lag, task, attempt, linked>>
    BY <1>2 DEF Crash, rows
  <2>2. ExecOK' /\ RunningOK'
    BY <1>2, IdleCounts, Zenon DEF Crash, ExecOK, RunningOK
  <2> QED
    BY <2>1, <2>2, RowsStay DEF IInv
<1>3. CASE RefreshIndexers \/ UNCHANGED vars
  <2>1. UNCHANGED <<limit, imposed, lag, exec, task, attempt, linked>>
    BY <1>3 DEF RefreshIndexers, rows, vars
  <2>2. ExecOK' /\ RunningOK'
    BY <2>1 DEF IInv, ExecOK, RunningOK
  <2> QED
    BY <2>1, <2>2, RowsStay DEF IInv
<1> QED
  BY <1>1, <1>2, <1>3

\* Every step keeps the invariant.
LEMMA NextInv == IInv /\ [Next]_vars => IInv'
<1> SUFFICES ASSUME IInv, [Next]_vars PROVE IInv'
  OBVIOUS
<1>1. CASE Tick \/ Crash \/ RefreshIndexers \/ UNCHANGED vars
  BY <1>1, OutsideStep
<1>2. ASSUME NEW i \in Indexers, OthersClaim(i) \/ OthersFail(i) PROVE IInv'
  BY <1>2, OthersStep
<1>3. ASSUME NEW a \in Attempts,
             \/ Step(a) \/ Listed(a) \/ DependencyError(a) \/ InvalidResponse(a) \/ Download(a)
             \/ ActivityFails(a) \/ Cancel(a)
      PROVE  IInv'
  BY <1>3, ReadStep, LimitStep, SummarizeStep, EndStep DEF Step
<1> QED
  BY <1>1, <1>2, <1>3 DEF Next

\* The inductive invariant holds of every behaviour, however often and in whatever order
\* activities fail, run again or are cancelled.
LEMMA Inductive == Spec => []IInv
BY InitInv, NextInv, PTL DEF Spec

-----------------------------------------------------------------------------

\* No search is let through before the end of the longest Retry-After, backoff or gap that any
\* search of its indexer has been given, by more than that search had been under way when it
\* was given it (claim_indexer and dependency_error over one row of sporos_indexer_rate_limit).
THEOREM SearchesEarlyByWaitAtMost == Spec => EarlyByWaitAtMost
<1> DEFINE Respects(a) == exec[a].pc = "claim" /\ exec'[a].pc = "mark"
                              => imposed[IndexerOf[a]] <= lag[IndexerOf[a]]
<1>1. ASSUME IInv, [Next]_vars, NEW a \in Attempts, exec[a].pc = "claim", exec'[a].pc = "mark"
      PROVE  imposed[IndexerOf[a]] <= lag[IndexerOf[a]]
  <2>1. CASE Claim(a)
    <3>1. limit[IndexerOf[a]] <= -exec[a].age
      <4>1. ASSUME NEW delay, exec' = [exec EXCEPT ![a] = [Idle EXCEPT !.pc = "wait_attempt", !.delay = delay]]
            PROVE  FALSE
        BY <1>1, <4>1, Numbers DEF Idle
      <4>2. ~(limit[IndexerOf[a]] > -exec[a].age)
        BY <2>1, <4>1, Zenon DEF Claim, WaitFor
      <4>3. limit[IndexerOf[a]] \in Int /\ exec[a].age \in Nat
        BY <1>1, Numbers, SearchAssumption DEF IInv, LimitOK
      <4> QED
        BY <4>2, <4>3
    <3> QED
      BY <1>1, <3>1, Numbers, SearchAssumption DEF IInv, LimitOK
  <2>2. exec'[a] # exec[a]
    BY <1>1
  <2>3. ASSUME NEW b \in Attempts, b # a,
               \/ Step(b) \/ Listed(b) \/ DependencyError(b) \/ InvalidResponse(b) \/ Download(b)
               \/ ActivityFails(b) \/ Cancel(b)
        PROVE  FALSE
    BY <1>1, <2>2, <2>3, Zenon
    DEF IInv, ExecOK, Step, Dispatch, Permit, Prepare, Claim, MarkSearching, Judge, Summarize, AllJudged,
        Finish, Wait, Return, TimerFires, Listed, DependencyError, InvalidResponse, Download,
        ActivityFails, Cancel, Goto, FinishWith, WaitFor
  <2>4. ~Tick /\ ~Crash /\ ~RefreshIndexers /\ ~UNCHANGED vars
    <3>1. ~Tick
      BY <1>1, Numbers DEF Execution, Tick
    <3>2. ~Crash
      BY <1>1 DEF Crash, Idle
    <3> QED
      BY <2>2, <3>1, <3>2 DEF RefreshIndexers, vars
  <2>5. \A i \in Indexers : ~OthersClaim(i) /\ ~OthersFail(i)
    BY <2>2 DEF OthersClaim, OthersFail
  <2>6. CASE ActivityFails(a) \/ Cancel(a)
    BY <1>1, <2>6 DEF IInv, ExecOK, ActivityFails, Cancel, Idle
  <2>7. /\ ~Dispatch(a) /\ ~Permit(a) /\ ~Prepare(a) /\ ~MarkSearching(a) /\ ~Judge(a)
        /\ ~Summarize(a) /\ ~AllJudged(a) /\ ~Finish(a) /\ ~Wait(a) /\ ~Return(a)
        /\ ~Listed(a) /\ ~DependencyError(a) /\ ~InvalidResponse(a) /\ ~Download(a)
    BY <1>1 DEF Dispatch, Permit, Prepare, MarkSearching, Judge, Summarize, AllJudged, Finish, Wait,
                Return, Listed, DependencyError, InvalidResponse, Download
  <2>8. ~TimerFires(a)
    BY <2>2 DEF TimerFires
  <2> QED
    BY <1>1, <2>1, <2>3, <2>4, <2>5, <2>6, <2>7, <2>8 DEF Next, Step
<1>2. IInv /\ [Next]_vars => [\A a \in Attempts : Respects(a)]_vars
  BY <1>1
<1> QED
  BY <1>2, Inductive, PTL DEF Spec, EarlyByWaitAtMost

\* The task of a search is in a terminal state exactly when its terminal_at is set, also when
\* activities run on after a cancellation or again after their end.
THEOREM TaskStateAgrees == Spec => []TerminalStateIsTerminal
<1>1. IInv => TerminalStateIsTerminal
  BY DEF IInv, TaskOK
<1> QED
  BY <1>1, Inductive, PTL

\* Every download that finish counts has its candidate in a summary row, whatever later
\* executions of the attempt find.
THEOREM CountsAreLinked == Spec => []CountedCandidatesAreLinked
<1>1. IInv => CountedCandidatesAreLinked
  BY DEF IInv, CountOK, CountedCandidatesAreLinked
<1> QED
  BY <1>1, Inductive, PTL

-----------------------------------------------------------------------------
(* The operations that produce searches (module Backfill)                  *)

\* Ids are integers of a fixed width, and an operation is of one kind.
ProduceBounds == Produce!Bounds(MaxId)

\* A set of ids has a least one.
LEMMA Least ==
    ASSUME NEW S \in SUBSET Nat, S # {}
    PROVE  \E m \in S : \A u \in S : m <= u
<1> DEFINE R == OpToRel(<, Nat)
<1>1. IsWellFoundedOn(R, Nat)
  BY NatLessThanWellFounded, Zenon
<1>2. \A x, y \in Nat : <<x, y>> \in R <=> x < y
  BY DEF OpToRel
<1> HIDE DEF R
<1>3. PICK x \in S : \A y \in S : ~(<<y, x>> \in R)
  BY <1>1, WFMin, Zenon
<1>4. \A y \in S : ~(y < x)
  <2> SUFFICES ASSUME NEW y \in S, y < x
               PROVE  FALSE
    OBVIOUS
  <2>1. x \in Nat /\ y \in Nat
    OBVIOUS
  <2>2. <<y, x>> \in R
    BY <1>2, <2>1
  <2> QED
    BY <1>3, <2>2
<1>5. \A y \in S : y \in Nat /\ x \in Nat
  OBVIOUS
<1> QED
  BY <1>4, <1>5

\* The ids of torrents are numbers.
LEMMA Ids ==
    ASSUME ProduceBounds
    PROVE  \A t \in Torrents : t \in Nat
  BY DEF ProduceBounds, Produce!Bounds

\* A set of ids is finite.
LEMMA FiniteIds ==
    ASSUME ProduceBounds, NEW S, S \subseteq Torrents
    PROVE  IsFiniteSet(S) /\ Cardinality(S) \in Nat
<1>1. MaxId \in Int /\ 0 \in Int
  BY DEF ProduceBounds, Produce!Bounds
<1>2. IsFiniteSet(0 .. MaxId)
  BY <1>1, FS_Interval
<1>3. S \in SUBSET (0 .. MaxId)
  BY Zenon DEF ProduceBounds, Produce!Bounds
<1> QED
  BY <1>2, <1>3, FS_Subset, FS_CardinalityType, Zenon

\* A bounded set of ids has a greatest one.
LEMMA Greatest ==
    ASSUME NEW n \in Nat, NEW S \in SUBSET (0 .. n), S # {}
    PROVE  \E m \in S : \A u \in S : u <= m
<1> DEFINE T == {n - x : x \in S}
<1>1. T \in SUBSET Nat /\ T # {}
  <2>1. \A x \in S : n - x \in Nat
    OBVIOUS
  <2> QED
    BY <2>1, Zenon
<1> HIDE DEF T
<1>2. PICK t \in T : \A u \in T : t <= u
  BY <1>1, Least
<1> USE DEF T
<1>3. PICK m \in S : t = n - m
  OBVIOUS
<1>4. \A u \in S : n - m <= n - u
  BY <1>2, <1>3, Zenon
<1>5. \A u \in S : u <= m
  BY <1>4
<1> QED
  BY <1>5, Zenon

\* The number of elements, as module Backfill counts them.
LEMMA SameCardinality == \A S : Produce!Cardinality(S) = Cardinality(S)
  BY DEF Produce!Cardinality, Cardinality

\* A page: what it leaves out lies before the cursor, or behind a full page.
LEMMA PageRows ==
    ASSUME ProduceBounds, complete \subseteq Torrents, NEW cursor, cursor # None => cursor \in Int
    PROVE  LET listed == Produce!FirstRows(cursor)
           IN  /\ listed \subseteq complete
               /\ \A t \in complete :
                     \/ t \in listed
                     \/ cursor # None /\ t <= cursor
                     \/ Cardinality(listed) >= PageSize /\ \A u \in listed : u < t
<1> DEFINE after == {t \in complete : cursor = None \/ t > cursor}
           upto(t) == {u \in after : u <= t}
           listed == {t \in after : Cardinality(upto(t)) <= PageSize}
<1>1. Produce!FirstRows(cursor) = listed
  BY SameCardinality DEF Produce!FirstRows
<1>2. complete \subseteq 0 .. MaxId /\ IsFiniteSet(complete) /\ complete \subseteq Nat
  <2>2. complete \subseteq 0 .. MaxId
    BY DEF ProduceBounds, Produce!Bounds
  <2>3. IsFiniteSet(complete)
    BY FiniteIds, Zenon
  <2>4. 0 .. MaxId \subseteq Nat
    BY DEF ProduceBounds, Produce!Bounds
  <2> QED
    BY <2>2, <2>3, <2>4
<1>3. \A S \in SUBSET complete : IsFiniteSet(S) /\ Cardinality(S) \in Nat
  BY <1>2, FS_Subset, FS_CardinalityType, Zenon
<1>4. listed \subseteq complete /\ after \subseteq complete /\ \A t : upto(t) \subseteq complete
  OBVIOUS
<1>5. PageSize \in Nat \ {0}
  BY DEF ProduceBounds, Produce!Bounds
<1>6. ASSUME NEW t \in after, t \notin listed, NEW u \in listed
      PROVE  u < t
  <2>1. t \in Nat /\ u \in Nat /\ t # u /\ u \in after
    BY <1>2, <1>6
  <2> SUFFICES ASSUME t < u
               PROVE  FALSE
    BY <2>1
  <2>2. upto(t) \subseteq upto(u)
    <3>1. \A v \in after : v \in Nat
      BY <1>2
    <3>2. \A v \in after : v <= t => v <= u
      BY <2>1, <3>1
    <3> QED
      BY <3>2
  <2>3. Cardinality(upto(t)) <= Cardinality(upto(u))
    BY <1>3, <1>4, <2>2, FS_Subset
  <2>4. Cardinality(upto(u)) <= PageSize /\ ~(Cardinality(upto(t)) <= PageSize)
    BY <1>6
  <2>5. Cardinality(upto(u)) \in Nat /\ Cardinality(upto(t)) \in Nat
    BY <1>3, <1>4
  <2> HIDE DEF upto
  <2> QED
    BY <1>5, <2>3, <2>4, <2>5
<1>7. ASSUME NEW t \in after, t \notin listed
      PROVE  Cardinality(listed) >= PageSize
  <2> DEFINE rest == after \ listed
  <2>1. rest \in SUBSET Nat /\ rest # {}
    BY <1>2, <1>7, Zenon
  <2>2. PICK m \in rest : \A u \in rest : m <= u
    BY <2>1, Least, Zenon
  <2>3. upto(m) \subseteq listed \cup {m}
    <3> SUFFICES ASSUME NEW u \in after, u <= m, u \notin listed
                 PROVE  u = m
      OBVIOUS
    <3>1. u \in rest /\ u \in Nat /\ m \in Nat
      BY <1>2, <2>1
    <3> QED
      BY <2>2, <3>1
  <2>4. IsFiniteSet(listed) /\ Cardinality(listed) \in Nat
    BY <1>3, <1>4, Zenon
  <2>5. /\ IsFiniteSet(listed \cup {m}) /\ Cardinality(listed \cup {m}) = Cardinality(listed) + 1
    BY <2>2, <2>4, FS_AddElement, Zenon
  <2>6. Cardinality(upto(m)) <= Cardinality(listed) + 1
    <3>1. upto(m) \in SUBSET (listed \cup {m})
      BY <2>3
    <3> HIDE DEF upto, listed
    <3> QED
      BY <2>5, <3>1, FS_Subset
  <2>7. ~(Cardinality(upto(m)) <= PageSize) /\ Cardinality(upto(m)) \in Nat
    BY <1>3, <1>4, <2>2
  <2> HIDE DEF upto, listed
  <2> QED
    BY <1>5, <2>4, <2>6, <2>7
<1>8. ASSUME NEW t \in complete, t \notin after
      PROVE  cursor # None /\ t <= cursor
  BY <1>2, <1>8
<1> HIDE DEF listed, after
<1> QED
  BY <1>1, <1>4, <1>6, <1>7, <1>8

-----------------------------------------------------------------------------

Accepted(o, t, i) == [trigger |-> o, torrent |-> t, indexer |-> i]

Asked(selection, i) == selection.indexers = {} \/ i \in selection.indexers

\* The searches of a torrent that a backfill owes to it: on every indexer that was eligible all
\* the time.
CoveredIn(o, selection, t, there, accepted) ==
    \A i \in there.indexers :
        Produce!BackfillSelected(t, selection) /\ Asked(selection, i) => Accepted(o, t, i) \in accepted

OperationShape(p) == DOMAIN p = {"state", "task", "selection", "produced"}
InstanceShape(w) == DOMAIN w = {"at", "cursor"} /\ (w.cursor # None => w.cursor \in Torrents)
PageShape(e) ==
    /\ DOMAIN e = {"pc", "rows", "indexers"}
    /\ e.rows \subseteq Torrents /\ e.indexers \subseteq BackfillIndexers

\* What a backfill has covered, at each point of a page.
PageOK(o, p, w, e, there, accepted) ==
    /\ p.state = "none" => w.at = "none" /\ w.cursor = None /\ e.pc = "idle"
    /\ w.cursor # None =>
          \A t \in there.torrents : t <= w.cursor => CoveredIn(o, p.selection, t, there, accepted)
    /\ e.pc \in {"indexers", "accept"} =>
          \A t \in there.torrents :
              \/ t \in e.rows
              \/ w.cursor # None /\ t <= w.cursor
              \/ Cardinality(e.rows) >= PageSize /\ \A u \in e.rows : u < t
    /\ e.pc = "accept" => \A i \in there.indexers : Asked(p.selection, i) => i \in e.indexers
    /\ e.pc = "more" =>
          /\ e.rows # {}
          /\ \A t \in there.torrents :
                t <= Produce!LastRow(e.rows) => CoveredIn(o, p.selection, t, there, accepted)
    /\ p.state = "completed" =>
          \A t \in there.torrents : CoveredIn(o, p.selection, t, there, accepted)

Own(o, accepted) == {s \in accepted : s.trigger = o}

CountedOK(o, p, accepted) ==
    IsFiniteSet(Own(o, accepted)) /\ p.produced = Cardinality(Own(o, accepted))

InventoryOK ==
    /\ complete \subseteq Torrents /\ eligible \subseteq BackfillIndexers
    /\ stable = [o \in Backfills |-> stable[o]]
    /\ \A o \in Backfills : /\ DOMAIN stable[o] = {"torrents", "indexers"}
                            /\ stable[o].torrents \subseteq complete
                            /\ stable[o].indexers \subseteq eligible

ShapesOK ==
    /\ operation = [o \in Produce!Operations |-> operation[o]]
    /\ instance = [o \in Produce!Operations |-> instance[o]]
    /\ page = [o \in Produce!Operations |-> page[o]]
    /\ \A o \in Produce!Operations :
          OperationShape(operation[o]) /\ InstanceShape(instance[o]) /\ PageShape(page[o])

ProgressOK ==
    \A o \in Backfills :
        /\ PageOK(o, operation[o], instance[o], page[o], stable[o], searches)
        /\ CountedOK(o, operation[o], searches)

ProduceInv == InventoryOK /\ ShapesOK /\ ProgressOK

\* Nothing is accepted at first.
LEMMA ProduceInit ==
    ASSUME ProduceBounds, Produce!Init
    PROVE  ProduceInv
<1>1. InventoryOK
  BY DEF Produce!Init, InventoryOK
<1>2. ASSUME NEW o \in Produce!Operations
      PROVE  /\ operation[o] = [state |-> "none", task |-> "none", selection |-> None, produced |-> 0]
             /\ instance[o] = [at |-> "none", cursor |-> None] /\ page[o] = Produce!Idle
  BY DEF Produce!Init
<1>3. ShapesOK
  <2>1. \A o \in Produce!Operations :
           OperationShape(operation[o]) /\ InstanceShape(instance[o]) /\ PageShape(page[o])
    BY <1>2 DEF OperationShape, InstanceShape, PageShape, Produce!Idle
  <2> QED
    BY <2>1 DEF Produce!Init, ShapesOK
<1>4. ASSUME NEW o \in Backfills
      PROVE  /\ PageOK(o, operation[o], instance[o], page[o], stable[o], searches)
             /\ CountedOK(o, operation[o], searches)
  <2>1. o \in Produce!Operations
    BY DEF Produce!Operations
  <2>2. PageOK(o, operation[o], instance[o], page[o], stable[o], searches)
    <3>1. /\ operation[o].state = "none" /\ instance[o].at = "none" /\ instance[o].cursor = None
          /\ page[o].pc = "idle"
      BY <1>2, <2>1 DEF Produce!Idle
    <3> QED
      BY <3>1, Zenon DEF PageOK
  <2>3. Own(o, searches) = {}
    BY DEF Own, Produce!Init
  <2>4. CountedOK(o, operation[o], searches)
    BY <1>2, <2>1, <2>3, FS_EmptySet DEF CountedOK
  <2> QED
    BY <2>2, <2>4
<1> QED
  BY <1>1, <1>3, <1>4 DEF ProduceInv, ProgressOK

\* More searches and fewer torrents and indexers to cover leave a backfill as it is.
LEMMA PageStays ==
    ASSUME NEW o, NEW p, NEW w, NEW e, NEW there, NEW accepted, NEW there2, NEW accepted2,
           PageOK(o, p, w, e, there, accepted), accepted \subseteq accepted2,
           there2.torrents \subseteq there.torrents, there2.indexers \subseteq there.indexers
    PROVE  PageOK(o, p, w, e, there2, accepted2)
<1>1. \A t : CoveredIn(o, p.selection, t, there, accepted) => CoveredIn(o, p.selection, t, there2, accepted2)
  BY Zenon DEF CoveredIn
<1> QED
  BY <1>1 DEF PageOK

\* One operation moves.
LEMMA OneOperation ==
    ASSUME ProduceBounds, ProduceInv, NEW o \in Produce!Operations, NEW p, NEW w, NEW e,
           operation' = [operation EXCEPT ![o] = p], instance' = [instance EXCEPT ![o] = w],
           page' = [page EXCEPT ![o] = e],
           UNCHANGED <<complete, eligible>>,
           InventoryOK', \A q \in Backfills : q # o => stable'[q] = stable[q],
           searches \subseteq searches',
           \A s \in searches' : s \in searches \/ s.trigger = o \/ s.trigger = "completion",
           OperationShape(p), InstanceShape(w), PageShape(e),
           o \in Backfills => PageOK(o, p, w, e, stable'[o], searches') /\ CountedOK(o, p, searches')
    PROVE  ProduceInv'
<1>1. ShapesOK'
  <2> SUFFICES ASSUME NEW q \in Produce!Operations
               PROVE  OperationShape(operation'[q]) /\ InstanceShape(instance'[q]) /\ PageShape(page'[q])
    BY Zenon DEF ProduceInv, ShapesOK, Produce!Operations, InstanceShape, PageShape, OperationShape
  <2> QED
    BY Zenon DEF ProduceInv, ShapesOK
<1>2. ASSUME NEW q \in Backfills
      PROVE  /\ PageOK(q, operation'[q], instance'[q], page'[q], stable'[q], searches')
             /\ CountedOK(q, operation'[q], searches')
  <2>1. q \in Produce!Operations
    BY DEF Produce!Operations
  <2>2. CASE q = o
    <3>1. operation'[q] = p /\ instance'[q] = w /\ page'[q] = e
      BY <2>1, <2>2 DEF ProduceInv, ShapesOK
    <3> QED
      BY <2>2, <3>1
  <2>3. CASE q # o
    <3>1. operation'[q] = operation[q] /\ instance'[q] = instance[q] /\ page'[q] = page[q]
      BY <2>1, <2>3, Zenon DEF ProduceInv, ShapesOK
    <3>2. /\ PageOK(q, operation[q], instance[q], page[q], stable[q], searches)
          /\ CountedOK(q, operation[q], searches)
      BY DEF ProduceInv, ProgressOK
    <3>3. stable'[q] = stable[q]
      BY <2>3
    <3>4. PageOK(q, operation[q], instance[q], page[q], stable'[q], searches')
      BY <3>2, <3>3, PageStays
    <3>5. Own(q, searches') = Own(q, searches)
      BY <2>3 DEF Own, ProduceBounds, Produce!Bounds
    <3> QED
      BY <3>1, <3>2, <3>4, <3>5 DEF CountedOK
  <2> QED
    BY <2>2, <2>3
<1> QED
  BY <1>1, <1>2, Zenon DEF ProduceInv, ProgressOK, PageOK, CountedOK, CoveredIn, Produce!BackfillSelected, Produce!LastRow

\* The rows of an operation that a step leaves alone, and what is known of a backfill.
LEMMA OwnRows ==
    ASSUME ProduceInv, NEW o \in Produce!Operations
    PROVE  /\ operation = [operation EXCEPT ![o] = operation[o]]
           /\ instance = [instance EXCEPT ![o] = instance[o]]
           /\ page = [page EXCEPT ![o] = page[o]]
           /\ OperationShape(operation[o]) /\ InstanceShape(instance[o]) /\ PageShape(page[o])
           /\ o \in Backfills => /\ PageOK(o, operation[o], instance[o], page[o], stable[o], searches)
                                 /\ CountedOK(o, operation[o], searches)
  BY Zenon DEF ProduceInv, ShapesOK, ProgressOK

\* An operation is accepted.
LEMMA QueueStep ==
    ASSUME ProduceBounds, ProduceInv, NEW o \in Produce!Operations, NEW selection,
           Produce!Queue(o, selection),
           \/ o \in Backfills /\ stable' = [stable EXCEPT ![o] = [torrents |-> complete, indexers |-> eligible]]
           \/ o \notin Backfills /\ UNCHANGED stable
    PROVE  ProduceInv'
<1> DEFINE p == [operation[o] EXCEPT !.state = "queued", !.task = "queued", !.selection = selection]
           w == [instance[o] EXCEPT !.at = "activity"]
<1>1. /\ operation = [q \in Produce!Operations |-> operation[q]]
      /\ instance = [q \in Produce!Operations |-> instance[q]]
      /\ OperationShape(operation[o]) /\ InstanceShape(instance[o]) /\ PageShape(page[o])
  BY DEF ProduceInv, ShapesOK
<1>2. /\ operation[o].state = "none" /\ UNCHANGED <<complete, eligible, page, searches>>
      /\ operation' = [operation EXCEPT ![o] = p] /\ instance' = [instance EXCEPT ![o] = w]
  BY <1>1, Zenon DEF Produce!Queue
<1>3. page' = [page EXCEPT ![o] = page[o]]
  BY <1>2, OwnRows
<1>4. /\ OperationShape(p) /\ p.state = "queued" /\ p.produced = operation[o].produced
      /\ InstanceShape(w) /\ w.cursor = instance[o].cursor
  BY <1>1 DEF OperationShape, InstanceShape
<1> HIDE DEF p, w
<1>5. InventoryOK' /\ \A q \in Backfills : q # o => stable'[q] = stable[q]
  BY <1>2 DEF ProduceInv, InventoryOK
<1>6. ASSUME o \in Backfills
      PROVE  PageOK(o, p, w, page[o], stable'[o], searches') /\ CountedOK(o, p, searches')
  <2>1. /\ PageOK(o, operation[o], instance[o], page[o], stable[o], searches)
        /\ CountedOK(o, operation[o], searches)
    BY <1>6, OwnRows
  <2>2. instance[o].cursor = None /\ page[o].pc = "idle"
    BY <1>2, <2>1, Zenon DEF PageOK
  <2>3. PageOK(o, p, w, page[o], stable'[o], searches')
    BY <1>4, <2>2 DEF PageOK
  <2>4. CountedOK(o, p, searches')
    BY <1>2, <1>4, <2>1 DEF CountedOK
  <2> QED
    BY <2>3, <2>4
<1> QED
  BY <1>1, <1>2, <1>3, <1>4, <1>5, <1>6, OneOperation, Zenon

\* A page or the indexers are read, or the activity ends without a transaction: only the page
\* of the operation changes.
LEMMA PageMoves ==
    ASSUME ProduceBounds, ProduceInv, NEW o \in Produce!Operations, NEW e, PageShape(e),
           page' = [page EXCEPT ![o] = e],
           UNCHANGED <<complete, eligible, operation, instance, searches, stable>>,
           o \in Backfills => PageOK(o, operation[o], instance[o], e, stable[o], searches)
    PROVE  ProduceInv'
<1>1. /\ operation' = [operation EXCEPT ![o] = operation[o]]
      /\ instance' = [instance EXCEPT ![o] = instance[o]]
      /\ OperationShape(operation[o]) /\ InstanceShape(instance[o])
      /\ o \in Backfills => CountedOK(o, operation[o], searches)
  BY OwnRows
<1>2. InventoryOK'
  BY DEF ProduceInv, InventoryOK
<1> QED
  BY <1>1, <1>2, OneOperation, Zenon

\* A page is read: the first rows behind the cursor.
LEMMA ReadRowsStep ==
    ASSUME ProduceBounds, ProduceInv, NEW o \in Backfills, Produce!ReadRows(o)
    PROVE  ProduceInv'
<1> DEFINE listed == Produce!FirstRows(instance[o].cursor)
           e == [page[o] EXCEPT !.pc = "indexers", !.rows = listed]
<1>1. o \in Produce!Operations
  BY DEF Produce!Operations
<1>2. /\ InstanceShape(instance[o]) /\ PageShape(page[o])
      /\ PageOK(o, operation[o], instance[o], page[o], stable[o], searches)
  BY <1>1, OwnRows
<1>3. /\ UNCHANGED <<complete, eligible, operation, instance, searches, stable>>
      /\ page' = [page EXCEPT ![o] = e] /\ instance[o].at # "none"
  <2>1. instance[o].at # "none"
    BY DEF Produce!ReadRows, Produce!Running
  <2> QED
    BY <1>1, <2>1, Zenon DEF Produce!ReadRows, ProduceInv, ShapesOK
<1>4. complete \subseteq Torrents /\ stable[o].torrents \subseteq complete
  BY DEF ProduceInv, InventoryOK
<1>5. instance[o].cursor # None => instance[o].cursor \in Int
  BY <1>2, Ids DEF InstanceShape
<1>6. /\ listed \subseteq complete
      /\ \A t \in complete :
            \/ t \in listed
            \/ instance[o].cursor # None /\ t <= instance[o].cursor
            \/ Cardinality(listed) >= PageSize /\ \A u \in listed : u < t
  BY <1>4, <1>5, PageRows
<1>7. DOMAIN e = {"pc", "rows", "indexers"} /\ e.pc = "indexers" /\ e.rows = listed
      /\ e.indexers = page[o].indexers
  BY <1>2 DEF PageShape
<1> HIDE DEF listed, e
<1>8. PageShape(e)
  BY <1>2, <1>4, <1>6, <1>7 DEF PageShape
<1>9. PageOK(o, operation[o], instance[o], e, stable[o], searches)
  <2>1. operation[o].state # "none"
    BY <1>2, <1>3, Zenon DEF PageOK
  <2> QED
    BY <1>2, <1>4, <1>6, <1>7, <2>1, Zenon DEF PageOK
<1> QED
  BY <1>1, <1>3, <1>8, <1>9, PageMoves, Zenon

\* The indexers are read, after the page and apart from it.
LEMMA ReadIndexersStep ==
    ASSUME ProduceBounds, ProduceInv, NEW o \in Backfills, Produce!ReadIndexers(o)
    PROVE  ProduceInv'
<1> DEFINE found == Produce!EligibleIndexers(operation[o].selection.indexers)
           e == [page[o] EXCEPT !.pc = "accept", !.indexers = found]
<1>1. o \in Produce!Operations
  BY DEF Produce!Operations
<1>2. /\ InstanceShape(instance[o]) /\ PageShape(page[o])
      /\ PageOK(o, operation[o], instance[o], page[o], stable[o], searches)
  BY <1>1, OwnRows
<1>3. /\ UNCHANGED <<complete, eligible, operation, instance, searches, stable>>
      /\ page' = [page EXCEPT ![o] = e] /\ page[o].pc = "indexers"
  BY <1>1, Zenon DEF Produce!ReadIndexers, ProduceInv, ShapesOK
<1>4. eligible \subseteq BackfillIndexers /\ stable[o].indexers \subseteq eligible
  BY DEF ProduceInv, InventoryOK
<1>5. /\ found \subseteq eligible
      /\ \A i \in stable[o].indexers : Asked(operation[o].selection, i) => i \in found
  BY <1>4 DEF Produce!EligibleIndexers, Asked
<1>6. DOMAIN e = {"pc", "rows", "indexers"} /\ e.pc = "accept" /\ e.rows = page[o].rows /\ e.indexers = found
  BY <1>2 DEF PageShape
<1> HIDE DEF found, e
<1>7. PageShape(e)
  BY <1>2, <1>4, <1>5, <1>6 DEF PageShape
<1>8. PageOK(o, operation[o], instance[o], e, stable[o], searches)
  BY <1>2, <1>3, <1>5, <1>6, Zenon DEF PageOK
<1> QED
  BY <1>1, <1>3, <1>7, <1>8, PageMoves, Zenon

AllSearches(o, torrents, indexers) ==
    {[trigger |-> o, torrent |-> t, indexer |-> i] : t \in torrents, i \in indexers}

\* accept_in, unless it refuses, accepts every search that is not there yet.
LEMMA WhatIsNew ==
    ASSUME NEW o, NEW torrents, NEW indexers, Produce!AcceptIn(o, torrents, indexers) # None
    PROVE  Produce!AcceptIn(o, torrents, indexers) = AllSearches(o, torrents, indexers) \ searches
<1>1. ~(indexers # {} /\ ~(torrents \subseteq complete))
  BY DEF Produce!AcceptIn
<1> QED
  BY <1>1 DEF Produce!AcceptIn, AllSearches

\* What accept_in adds is new, and finite.
LEMMA NewSearches ==
    ASSUME ProduceBounds, NEW o, NEW torrents, NEW indexers,
           torrents \subseteq Torrents, indexers \subseteq BackfillIndexers
    PROVE  /\ IsFiniteSet(AllSearches(o, torrents, indexers))
           /\ \A s \in AllSearches(o, torrents, indexers) : s.trigger = o
           /\ \A t \in torrents, i \in indexers : Accepted(o, t, i) \in AllSearches(o, torrents, indexers)
<1> DEFINE all == {[trigger |-> o, torrent |-> t, indexer |-> i] : t \in torrents, i \in indexers}
           f == [x \in torrents \X indexers |-> [trigger |-> o, torrent |-> x[1], indexer |-> x[2]]]
<1>1. IsFiniteSet(torrents)
  BY FiniteIds, Zenon
<1>2. IsFiniteSet(indexers)
  <2>1. IsFiniteSet(BackfillIndexers)
    BY DEF ProduceBounds, Produce!Bounds, Produce!IsFiniteSet, IsFiniteSet
  <2> QED
    BY <2>1, FS_Subset
<1>3. IsFiniteSet(torrents \X indexers)
  BY <1>1, <1>2, FS_Product
<1>4. f \in Surjection(torrents \X indexers, all)
  <2>1. f \in [torrents \X indexers -> all]
    OBVIOUS
  <2>2. \A s \in all : \E x \in torrents \X indexers : f[x] = s
    <3> SUFFICES ASSUME NEW s \in all
                 PROVE  \E x \in torrents \X indexers : f[x] = s
      OBVIOUS
    <3>1. PICK t \in torrents, i \in indexers : s = [trigger |-> o, torrent |-> t, indexer |-> i]
      OBVIOUS
    <3>2. <<t, i>> \in torrents \X indexers /\ f[<<t, i>>] = s
      BY <3>1
    <3> HIDE DEF f
    <3> QED
      BY <3>2
  <2> HIDE DEF f, all
  <2> QED
    BY <2>1, <2>2 DEF Surjection
<1>5. IsFiniteSet(all)
  BY <1>3, <1>4, FS_Surjection
<1> QED
  BY <1>5 DEF Accepted, AllSearches

\* The last row of a page.
LEMMA LastOfPage ==
    ASSUME ProduceBounds, NEW listed, listed \subseteq Torrents, listed # {}
    PROVE  Produce!LastRow(listed) \in listed /\ \A u \in listed : u <= Produce!LastRow(listed)
<1>1. \E m \in listed : \A u \in listed : u <= m
  <2>1. listed \in SUBSET (0 .. MaxId) /\ MaxId \in Nat
    BY DEF ProduceBounds, Produce!Bounds
  <2> QED
    BY <2>1, Greatest, Zenon
<1> QED
  BY <1>1 DEF Produce!LastRow

\* accept_in has accepted the searches of a page, and the operation has been told.
LEMMA AcceptedPage ==
    ASSUME ProduceBounds, ProduceInv, NEW o \in Backfills, Produce!AcceptPage(o), UNCHANGED stable,
           Produce!AcceptIn(o, {t \in page[o].rows : Produce!BackfillSelected(t, operation[o].selection)},
                            page[o].indexers) # None
    PROVE  ProduceInv'
<1> DEFINE listed == page[o].rows
           selection == operation[o].selection
           selected == {t \in listed : Produce!BackfillSelected(t, selection)}
           all == AllSearches(o, selected, page[o].indexers)
           new == Produce!AcceptIn(o, selected, page[o].indexers)
           last == Produce!IsLastPage(listed, selected)
           state == IF last THEN "completed" ELSE "running"
           p == [operation[o] EXCEPT !.state = state, !.task = state, !.produced = @ + Cardinality(new)]
           e == [page[o] EXCEPT !.pc = IF state = "completed" THEN "done" ELSE "more"]
<1>1. o \in Produce!Operations
  BY DEF Produce!Operations
<1>2. /\ OperationShape(operation[o]) /\ InstanceShape(instance[o]) /\ PageShape(page[o])
      /\ PageOK(o, operation[o], instance[o], page[o], stable[o], searches)
      /\ CountedOK(o, operation[o], searches)
      /\ instance = [instance EXCEPT ![o] = instance[o]]
      /\ operation = [q \in Produce!Operations |-> operation[q]]
      /\ page = [q \in Produce!Operations |-> page[q]]
  BY <1>1, OwnRows DEF ProduceInv, ShapesOK
<1>3. new = all \ searches /\ new # None
  BY WhatIsNew, Zenon
<1>4. /\ page[o].pc = "accept" /\ UNCHANGED <<complete, eligible, instance>>
      /\ searches' = searches \cup new
      /\ operation' = [operation EXCEPT ![o].state = state, ![o].task = state,
                                        ![o].produced = @ + Produce!Cardinality(new)]
      /\ page' = [page EXCEPT ![o].pc = IF state = "completed" THEN "done" ELSE "more"]
  BY <1>3, Zenon DEF Produce!AcceptPage
<1>5. operation' = [operation EXCEPT ![o] = p] /\ page' = [page EXCEPT ![o] = e]
  <2>1. Produce!Cardinality(new) = Cardinality(new)
    BY SameCardinality
  <2> HIDE DEF new, state
  <2> QED
    BY <1>1, <1>2, <1>4, <2>1, Zenon
<1>6. /\ OperationShape(p) /\ p.state = state /\ p.selection = selection
      /\ p.produced = operation[o].produced + Cardinality(new)
      /\ PageShape(e) /\ e.rows = listed /\ e.pc = IF state = "completed" THEN "done" ELSE "more"
  BY <1>2 DEF OperationShape, PageShape
<1>7. listed \subseteq Torrents /\ selected \subseteq Torrents /\ page[o].indexers \subseteq BackfillIndexers
  BY <1>2 DEF PageShape
<1>S. \A t \in listed : Produce!BackfillSelected(t, selection) => t \in selected
  OBVIOUS
<1> HIDE DEF selected
<1>8. /\ IsFiniteSet(all) /\ \A s \in all : s.trigger = o
      /\ \A t \in selected, i \in page[o].indexers : Accepted(o, t, i) \in all
  BY <1>7, NewSearches
<1>9. IsFiniteSet(listed) /\ Cardinality(listed) \in Nat
  BY <1>7, FiniteIds, Zenon
<1>10. last <=> Cardinality(listed) < PageSize
  BY SameCardinality DEF Produce!IsLastPage
<1>11. state \in {"completed", "running"} /\ (state = "completed" <=> last)
  OBVIOUS
<1>12. \A t \in listed : CoveredIn(o, selection, t, stable[o], searches')
  <2> SUFFICES ASSUME NEW t \in listed, NEW i \in stable[o].indexers,
                      Produce!BackfillSelected(t, selection), Asked(selection, i)
               PROVE  Accepted(o, t, i) \in searches'
    BY DEF CoveredIn
  <2>1. t \in selected /\ i \in page[o].indexers
    BY <1>2, <1>4, <1>S, Zenon DEF PageOK
  <2>2. Accepted(o, t, i) \in all
    BY <1>8, <2>1
  <2> HIDE DEF all, new
  <2> QED
    BY <1>3, <1>4, <2>2
<1> HIDE DEF p, e, last, state, all, new
<1>13. \A t : CoveredIn(o, selection, t, stable[o], searches) => CoveredIn(o, selection, t, stable[o], searches')
  BY <1>4 DEF CoveredIn
<1>14. stable[o].torrents \subseteq Torrents
  BY DEF ProduceInv, InventoryOK
<1>15. \A t \in stable[o].torrents :
          \/ CoveredIn(o, selection, t, stable[o], searches')
          \/ Cardinality(listed) >= PageSize /\ \A u \in listed : u < t
  BY <1>2, <1>4, <1>12, <1>13, Zenon DEF PageOK
<1>16. PageSize \in Nat \ {0}
  BY DEF ProduceBounds, Produce!Bounds
<1>N. \A n, m \in Nat : /\ n < m => ~(n >= m)
                        /\ m # 0 /\ ~(n < m) => n # 0
  OBVIOUS
<1>17. PageOK(o, p, instance[o], e, stable[o], searches')
  <2>1. CASE last
    <3>1. \A t \in stable[o].torrents : CoveredIn(o, selection, t, stable[o], searches')
      <4>1. ~(Cardinality(listed) >= PageSize)
        BY <1>9, <1>10, <1>16, <1>N, <2>1, Zenon
      <4> QED
        BY <1>15, <4>1, Zenon
    <3> QED
      BY <1>6, <1>11, <2>1, <3>1 DEF PageOK
  <2>2. CASE ~last
    <3>1. listed # {}
      <4>1. Cardinality(listed) # 0
        BY <1>9, <1>10, <1>16, <1>N, <2>2, Zenon
      <4> QED
        BY <1>9, <4>1, FS_EmptySet, Zenon
    <3>2. Produce!LastRow(listed) \in listed
      BY <1>7, <3>1, LastOfPage
    <3>3. \A t \in stable[o].torrents : t <= Produce!LastRow(listed) => CoveredIn(o, selection, t, stable[o], searches')
      <4> SUFFICES ASSUME NEW t \in stable[o].torrents, t <= Produce!LastRow(listed),
                          ~CoveredIn(o, selection, t, stable[o], searches')
                   PROVE  FALSE
        OBVIOUS
      <4>1. Produce!LastRow(listed) < t
        BY <1>15, <3>2
      <4>2. t \in Nat /\ Produce!LastRow(listed) \in Nat
        BY <1>7, <1>14, <3>2, Ids
      <4> QED
        BY <4>1, <4>2, SMTT(30)
    <3>4. instance[o].cursor # None => \A t \in stable[o].torrents : t <= instance[o].cursor =>
             CoveredIn(o, selection, t, stable[o], searches')
      BY <1>2, <1>13 DEF PageOK
    <3> QED
      BY <1>6, <1>11, <2>2, <3>1, <3>3, <3>4 DEF PageOK
  <2> QED
    BY <2>1, <2>2
<1>18. CountedOK(o, p, searches')
  <2>1. IsFiniteSet(new)
    BY <1>3, <1>8, FS_Difference, Zenon
  <2>2. Own(o, searches') = Own(o, searches) \cup new /\ Own(o, searches) \cap new = {}
    BY <1>3, <1>4, <1>8 DEF Own
  <2>3. IsFiniteSet(Own(o, searches)) /\ operation[o].produced = Cardinality(Own(o, searches))
    BY <1>2 DEF CountedOK
  <2>4. /\ IsFiniteSet(Own(o, searches) \cup new)
        /\ Cardinality(Own(o, searches) \cup new) =
              Cardinality(Own(o, searches)) + Cardinality(new) - Cardinality(Own(o, searches) \cap new)
    BY <2>1, <2>3, FS_Union
  <2>5. Cardinality(Own(o, searches) \cap new) = 0
    BY <2>2, FS_EmptySet
  <2>6. Cardinality(Own(o, searches)) \in Nat /\ Cardinality(new) \in Nat
    BY <2>1, <2>3, FS_CardinalityType
  <2>7. Cardinality(Own(o, searches) \cup new) = Cardinality(Own(o, searches)) + Cardinality(new)
    <3>1. \A a, b \in Nat : a + b - 0 = a + b
      OBVIOUS
    <3> QED
      BY <2>4, <2>5, <2>6, <3>1, Zenon
  <2> QED
    BY <1>6, <2>2, <2>3, <2>4, <2>7, Zenon DEF CountedOK
<1>19. /\ searches \subseteq searches'
       /\ \A s \in searches' : s \in searches \/ s.trigger = o \/ s.trigger = "completion"
  BY <1>3, <1>4, <1>8
<1>20. InventoryOK'
  BY <1>4 DEF ProduceInv, InventoryOK
<1> QED
  BY <1>1, <1>2, <1>4, <1>5, <1>6, <1>17, <1>18, <1>19, <1>20, OneOperation, Zenon

\* The transaction of a page accepts its searches, or fails since a torrent is gone.
LEMMA AcceptPageStep ==
    ASSUME ProduceBounds, ProduceInv, NEW o \in Backfills, Produce!AcceptPage(o)
    PROVE  ProduceInv'
<1> DEFINE new == Produce!AcceptIn(o, {t \in page[o].rows : Produce!BackfillSelected(t, operation[o].selection)},
                                   page[o].indexers)
           e == [page[o] EXCEPT !.pc = "failed"]
<1>1. CASE new = None
  <2>1. o \in Produce!Operations
    BY DEF Produce!Operations
  <2>2. /\ PageShape(page[o]) /\ PageOK(o, operation[o], instance[o], page[o], stable[o], searches)
        /\ page = [q \in Produce!Operations |-> page[q]]
    BY <2>1, OwnRows DEF ProduceInv, ShapesOK
  <2>3. /\ page[o].pc = "accept" /\ page' = [page EXCEPT ![o].pc = "failed"]
        /\ UNCHANGED <<complete, eligible, operation, instance, searches, stable>>
    BY <1>1, Zenon DEF Produce!AcceptPage
  <2> HIDE DEF new
  <2>4. page' = [page EXCEPT ![o] = e]
    BY <2>1, <2>2, <2>3
  <2>5. PageShape(e) /\ e.pc = "failed"
    BY <2>2 DEF PageShape
  <2> HIDE DEF e
  <2>6. PageOK(o, operation[o], instance[o], e, stable[o], searches)
    BY <2>2, <2>3, <2>5 DEF PageOK
  <2> QED
    BY <2>1, <2>3, <2>4, <2>5, <2>6, PageMoves, Zenon
<1>2. CASE new # None
  <2>1. UNCHANGED stable
    BY Zenon DEF Produce!AcceptPage
  <2> QED
    BY <1>2, <2>1, AcceptedPage
<1> QED
  BY <1>1, <1>2

\* The workflow continues behind the page, or ends.
LEMMA ReturnStep ==
    ASSUME ProduceBounds, ProduceInv, NEW o \in Produce!Operations, Produce!Return(o)
    PROVE  ProduceInv'
<1> DEFINE more == page[o].pc = "more"
           last == Produce!LastRow(page[o].rows)
           w == IF ~Produce!Running(o) THEN instance[o]
                ELSE IF more THEN [instance[o] EXCEPT !.cursor = last]
                ELSE [instance[o] EXCEPT !.at = IF page[o].pc = "done" THEN "completed" ELSE "failed"]
           p == operation[o]
           e == Produce!Idle
<1>1. /\ operation = [q \in Produce!Operations |-> operation[q]]
      /\ instance = [q \in Produce!Operations |-> instance[q]]
      /\ OperationShape(operation[o]) /\ InstanceShape(instance[o]) /\ PageShape(page[o])
  BY DEF ProduceInv, ShapesOK
<1>2. /\ page[o].pc \in {"more", "done", "failed"} /\ UNCHANGED <<complete, eligible, searches, stable>>
      /\ operation' = [operation EXCEPT ![o] = p] /\ instance' = [instance EXCEPT ![o] = w]
      /\ page' = [page EXCEPT ![o] = e]
  <2>1. operation' = operation
    BY DEF Produce!Return
  <2>2. instance' = [instance EXCEPT ![o] = w]
    BY <1>1 DEF Produce!Return, Produce!ContinueFrom
  <2> QED
    BY <1>1, <2>1, <2>2 DEF Produce!Return
<1>3. last = None \/ last \in Torrents
  <2>1. CASE page[o].rows = {}
    BY <2>1 DEF Produce!LastRow
  <2>2. CASE page[o].rows # {}
    BY <1>1, <2>2, LastOfPage DEF PageShape
  <2> QED
    BY <2>1, <2>2
<1>4. /\ OperationShape(p) /\ p.state = operation[o].state /\ p.produced = operation[o].produced
      /\ p.selection = operation[o].selection
  BY <1>1 DEF OperationShape
<1> HIDE DEF last
<1>5. /\ DOMAIN w = {"at", "cursor"}
      /\ w.cursor = instance[o].cursor \/ (more /\ w.cursor = last)
  <2>1. CASE more /\ Produce!Running(o)
    BY <1>1, <2>1 DEF InstanceShape
  <2>2. CASE ~more /\ Produce!Running(o)
    BY <1>1, <2>2 DEF InstanceShape
  <2>3. CASE ~Produce!Running(o)
    BY <1>1, <2>3 DEF InstanceShape
  <2> QED
    BY <2>1, <2>2, <2>3
<1>6. PageShape(e) /\ e.pc = "idle"
  BY DEF PageShape, Produce!Idle
<1> HIDE DEF p, w, e
<1>7. InstanceShape(w)
  BY <1>1, <1>3, <1>5 DEF InstanceShape
<1>8. InventoryOK'
  BY <1>2 DEF ProduceInv, InventoryOK
<1>9. ASSUME o \in Backfills
      PROVE  PageOK(o, p, w, e, stable'[o], searches') /\ CountedOK(o, p, searches')
  <2>1. /\ PageOK(o, operation[o], instance[o], page[o], stable[o], searches)
        /\ CountedOK(o, operation[o], searches)
    BY <1>9, OwnRows
  <2>2. operation[o].state # "none"
    BY <1>2, <2>1, Zenon DEF PageOK
  <2>3. w.cursor # None => \A t \in stable[o].torrents : t <= w.cursor =>
           CoveredIn(o, operation[o].selection, t, stable[o], searches)
    <3>1. CASE more /\ w.cursor = last
      BY <2>1, <3>1, Zenon DEF PageOK, last
    <3>2. CASE w.cursor = instance[o].cursor
      BY <2>1, <3>2 DEF PageOK
    <3> QED
      BY <1>5, <3>1, <3>2
  <2>4. PageOK(o, p, w, e, stable[o], searches)
    BY <1>4, <1>6, <2>1, <2>2, <2>3, Zenon DEF PageOK
  <2>5. CountedOK(o, p, searches)
    BY <1>4, <2>1, Zenon DEF CountedOK
  <2> QED
    BY <1>2, <2>4, <2>5
<1> QED
  BY <1>1, <1>2, <1>4, <1>6, <1>7, <1>8, <1>9, OneOperation, Zenon

\* A cancellation, and what a task comes to, touch neither the progress nor the searches.
LEMMA TaskRowStep ==
    ASSUME ProduceBounds, ProduceInv, NEW o \in Produce!Operations,
           Produce!RequestCancel(o) \/ Produce!TaskStep(o)
    PROVE  ProduceInv'
<1>1. /\ operation = [q \in Produce!Operations |-> operation[q]]
      /\ instance = [q \in Produce!Operations |-> instance[q]]
      /\ OperationShape(operation[o]) /\ InstanceShape(instance[o]) /\ PageShape(page[o])
      /\ o \in Backfills => /\ PageOK(o, operation[o], instance[o], page[o], stable[o], searches)
                            /\ CountedOK(o, operation[o], searches)
  BY OwnRows DEF ProduceInv, ShapesOK
<1>2. UNCHANGED <<complete, eligible, page, searches, stable>>
  BY DEF Produce!RequestCancel, Produce!TaskStep, Produce!CancelInstance, Produce!Settle
<1>3. \E p, w : /\ operation' = [operation EXCEPT ![o] = p] /\ instance' = [instance EXCEPT ![o] = w]
               /\ OperationShape(p) /\ p.state = operation[o].state /\ p.produced = operation[o].produced
               /\ p.selection = operation[o].selection
               /\ InstanceShape(w) /\ w.cursor = instance[o].cursor /\ (instance[o].at = "none" => w.at = "none")
  <2>1. CASE Produce!RequestCancel(o)
    <3> DEFINE p == [operation[o] EXCEPT !.task = "cancellation_requested"]
               w == [instance[o] EXCEPT !.at = IF @ = "activity" THEN "cancelling" ELSE @]
    <3>1. operation' = [operation EXCEPT ![o] = p] /\ instance' = [instance EXCEPT ![o] = w]
      BY <1>1, <2>1 DEF Produce!RequestCancel
    <3>2. /\ OperationShape(p) /\ p.state = operation[o].state /\ p.produced = operation[o].produced
          /\ p.selection = operation[o].selection
          /\ InstanceShape(w) /\ w.cursor = instance[o].cursor /\ (instance[o].at = "none" => w.at = "none")
      BY <1>1 DEF OperationShape, InstanceShape
    <3> HIDE DEF p, w
    <3> QED
      BY <3>1, <3>2
  <2>2. CASE Produce!CancelInstance(o)
    <3> DEFINE w == [instance[o] EXCEPT !.at = "cancelled"]
    <3>1. /\ operation' = [operation EXCEPT ![o] = operation[o]] /\ instance' = [instance EXCEPT ![o] = w]
          /\ instance[o].at # "none"
      BY <1>1, <2>2 DEF Produce!CancelInstance
    <3>2. InstanceShape(w) /\ w.cursor = instance[o].cursor
      BY <1>1 DEF InstanceShape
    <3> HIDE DEF w
    <3> QED
      BY <1>1, <3>1, <3>2
  <2>3. CASE Produce!Settle(o)
    <3> DEFINE p == [operation[o] EXCEPT !.task = instance[o].at]
    <3>1. operation' = [operation EXCEPT ![o] = p] /\ instance' = [instance EXCEPT ![o] = instance[o]]
      BY <1>1, <2>3 DEF Produce!Settle
    <3>2. /\ OperationShape(p) /\ p.state = operation[o].state /\ p.produced = operation[o].produced
          /\ p.selection = operation[o].selection
      BY <1>1 DEF OperationShape
    <3> HIDE DEF p
    <3> QED
      BY <1>1, <3>1, <3>2
  <2> QED
    BY <2>1, <2>2, <2>3 DEF Produce!TaskStep
<1>4. PICK p, w : /\ operation' = [operation EXCEPT ![o] = p] /\ instance' = [instance EXCEPT ![o] = w]
                  /\ OperationShape(p) /\ p.state = operation[o].state /\ p.produced = operation[o].produced
                  /\ p.selection = operation[o].selection
                  /\ InstanceShape(w) /\ w.cursor = instance[o].cursor /\ (instance[o].at = "none" => w.at = "none")
  BY <1>3
<1>5. page' = [page EXCEPT ![o] = page[o]] /\ InventoryOK'
  BY <1>2, OwnRows DEF ProduceInv, InventoryOK
<1>6. ASSUME o \in Backfills
      PROVE  PageOK(o, p, w, page[o], stable'[o], searches') /\ CountedOK(o, p, searches')
  <2>1. PageOK(o, p, w, page[o], stable[o], searches)
    BY <1>1, <1>4, <1>6 DEF PageOK
  <2>2. CountedOK(o, p, searches)
    BY <1>1, <1>4, <1>6 DEF CountedOK
  <2> QED
    BY <1>2, <2>1, <2>2
<1> QED
  BY <1>1, <1>2, <1>4, <1>5, <1>6, OneOperation, Zenon

\* A completion is no backfill's.
LEMMA ProjectCompletionStep ==
    ASSUME ProduceBounds, ProduceInv, NEW o \in Completions, Produce!ProjectCompletion(o)
    PROVE  ProduceInv'
<1> DEFINE all == AllSearches("completion", {CompletedOf[o]}, eligible)
           new == Produce!AcceptIn("completion", {CompletedOf[o]}, eligible)
<1>1. o \in Produce!Operations /\ o \notin Backfills
  BY DEF Produce!Operations, ProduceBounds, Produce!Bounds
<1>2. /\ operation = [q \in Produce!Operations |-> operation[q]]
      /\ page = [q \in Produce!Operations |-> page[q]]
      /\ OperationShape(operation[o]) /\ InstanceShape(instance[o]) /\ PageShape(page[o])
      /\ instance = [instance EXCEPT ![o] = instance[o]]
      /\ operation = [operation EXCEPT ![o] = operation[o]]
  BY <1>1, OwnRows, Zenon DEF ProduceInv, ShapesOK
<1>3. UNCHANGED <<complete, eligible, instance, stable>>
  BY Zenon DEF Produce!ProjectCompletion
<1>4. InventoryOK'
  BY <1>3 DEF ProduceInv, InventoryOK
<1>5. CASE new = None
  <2> DEFINE e == [page[o] EXCEPT !.pc = "failed"]
  <2>1. page' = [page EXCEPT ![o].pc = "failed"] /\ UNCHANGED <<operation, searches>>
    BY <1>5, Zenon DEF Produce!ProjectCompletion
  <2>2. page' = [page EXCEPT ![o] = e] /\ PageShape(e)
    BY <1>1, <1>2, <2>1 DEF PageShape
  <2> HIDE DEF e
  <2> QED
    BY <1>1, <1>3, <2>1, <2>2, PageMoves, Zenon
<1>6. CASE new # None
  <2> DEFINE produced == Produce!Cardinality(new)
             p == [operation[o] EXCEPT !.state = "completed", !.task = "completed",
                                       !.produced = IF produced > @ THEN produced ELSE @]
             e == [page[o] EXCEPT !.pc = "done"]
  <2>1. /\ searches' = searches \cup new /\ page' = [page EXCEPT ![o].pc = "done"]
        /\ operation' = [operation EXCEPT ![o].state = "completed", ![o].task = "completed",
                                          ![o].produced = IF produced > @ THEN produced ELSE @]
    BY <1>6, Zenon DEF Produce!ProjectCompletion
  <2>2. new \subseteq all
    BY <1>6 DEF Produce!AcceptIn, AllSearches
  <2> HIDE DEF new, produced
  <2>3. operation' = [operation EXCEPT ![o] = p] /\ OperationShape(p)
    BY <1>1, <1>2, <2>1, Zenon DEF OperationShape
  <2>4. page' = [page EXCEPT ![o] = e] /\ PageShape(e)
    BY <1>1, <1>2, <2>1 DEF PageShape
  <2>5. \A s \in all : s.trigger = "completion"
    BY DEF AllSearches
  <2> HIDE DEF p, e, all
  <2>6. /\ searches \subseteq searches'
        /\ \A s \in searches' : s \in searches \/ s.trigger = o \/ s.trigger = "completion"
    BY <2>1, <2>2, <2>5
  <2> QED
    BY <1>1, <1>2, <1>3, <1>4, <2>3, <2>4, <2>6, OneOperation, Zenon
<1> QED
  BY <1>5, <1>6

\* Torrents and indexers come and go: there is less to cover.
LEMMA InventoryStep ==
    ASSUME ProduceBounds, ProduceInv, Produce!Change
    PROVE  ProduceInv'
<1>1. /\ UNCHANGED <<operation, instance, page, searches>>
      /\ stable' = [o \in Backfills |-> [torrents |-> stable[o].torrents \cap complete',
                                         indexers |-> stable[o].indexers \cap eligible']]
  BY Zenon DEF Produce!Change
<1>2. complete' \subseteq Torrents /\ eligible' \subseteq BackfillIndexers
  BY DEF Produce!Change, Produce!Toggle, ProduceInv, InventoryOK
<1>3. ASSUME NEW o \in Backfills
      PROVE  /\ DOMAIN stable'[o] = {"torrents", "indexers"}
             /\ stable'[o].torrents = stable[o].torrents \cap complete'
             /\ stable'[o].indexers = stable[o].indexers \cap eligible'
  BY <1>1
<1>4. InventoryOK'
  BY <1>1, <1>2, <1>3 DEF InventoryOK
<1>5. ShapesOK'
  BY <1>1, Zenon DEF ProduceInv, ShapesOK, OperationShape, InstanceShape, PageShape, Produce!Operations
<1>6. ASSUME NEW o \in Backfills
      PROVE  /\ PageOK(o, operation[o], instance[o], page[o], stable'[o], searches)
             /\ CountedOK(o, operation[o], searches)
  BY <1>3, <1>6, PageStays DEF ProduceInv, ProgressOK
<1>7. ASSUME NEW o \in Backfills
      PROVE  /\ PageOK(o, operation'[o], instance'[o], page'[o], stable'[o], searches')
             /\ CountedOK(o, operation'[o], searches')
  BY <1>1, <1>6
<1> QED
  BY <1>4, <1>5, <1>7, Zenon DEF ProduceInv, ProgressOK, PageOK, CountedOK, CoveredIn, Produce!BackfillSelected,
     Produce!LastRow

\* The process dies, or an activity is given up.
LEMMA FaultStep ==
    ASSUME ProduceBounds, ProduceInv, Produce!Fault
    PROVE  ProduceInv'
<1>1. UNCHANGED <<complete, eligible, operation, instance, searches, stable>>
  BY DEF Produce!Fault
<1>2. CASE page' = [o \in Produce!Operations |-> Produce!Idle]
  <2>1. InventoryOK'
    BY <1>1 DEF ProduceInv, InventoryOK
  <2>2. PageShape(Produce!Idle) /\ Produce!Idle.pc = "idle"
    BY DEF PageShape, Produce!Idle
  <2>3. \A o \in Produce!Operations : page'[o] = Produce!Idle
    BY <1>2
  <2>4. ShapesOK'
    <3>1. \A o \in Produce!Operations :
             OperationShape(operation[o]) /\ InstanceShape(instance[o]) /\ PageShape(page'[o])
      BY <2>2, <2>3 DEF ProduceInv, ShapesOK
    <3> QED
      BY <1>1, <1>2, <3>1
         DEF ProduceInv, ShapesOK, OperationShape, InstanceShape, PageShape, Produce!Operations
  <2>5. ASSUME NEW o \in Backfills
        PROVE  /\ PageOK(o, operation[o], instance[o], page'[o], stable[o], searches)
               /\ CountedOK(o, operation[o], searches)
    <3>1. page'[o] = Produce!Idle
      BY <2>3 DEF Produce!Operations
    <3>2. /\ PageOK(o, operation[o], instance[o], page[o], stable[o], searches)
          /\ CountedOK(o, operation[o], searches)
      BY DEF ProduceInv, ProgressOK
    <3> QED
      BY <2>2, <3>1, <3>2, Zenon DEF PageOK
  <2>6. ASSUME NEW o \in Backfills
        PROVE  /\ PageOK(o, operation'[o], instance'[o], page'[o], stable'[o], searches')
               /\ CountedOK(o, operation'[o], searches')
    BY <1>1, <2>5
  <2> QED
    BY <2>1, <2>4, <2>6, Zenon DEF ProduceInv, ProgressOK, PageOK, CountedOK, CoveredIn, Produce!BackfillSelected,
       Produce!LastRow
<1>3. ASSUME NEW o \in Produce!Operations, Produce!Running(o),
             page' = [page EXCEPT ![o].pc = "failed"]
      PROVE  ProduceInv'
  <2> DEFINE e == [page[o] EXCEPT !.pc = "failed"]
  <2>1. /\ PageShape(page[o]) /\ page = [q \in Produce!Operations |-> page[q]]
        /\ o \in Backfills => PageOK(o, operation[o], instance[o], page[o], stable[o], searches)
    BY OwnRows DEF ProduceInv, ShapesOK
  <2>2. page' = [page EXCEPT ![o] = e]
    BY <1>3, <2>1
  <2>3. PageShape(e) /\ e.pc = "failed"
    BY <2>1 DEF PageShape
  <2> HIDE DEF e
  <2>4. o \in Backfills => PageOK(o, operation[o], instance[o], e, stable[o], searches)
    BY <1>3, <2>1, <2>3 DEF PageOK, Produce!Running
  <2> QED
    BY <1>1, <2>2, <2>3, <2>4, PageMoves, Zenon
<1> QED
  BY <1>2, <1>3 DEF Produce!Fault

\* Every step preserves the invariant.
LEMMA ProduceNext ==
    ASSUME ProduceBounds, ProduceInv, [Produce!Next]_produceVars
    PROVE  ProduceInv'
<1>1. CASE Produce!Change
  BY <1>1, InventoryStep
<1>2. CASE Produce!Fault
  BY <1>2, FaultStep
<1>3. ASSUME NEW o \in Backfills, Produce!AcceptBackfill(o)
      PROVE  ProduceInv'
  <2>1. o \in Produce!Operations
    BY DEF Produce!Operations
  <2> QED
    BY <1>3, <2>1, QueueStep, Zenon DEF Produce!AcceptBackfill
<1>4. ASSUME NEW o \in Backfills, Produce!BackfillStep(o)
      PROVE  ProduceInv'
  <2>1. o \in Produce!Operations
    BY DEF Produce!Operations
  <2> QED
    BY <1>4, <2>1, ReadRowsStep, ReadIndexersStep, AcceptPageStep, ReturnStep, TaskRowStep
       DEF Produce!BackfillStep
<1>5. ASSUME NEW o \in Completions, Produce!AcceptCompletion(o)
      PROVE  ProduceInv'
  <2>1. o \in Produce!Operations /\ o \notin Backfills
    BY DEF Produce!Operations, ProduceBounds, Produce!Bounds
  <2> QED
    BY <1>5, <2>1, QueueStep DEF Produce!AcceptCompletion
<1>6. ASSUME NEW o \in Completions, Produce!CompletionStep(o)
      PROVE  ProduceInv'
  <2>1. o \in Produce!Operations
    BY DEF Produce!Operations
  <2> QED
    BY <1>6, <2>1, ProjectCompletionStep, ReturnStep, TaskRowStep DEF Produce!CompletionStep
<1>7. ASSUME NEW o \in Produce!Operations, Produce!RequestCancel(o)
      PROVE  ProduceInv'
  BY <1>7, TaskRowStep
<1>8. CASE UNCHANGED produceVars
  <2>1. InventoryOK' /\ ShapesOK'
    BY <1>8, Zenon DEF produceVars, ProduceInv, InventoryOK, ShapesOK, OperationShape, InstanceShape, PageShape,
       Produce!Operations
  <2>2. ASSUME NEW o \in Backfills
        PROVE  /\ PageOK(o, operation'[o], instance'[o], page'[o], stable'[o], searches')
               /\ CountedOK(o, operation'[o], searches')
    BY <1>8 DEF produceVars, ProduceInv, ProgressOK
  <2> QED
    BY <2>1, <2>2, Zenon DEF ProduceInv, ProgressOK, PageOK, CountedOK, CoveredIn, Produce!BackfillSelected,
       Produce!LastRow
<1> QED
  BY <1>1, <1>2, <1>3, <1>4, <1>5, <1>6, <1>7, <1>8 DEF Produce!Next

\* A backfill that reports completion has accepted a search of every selected torrent that was there
\* all the time, on every selected indexer that was eligible all the time, and counts its searches:
\* for every number of torrents, every page size and any number of crashes and retried pages.
THEOREM BackfillsCover == ASSUME ProduceBounds PROVE Produce!Spec => []BackfillCovers
<1>1. Produce!Init => ProduceInv
  BY ProduceInit
<1>2. ProduceInv /\ [Produce!Next]_(Produce!vars) => ProduceInv'
  BY ProduceNext DEF Produce!vars, produceVars
<1>3. ProduceInv => BackfillCovers
  <2> SUFFICES ASSUME ProduceInv, NEW o \in Backfills
               PROVE  /\ operation[o].produced = Produce!Cardinality(Own(o, searches))
                      /\ operation[o].state = "completed" =>
                            \A t \in stable[o].torrents, i \in stable[o].indexers :
                                Produce!BackfillSelected(t, operation[o].selection)
                                /\ Asked(operation[o].selection, i)
                                => Accepted(o, t, i) \in Own(o, searches)
    BY Zenon DEF BackfillCovers, Produce!BackfillCovers, Own, Asked, Accepted
  <2>1. /\ PageOK(o, operation[o], instance[o], page[o], stable[o], searches)
        /\ CountedOK(o, operation[o], searches)
    BY DEF ProduceInv, ProgressOK
  <2>2. operation[o].produced = Produce!Cardinality(Own(o, searches))
    BY <2>1, SameCardinality DEF CountedOK
  <2>3. \A t, i : Accepted(o, t, i).trigger = o
    BY DEF Accepted
  <2> QED
    BY <2>1, <2>2, <2>3 DEF PageOK, CoveredIn, Own
<1> QED
  BY <1>1, <1>2, <1>3, PTL DEF Produce!Spec
=============================================================================
