------------------------------- MODULE Search -------------------------------
(***************************************************************************)
(* SearchSourceIndexer (search.rs) and the Prowlarr client it calls.  Each *)
(* attempt searches one indexer for one source: the workflow repeats the   *)
(* activity, and sleeps on a durable timer when the activity says that the *)
(* indexer must not be asked yet.  The indexers share one row each of      *)
(* sporos_indexer_rate_limit.                                              *)
(*                                                                         *)
(* Times are relative to the current tick (one tick is MIN_REQUEST_GAP):   *)
(* an execution knows the time at which it was dispatched only, `age`      *)
(* ticks ago; limit[i] is next_eligible_at seen from now, negative in the  *)
(* past.  Nothing tells ages above MaxAge apart.                           *)
(***************************************************************************)
EXTENDS Integers, FiniteSets, Sequences

CONSTANTS
    None,
    Attempts, Indexers,
    IndexerOf,              \* [Attempts -> Indexers]
    SourceOf,               \* [Attempts -> [title, year, size, kind, external]]
    Catalogues,             \* answers of Prowlarr to the indexer and tag requests
    TagPolicy,              \* [include, exclude, proxyOnly]: the configuration
    Results,                \* results Prowlarr may list
    MaxResults,             \* max_results_per_query
    RetryAfters,            \* values of a Retry-After header, None without one
    RetryMax,               \* RETRY_MAX, in ticks
    ActivityTries,          \* attempts of activity_retry_policy
    \* Bounds of the model: delay of an execution; crashes and errors; requests of others.
    MaxAge, MaxFaults, MaxOthers

ASSUME SearchAssumption ==
    /\ IndexerOf \in [Attempts -> Indexers]
    /\ RetryAfters \ {None} \subseteq Nat
    /\ RetryMax \in Nat
    /\ MaxAge \in Nat

VARIABLES
    indexer,    \* rows of sporos_indexer: what an eligible one supports, None for the others
    limit,      \* rows of sporos_indexer_rate_limit, seen from now
    workflow,   \* [Attempts -> [at, timer, tries]]
    exec,       \* [Attempts -> the running activity]
    attempt,    \* rows of sporos_search_attempt: [waits, downloaded]; their state, which
                \* nothing reads, mirrors the task's
    task,       \* rows of sporos_task: [state, terminal]
    linked,     \* ordinals whose row of sporos_search_result_summary names a candidate
    imposed,    \* history: the ticks for which an indexer is still to be left alone, counted
                \* from when an answer came or a request was let through
    lag,        \* history: how long the search that was given them had been dispatched
    faults, others

rows == <<attempt, task, linked>>
vars == <<indexer, limit, workflow, exec, attempt, task, linked, imposed, lag, faults, others>>

MaxOf(a, b) == IF a > b THEN a ELSE b
Past == -MaxAge - 1

\* A search that was dispatched age ticks ago learns that the indexer wants gap ticks of rest;
\* what lasts longest counts.
Impose(i, gap, age) ==
    IF gap > imposed[i] \/ (gap = imposed[i] /\ age < lag[i])
    THEN imposed' = [imposed EXCEPT ![i] = gap] /\ lag' = [lag EXCEPT ![i] = age]
    ELSE UNCHANGED <<imposed, lag>>

Terminal == {"completed", "failed", "cancelled"}

(***************************************************************************)
(* Indexers: eligibility and what they can be asked.                       *)
(***************************************************************************)
\* A label resolves when exactly one tag of the catalogue carries it.
Resolves(labels, tags) ==
    \A label \in labels : Cardinality({t \in tags : t.label = label}) = 1

TagIds(labels, tags) == {t.id : t \in {t \in tags : t.label \in labels}}

Eligible(resource, include, exclude) ==
    /\ resource.enable
    /\ resource.protocol = "torrent"
    /\ resource.supportsSearch
    /\ ~(TagPolicy.proxyOnly /\ resource.redirect)
    /\ resource.tags \cap exclude = {}
    /\ include = {} \/ resource.tags \cap include # {}
    /\ ~resource.disabledTill

\* One round of prowlarr_loop.  A failed request or an unresolved label changes nothing;
\* otherwise every row is rewritten in one transaction, the unlisted ones as not observed.
RefreshIndexers ==
    \E catalogue \in Catalogues :
        LET include == TagIds(TagPolicy.include, catalogue.tags)
            exclude == TagIds(TagPolicy.exclude, catalogue.tags)
            listed(i) == {r \in catalogue.resources : r.id = i}
            project(i) ==
                IF \E r \in listed(i) : Eligible(r, include, exclude)
                THEN (CHOOSE r \in listed(i) : TRUE).supported
                ELSE None
        IN  /\ Resolves(TagPolicy.include \cup TagPolicy.exclude, catalogue.tags)
            /\ indexer' = [i \in Indexers |-> project(i)]
            /\ UNCHANGED <<limit, workflow, exec, rows, imposed, lag, faults, others>>

\* SearchQuery::for_release: an external id the indexer supports, else the title.
Field(kind) ==
    CASE kind = "movie" -> "movie"
      [] kind \in {"episode", "season_pack", "date_episode", "absolute_episode"} -> "tvsearch"
      [] OTHER -> "search"

Query(release, supported) ==
    LET params == {p.name : p \in {p \in supported : p.field = Field(release.kind)}}
    IN  release.external \cap params # {} \/ "q" \in params

(***************************************************************************)
(* One execution of the activity.                                          *)
(***************************************************************************)
Idle == [pc |-> "idle", age |-> 0, left |-> <<>>, ordinal |-> 0, downloaded |-> 0,
         reason |-> None, delay |-> 0]

Goto(a, pc) == exec' = [exec EXCEPT ![a].pc = pc]

\* The activity decides to end the task.
FinishWith(a, reason) ==
    exec' = [exec EXCEPT ![a] = [Idle EXCEPT !.pc = "finish_attempt", !.reason = reason,
                                             !.downloaded = exec[a].downloaded]]

\* It decides to wait; what it knew of the time has gone into the delay.
WaitFor(a, delay) == exec' = [exec EXCEPT ![a] = [Idle EXCEPT !.pc = "wait_attempt", !.delay = delay]]

\* Delivery of the activity: now_ms() is read here, before the permit is awaited.
Dispatch(a) ==
    /\ workflow[a].at = "activity"
    /\ exec[a].pc = "idle"
    /\ exec' = [exec EXCEPT ![a] = [Idle EXCEPT !.pc = "permit"]]
    /\ UNCHANGED <<indexer, limit, workflow, rows, imposed, lag, faults, others>>

\* The limiter's semaphore serves its waiters in order.
Permit(a) ==
    /\ exec[a].pc = "permit"
    /\ Goto(a, "prepare")
    /\ UNCHANGED <<indexer, limit, workflow, rows, imposed, lag, faults, others>>

\* load_source and indexer_query, which only read.  Inventory and scans make sources
\* available and not: either answer is possible here.
Prepare(a) ==
    LET row == indexer[IndexerOf[a]]
    IN  /\ exec[a].pc = "prepare"
        /\ \/ FinishWith(a, "source_unavailable")
           \/ row # None /\ ~Query(SourceOf[a], row) /\ FinishWith(a, "indexer_ineligible")
           \/ row # None /\ Query(SourceOf[a], row) /\ Goto(a, "claim")
        /\ UNCHANGED <<indexer, limit, workflow, rows, imposed, lag, faults, others>>

\* claim_indexer, in the time of the dispatch.
Claim(a) ==
    LET i == IndexerOf[a]
        now == -exec[a].age
    IN  /\ exec[a].pc = "claim"
        /\ IF limit[i] > now
           THEN /\ WaitFor(a, limit[i] - now)
                /\ UNCHANGED <<limit, imposed, lag>>
           ELSE /\ limit' = [limit EXCEPT ![i] = now + 1]
                /\ Impose(i, 1, exec[a].age)
                /\ Goto(a, "mark")
        /\ UNCHANGED <<indexer, workflow, rows, faults, others>>

MarkSearching(a) ==
    /\ exec[a].pc = "mark"
    /\ task' = [task EXCEPT ![a].state = IF task[a].terminal THEN @ ELSE "searching"]
    /\ Goto(a, "request")
    /\ UNCHANGED <<indexer, limit, workflow, attempt, linked, imposed, lag, faults, others>>

\* Prowlarr answers with a list, cut at max_results_per_query.
Listed(a) ==
    /\ exec[a].pc = "request"
    /\ \E n \in 0 .. MaxResults : \E results \in [1 .. n -> Results] :
          exec' = [exec EXCEPT ![a].pc = "judge", ![a].left = results]
    /\ UNCHANGED <<indexer, limit, workflow, rows, imposed, lag, faults, others>>

\* The backoff of retry.rs: doubled per failure up to the maximum, up to a fifth sooner.
Calculated(failures) ==
    LET delay == IF 2 ^ (failures - 1) > RetryMax THEN RetryMax ELSE 2 ^ (failures - 1)
    IN  {t \in 0 .. RetryMax : delay - (delay * 20) \div 100 <= t /\ t <= delay}

\* Faulty variant: the newest deadline replaces the stored one.
PenaltyReplaces(i, next) == limit' = [limit EXCEPT ![i] = next]

Penalty(i, next) == limit' = [limit EXCEPT ![i] = MaxOf(@, next)]

\* dependency_error after a 429, a server error or a lost connection.
DependencyError(a) ==
    /\ exec[a].pc \in {"request", "download"}
    /\ \E retryAfter \in RetryAfters, calculated \in Calculated(attempt[a].waits + 1) :
          LET wanted == IF retryAfter = None THEN calculated ELSE MaxOf(retryAfter, calculated)
              delay == MaxOf(wanted, 1)
              next == delay - exec[a].age
          IN  /\ Penalty(IndexerOf[a], next)
              /\ Impose(IndexerOf[a], delay, exec[a].age)
              /\ WaitFor(a, delay)
    /\ UNCHANGED <<indexer, workflow, rows, faults, others>>

\* Any number of searches of the same indexer run beside the attempts, each with a time of
\* its own: what they do to the indexer's row, and nothing else of them.
OthersClaim(i) ==
    /\ others < MaxOthers
    /\ \E age \in 0 .. MaxAge :
          /\ limit[i] <= -age
          /\ limit' = [limit EXCEPT ![i] = 1 - age]
          /\ Impose(i, 1, age)
    /\ others' = others + 1
    /\ UNCHANGED <<indexer, workflow, exec, rows, faults>>

OthersFail(i) ==
    /\ others < MaxOthers
    /\ \E age \in 0 .. MaxAge, delay \in Calculated(1) \cup (RetryAfters \ {None}) :
          /\ Penalty(i, delay - age)
          /\ Impose(i, delay, age)
    /\ others' = others + 1
    /\ UNCHANGED <<indexer, workflow, exec, rows, faults>>

\* Any other error of the search request.
InvalidResponse(a) ==
    /\ exec[a].pc = "request"
    /\ FinishWith(a, "invalid_search_response")
    /\ UNCHANGED <<indexer, limit, workflow, rows, imposed, lag, faults, others>>

Plausible(source, result) ==
    /\ result.size # 0
    /\ result.size # None => result.size >= source.size \div 20
    /\ result.title = source.title
    /\ None \in {result.year, source.year} \/ result.year = source.year

\* The next result, filtered or marked as eligible.
Judge(a) ==
    /\ exec[a].pc = "judge"
    /\ exec[a].left # <<>>
    /\ IF Plausible(SourceOf[a], Head(exec[a].left))
       THEN exec' = [exec EXCEPT ![a].ordinal = @ + 1, ![a].pc = "download"]
       ELSE exec' = [exec EXCEPT ![a].ordinal = @ + 1, ![a].left = Tail(@)]
    /\ UNCHANGED <<indexer, limit, workflow, rows, imposed, lag, faults, others>>

\* The download becomes a candidate with its task, in one transaction of candidate.rs; or
\* it is refused: no torrent, an unsafe address, a permanent failure.
Download(a) ==
    /\ exec[a].pc = "download"
    /\ \/ exec' = [exec EXCEPT ![a].pc = "accepted", ![a].downloaded = @ + 1]
       \/ exec' = [exec EXCEPT ![a].pc = "refused"]
    /\ UNCHANGED <<indexer, limit, workflow, rows, imposed, lag, faults, others>>

\* Faulty variant: the row loses the candidate of an earlier execution.
SummaryAnew(a) ==
    IF exec[a].pc = "accepted" THEN linked[a] \cup {exec[a].ordinal} ELSE linked[a] \ {exec[a].ordinal}

\* The upsert of a summary keeps the candidate the row already has.
Summary(a) == IF exec[a].pc = "accepted" THEN linked[a] \cup {exec[a].ordinal} ELSE linked[a]

Summarize(a) ==
    /\ exec[a].pc \in {"accepted", "refused"}
    /\ linked' = [linked EXCEPT ![a] = Summary(a)]
    /\ exec' = [exec EXCEPT ![a].pc = "judge", ![a].left = Tail(@)]
    /\ UNCHANGED <<indexer, limit, workflow, attempt, task, imposed, lag, faults, others>>

AllJudged(a) ==
    /\ exec[a].pc = "judge"
    /\ exec[a].left = <<>>
    /\ FinishWith(a, "completed")
    /\ UNCHANGED <<indexer, limit, workflow, rows, imposed, lag, faults, others>>

\* finish: the attempt's row, then the task's, whatever the task's row says.
Finish(a) ==
    LET state == IF exec[a].reason = "completed" THEN "completed" ELSE "failed"
    IN  /\ \/ /\ exec[a].pc = "finish_attempt"
              /\ attempt' = [attempt EXCEPT ![a].downloaded = MaxOf(@, exec[a].downloaded)]
              /\ Goto(a, "finish_task")
              /\ UNCHANGED task
           \/ /\ exec[a].pc = "finish_task"
              /\ task' = [task EXCEPT ![a] = [state |-> state, terminal |-> TRUE]]
              /\ Goto(a, "ended")
              /\ UNCHANGED attempt
        /\ UNCHANGED <<indexer, limit, workflow, linked, imposed, lag, faults, others>>

\* Faulty variant: the task is set to waiting whatever its state.
WaitingTaskAlways(a) == [task EXCEPT ![a].state = "waiting_dependency"]

WaitingTask(a) ==
    [task EXCEPT ![a].state = IF task[a].terminal THEN @ ELSE "waiting_dependency"]

\* The count of waits only feeds the backoff, which is constant once it reached its maximum.
Wait(a) ==
    /\ \/ /\ exec[a].pc = "wait_attempt"
          /\ attempt' = [attempt EXCEPT ![a].waits = IF 2 ^ @ > RetryMax THEN @ ELSE @ + 1]
          /\ Goto(a, "wait_task")
          /\ UNCHANGED task
       \/ /\ exec[a].pc = "wait_task"
          /\ task' = WaitingTask(a)
          /\ Goto(a, "waits")
          /\ UNCHANGED attempt
    /\ UNCHANGED <<indexer, limit, workflow, linked, imposed, lag, faults, others>>

\* Faulty variant: the workflow takes a wait for the end.
ReturnGivesUp(a) ==
    /\ exec[a].pc \in {"ended", "waits"}
    /\ exec' = [exec EXCEPT ![a] = Idle]
    /\ workflow' = [workflow EXCEPT ![a].at = "ended"]
    /\ UNCHANGED <<indexer, limit, rows, imposed, lag, faults, others>>

\* The outcome reaches the workflow, unless the instance has been cancelled meanwhile.
Return(a) ==
    /\ exec[a].pc \in {"ended", "waits"}
    /\ exec' = [exec EXCEPT ![a] = Idle]
    /\ workflow' = [workflow EXCEPT ![a] =
         IF @.at # "activity" THEN @
         ELSE IF exec[a].pc = "ended" THEN [@ EXCEPT !.at = "ended"]
         ELSE [at |-> "timer", timer |-> exec[a].delay, tries |-> 0]]
    /\ UNCHANGED <<indexer, limit, rows, imposed, lag, faults, others>>

(***************************************************************************)
(* Workflow, time and faults.                                              *)
(***************************************************************************)
TimerFires(a) ==
    /\ workflow[a].at = "timer"
    /\ workflow[a].timer = 0
    /\ workflow' = [workflow EXCEPT ![a].at = "activity"]
    /\ UNCHANGED <<indexer, limit, exec, rows, imposed, lag, faults, others>>

Earlier(instant) == IF instant > Past THEN instant - 1 ELSE Past

\* The execution still uses the time of its dispatch.
Timed(a) ==
    exec[a].pc \in {"permit", "prepare", "claim", "mark", "request", "judge", "download", "accepted", "refused"}

Tick ==
    /\ \A a \in Attempts : Timed(a) => exec[a].age < MaxAge
    /\ exec' = [a \in Attempts |-> IF Timed(a) THEN [exec[a] EXCEPT !.age = @ + 1] ELSE exec[a]]
    /\ limit' = [i \in Indexers |-> Earlier(limit[i])]
    /\ imposed' = [i \in Indexers |-> MaxOf(imposed[i] - 1, 0)]
    /\ lag' = [i \in Indexers |-> IF imposed[i] > 1 THEN lag[i] ELSE 0]
    /\ workflow' = [a \in Attempts |-> [workflow[a] EXCEPT !.timer = MaxOf(@ - 1, 0)]]
    /\ UNCHANGED <<indexer, rows, faults, others>>

\* A storage error: the retry policy runs the activity again, or the instance fails.
\* The projection repair then fails the task.
ActivityFails(a) ==
    /\ exec[a].pc # "idle"
    /\ faults < MaxFaults
    /\ faults' = faults + 1
    /\ exec' = [exec EXCEPT ![a] = Idle]
    /\ IF workflow[a].at # "activity" THEN UNCHANGED <<workflow, task>>
       ELSE IF workflow[a].tries + 1 < ActivityTries
       THEN workflow' = [workflow EXCEPT ![a].tries = @ + 1] /\ UNCHANGED task
       ELSE /\ workflow' = [workflow EXCEPT ![a].at = "ended"]
            /\ task' = [task EXCEPT ![a] = IF @.terminal THEN @ ELSE [state |-> "failed", terminal |-> TRUE]]
    /\ UNCHANGED <<indexer, limit, attempt, linked, imposed, lag, others>>

\* The process dies: running activities are lost and delivered again, from the start.
Crash ==
    /\ faults < MaxFaults
    /\ faults' = faults + 1
    /\ exec' = [a \in Attempts |-> Idle]
    /\ UNCHANGED <<indexer, limit, workflow, rows, imposed, lag, others>>

\* A cancellation, from its request to its confirmation; an activity already running is not
\* stopped.  A retry of the task afterwards is a search of its own.
Cancel(a) ==
    /\ workflow[a].at # "ended"
    /\ ~task[a].terminal
    /\ workflow' = [workflow EXCEPT ![a].at = "ended"]
    /\ task' = [task EXCEPT ![a] = [state |-> "cancelled", terminal |-> TRUE]]
    /\ UNCHANGED <<indexer, limit, exec, attempt, linked, imposed, lag, faults, others>>

Init ==
    /\ indexer = [i \in Indexers |-> None]
    /\ limit = [i \in Indexers |-> Past]
    /\ workflow = [a \in Attempts |-> [at |-> "activity", timer |-> 0, tries |-> 0]]
    /\ exec = [a \in Attempts |-> Idle]
    /\ attempt = [a \in Attempts |-> [waits |-> 0, downloaded |-> 0]]
    /\ task = [a \in Attempts |-> [state |-> "queued", terminal |-> FALSE]]
    /\ linked = [a \in Attempts |-> {}]
    /\ imposed = [i \in Indexers |-> 0]
    /\ lag = [i \in Indexers |-> 0]
    /\ faults = 0
    /\ others = 0

Step(a) ==
    \/ Dispatch(a) \/ Permit(a) \/ Prepare(a) \/ Claim(a)
    \/ MarkSearching(a) \/ Judge(a) \/ Summarize(a) \/ AllJudged(a)
    \/ Finish(a) \/ Wait(a) \/ Return(a) \/ TimerFires(a)

Next ==
    \/ RefreshIndexers \/ Tick \/ Crash
    \/ \E i \in Indexers : OthersClaim(i) \/ OthersFail(i)
    \/ \E a \in Attempts :
          \/ Step(a) \/ Listed(a) \/ DependencyError(a) \/ InvalidResponse(a) \/ Download(a)
          \/ ActivityFails(a) \/ Cancel(a)

\* The runtime keeps running the activities, time passes, and Prowlarr answers requests.
Fairness ==
    /\ WF_vars(Tick)
    /\ \A a \in Attempts : WF_vars(Step(a) \/ Listed(a) \/ Download(a))

\* Outages and rate limits of Prowlarr come to an end: a search is retried from the start
\* for as long as one of its requests fails.
OutagesEnd == \A a \in Attempts : <>[][~DependencyError(a)]_vars

Spec == Init /\ [][Next]_vars /\ Fairness /\ OutagesEnd

(***************************************************************************)
(* Properties.                                                             *)
(***************************************************************************)
TypeOK ==
    /\ \A a \in Attempts :
          /\ workflow[a].at \in {"activity", "timer", "ended"}
          /\ exec[a].age \in 0 .. MaxAge /\ exec[a].ordinal \in 0 .. MaxResults
          /\ task[a].state \in {"queued", "searching", "waiting_dependency"} \cup Terminal

\* The indexer's limit: whatever searches of it are in flight together, none is let through
\* before the end of the longest Retry-After, backoff or minimal gap that any has been given,
\* but for the time that the one that was given it had been under way by then: claim_indexer
\* and dependency_error count from the dispatch (search.rs:641).  A short delay never shortens
\* a long one, and a limit that is given at once is kept to the tick.
EarlyByWaitAtMost ==
    [][\A a \in Attempts :
          exec[a].pc = "claim" /\ exec'[a].pc = "mark" => imposed[IndexerOf[a]] <= lag[IndexerOf[a]]]_vars

\* terminal_at and the state of a search's task agree, also when an activity runs again
\* after the task ended or was cancelled under it.
TerminalStateIsTerminal ==
    \A a \in Attempts : task[a].terminal <=> task[a].state \in Terminal

\* The downloads an attempt has counted are linked to their candidates in its summaries,
\* also after later executions of it listed something else or were refused.
CountedCandidatesAreLinked ==
    \A a \in Attempts :
        attempt[a].downloaded <= Cardinality(linked[a])

\* Every search gets there, through rate limits, outages, waits behind other searches of
\* its indexer, a crash or an error, once Prowlarr answers.
Ended(a) == workflow[a].at = "ended" /\ task[a].terminal
=============================================================================
