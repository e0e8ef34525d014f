------------------------------ MODULE Backfill ------------------------------
(***************************************************************************)
(* The operations that produce search tasks (search.rs, completion.rs).    *)
(* ProduceInventorySearch walks the complete torrents of the inventory in  *)
(* the order of their ids, one page per activity, and accepts one search   *)
(* per selected torrent and eligible indexer.  QbittorrentCompletion does  *)
(* so for one torrent that has completed.  A page's rows are read before   *)
(* the transaction that accepts their searches; torrents and indexers come *)
(* and go meanwhile, activities are delivered again after a crash, and the *)
(* task of an operation may be cancelled while a page is under way.        *)
(***************************************************************************)
EXTENDS Integers, FiniteSets

CONSTANTS
    None,
    Backfills, Completions,
    Torrents,               \* the ids, a set of integers
    Indexers,
    SourceOf,               \* [Completions -> Torrents]
    LabelsOf,               \* [Torrents -> [hash, category, tags, managed]]
    Selections,             \* what a request may select
    PageSize,
    MaxChanges, MaxCrashes  \* bounds of the model

\* Ids are integers of a fixed width, and an operation is of one kind.
Bounds(maxId) ==
    /\ maxId \in Nat /\ Torrents \subseteq 0 .. maxId
    /\ IsFiniteSet(Indexers)
    /\ PageSize \in Nat \ {0}
    /\ Backfills \cap Completions = {} /\ "completion" \notin Backfills
    /\ SourceOf \in [Completions -> Torrents]

VARIABLES
    complete,   \* torrents that are available and complete in sporos_qbit_torrent
    eligible,   \* eligible rows of sporos_indexer
    operation,  \* rows of sporos_operation, with the state of the operation's task
    instance,   \* the workflow of an operation: [at, cursor], at: none, activity (running),
                \* cancelling (running, its cancellation under way), or how it ended
    exec,       \* its running activity: [pc, rows, indexers]
    searches,   \* search tasks by their identity: [trigger, torrent, indexer]
    stable,     \* [Backfills -> [torrents, indexers]]: there ever since it was accepted
    changes, crashes

vars == <<complete, eligible, operation, instance, exec, searches, stable, changes, crashes>>

Operations == Backfills \cup Completions

Terminal == {"completed", "failed", "cancelled"}

Running(o) == instance[o].at \in {"activity", "cancelling"}

Idle == [pc |-> "idle", rows |-> {}, indexers |-> {}]

Queue(o, selection) ==
    /\ operation[o].state = "none"
    /\ operation' = [operation EXCEPT ![o].state = "queued", ![o].task = "queued",
                                      ![o].selection = selection]
    /\ instance' = [instance EXCEPT ![o].at = "activity"]
    /\ UNCHANGED <<complete, eligible, exec, searches, changes, crashes>>

\* An operation is named after its request: a repeated request changes nothing.
AcceptBackfill(o) ==
    /\ \E selection \in Selections : Queue(o, selection)
    /\ stable' = [stable EXCEPT ![o] = [torrents |-> complete, indexers |-> eligible]]

\* Named after the torrent and its time of completion.
AcceptCompletion(o) ==
    /\ SourceOf[o] \in complete
    /\ Queue(o, None)
    /\ UNCHANGED stable

(***************************************************************************)
(* One page.                                                               *)
(***************************************************************************)
FirstRows(cursor) ==
    LET after == {t \in complete : cursor = None \/ t > cursor}
    IN  {t \in after : Cardinality({u \in after : u <= t}) <= PageSize}

ReadRows(o) ==
    /\ Running(o)
    /\ exec[o].pc = "idle"
    /\ exec' = [exec EXCEPT ![o].pc = "indexers", ![o].rows = FirstRows(instance[o].cursor)]
    /\ UNCHANGED <<complete, eligible, operation, instance, searches, stable, changes, crashes>>

EligibleIndexers(selected) == IF selected = {} THEN eligible ELSE selected \cap eligible

ReadIndexers(o) ==
    /\ exec[o].pc = "indexers"
    /\ exec' = [exec EXCEPT ![o].pc = "accept",
                            ![o].indexers = EligibleIndexers(operation[o].selection.indexers)]
    /\ UNCHANGED <<complete, eligible, operation, instance, searches, stable, changes, crashes>>

BackfillSelected(t, selection) ==
    LET labels == LabelsOf[t]
        none(wanted) == wanted = {}
    IN  /\ none(selection.hashes) \/ labels.hash \in selection.hashes
        /\ none(selection.includeCategories) \/ labels.category \in selection.includeCategories
        /\ labels.category \notin selection.excludeCategories
        /\ none(selection.includeTags) \/ ~none(labels.tags \cap selection.includeTags)
        /\ none(labels.tags \cap selection.excludeTags)
        /\ ~labels.managed

\* Faulty variant: a page of which few rows were selected is taken for the last one.
IsLastPageBySelection(rows, selected) == Cardinality(selected) < PageSize

IsLastPage(rows, selected) == Cardinality(rows) < PageSize

LastRow(rows) == IF rows = {} THEN None ELSE CHOOSE t \in rows : \A u \in rows : u <= t

\* accept_in: the tasks that are new; None when a torrent is gone by now.
AcceptIn(trigger, torrents, indexers) ==
    IF indexers # {} /\ ~(torrents \subseteq complete) THEN None
    ELSE {[trigger |-> trigger, torrent |-> t, indexer |-> i] : t \in torrents, i \in indexers} \ searches

\* The transaction of a page.  Neither the operation nor its task is asked how it stands.
AcceptPage(o) ==
    LET rows == exec[o].rows
        selected == {t \in rows : BackfillSelected(t, operation[o].selection)}
        new == AcceptIn(o, selected, exec[o].indexers)
        state == IF IsLastPage(rows, selected) THEN "completed" ELSE "running"
    IN  /\ exec[o].pc = "accept"
        /\ IF new = None
           THEN /\ exec' = [exec EXCEPT ![o].pc = "failed"]
                /\ UNCHANGED <<operation, searches>>
           ELSE /\ searches' = searches \cup new
                /\ operation' = [operation EXCEPT ![o].state = state, ![o].task = state,
                                                  ![o].produced = @ + Cardinality(new)]
                /\ exec' = [exec EXCEPT ![o].pc = IF state = "completed" THEN "done" ELSE "more"]
        /\ UNCHANGED <<complete, eligible, instance, stable, changes, crashes>>

\* A completion is one transaction, from the indexers to the operation.
ProjectCompletion(o) ==
    LET new == AcceptIn("completion", {SourceOf[o]}, eligible)
        produced == Cardinality(new)
    IN  /\ Running(o)
        /\ exec[o].pc = "idle"
        /\ IF new = None
           THEN /\ exec' = [exec EXCEPT ![o].pc = "failed"]
                /\ UNCHANGED <<operation, searches>>
           ELSE /\ searches' = searches \cup new
                /\ operation' = [operation EXCEPT ![o].state = "completed", ![o].task = "completed",
                                                  ![o].produced = IF produced > @ THEN produced ELSE @]
                /\ exec' = [exec EXCEPT ![o].pc = "done"]
        /\ UNCHANGED <<complete, eligible, instance, stable, changes, crashes>>

ContinueFrom(o) == LastRow(exec[o].rows)

\* The activity's reply: the workflow continues as new after the page, or ends.  Nobody
\* waits for the reply once the workflow is cancelled.
Return(o) ==
    LET reply == exec[o].pc
    IN  /\ reply \in {"more", "done", "failed"}
        /\ instance' = [instance EXCEPT ![o] =
             IF ~Running(o) THEN @
             ELSE IF reply = "more" THEN [@ EXCEPT !.cursor = ContinueFrom(o)]
             ELSE [@ EXCEPT !.at = IF reply = "done" THEN "completed" ELSE "failed"]]
        /\ exec' = [exec EXCEPT ![o] = Idle]
        /\ UNCHANGED <<complete, eligible, operation, searches, stable, changes, crashes>>

(***************************************************************************)
(* The task: cancelled by an operator, and settled by what its workflow    *)
(* came to, unless the operation has done so.                              *)
(***************************************************************************)
RequestCancel(o) ==
    /\ operation[o].task \in {"queued", "running"}
    /\ changes < MaxChanges
    /\ changes' = changes + 1
    /\ operation' = [operation EXCEPT ![o].task = "cancellation_requested"]
    /\ instance' = [instance EXCEPT ![o].at = IF @ = "activity" THEN "cancelling" ELSE @]
    /\ UNCHANGED <<complete, eligible, exec, searches, stable, crashes>>

\* A page that is under way is not stopped.
CancelInstance(o) ==
    /\ instance[o].at = "cancelling"
    /\ instance' = [instance EXCEPT ![o].at = "cancelled"]
    /\ UNCHANGED <<complete, eligible, operation, exec, searches, stable, changes, crashes>>

\* By the workflow that cancels, or by the repair of projections.
Settle(o) ==
    /\ instance[o].at \in Terminal
    /\ operation[o].task \notin Terminal
    /\ operation' = [operation EXCEPT ![o].task = instance[o].at]
    /\ UNCHANGED <<complete, eligible, instance, exec, searches, stable, changes, crashes>>

TaskStep(o) == CancelInstance(o) \/ Settle(o)

(***************************************************************************)
(* Inventory, indexers and faults.                                         *)
(***************************************************************************)
Toggle(set, e) == IF e \in set THEN set \ {e} ELSE set \cup {e}

Change ==
    /\ changes < MaxChanges
    /\ changes' = changes + 1
    /\ \/ /\ \E t \in Torrents : complete' = Toggle(complete, t)
          /\ UNCHANGED eligible
       \/ /\ \E i \in Indexers : eligible' = Toggle(eligible, i)
          /\ UNCHANGED complete
    /\ stable' = [o \in Backfills |-> [torrents |-> stable[o].torrents \cap complete',
                                       indexers |-> stable[o].indexers \cap eligible']]
    /\ UNCHANGED <<operation, instance, exec, searches, crashes>>

\* The process dies, or the retries of one activity run out.
Fault ==
    /\ crashes < MaxCrashes
    /\ crashes' = crashes + 1
    /\ \/ exec' = [o \in Operations |-> Idle]
       \/ \E o \in Operations : /\ Running(o)
                                /\ exec' = [exec EXCEPT ![o].pc = "failed"]
    /\ UNCHANGED <<complete, eligible, operation, instance, searches, stable, changes>>

Init ==
    /\ complete = Torrents
    /\ eligible = Indexers
    /\ operation = [o \in Operations |->
                      [state |-> "none", task |-> "none", selection |-> None, produced |-> 0]]
    /\ instance = [o \in Operations |-> [at |-> "none", cursor |-> None]]
    /\ exec = [o \in Operations |-> Idle]
    /\ searches = {}
    /\ stable = [o \in Backfills |-> [torrents |-> {}, indexers |-> {}]]
    /\ changes = 0
    /\ crashes = 0

BackfillStep(o) == ReadRows(o) \/ ReadIndexers(o) \/ AcceptPage(o) \/ Return(o) \/ TaskStep(o)

CompletionStep(o) == ProjectCompletion(o) \/ Return(o) \/ TaskStep(o)

Next ==
    \/ Change \/ Fault
    \/ \E o \in Backfills : AcceptBackfill(o) \/ BackfillStep(o)
    \/ \E o \in Completions : AcceptCompletion(o) \/ CompletionStep(o)
    \/ \E o \in Operations : RequestCancel(o)

\* The runtime keeps delivering the activities of an operation, a cancellation is repeated
\* until the workflow has ended, and projections are repaired periodically.
Fairness ==
    /\ \A o \in Backfills : WF_vars(BackfillStep(o))
    /\ \A o \in Completions : WF_vars(CompletionStep(o))

Spec == Init /\ [][Next]_vars /\ Fairness

(***************************************************************************)
(* Properties.                                                             *)
(***************************************************************************)
\* A backfill that reports completion has accepted a search of every selected torrent that
\* was there all the time, on every selected indexer that was eligible all the time; and
\* its count of produced tasks is the number of its searches, however often a page ran.
BackfillCovers ==
    \A o \in Backfills :
        LET own == {s \in searches : s.trigger = o}
            selection == operation[o].selection
        IN  /\ operation[o].produced = Cardinality(own)
            /\ operation[o].state = "completed" =>
                  \A t \in stable[o].torrents, i \in stable[o].indexers :
                      BackfillSelected(t, selection) /\ (selection.indexers = {} \/ i \in selection.indexers)
                      => [trigger |-> o, torrent |-> t, indexer |-> i] \in own

\* Not accepted yet, or ended and its task with it.  Every accepted operation gets there:
\* paging does not run in circles, a torrent that disappears under a page stops the
\* operation instead of blocking it, and a page that finds its task cancelled and sets it
\* running again does not leave it so.
AtRest(o) ==
    \/ instance[o].at = "none"
    \/ instance[o].at \in Terminal /\ operation[o].task \in Terminal
=============================================================================
