--------------------------- MODULE QbitInventory ---------------------------
(***************************************************************************)
(* The inventory of qBittorrent's torrents (qbit_sync.rs,                  *)
(* qbit_projection.rs, the qbit_loop of app.rs).  One loop alternates      *)
(* between incremental syncs, which apply what changed since the stored    *)
(* response id, and full reconciliations, which page through the list.     *)
(* Both project torrents in batches and sweep, by generation, the ones a   *)
(* full pass has not seen; the cursor moves last.  qBittorrent changes     *)
(* between any two requests, and a pass may fail or crash after any batch. *)
(*                                                                         *)
(* Only the difference to the stored generation matters to the code, so    *)
(* last_seen_generation is "old", "current" or "next" relative to it, and  *)
(* the response id is represented by the state of the torrents it names.   *)
(* Of a torrent's fields, whether it is complete and when it was completed *)
(* are kept (0: not reported).  A batch holds one torrent.  The columns of *)
(* the file manifest, which the same projection marks stale, are modelled  *)
(* in QbitManifest.                                                        *)
(***************************************************************************)
EXTENDS Integers, FiniteSets

CONSTANTS
    Torrents,     \* infohashes, in list order
    PageSize,     \* inventory_batch_size
    MaxChanges,   \* bound on changes in qBittorrent
    MaxFaults     \* bound on failed passes and crashes

ASSUME InventoryAssumption ==
    /\ Torrents \subseteq Nat
    /\ IsFiniteSet(Torrents)
    /\ PageSize \in Nat \ {0}
    /\ MaxChanges \in Nat
    /\ MaxFaults \in Nat

VARIABLES
    world,        \* the torrents in qBittorrent
    rows,         \* sporos_qbit_torrent
    meta,         \* sporos_qbit_inventory_state
    pass,         \* the pass the loop is in
    completions,  \* sporos_qbit_completion, each with its task and outbox row
    changes,
    faults

vars == <<world, rows, meta, pass, completions, changes, faults>>

Fields == {"done", "on"}
NotThere == [present |-> FALSE, value |-> [done |-> 0, on |-> 0]]
NoRow == [known |-> FALSE, available |-> FALSE, value |-> [done |-> 0, on |-> 0], seen |-> "old"]
NoPass == [kind |-> "idle", full |-> FALSE, todo |-> {}, offset |-> 0, more |-> FALSE,
           detect |-> FALSE, view |-> [t \in Torrents |-> NotThere],
           thenSync |-> FALSE, validated |-> FALSE]

\* The clock, for a completion whose time qBittorrent has not reported.
Now == MaxChanges + 2

\* The loop between passes, and in a pass of the given kind.
Idle == [NoPass EXCEPT !.validated = pass.validated]
Enter(kind) == [Idle EXCEPT !.kind = kind]

Value == [Fields -> Nat]
Torrent == [present : BOOLEAN, value : Value]

\* A record of qBittorrent's answer: gone, or the fields it carries.
Change(t, gone, fields) == [torrent |-> t, gone |-> gone, fields |-> fields]

\* One type invariant for qBittorrent, the tables and the pass.
TypeOK ==
    /\ world \in [Torrents -> Torrent]
    /\ rows \in [Torrents -> [known : BOOLEAN, available : BOOLEAN, value : Value,
                              seen : {"old", "current", "next"}]]
    /\ meta \in [cursor : BOOLEAN, acked : [Torrents -> Torrent], baseline : BOOLEAN,
                 requested : BOOLEAN]
    /\ pass.kind \in {"idle", "ready", "sync", "reconcile"}
    /\ \A c \in pass.todo : c.torrent \in Torrents /\ DOMAIN c.fields \subseteq Fields
    /\ completions \in SUBSET (Torrents \X Nat)

Init ==
    /\ world \in [Torrents -> {NotThere,
                               [present |-> TRUE, value |-> [done |-> 0, on |-> 0]],
                               [present |-> TRUE, value |-> [done |-> 1, on |-> 1]]}]
    /\ rows = [t \in Torrents |-> NoRow]
    /\ meta = [cursor |-> FALSE, acked |-> [t \in Torrents |-> NotThere], baseline |-> FALSE,
               requested |-> FALSE]
    /\ pass = NoPass
    /\ completions = {}
    /\ changes = 0
    /\ faults = 0

-----------------------------------------------------------------------------
(* Requests                                                                *)

Present == {t \in Torrents : world[t].present}

\* What a full answer says of a torrent.
Whole(t) == Change(t, FALSE, world[t].value)

\* What an incremental answer says of a torrent, seen from the cursor's state.
Difference(t) ==
    LET old == meta.acked[t]
        new == world[t]
        changed == {f \in Fields : old.value[f] # new.value[f]}
    IN IF ~old.present /\ new.present THEN {Whole(t)}
       ELSE IF old.present /\ ~new.present THEN {Change(t, TRUE, <<>>)}
       ELSE IF new.present /\ changed # {}
       THEN {Change(t, FALSE, [f \in changed |-> new.value[f]])}
       ELSE {}

\* A tick of the sync timer: the contract is negotiated, and a requested
\* reconciliation goes first.
SyncTick ==
    /\ pass.kind = "idle"
    /\ pass' = IF meta.requested
               THEN [Enter("reconcile") EXCEPT !.validated = TRUE, !.full = TRUE, !.more = TRUE,
                                               !.detect = meta.baseline, !.thenSync = TRUE]
               ELSE [Enter("ready") EXCEPT !.validated = TRUE]
    /\ UNCHANGED <<world, rows, meta, completions, changes, faults>>

\* Faulty variant: the timer runs out once, until the first baseline.
FullTickOnce ==
    /\ pass.kind = "idle"
    /\ pass.validated
    /\ ~meta.baseline
    /\ pass' = [Enter("reconcile") EXCEPT !.full = TRUE, !.more = TRUE, !.detect = meta.baseline]
    /\ UNCHANGED <<world, rows, meta, completions, changes, faults>>

\* A tick of the reconciliation timer.
FullTick ==
    /\ pass.kind = "idle"
    /\ pass.validated
    /\ pass' = [Enter("reconcile") EXCEPT !.full = TRUE, !.more = TRUE, !.detect = meta.baseline]
    /\ UNCHANGED <<world, rows, meta, completions, changes, faults>>

\* Faulty variant: the cursor moves when the answer arrives.
SyncRequestEarly(full) ==
    /\ pass.kind = "ready"
    /\ ~meta.cursor => full
    /\ meta' = [meta EXCEPT !.cursor = TRUE, !.acked = world]
    /\ pass' = [Enter("sync") EXCEPT !.full = full, !.detect = meta.baseline,
                 !.view = world,
                 !.todo = IF full THEN {Whole(t) : t \in Present}
                          ELSE UNION {Difference(t) : t \in Torrents}]
    /\ UNCHANGED <<world, rows, completions, changes, faults>>

\* sync_once: qBittorrent answers in full without a cursor, or when it has
\* restarted.  There is no cursor without a baseline, so that the check of the
\* header (InitialUpdateNotFull) never fails.
SyncRequest(full) ==
    /\ pass.kind = "ready"
    /\ ~meta.cursor => full
    /\ pass' = [Enter("sync") EXCEPT !.full = full, !.detect = meta.baseline,
                 !.view = world,
                 !.todo = IF full THEN {Whole(t) : t \in Present}
                          ELSE UNION {Difference(t) : t \in Torrents}]
    /\ UNCHANGED <<world, rows, meta, completions, changes, faults>>

\* Position of a torrent in the list.
Rank(t) == Cardinality({u \in Present : u < t})

\* inventory_page(offset, limit), read from the list as it is now.
ReconcilePage ==
    LET page == {t \in Present : pass.offset <= Rank(t) /\ Rank(t) < pass.offset + PageSize} IN
    /\ pass.kind = "reconcile"
    /\ pass.todo = {}
    /\ pass.more
    /\ pass' = [pass EXCEPT !.todo = {Whole(t) : t \in page},
                            !.more = Cardinality(page) = PageSize,
                            !.offset = @ + Cardinality(page)]
    /\ UNCHANGED <<world, rows, meta, completions, changes, faults>>

-----------------------------------------------------------------------------
(* Projection                                                              *)

\* A full pass stamps the next generation, an incremental one the current.
Stamp == IF pass.full THEN "next" ELSE "current"

\* project_torrent: the row's fields where the record has none; completed_at
\* moves only with a complete torrent.
Merge(value, fields) ==
    LET done == IF "done" \in DOMAIN fields THEN fields["done"] ELSE value.done
        on == IF done = 0 THEN value.on
              ELSE IF "on" \in DOMAIN fields /\ fields["on"] > 0 THEN fields["on"]
              ELSE IF value.on > 0 THEN value.on ELSE Now
    IN [done |-> done, on |-> on]

\* Faulty variant: only a torrent that was available can become complete.
BecameCompleteAvailable(row, value) ==
    pass.detect /\ row.known /\ row.available /\ row.value.done = 0 /\ value.done = 1

\* became_complete
BecameComplete(row, value) == pass.detect /\ row.known /\ row.value.done = 0 /\ value.done = 1

\* project_qbit_batch: the row and the completion task in one transaction.
Project(c) ==
    LET t == c.torrent
        value == Merge(rows[t].value, c.fields)
    IN
    /\ c \in pass.todo
    /\ rows' = IF c.gone THEN [rows EXCEPT ![t].available = FALSE]
               ELSE [rows EXCEPT ![t] = [known |-> TRUE, available |-> TRUE, value |-> value,
                                         seen |-> Stamp]]
    /\ completions' = IF ~c.gone /\ BecameComplete(rows[t], value)
                      THEN completions \cup {<<t, value.on>>} ELSE completions
    /\ pass' = [pass EXCEPT !.todo = @ \ {c}]
    /\ UNCHANGED <<world, meta, changes, faults>>

\* The sweep of a full pass, seen from the generation it makes current.
Swept(row) ==
    [row EXCEPT !.available = @ /\ row.seen = "next",
                !.seen = IF @ = "next" THEN "current" ELSE "old"]

\* finish_qbit_sync
FinishSync ==
    /\ pass.kind = "sync"
    /\ pass.todo = {}
    /\ rows' = IF pass.full THEN [t \in Torrents |-> Swept(rows[t])] ELSE rows
    /\ meta' = [meta EXCEPT !.cursor = TRUE, !.acked = pass.view,
                            !.baseline = @ \/ pass.full]
    /\ pass' = Idle
    /\ UNCHANGED <<world, completions, changes, faults>>

\* finish_qbit_reconcile: the cursor stays.  The tick that found a request goes
\* on to its sync.
FinishReconcile ==
    /\ pass.kind = "reconcile"
    /\ pass.todo = {}
    /\ ~pass.more
    /\ rows' = [t \in Torrents |-> Swept(rows[t])]
    /\ meta' = [meta EXCEPT !.baseline = TRUE, !.requested = FALSE]
    /\ pass' = IF pass.thenSync THEN Enter("ready") ELSE Idle
    /\ UNCHANGED <<world, completions, changes, faults>>

\* An error abandons the pass, a crash the loop; what was projected stays.
Fail ==
    /\ pass.kind # "idle"
    /\ faults < MaxFaults
    /\ faults' = faults + 1
    /\ pass' \in {Idle, NoPass}
    /\ UNCHANGED <<world, rows, meta, completions, changes>>

-----------------------------------------------------------------------------
(* The surroundings                                                        *)

\* POST /api/v1/admin/inventory/reconcile
Request ==
    /\ ~meta.requested
    /\ changes < MaxChanges
    /\ changes' = changes + 1
    /\ meta' = [meta EXCEPT !.requested = TRUE]
    /\ UNCHANGED <<world, rows, pass, completions, faults>>

\* Torrents are added, completed, rechecked and removed in qBittorrent; a
\* recheck leaves completion_on alone.
WorldChange(t) ==
    /\ changes < MaxChanges
    /\ changes' = changes + 1
    /\ \E new \in {[present |-> TRUE, value |-> [done |-> 0, on |-> 0]],
                   [present |-> TRUE, value |-> [done |-> 1, on |-> world[t].value.on + 1]],
                   [present |-> TRUE, value |-> [done |-> 0, on |-> world[t].value.on]],
                   [present |-> TRUE, value |-> [done |-> 1, on |-> world[t].value.on]],
                   NotThere} :
         /\ new # world[t]
         /\ new.value.done = 1 => new.value.on > 0
         /\ new.value.on > 0 => world[t].present
         /\ world[t].value.on > 0 /\ new.value.on = 0 => ~new.present
         /\ world' = [world EXCEPT ![t] = new]
    /\ UNCHANGED <<rows, meta, pass, completions, faults>>

Loop ==
    \/ SyncTick
    \/ FullTick
    \/ \E full \in BOOLEAN : SyncRequest(full)
    \/ ReconcilePage
    \/ \E c \in pass.todo : Project(c)
    \/ FinishSync
    \/ FinishReconcile

Next ==
    \/ Loop
    \/ Fail
    \/ Request
    \/ \E t \in Torrents : WorldChange(t)

Spec == Init /\ [][Next]_vars

\* The loop runs on, and its two timers, of which select! picks at random, both
\* come up again and again.
FairSpec ==
    /\ Spec
    /\ WF_vars(Loop)
    /\ SF_vars(SyncTick)
    /\ SF_vars(FullTick)

-----------------------------------------------------------------------------
(* Properties                                                              *)

\* An incremental record never meets a torrent without a row (project_torrent
\* would fail with MissingField, and so would every later sync): the cursor moves
\* only after all that it stands for has been projected.
PartialRecordHasRow ==
    \A c \in pass.todo : ~c.gone /\ DOMAIN c.fields # Fields => rows[c.torrent].known

\* Once qBittorrent stops changing, the inventory comes to agree with it and
\* stays so, whatever passes failed and however pages shifted before.
InventoryConverges ==
    <>[](\A t \in Torrents :
            /\ rows[t].available = world[t].present
            /\ world[t].present => rows[t].value.done = world[t].value.done)

\* A torrent known as incomplete that is complete in qBittorrent gets its
\* completion task, unless qBittorrent changes again.
CompletionIsQueued ==
    \A t \in Torrents, k \in 1 .. MaxChanges + 1 :
        (/\ meta.baseline /\ pass.kind = "idle"
         /\ rows[t].known /\ rows[t].value.done = 0
         /\ world[t].present /\ world[t].value = [done |-> 1, on |-> k])
        ~> (<<t, k>> \in completions \/ <<t, Now>> \in completions \/ world[t].value # [done |-> 1, on |-> k])
=============================================================================
