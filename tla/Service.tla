------------------------------- MODULE Service -------------------------------
(***************************************************************************)
(* A process of the service from start to exit (app.rs, storage.rs): the   *)
(* ownership lock, the checks of the database, the schema migrations and   *)
(* their ledger, the initial dispatch of the outbox, the tasks that use    *)
(* the database, the shutdown with its grace period, the order in which    *)
(* the storage is dropped, and what Tokio does when main returns.  Several *)
(* processes of several versions are started on one data directory; each   *)
(* may crash at any point.                                                 *)
(***************************************************************************)
EXTENDS Integers, FiniteSets

CONSTANTS
    Processes,
    MigrationsOf,       \* [Processes -> the migrations of its version: number |-> checksum]
    None,
    MaxStarts           \* bound of the model

\* Migrations have numbers, and None is no process.
ASSUME ServiceAssumption ==
    /\ None \notin Processes
    /\ \A p \in Processes : MigrationsOf[p] = [n \in DOMAIN MigrationsOf[p] |-> MigrationsOf[p][n]]

\* The activity and the orchestration workers are those of the durable engine; the loops are
\* the outbox dispatcher and the projection repair, the observers those of qBittorrent and
\* Prowlarr.
Tasks == {"activities", "orchestrations", "server", "loops", "observers"}

\* Who shares the Storage, and the lock in it.  An orchestration worker has the engine's
\* provider only, which is a handle of the same connections.
Sharing == {"run"} \cup (Tasks \ {"orchestrations"})

\* The tasks that are aborted when they outlast the grace period.  The others are left
\* behind: of the engine, shutdown aborts the two dispatchers and not the workers and
\* activities that they have spawned; of the server, its open connections stay.
Aborted == {"observers"}

VARIABLES
    lock,       \* the process that holds the lock file, or None
    database,   \* [sound, schema, ledger]: quick_check, applied migrations, recorded ones
    process,    \* [stage, applied, ready, stop, blocking]
    holders,    \* who has a handle of a process's connections: run, tasks, and the "pools"
                \* that are fields of its Storage
    starts

vars == <<lock, database, process, holders, starts>>

Off == [stage |-> "off", applied |-> None, ready |-> FALSE, stop |-> FALSE, blocking |-> FALSE]

At(p, stage) == process[p].stage = stage

Goto(p, stage) == process' = [process EXCEPT ![p].stage = stage]

\* run, or Storage::open, returns with an error: what it held is dropped.
Fail(p) ==
    /\ Goto(p, "returned")
    /\ holders' = [holders EXCEPT ![p] = @ \ {"run"}]
    /\ UNCHANGED lock

\* The process is gone: its tasks, its connections and its lock with it.
Exit(p) ==
    /\ process' = [process EXCEPT ![p] = Off]
    /\ holders' = [holders EXCEPT ![p] = {}]
    /\ lock' = IF lock = p THEN None ELSE lock

(***************************************************************************)
(* Storage::open.                                                          *)
(***************************************************************************)
Start(p) ==
    /\ At(p, "off")
    /\ starts < MaxStarts
    /\ starts' = starts + 1
    /\ Goto(p, "lock")
    /\ UNCHANGED <<lock, database, holders>>

\* The lock is tried once; a process that does not get it ends.
AcquireLock(p) ==
    IF lock = None
    THEN /\ lock' = p
         /\ Goto(p, "inspect")
         /\ holders' = [holders EXCEPT ![p] = {"run", "pools"}]
    ELSE Fail(p)

TryLock(p) == At(p, "lock") /\ AcquireLock(p) /\ UNCHANGED <<database, starts>>

\* The connection's pragmas and quick_check.
Inspect(p) ==
    /\ At(p, "inspect")
    /\ IF database.sound THEN Goto(p, "ledger") /\ UNCHANGED <<lock, holders>> ELSE Fail(p)
    /\ UNCHANGED <<database, starts>>

\* Every recorded migration is known to this version, with the same checksum.
Recognised(p, ledger) ==
    \A n \in DOMAIN ledger : n \in DOMAIN MigrationsOf[p] /\ MigrationsOf[p][n] = ledger[n]

ReadLedger(p) ==
    /\ At(p, "ledger")
    /\ IF Recognised(p, database.ledger)
       THEN /\ process' = [process EXCEPT ![p].stage = "migrate", ![p].applied = DOMAIN database.ledger]
            /\ UNCHANGED <<lock, holders>>
       ELSE Fail(p)
    /\ UNCHANGED <<database, starts>>

Missing(p) == DOMAIN MigrationsOf[p] \ process[p].applied

Add(known, n, checksum) == [m \in DOMAIN known \cup {n} |-> IF m = n THEN checksum ELSE known[m]]

\* Faulty variant: the ledger is written after the last migration only.
MigrateThenRecord(p, n) ==
    [database EXCEPT !.schema = Add(@, n, MigrationsOf[p][n]),
                     !.ledger = IF Missing(p) = {n} THEN Add(database.schema, n, MigrationsOf[p][n]) ELSE @]

\* One migration and its row, in one transaction.
Migrate(p, n) ==
    [database EXCEPT !.schema = Add(@, n, MigrationsOf[p][n]), !.ledger = Add(@, n, MigrationsOf[p][n])]

RunMigrations(p) ==
    /\ At(p, "migrate")
    /\ \/ Missing(p) = {} /\ Goto(p, "engine") /\ UNCHANGED database
       \/ \E next \in Missing(p) :
            /\ \A n \in Missing(p) : next <= n
            /\ database' = Migrate(p, next)
            /\ process' = [process EXCEPT ![p].applied = @ \cup {next}]
    /\ UNCHANGED <<lock, holders, starts>>

\* Duroxide, on the same connections: its own tables and the pragmas it sees.
OpenEngine(p) ==
    /\ At(p, "engine")
    /\ (Goto(p, "dispatch") /\ UNCHANGED <<lock, holders>>) \/ Fail(p)
    /\ UNCHANGED <<database, starts>>

(***************************************************************************)
(* run.                                                                    *)
(***************************************************************************)
\* The initial dispatch, and the socket; either may fail and end the process.
DispatchAndBind(p) ==
    /\ At(p, "dispatch")
    /\ (Goto(p, "spawn") /\ UNCHANGED <<lock, holders>>) \/ Fail(p)
    /\ UNCHANGED <<database, starts>>

\* The engine, the server and the loops, each with its share of the storage.
Spawn(p) ==
    /\ At(p, "spawn")
    /\ holders' = [holders EXCEPT ![p] = @ \cup Tasks]
    /\ process' = [process EXCEPT ![p].stage = "serve", ![p].ready = TRUE]
    /\ UNCHANGED <<lock, database, starts>>

\* dispatch_loop: a round of the outbox reports its outcome as the readiness of the
\* service, also when the process is stopping meanwhile.
OutboxRound(p) ==
    /\ "loops" \in holders[p]
    /\ \E succeeds \in BOOLEAN : process' = [process EXCEPT ![p].ready = succeeds]
    /\ UNCHANGED <<lock, database, holders, starts>>

\* A signal, or the server's end: not ready any more, and every task is told to stop.
StopServing(p) ==
    /\ At(p, "serve")
    /\ process' = [process EXCEPT ![p].stage = "drain", ![p].ready = FALSE, ![p].stop = TRUE]
    /\ UNCHANGED <<lock, database, holders, starts>>

TaskStops(p, task) ==
    /\ process[p].stop
    /\ task \in holders[p]
    /\ holders' = [holders EXCEPT ![p] = @ \ {task}]
    /\ UNCHANGED <<lock, database, process, starts>>

\* An activity scans or links files in a call that no abort and no drop interrupts; it goes
\* on when its activity is gone, and nothing says that it returns.
BlockingCall(p) ==
    /\ "activities" \in holders[p]
    /\ process' = [process EXCEPT ![p].blocking = TRUE]
    /\ UNCHANGED <<lock, database, holders, starts>>

BlockingReturns(p) ==
    /\ process[p].blocking
    /\ process' = [process EXCEPT ![p].blocking = FALSE]
    /\ UNCHANGED <<lock, database, holders, starts>>


\* Every task has stopped, or its grace period is over.
AfterGrace(p) == TRUE

Drain(p) ==
    /\ At(p, "drain")
    /\ AfterGrace(p)
    /\ holders' = [holders EXCEPT ![p] = @ \ Aborted]
    /\ Goto(p, "checkpoint")
    /\ UNCHANGED <<lock, database, starts>>

\* run returns after the checkpoint, or after its failure; tasks that were left behind still
\* hold the storage.
Checkpoint(p) ==
    /\ At(p, "checkpoint")
    /\ holders' = [holders EXCEPT ![p] = @ \ {"run"}]
    /\ Goto(p, "returned")
    /\ UNCHANGED <<lock, database, starts>>

\* When main has returned Tokio drops the tasks that are left, one after the other.
DropTask(p) ==
    /\ At(p, "returned")
    /\ \E task \in Tasks \cap holders[p] : holders' = [holders EXCEPT ![p] = @ \ {task}]
    /\ UNCHANGED <<lock, database, process, starts>>

\* Faulty variant: the lock is the first field.
DropStorageLockFirst(p) ==
    \/ /\ lock = p
       /\ lock' = None
       /\ UNCHANGED holders
    \/ /\ lock # p
       /\ "pools" \in holders[p]
       /\ holders' = [holders EXCEPT ![p] = @ \ {"pools"}]
       /\ UNCHANGED lock

\* The fields of a Storage that nobody shares any more drop in their order: the handles of
\* the connections, then the lock.
DropStorage(p) ==
    \/ /\ "pools" \in holders[p]
       /\ holders' = [holders EXCEPT ![p] = @ \ {"pools"}]
       /\ UNCHANGED lock
    \/ /\ "pools" \notin holders[p]
       /\ lock = p
       /\ lock' = None
       /\ UNCHANGED holders

Unshared(p) ==
    /\ At(p, "returned")
    /\ holders[p] \cap Sharing = {}
    /\ DropStorage(p)
    /\ UNCHANGED <<database, process, starts>>

\* The process ends when Tokio has dropped the tasks and no blocking call is left.
ProcessExits(p) ==
    /\ At(p, "returned")
    /\ holders[p] = {} /\ lock # p
    /\ ~process[p].blocking
    /\ Exit(p)
    /\ UNCHANGED <<database, starts>>

Crash(p) == ~At(p, "off") /\ Exit(p) /\ UNCHANGED <<database, starts>>

\* A disk error; quick_check notices it at the next start.
Corrupt ==
    /\ database.sound
    /\ starts > 1
    /\ database' = [database EXCEPT !.sound = FALSE]
    /\ UNCHANGED <<lock, process, holders, starts>>

Init ==
    /\ lock = None
    /\ database = [sound |-> TRUE, schema |-> <<>>, ledger |-> <<>>]
    /\ process = [p \in Processes |-> Off]
    /\ holders = [p \in Processes |-> {}]
    /\ starts = 0

Step(p) ==
    \/ TryLock(p) \/ Inspect(p) \/ ReadLedger(p) \/ RunMigrations(p) \/ OpenEngine(p)
    \/ DispatchAndBind(p) \/ Spawn(p) \/ Drain(p) \/ Checkpoint(p) \/ DropTask(p) \/ Unshared(p)
    \/ ProcessExits(p)

Next ==
    \/ Corrupt
    \/ \E p \in Processes : \/ Start(p) \/ Step(p) \/ StopServing(p) \/ OutboxRound(p) \/ BlockingCall(p)
                            \/ BlockingReturns(p) \/ Crash(p)
                            \/ \E task \in Tasks : TaskStops(p, task)

\* A process keeps running; no task is obliged to stop, and no blocking call to return.
Fairness == \A p \in Processes : WF_vars(Step(p))

Spec == Init /\ [][Next]_vars /\ Fairness

(***************************************************************************)
(* Properties.                                                             *)
(***************************************************************************)
\* A process has the database open only while it holds the lock, so that one process does at
\* a time: also while it shuts down, while tasks that outlast its grace period still share the
\* Storage, and between the drops of its fields.  The one exception are orchestration workers
\* of a process whose run has returned: they have a handle of the connections that is not in
\* the Storage, and Tokio may drop them after the lock.
OneWriter ==
    \A p \in Processes :
        holders[p] # {} => lock = p \/ (holders[p] = {"orchestrations"} /\ At(p, "returned"))

\* The schema is what the ledger says, whenever the process dies, and a version serves, or
\* answers that it is ready, only on exactly its own schema: an older one refuses a database
\* that a newer one has migrated, also when it was replaced half way through.
ServesItsOwnSchema ==
    /\ database.schema = database.ledger
    /\ \A p \in Processes :
          process[p].stage \in {"engine", "dispatch", "spawn", "serve"} \/ (process[p].ready /\ "server" \in holders[p])
          => database.schema = MigrationsOf[p]

=============================================================================
