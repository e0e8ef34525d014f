---------------------------- MODULE ServiceProofs ----------------------------
(***************************************************************************)
(* One writer, on its own schema, for any number of processes and starts   *)
(* and any migrations of their versions; and the hardlinks of a plan, for  *)
(* any plans, runs, crashes and changes by others.                         *)
(***************************************************************************)
EXTENDS Operations, Sequences, TLAPS

Stages == {"off", "lock", "inspect", "ledger", "migrate", "engine", "dispatch", "spawn",
           "serve", "drain", "checkpoint", "returned"}

\* The stages in which run holds the storage, and those in which it has migrated.
Migrated == {"engine", "dispatch", "spawn", "serve", "drain", "checkpoint"}
Running == {"inspect", "ledger", "migrate"} \cup Migrated

\* What must go before the lock.
Locked == Sharing \cup {"pools"}

\* The shape of what the argument is about.
ProcessOK ==
    /\ process = [p \in Processes |-> process[p]]
    /\ \A p \in Processes : /\ DOMAIN process[p] = {"stage", "applied", "ready", "stop", "blocking"}
                            /\ process[p].stage \in Stages
    /\ holders \in [Processes -> SUBSET (Tasks \cup {"run", "pools"})]
    /\ database = [sound |-> database.sound, schema |-> database.schema, ledger |-> database.ledger]

\* run holds the storage from the lock to its return, and tasks run only after the migrations.
HoldersOK ==
    \A p \in Processes :
        /\ process[p].stage \in Running => "run" \in holders[p]
        /\ process[p].stage \in {"off", "lock"} => holders[p] = {}
        /\ process[p].stage \in {"inspect", "ledger", "migrate"} => holders[p] \subseteq {"run", "pools"}

\* Who shares a Storage, and its connections themselves, have the lock.
LockOK == \A p \in Processes : holders[p] \cap Locked # {} => lock = p

\* A migration is recorded with what it does, and nothing is recorded that the process at
\* work does not know.
LedgerOK ==
    /\ database.schema = database.ledger
    /\ database.ledger = [n \in DOMAIN database.ledger |-> database.ledger[n]]
    /\ \A p \in Processes :
          process[p].stage = "migrate" =>
              Recognised(p, database.ledger) /\ process[p].applied = DOMAIN database.ledger

\* Who has migrated the database and still uses it finds its own schema.
SchemaOK ==
    \A p \in Processes :
        process[p].stage \in Migrated \/ holders[p] \cap Sharing \cap Tasks # {}
            => database.ledger = MigrationsOf[p]

IInv == ProcessOK /\ HoldersOK /\ LockOK /\ LedgerOK /\ SchemaOK

-----------------------------------------------------------------------------

\* Nobody else shares a Storage, or runs, while the lock is taken.
LEMMA Alone ==
    ASSUME IInv, NEW p \in Processes, NEW q \in Processes, holders[p] \cap Locked # {}, q # p
    PROVE  holders[q] \cap Locked = {} /\ process[q].stage \notin Running /\ lock = p
<1>1. "run" \in Locked
  BY DEF Locked, Sharing
<1> QED
  BY <1>1 DEF IInv, LockOK, HoldersOK

\* A process that is off has the type of a process.
LEMMA OffIsProcess ==
    DOMAIN Off = {"stage", "applied", "ready", "stop", "blocking"} /\ Off.stage \in Stages
BY DEF Off, Stages

\* A process that exits, by itself or in a crash, leaves what the others rely on.
LEMMA ExitStep ==
    ASSUME IInv, NEW p \in Processes, Exit(p), UNCHANGED database
    PROVE  IInv'
<1>1. ProcessOK'
  BY OffIsProcess DEF IInv, ProcessOK, Exit
<1>2. HoldersOK'
  BY DEF IInv, ProcessOK, HoldersOK, Exit, Off, Running, Migrated
<1>3. LockOK'
  BY DEF IInv, ProcessOK, LockOK, Exit
<1>4. LedgerOK'
  BY DEF IInv, ProcessOK, LedgerOK, Exit, Off, Recognised
<1>5. SchemaOK'
  BY DEF IInv, ProcessOK, SchemaOK, Exit, Off, Migrated
<1> QED
  BY <1>1, <1>2, <1>3, <1>4, <1>5 DEF IInv

\* Initially nobody runs and nothing is recorded.
LEMMA InitInv == Init => IInv
<1> SUFFICES ASSUME Init PROVE IInv
  OBVIOUS
<1>1. DOMAIN <<>> = {}
  OBVIOUS
<1>2. ProcessOK
  BY OffIsProcess DEF Init, ProcessOK
<1>3. HoldersOK /\ LockOK /\ SchemaOK
  BY DEF Init, HoldersOK, LockOK, SchemaOK, Off, Running, Migrated
<1>4. LedgerOK
  BY <1>1 DEF Init, LedgerOK, Off
<1> QED
  BY <1>2, <1>3, <1>4 DEF IInv

\* A process takes its next step with what it holds, without a change of the database.
LEMMA GotoStep ==
    ASSUME IInv, NEW p \in Processes, NEW stage \in Stages,
           ProcessOK', process'[p].stage = stage, \A q \in Processes \ {p} : process'[q] = process[q],
           UNCHANGED <<lock, database, holders>>,
           stage \in Running => "run" \in holders[p],
           stage \in {"off", "lock"} => holders[p] = {},
           stage \in {"inspect", "ledger", "migrate"} => holders[p] \subseteq {"run", "pools"},
           stage = "migrate" => Recognised(p, database.ledger) /\ process'[p].applied = DOMAIN database.ledger,
           stage \in Migrated => database.ledger = MigrationsOf[p]
    PROVE  IInv'
<1>1. HoldersOK'
  BY DEF IInv, HoldersOK
<1>2. LockOK'
  BY DEF IInv, LockOK
<1>3. LedgerOK'
  BY DEF IInv, LedgerOK, Recognised
<1>4. SchemaOK'
  BY DEF IInv, SchemaOK
<1> QED
  BY <1>1, <1>2, <1>3, <1>4 DEF IInv

\* A process gives up some of what it holds, and its lock not before what the lock protects.
LEMMA GiveUpStep ==
    ASSUME IInv, NEW p \in Processes, UNCHANGED database, ProcessOK',
           \A q \in Processes \ {p} : process'[q] = process[q] /\ holders'[q] = holders[q],
           holders'[p] \subseteq holders[p],
           lock' # lock => lock = p /\ holders'[p] \cap Locked = {},
           \/ process'[p].stage = process[p].stage /\ process'[p].applied = process[p].applied
           \/ process'[p].stage = "returned"
           \/ process[p].stage \in Migrated /\ process'[p].stage \in Migrated,
           process'[p].stage \in Running => "run" \in holders'[p]
    PROVE  IInv'
<1>1. HoldersOK'
  BY DEF IInv, HoldersOK, Running, Migrated
<1>2. LockOK'
  BY DEF IInv, LockOK
<1>3. LedgerOK'
  BY DEF IInv, LedgerOK, Recognised, Migrated
<1>4. SchemaOK'
  BY DEF IInv, SchemaOK, Migrated
<1> QED
  BY <1>1, <1>2, <1>3, <1>4 DEF IInv

\* A failure leaves run without its share of the storage.
LEMMA FailStep ==
    ASSUME IInv, NEW p \in Processes, Fail(p), UNCHANGED database
    PROVE  IInv'
<1>1. ProcessOK'
  BY DEF IInv, ProcessOK, Fail, Goto, Stages
<1>2. /\ process'[p].stage = "returned" /\ holders'[p] \subseteq holders[p] /\ lock' = lock
      /\ \A q \in Processes \ {p} : process'[q] = process[q] /\ holders'[q] = holders[q]
  BY DEF IInv, ProcessOK, Fail, Goto
<1>3. "returned" \notin Running
  BY DEF Running, Migrated
<1> QED
  BY <1>1, <1>2, <1>3, GiveUpStep

\* The lock is free when the process takes it, so nobody holds a storage.
LEMMA TryLockStep ==
    ASSUME IInv, NEW p \in Processes, TryLock(p)
    PROVE  IInv'
<1>1. CASE lock # None
  BY <1>1, FailStep DEF TryLock, AcquireLock
<1>2. CASE lock = None
  <2>1. /\ process[p].stage = "lock"
        /\ lock' = p
        /\ process' = [process EXCEPT ![p].stage = "inspect"]
        /\ holders' = [holders EXCEPT ![p] = {"run", "pools"}]
        /\ UNCHANGED database
    BY <1>2 DEF TryLock, AcquireLock, At, Goto
  <2>2. \A q \in Processes : holders[q] \cap Locked = {}
    BY <1>2, ServiceAssumption DEF IInv, LockOK
  <2>3. ProcessOK'
    BY <2>1 DEF IInv, ProcessOK, Stages
  <2>4. HoldersOK'
    BY <2>1 DEF IInv, ProcessOK, HoldersOK, Running, Migrated
  <2>5. LockOK'
    BY <2>1, <2>2 DEF IInv, ProcessOK, LockOK
  <2>6. LedgerOK'
    BY <2>1 DEF IInv, ProcessOK, LedgerOK, Recognised
  <2>7. SchemaOK'
    BY <2>1 DEF IInv, ProcessOK, SchemaOK, Migrated, Tasks
  <2> QED
    BY <2>3, <2>4, <2>5, <2>6, <2>7 DEF IInv
<1> QED
  BY <1>1, <1>2

\* The checks before the migrations end the process or let it go on.
LEMMA CheckStep ==
    ASSUME IInv, NEW p \in Processes, Inspect(p) \/ ReadLedger(p)
    PROVE  IInv'
<1>1. CASE Inspect(p)
  <2>1. CASE database.sound
    BY <1>1, <2>1, GotoStep, SMTT(30) DEF Inspect, At, Goto, IInv, ProcessOK, HoldersOK, Running, Migrated, Stages
  <2> QED
    BY <1>1, <2>1, FailStep DEF Inspect
<1>2. CASE ReadLedger(p)
  <2>1. CASE Recognised(p, database.ledger)
    <3>1. /\ process' = [process EXCEPT ![p].stage = "migrate", ![p].applied = DOMAIN database.ledger]
          /\ UNCHANGED <<lock, database, holders>>
      BY <1>2, <2>1 DEF ReadLedger
    <3>2. /\ process'[p].stage = "migrate"
          /\ process'[p].applied = DOMAIN database.ledger
          /\ \A q \in Processes \ {p} : process'[q] = process[q]
      BY <3>1, Zenon DEF IInv, ProcessOK
    <3>5. ProcessOK'
      BY <3>1 DEF IInv, ProcessOK, Stages
    <3>3. "run" \in holders[p] /\ holders[p] \subseteq {"run", "pools"}
      BY <1>2 DEF ReadLedger, At, IInv, HoldersOK, Running
    <3>4. "migrate" \in Stages /\ "migrate" \notin Migrated /\ "migrate" \notin {"off", "lock"}
      BY DEF Stages, Migrated
    <3> QED
      BY <2>1, <3>1, <3>2, <3>3, <3>4, <3>5, GotoStep, Zenon
  <2> QED
    BY <1>2, <2>1, FailStep DEF ReadLedger
<1> QED
  BY <1>1, <1>2

\* A migration is of the process's own version, and nobody else has the database open.
LEMMA MigrateStep ==
    ASSUME IInv, NEW p \in Processes, RunMigrations(p)
    PROVE  IInv'
<1>1. /\ process[p].stage = "migrate"
      /\ Recognised(p, database.ledger)
      /\ process[p].applied = DOMAIN database.ledger
      /\ "run" \in holders[p] /\ holders[p] \subseteq {"run", "pools"}
  BY DEF RunMigrations, At, IInv, LedgerOK, HoldersOK, Running
<1>2. CASE Missing(p) = {} /\ Goto(p, "engine") /\ UNCHANGED database
  <2>1. DOMAIN database.ledger = DOMAIN MigrationsOf[p]
    BY <1>1, <1>2 DEF Missing, Recognised
  <2>2. \A n \in DOMAIN MigrationsOf[p] : database.ledger[n] = MigrationsOf[p][n]
    BY <1>1, <2>1 DEF Recognised
  <2>3. database.ledger = MigrationsOf[p]
    BY <2>1, <2>2, ServiceAssumption DEF IInv, LedgerOK
  <2>4. ProcessOK' /\ process'[p].stage = "engine" /\ \A q \in Processes \ {p} : process'[q] = process[q]
    BY <1>2 DEF Goto, RunMigrations, IInv, ProcessOK, Stages
  <2>5. "engine" \in Stages /\ "engine" \notin {"off", "lock", "inspect", "ledger", "migrate"}
    BY DEF Stages
  <2>6. UNCHANGED <<lock, database, holders>>
    BY <1>2 DEF RunMigrations
  <2> QED
    BY <1>1, <2>3, <2>4, <2>5, <2>6, GotoStep
<1>3. ASSUME NEW next \in Missing(p), database' = Migrate(p, next),
             process' = [process EXCEPT ![p].applied = @ \cup {next}]
      PROVE  IInv'
  <2>1. /\ database'.ledger = Add(database.ledger, next, MigrationsOf[p][next])
        /\ database'.schema = Add(database.schema, next, MigrationsOf[p][next])
        /\ database' = [sound |-> database'.sound, schema |-> database'.schema, ledger |-> database'.ledger]
    BY <1>3, Zenon DEF IInv, ProcessOK, Migrate
  <2>2. /\ UNCHANGED <<lock, holders>>
        /\ next \in DOMAIN MigrationsOf[p]
    BY DEF RunMigrations, Missing
  <2>3. /\ DOMAIN Add(database.ledger, next, MigrationsOf[p][next]) = DOMAIN database.ledger \cup {next}
        /\ Recognised(p, Add(database.ledger, next, MigrationsOf[p][next]))
    BY <1>1, <2>2 DEF Add, Recognised
  <2>4. \A q \in Processes \ {p} : holders[q] \cap Locked = {} /\ process[q].stage \notin Running
    BY <1>1, Alone DEF Locked, Sharing
  <2>5. ProcessOK'
    BY <1>3, <2>1, <2>2, Zenon DEF IInv, ProcessOK
  <2>6. HoldersOK' /\ LockOK'
    BY <1>3, <2>2 DEF IInv, ProcessOK, HoldersOK, LockOK
  <2>7. LedgerOK'
    <3>1. database'.schema = database'.ledger
      BY <2>1 DEF IInv, LedgerOK
    <3>2. database'.ledger = [n \in DOMAIN database'.ledger |-> database'.ledger[n]]
      BY <2>1, <2>3 DEF Add
    <3>3. ASSUME NEW q \in Processes, process'[q].stage = "migrate"
          PROVE  Recognised(q, database'.ledger) /\ process'[q].applied = DOMAIN database'.ledger
      <4>1. q = p
        BY <1>3, <3>3, <2>4 DEF IInv, ProcessOK, Running
      <4> QED
        BY <1>1, <1>3, <2>1, <2>3, <4>1 DEF IInv, ProcessOK
    <3> QED
      BY <3>1, <3>2, <3>3 DEF LedgerOK, Recognised
  <2>8. SchemaOK'
    BY <1>1, <1>3, <2>2, <2>4 DEF IInv, ProcessOK, SchemaOK, Migrated, Running, Tasks, Locked
  <2> QED
    BY <2>5, <2>6, <2>7, <2>8 DEF IInv
<1> QED
  BY <1>2, <1>3 DEF RunMigrations

\* The engine, the first dispatch and the socket leave the database as it is.
LEMMA OpenStep ==
    ASSUME IInv, NEW p \in Processes, OpenEngine(p) \/ DispatchAndBind(p)
    PROVE  IInv'
<1>1. ASSUME NEW stage \in {"dispatch", "spawn"}, process[p].stage \in Migrated, Goto(p, stage),
             UNCHANGED <<lock, database, holders>>
      PROVE  IInv'
  <2>1. ProcessOK' /\ process'[p].stage = stage /\ \A q \in Processes \ {p} : process'[q] = process[q]
    BY <1>1 DEF Goto, IInv, ProcessOK, Stages
  <2>2. "run" \in holders[p] /\ database.ledger = MigrationsOf[p]
    BY <1>1 DEF IInv, HoldersOK, SchemaOK, Running
  <2>3. stage \in Stages /\ stage \notin {"off", "lock", "inspect", "ledger", "migrate"}
    BY <1>1 DEF Stages
  <2> QED
    BY <1>1, <2>1, <2>2, <2>3, GotoStep
<1>2. CASE Fail(p)
  BY <1>2, FailStep DEF OpenEngine, DispatchAndBind
<1> QED
  BY <1>1, <1>2 DEF OpenEngine, DispatchAndBind, At, Migrated

\* The tasks get their shares while run has its own.
LEMMA SpawnStep ==
    ASSUME IInv, NEW p \in Processes, Spawn(p)
    PROVE  IInv'
<1>1. /\ process[p].stage = "spawn" /\ "run" \in holders[p] /\ lock = p
      /\ database.ledger = MigrationsOf[p]
  BY DEF Spawn, At, IInv, HoldersOK, LockOK, SchemaOK, Running, Migrated, Locked, Sharing
<1>2. UNCHANGED <<lock, database>>
  BY DEF Spawn
<1>3. ProcessOK'
  BY DEF IInv, ProcessOK, Spawn, Stages
<1>4. /\ process'[p].stage = "serve" /\ holders'[p] = holders[p] \cup Tasks
      /\ \A q \in Processes \ {p} : process'[q] = process[q] /\ holders'[q] = holders[q]
  BY DEF IInv, ProcessOK, Spawn
<1>5. HoldersOK' /\ LockOK'
  BY <1>1, <1>2, <1>4 DEF IInv, HoldersOK, LockOK, Running, Migrated
<1>6. LedgerOK' /\ SchemaOK'
  BY <1>1, <1>2, <1>4 DEF IInv, LedgerOK, SchemaOK, Recognised
<1> QED
  BY <1>3, <1>5, <1>6 DEF IInv

\* While a process serves, its stage changes by the stop only.
LEMMA ServeStep ==
    ASSUME IInv, NEW p \in Processes,
           OutboxRound(p) \/ StopServing(p) \/ BlockingCall(p) \/ BlockingReturns(p)
    PROVE  IInv'
<1>1. UNCHANGED <<lock, database, holders>>
  BY DEF OutboxRound, StopServing, BlockingCall, BlockingReturns
<1>2. ProcessOK'
  BY DEF IInv, ProcessOK, OutboxRound, StopServing, BlockingCall, BlockingReturns, Stages
<1>3. /\ \A q \in Processes \ {p} : process'[q] = process[q]
      /\ \/ process'[p].stage = process[p].stage /\ process'[p].applied = process[p].applied
         \/ process[p].stage = "serve" /\ process'[p].stage = "drain"
  BY DEF IInv, ProcessOK, OutboxRound, StopServing, BlockingCall, BlockingReturns, At
<1>4. "serve" \in Migrated /\ "drain" \in Migrated
  BY DEF Migrated
<1>5. process'[p].stage \in Running => "run" \in holders'[p]
  BY <1>1, <1>3, <1>4 DEF IInv, HoldersOK, Running
<1> QED
  BY <1>1, <1>2, <1>3, <1>4, <1>5, GiveUpStep

\* While a process stops, it gives up what it holds.
LEMMA ShutdownStep ==
    ASSUME IInv, NEW p \in Processes,
           Drain(p) \/ Checkpoint(p) \/ DropTask(p) \/ \E task \in Tasks : TaskStops(p, task)
    PROVE  IInv'
<1>1. UNCHANGED <<lock, database>>
  BY DEF Drain, Checkpoint, DropTask, TaskStops
<1>2. /\ holders' \in [Processes -> SUBSET (Tasks \cup {"run", "pools"})]
      /\ \A q \in Processes \ {p} : holders'[q] = holders[q]
      /\ holders'[p] \subseteq holders[p]
      /\ Checkpoint(p) \/ ("run" \in holders[p] => "run" \in holders'[p])
  BY DEF IInv, ProcessOK, Drain, Checkpoint, DropTask, TaskStops, Aborted, Tasks
<1>3. \/ UNCHANGED process
      \/ /\ process' = [process EXCEPT ![p].stage = "checkpoint"] /\ process[p].stage = "drain"
         /\ ~Checkpoint(p)
      \/ process' = [process EXCEPT ![p].stage = "returned"]
  BY DEF Drain, Checkpoint, DropTask, TaskStops, Goto, At
<1>4. ProcessOK'
  BY <1>1, <1>2, <1>3 DEF IInv, ProcessOK, Stages
<1>5. /\ \A q \in Processes \ {p} : process'[q] = process[q]
      /\ \/ UNCHANGED process
         \/ process[p].stage = "drain" /\ process'[p].stage = "checkpoint" /\ ~Checkpoint(p)
         \/ process'[p].stage = "returned"
  BY <1>3 DEF IInv, ProcessOK
<1>6. Checkpoint(p) => process'[p].stage = "returned"
  BY DEF Checkpoint, Goto, IInv, ProcessOK
<1>7. /\ "drain" \in Migrated /\ "checkpoint" \in Migrated /\ Migrated \subseteq Running
      /\ "returned" \notin Running
  BY DEF Migrated, Running
<1>8. process'[p].stage \in Running => "run" \in holders'[p]
  BY <1>2, <1>5, <1>6, <1>7 DEF IInv, HoldersOK
<1> QED
  BY <1>1, <1>2, <1>4, <1>5, <1>7, <1>8, GiveUpStep

\* The fields of an unshared Storage go in their order.
LEMMA UnsharedStep ==
    ASSUME IInv, NEW p \in Processes, Unshared(p)
    PROVE  IInv'
<1>1. /\ UNCHANGED <<database, process>> /\ process[p].stage = "returned"
      /\ holders[p] \cap Sharing = {}
  BY DEF Unshared, At
<1>2. /\ holders' \in [Processes -> SUBSET (Tasks \cup {"run", "pools"})]
      /\ \A q \in Processes \ {p} : holders'[q] = holders[q]
      /\ holders'[p] \subseteq holders[p]
      /\ lock' # lock => lock = p /\ "pools" \notin holders'[p]
  BY DEF Unshared, DropStorage, IInv, ProcessOK
<1>3. lock' # lock => lock = p /\ holders'[p] \cap Locked = {}
  BY <1>1, <1>2 DEF Locked
<1>4. ProcessOK'
  BY <1>1, <1>2 DEF IInv, ProcessOK
<1>5. "returned" \notin Running
  BY DEF Running, Migrated
<1> QED
  BY <1>1, <1>2, <1>3, <1>4, <1>5, GiveUpStep

\* Every step keeps the invariant.
LEMMA NextInv ==
    ASSUME IInv, [Next]_vars
    PROVE  IInv'
<1>1. CASE UNCHANGED vars
  BY <1>1 DEF IInv, ProcessOK, HoldersOK, LockOK, LedgerOK, SchemaOK, Recognised, vars
<1>2. CASE Corrupt
  <2>1. database' = [sound |-> FALSE, schema |-> database.schema, ledger |-> database.ledger]
    BY <1>2, Zenon DEF Corrupt, IInv, ProcessOK
  <2>2. ProcessOK'
    BY <1>2, <2>1, Zenon DEF Corrupt, IInv, ProcessOK
  <2>4. LedgerOK'
    BY <1>2, <2>1 DEF Corrupt, IInv, LedgerOK, Recognised
  <2>3. HoldersOK' /\ LockOK' /\ SchemaOK'
    BY <1>2, <2>1 DEF Corrupt, IInv, HoldersOK, LockOK, SchemaOK
  <2> QED
    BY <2>2, <2>3, <2>4 DEF IInv
<1>3. ASSUME NEW p \in Processes, Start(p)
      PROVE  IInv'
  <2>1. ProcessOK' /\ process'[p].stage = "lock" /\ \A q \in Processes \ {p} : process'[q] = process[q]
    BY <1>3 DEF Start, Goto, IInv, ProcessOK, Stages
  <2>2. "lock" \in Stages /\ "lock" \notin Running /\ "lock" \notin Migrated
    BY DEF Stages, Running, Migrated
  <2>3. holders[p] = {} /\ UNCHANGED <<lock, database, holders>>
    BY <1>3 DEF Start, At, IInv, HoldersOK
  <2> QED
    BY <2>1, <2>2, <2>3, GotoStep
<1>4. ASSUME NEW p \in Processes, ProcessExits(p) \/ Crash(p)
      PROVE  IInv'
  BY <1>4, ExitStep DEF ProcessExits, Crash
<1> QED
  BY <1>1, <1>2, <1>3, <1>4, TryLockStep, CheckStep, MigrateStep, OpenStep, SpawnStep, ServeStep, ShutdownStep,
     UnsharedStep DEF Next, Step

\* A process has the database open only while it holds the lock, whatever outlasts the grace
\* period of a shutdown and wherever the drop of its Storage stands; but for orchestration
\* workers that are left when run has returned (Storage's fields, and the engine's own handle).
THEOREM WriterIsAlone == Spec => []OneWriter
<1>1. IInv => OneWriter
  <2> SUFFICES ASSUME IInv, NEW p \in Processes, holders[p] # {}, lock # p
               PROVE  holders[p] = {"orchestrations"} /\ At(p, "returned")
    BY DEF OneWriter
  <2>1. holders[p] \cap Locked = {}
    BY DEF IInv, LockOK
  <2>2. holders[p] \subseteq Tasks \cup {"run", "pools"}
    BY DEF IInv, ProcessOK
  <2>3. holders[p] = {"orchestrations"}
    BY <2>1, <2>2 DEF Locked, Sharing, Tasks
  <2>4. process[p].stage \in Stages /\ process[p].stage \notin Running \cup {"off", "lock"}
    BY <2>3 DEF IInv, ProcessOK, HoldersOK
  <2> QED
    BY <2>3, <2>4 DEF At, Stages, Running, Migrated
<1> QED
  BY <1>1, InitInv, NextInv, PTL DEF Spec

\* A version serves, or answers that it is ready, on exactly the schema of its own
\* migrations, and the ledger says which it is, also after a crash between two of them.
THEOREM SchemaIsOwn == Spec => []ServesItsOwnSchema
<1>1. IInv => ServesItsOwnSchema
  BY DEF IInv, LedgerOK, SchemaOK, ServesItsOwnSchema, Migrated, Tasks, Sharing
<1> QED
  BY <1>1, InitInv, NextInv, PTL DEF Spec

-----------------------------------------------------------------------------
(* The hardlinks of a plan (module Hardlink), which the workflow makes     *)

\* A plan has links, of known sources; a file is neither a directory nor nothing.
LinkBounds == Linking!Bounds

\* Files that are linked are the planned ones, and are in place unless others have been there.
Held(p, made, nodes, others) ==
    \A i \in 1 .. Len(made) :
        /\ Linking!Fits(made[i], LinksOf[p][i])
        /\ LinksOf[p][i].destination \notin others => nodes[LinksOf[p][i].destination] = made[i]

AtLink == {"root", "namespace", "source", "parent", "link", "existing"}

\* A run links the files of its plan in their order.
RunShape(w) ==
    /\ DOMAIN w = {"pc", "plan", "opened", "made", "error"}
    /\ w.made \in Seq(Inodes)
    /\ w.pc = "none" => w.made = <<>> /\ w.plan = None
    /\ w.pc # "none" => w.plan \in LinkPlans /\ Len(w.made) <= Len(LinksOf[w.plan])
    /\ w.pc \in AtLink => Len(w.made) < Len(LinksOf[w.plan])
    /\ w.pc \in {"parent", "link", "existing"} =>
          w.opened \in Inodes /\ Linking!Fits(w.opened, LinksOf[w.plan][Len(w.made) + 1])
    /\ w.pc = "persist" /\ ~w.error => Len(w.made) = Len(LinksOf[w.plan])

\* A row of links is a part of its plan, all of it when it is called complete.
LinkRowShape(p, i) ==
    /\ DOMAIN i = {"state", "links"}
    /\ i.links \in Seq(Inodes) /\ Len(i.links) <= Len(LinksOf[p])
    /\ i.state = "links_complete" => Len(i.links) = Len(LinksOf[p])

PlacesOK ==
    /\ file \in [Sources -> Inodes \cup {None}]
    /\ tree \in [Linking!Nodes -> Inodes \cup {"directory", None}]
    /\ run = [r \in Linking!Runs |-> run[r]]
    /\ linkRow = [p \in LinkPlans |-> linkRow[p]]

RunLinksOK == \A r \in Linking!Runs : RunShape(run[r]) /\ Held(run[r].plan, run[r].made, tree, touched)
RowLinksOK == \A p \in LinkPlans : LinkRowShape(p, linkRow[p]) /\ Held(p, linkRow[p].links, tree, touched)

LinkInv == PlacesOK /\ RunLinksOK /\ RowLinksOK

\* Nothing is linked at first.
LEMMA LinkInit ==
    ASSUME LinkBounds, Linking!Init
    PROVE  LinkInv
<1>1. PlacesOK
  BY DEF Linking!Init, LinkBounds, Linking!Bounds, PlacesOK
<1>2. RunLinksOK
  <2> SUFFICES ASSUME NEW r \in Linking!Runs
               PROVE  RunShape(run[r]) /\ Held(run[r].plan, run[r].made, tree, touched)
    BY DEF RunLinksOK
  <2>1. run[r] = Linking!NoRun
    BY DEF Linking!Init
  <2> QED
    BY <2>1 DEF Linking!NoRun, RunShape, Held, AtLink
<1>3. RowLinksOK
  <2> SUFFICES ASSUME NEW p \in LinkPlans
               PROVE  LinkRowShape(p, linkRow[p]) /\ Held(p, linkRow[p].links, tree, touched)
    BY DEF RowLinksOK
  <2>1. linkRow[p] = [state |-> "none", links |-> <<>>]
    BY DEF Linking!Init
  <2> QED
    BY <2>1 DEF LinkBounds, Linking!Bounds, LinkRowShape, Held
<1> QED
  BY <1>1, <1>2, <1>3 DEF LinkInv

\* What is in place stays there, whoever makes other nodes.
LEMMA HeldStays ==
    ASSUME NEW p, NEW made \in Seq(Inodes), NEW nodes, NEW others, NEW nodes2, NEW others2,
           Held(p, made, nodes, others), others \subseteq others2,
           \A d : d \notin others2 /\ nodes[d] \in Inodes => nodes2[d] = nodes[d]
    PROVE  Held(p, made, nodes2, others2)
<1>1. \A i \in 1 .. Len(made) : made[i] \in Inodes
  OBVIOUS
<1> QED
  BY <1>1 DEF Held

\* One run moves; the tree changes only where nothing was, or where others are.
LEMMA OneRunMoves ==
    ASSUME LinkInv, NEW r \in Linking!Runs, NEW w, run' = [run EXCEPT ![r] = w],
           UNCHANGED <<file, linkRow, touched>>,
           tree' \in [Linking!Nodes -> Inodes \cup {"directory", None}],
           \A d : d \notin touched /\ tree[d] \in Inodes => tree'[d] = tree[d],
           RunShape(w), Held(w.plan, w.made, tree', touched)
    PROVE  LinkInv'
<1>1. PlacesOK'
  BY DEF LinkInv, PlacesOK
<1>2. RunLinksOK'
  <2> SUFFICES ASSUME NEW s \in Linking!Runs
               PROVE  RunShape(run'[s]) /\ Held(run'[s].plan, run'[s].made, tree', touched')
    BY DEF RunLinksOK, Linking!Runs
  <2>1. CASE s = r
    BY <2>1 DEF LinkInv, PlacesOK
  <2>2. CASE s # r
    <3>1. run'[s] = run[s]
      BY <2>2 DEF LinkInv, PlacesOK
    <3>2. RunShape(run[s]) /\ Held(run[s].plan, run[s].made, tree, touched)
      BY DEF LinkInv, RunLinksOK
    <3>3. run[s].made \in Seq(Inodes)
      BY <3>2 DEF RunShape
    <3> QED
      BY <3>1, <3>2, <3>3, HeldStays
  <2> QED
    BY <2>1, <2>2
<1>3. RowLinksOK'
  <2> SUFFICES ASSUME NEW p \in LinkPlans
               PROVE  LinkRowShape(p, linkRow[p]) /\ Held(p, linkRow[p].links, tree', touched)
    BY DEF RowLinksOK, LinkRowShape
  <2>1. LinkRowShape(p, linkRow[p]) /\ Held(p, linkRow[p].links, tree, touched)
    BY DEF LinkInv, RowLinksOK
  <2>2. linkRow[p].links \in Seq(Inodes)
    BY <2>1 DEF LinkRowShape
  <2> QED
    BY <2>1, <2>2, HeldStays
<1> QED
  BY <1>1, <1>2, <1>3 DEF LinkInv

\* One run moves without having linked another file.
LEMMA OneRunGoesOn ==
    ASSUME LinkInv, NEW r \in Linking!Runs, NEW w, run' = [run EXCEPT ![r] = w],
           UNCHANGED <<file, linkRow, touched>>,
           tree' \in [Linking!Nodes -> Inodes \cup {"directory", None}],
           \A d : d \notin touched /\ tree[d] \in Inodes => tree'[d] = tree[d],
           RunShape(w), w.plan = run[r].plan, w.made = run[r].made
    PROVE  LinkInv'
<1>1. RunShape(run[r]) /\ Held(run[r].plan, run[r].made, tree, touched)
  BY DEF LinkInv, RunLinksOK
<1>2. run[r].made \in Seq(Inodes)
  BY <1>1 DEF RunShape
<1>3. Held(w.plan, w.made, tree', touched)
  BY <1>1, <1>2, HeldStays
<1> QED
  BY <1>3, OneRunMoves, Zenon

\* The fields of a run after the steps of the loop.
LEMMA RunStepFields ==
    ASSUME LinkInv, NEW r \in Linking!Runs
    PROVE  /\ \A pc : Linking!Goto(r, pc) =>
                 run' = [run EXCEPT ![r] = [run[r] EXCEPT !.pc = pc]]
           /\ Linking!Stop(r) =>
                 run' = [run EXCEPT ![r] = [run[r] EXCEPT !.pc = "persist", !.error = TRUE]]
           /\ DOMAIN run[r] = {"pc", "plan", "opened", "made", "error"}
           /\ RunShape(run[r]) /\ Held(run[r].plan, run[r].made, tree, touched)
<1>1. RunShape(run[r]) /\ Held(run[r].plan, run[r].made, tree, touched)
  BY DEF LinkInv, RunLinksOK
<1>2. DOMAIN run[r] = {"pc", "plan", "opened", "made", "error"}
  BY <1>1 DEF RunShape
<1> QED
  BY <1>1, <1>2 DEF Linking!Goto, Linking!Stop, LinkInv, PlacesOK

\* The first error: what has been made is persisted.
LEMMA StopStep ==
    ASSUME LinkBounds, LinkInv, NEW r \in Linking!Runs, run[r].pc # "none", Linking!Stop(r),
           UNCHANGED <<file, tree, linkRow, touched>>
    PROVE  LinkInv'
<1> DEFINE w == [run[r] EXCEPT !.pc = "persist", !.error = TRUE]
<1>1. run' = [run EXCEPT ![r] = w] /\ RunShape(run[r])
  BY RunStepFields, Zenon
<1>2. /\ DOMAIN w = {"pc", "plan", "opened", "made", "error"} /\ w.pc = "persist" /\ w.error = TRUE
      /\ w.plan = run[r].plan /\ w.made = run[r].made
  BY <1>1 DEF RunShape
<1> HIDE DEF w
<1>3. RunShape(w)
  BY <1>1, <1>2 DEF RunShape, AtLink
<1> QED
  BY <1>1, <1>2, <1>3, OneRunGoesOn DEF LinkInv, PlacesOK

\* A step forward within the same link.
LEMMA GoOnStep ==
    ASSUME LinkBounds, LinkInv, NEW r \in Linking!Runs, NEW pc, run[r].pc # "none", Linking!Goto(r, pc),
           \/ pc = "failed"
           \/ run[r].pc \in AtLink /\ pc \in {"namespace", "source"}
           \/ run[r].pc \in {"parent", "link"} /\ pc \in {"link", "existing"},
           UNCHANGED <<file, linkRow, touched>>,
           tree' \in [Linking!Nodes -> Inodes \cup {"directory", None}],
           \A d : d \notin touched /\ tree[d] \in Inodes => tree'[d] = tree[d]
    PROVE  LinkInv'
<1> DEFINE w == [run[r] EXCEPT !.pc = pc]
<1>1. run' = [run EXCEPT ![r] = w] /\ RunShape(run[r])
  BY RunStepFields, Zenon
<1>2. /\ DOMAIN w = {"pc", "plan", "opened", "made", "error"} /\ w.pc = pc
      /\ w.opened = run[r].opened /\ w.plan = run[r].plan /\ w.made = run[r].made
      /\ w.error = run[r].error
  BY <1>1 DEF RunShape
<1> HIDE DEF w
<1>3. RunShape(w)
  BY <1>1, <1>2 DEF RunShape, AtLink
<1> QED
  BY <1>1, <1>2, <1>3, OneRunGoesOn, Zenon

\* ensure_directory replaces no file.
LEMMA DirectoryStep ==
    ASSUME LinkBounds, LinkInv, NEW r \in Linking!Runs, NEW path, NEW pc,
           run[r].pc # "none",
           \/ run[r].pc \in AtLink /\ pc \in {"namespace", "source"}
           \/ run[r].pc \in {"parent", "link"} /\ pc \in {"link", "existing"},
           Linking!EnsureDirectory(r, path, pc),
           UNCHANGED <<file, linkRow, touched>>
    PROVE  LinkInv'
<1>1. CASE tree[path] \in {None, "directory"}
  <2>1. Linking!Goto(r, pc) /\ tree' = [tree EXCEPT ![path] = "directory"]
    BY <1>1 DEF Linking!EnsureDirectory
  <2>2. tree' \in [Linking!Nodes -> Inodes \cup {"directory", None}]
    BY <2>1, Zenon DEF LinkInv, PlacesOK
  <2>3. \A d : d \notin touched /\ tree[d] \in Inodes => tree'[d] = tree[d]
    BY <1>1, <2>1 DEF LinkInv, PlacesOK, LinkBounds, Linking!Bounds
  <2> QED
    BY <2>1, <2>2, <2>3, GoOnStep
<1>2. CASE ~(tree[path] \in {None, "directory"})
  BY <1>2, StopStep DEF Linking!EnsureDirectory
<1> QED
  BY <1>1, <1>2

\* The next link of a run, and the node that it is to be.
LEMMA NextLink ==
    ASSUME LinkBounds, LinkInv, NEW r \in Linking!Runs, run[r].pc \in AtLink
    PROVE  /\ run[r].plan \in LinkPlans /\ Len(run[r].made) \in Nat
           /\ Len(run[r].made) + 1 \in DOMAIN LinksOf[run[r].plan]
           /\ Linking!Link(r) = LinksOf[run[r].plan][Len(run[r].made) + 1]
           /\ Linking!Link(r).source \in Sources
           /\ Linking!Link(r).destination \in Linking!Nodes
<1>1. RunShape(run[r])
  BY DEF LinkInv, RunLinksOK
<1>2. run[r].plan \in LinkPlans /\ Len(run[r].made) \in Nat
  BY <1>1 DEF RunShape, AtLink
<1>3. Len(run[r].made) + 1 \in DOMAIN LinksOf[run[r].plan]
  BY <1>1, <1>2 DEF RunShape, LinkBounds, Linking!Bounds
<1>4. Linking!Link(r) = LinksOf[run[r].plan][Len(run[r].made) + 1]
  BY DEF Linking!Link, Linking!Links
<1>5. Linking!Link(r).source \in Sources
  BY <1>2, <1>3, <1>4 DEF LinkBounds, Linking!Bounds
<1>6. Linking!Link(r).destination \in Linking!Destinations
  BY <1>2, <1>3, <1>4 DEF Linking!Destinations
<1> QED
  BY <1>2, <1>3, <1>4, <1>5, <1>6 DEF Linking!Nodes

\* A file is in place, linked now or found there.
LEMMA MadeStep ==
    ASSUME LinkBounds, LinkInv, NEW r \in Linking!Runs, run[r].pc \in {"link", "existing"},
           Linking!Made(r, run[r].opened),
           UNCHANGED <<file, linkRow, touched>>,
           tree' \in [Linking!Nodes -> Inodes \cup {"directory", None}],
           \A d : d \notin touched /\ tree[d] \in Inodes => tree'[d] = tree[d],
           tree'[Linking!Link(r).destination] = run[r].opened
    PROVE  LinkInv'
<1> DEFINE made == Append(run[r].made, run[r].opened)
           pc == IF Len(made) = Len(LinksOf[run[r].plan]) THEN "persist" ELSE "namespace"
           w == [run[r] EXCEPT !.made = made, !.opened = None, !.pc = pc]
<1>1. /\ RunShape(run[r]) /\ Held(run[r].plan, run[r].made, tree, touched)
      /\ DOMAIN run[r] = {"pc", "plan", "opened", "made", "error"}
  BY RunStepFields, Zenon
<1>2. run' = [run EXCEPT ![r] = w]
  BY <1>1, Zenon DEF Linking!Made, Linking!Links, LinkInv, PlacesOK
<1>3. /\ DOMAIN w = {"pc", "plan", "opened", "made", "error"} /\ w.pc = pc
      /\ w.plan = run[r].plan /\ w.made = made /\ w.error = run[r].error
  BY <1>1
<1>4. /\ run[r].opened \in Inodes /\ run[r].made \in Seq(Inodes)
      /\ Linking!Fits(run[r].opened, LinksOf[run[r].plan][Len(run[r].made) + 1])
      /\ Len(run[r].made) < Len(LinksOf[run[r].plan])
  BY <1>1 DEF RunShape, AtLink
<1>5. /\ made \in Seq(Inodes) /\ Len(made) = Len(run[r].made) + 1
      /\ \A i \in 1 .. Len(run[r].made) : made[i] = run[r].made[i]
      /\ made[Len(run[r].made) + 1] = run[r].opened
      /\ Len(run[r].made) \in Nat
  BY <1>4
<1>6. run[r].pc \in AtLink
  BY DEF AtLink
<1>7. /\ run[r].plan \in LinkPlans
      /\ tree'[LinksOf[run[r].plan][Len(run[r].made) + 1].destination] = run[r].opened
  BY <1>6, NextLink
<1>8. Len(LinksOf[run[r].plan]) \in Nat
  BY <1>7 DEF LinkBounds, Linking!Bounds
<1>9. pc \in {"persist", "namespace"} /\ (pc = "persist" <=> Len(made) = Len(LinksOf[run[r].plan]))
  OBVIOUS
<1> HIDE DEF w, made, pc
<1>10. RunShape(w)
  <2>1. w.pc \in {"persist", "namespace"} /\ w.made \in Seq(Inodes) /\ w.plan \in LinkPlans
    BY <1>3, <1>5, <1>7, <1>9
  <2>2. Len(w.made) <= Len(LinksOf[w.plan])
    BY <1>3, <1>4, <1>5, <1>8
  <2>3. w.pc = "namespace" => Len(w.made) < Len(LinksOf[w.plan])
    BY <1>3, <1>5, <1>8, <1>9, <2>2
  <2>4. w.pc = "persist" => Len(w.made) = Len(LinksOf[w.plan])
    BY <1>3, <1>9
  <2> QED
    BY <1>3, <2>1, <2>2, <2>3, <2>4 DEF RunShape, AtLink
<1>11. Held(run[r].plan, run[r].made, tree', touched)
  BY <1>1, <1>4, HeldStays
<1>12. Held(w.plan, w.made, tree', touched)
  <2> SUFFICES ASSUME NEW i \in 1 .. Len(made)
               PROVE  /\ Linking!Fits(made[i], LinksOf[run[r].plan][i])
                      /\ LinksOf[run[r].plan][i].destination \notin touched =>
                            tree'[LinksOf[run[r].plan][i].destination] = made[i]
    BY <1>3 DEF Held
  <2>1. CASE i = Len(run[r].made) + 1
    BY <2>1, <1>4, <1>5, <1>7
  <2>2. CASE i # Len(run[r].made) + 1
    <3>1. i \in 1 .. Len(run[r].made)
      BY <2>2, <1>5
    <3> QED
      BY <3>1, <1>5, <1>11 DEF Held
  <2> QED
    BY <2>1, <2>2
<1> QED
  BY <1>2, <1>10, <1>12, OneRunMoves, Zenon

\* An instance begins, and opens the root.
LEMMA BeginSteps ==
    ASSUME LinkBounds, LinkInv, NEW r \in Linking!Runs,
           Linking!OpenRoot(r) \/ \E p \in LinkPlans : Linking!Start(r, p)
    PROVE  LinkInv'
<1>1. UNCHANGED <<file, tree, linkRow, touched>>
  BY Zenon DEF Linking!OpenRoot, Linking!Start
<1>2. /\ tree' \in [Linking!Nodes -> Inodes \cup {"directory", None}]
      /\ \A d : d \notin touched /\ tree[d] \in Inodes => tree'[d] = tree[d]
  BY <1>1 DEF LinkInv, PlacesOK
<1>3. CASE Linking!OpenRoot(r)
  <2>1. run[r].pc = "root" /\ \E pc \in {"namespace", "failed"} : Linking!Goto(r, pc)
    BY <1>3 DEF Linking!OpenRoot, Linking!Goto
  <2> QED
    BY <1>1, <1>2, <2>1, GoOnStep DEF AtLink
<1>4. ASSUME NEW p \in LinkPlans, Linking!Start(r, p)
      PROVE  LinkInv'
  <2> DEFINE w == [Linking!NoRun EXCEPT !.pc = "root", !.plan = p]
  <2>1. run' = [run EXCEPT ![r] = w]
    BY <1>4, Zenon DEF Linking!Start
  <2>2. /\ DOMAIN w = {"pc", "plan", "opened", "made", "error"} /\ w.pc = "root" /\ w.plan = p
        /\ w.made = <<>>
    BY DEF Linking!NoRun
  <2> HIDE DEF w
  <2>3. RunShape(w)
    BY <2>2 DEF RunShape, AtLink, LinkBounds, Linking!Bounds
  <2>4. Held(w.plan, w.made, tree', touched)
    BY <2>2 DEF Held
  <2> QED
    BY <1>1, <1>2, <2>1, <2>3, <2>4, OneRunMoves, Zenon
<1> QED
  BY <1>3, <1>4

\* The source is opened and checked.
LEMMA OpenSourceStep ==
    ASSUME LinkBounds, LinkInv, NEW r \in Linking!Runs, Linking!OpenSource(r)
    PROVE  LinkInv'
<1> DEFINE inode == file[Linking!Link(r).source]
<1>1. UNCHANGED <<file, tree, linkRow, touched>> /\ run[r].pc = "source"
  BY DEF Linking!OpenSource
<1>2. run[r].pc \in AtLink
  BY <1>1 DEF AtLink
<1>3. CASE inode # None /\ Linking!Fits(inode, Linking!Link(r))
  <2> DEFINE w == [run[r] EXCEPT !.pc = "parent", !.opened = inode]
  <2>1. RunShape(run[r]) /\ DOMAIN run[r] = {"pc", "plan", "opened", "made", "error"}
    BY RunStepFields, Zenon
  <2>2. run' = [run EXCEPT ![r] = w]
    BY <1>3, <2>1 DEF Linking!OpenSource, LinkInv, PlacesOK
  <2>3. inode \in Inodes /\ Linking!Fits(inode, LinksOf[run[r].plan][Len(run[r].made) + 1])
    BY <1>2, <1>3, NextLink DEF LinkInv, PlacesOK
  <2>4. /\ DOMAIN w = {"pc", "plan", "opened", "made", "error"} /\ w.pc = "parent"
        /\ w.opened = inode /\ w.plan = run[r].plan /\ w.made = run[r].made
    BY <2>1
  <2> HIDE DEF w, inode
  <2>5. RunShape(w)
    BY <1>1, <2>1, <2>3, <2>4 DEF RunShape, AtLink
  <2> QED
    BY <1>1, <2>2, <2>4, <2>5, OneRunGoesOn DEF LinkInv, PlacesOK
<1>4. CASE ~(inode # None /\ Linking!Fits(inode, Linking!Link(r)))
  BY <1>1, <1>4, StopStep DEF Linking!OpenSource
<1> QED
  BY <1>3, <1>4

\* linkat, and what it finds.
LEMMA LinkSteps ==
    ASSUME LinkBounds, LinkInv, NEW r \in Linking!Runs, Linking!LinkAt(r) \/ Linking!Existing(r)
    PROVE  LinkInv'
<1> DEFINE node == Linking!Link(r).destination
<1>1. UNCHANGED <<file, linkRow, touched>> /\ run[r].pc \in {"link", "existing"}
  BY DEF Linking!LinkAt, Linking!Existing
<1>2. node \in Linking!Nodes
  BY <1>1, NextLink DEF AtLink
<1>3. run[r].opened \in Inodes
  BY <1>1 DEF LinkInv, RunLinksOK, RunShape
<1>4. CASE /\ tree[node] = None /\ tree' = [tree EXCEPT ![node] = run[r].opened]
           /\ Linking!Made(r, run[r].opened)
  <2>2. /\ tree' \in [Linking!Nodes -> Inodes \cup {"directory", None}]
        /\ tree'[node] = run[r].opened
    BY <1>2, <1>3, <1>4 DEF LinkInv, PlacesOK
  <2>3. \A d : d \notin touched /\ tree[d] \in Inodes => tree'[d] = tree[d]
    BY <1>4 DEF LinkInv, PlacesOK, LinkBounds, Linking!Bounds
  <2> QED
    BY <1>1, <1>4, <2>2, <2>3, MadeStep
<1>5. CASE run[r].pc = "link" /\ Linking!Goto(r, "existing") /\ UNCHANGED tree
  BY <1>1, <1>5, GoOnStep DEF LinkInv, PlacesOK
<1>6. CASE Linking!Existing(r) /\ tree[node] = run[r].opened
  <2>1. Linking!Made(r, run[r].opened) /\ UNCHANGED tree
    BY <1>6 DEF Linking!Existing
  <2> QED
    BY <1>1, <1>6, <2>1, MadeStep DEF LinkInv, PlacesOK
<1>7. CASE Linking!Existing(r) /\ tree[node] # run[r].opened
  <2>1. Linking!Stop(r) /\ UNCHANGED tree
    BY <1>7 DEF Linking!Existing
  <2> QED
    BY <1>1, <2>1, StopStep
<1>8. CASE Linking!Stop(r) /\ UNCHANGED tree
  BY <1>1, <1>8, StopStep
<1>9. CASE Linking!LinkAt(r)
  BY <1>4, <1>5, <1>8, <1>9 DEF Linking!LinkAt, Linking!Linked
<1> QED
  BY <1>6, <1>7, <1>9

\* persist_links: what was made in this run, and what an earlier one had made beyond it.
LEMMA PersistStep ==
    ASSUME LinkBounds, LinkInv, NEW r \in Linking!Runs, Linking!PersistLinks(r)
    PROVE  LinkInv'
<1> DEFINE p == run[r].plan
           made == run[r].made
           known == linkRow[p].links
           all == made \o SubSeq(known, Len(made) + 1, Len(known))
           i == [state |-> Linking!PersistedState(r), links |-> all]
           w == [run[r] EXCEPT !.pc = IF run[r].error THEN "failed" ELSE "ready"]
<1>1. /\ UNCHANGED <<file, tree, touched>> /\ run[r].pc = "persist"
      /\ linkRow' = [linkRow EXCEPT ![p] = i]
  BY DEF Linking!PersistLinks
<1>2. /\ RunShape(run[r]) /\ Held(p, made, tree, touched)
      /\ DOMAIN run[r] = {"pc", "plan", "opened", "made", "error"}
  BY RunStepFields, Zenon
<1>3. run' = [run EXCEPT ![r] = w]
  BY RunStepFields, Zenon DEF Linking!PersistLinks
<1>4. /\ DOMAIN w = {"pc", "plan", "opened", "made", "error"} /\ w.pc \in {"failed", "ready"}
      /\ w.plan = p /\ w.made = made
  BY <1>2
<1>5. p \in LinkPlans /\ made \in Seq(Inodes) /\ Len(made) <= Len(LinksOf[p])
  BY <1>1, <1>2 DEF RunShape
<1>6. LinkRowShape(p, linkRow[p]) /\ Held(p, known, tree, touched)
  BY <1>5 DEF LinkInv, RowLinksOK
<1>7. known \in Seq(Inodes) /\ Len(known) <= Len(LinksOf[p]) /\ Len(LinksOf[p]) \in Nat
  BY <1>5, <1>6 DEF LinkRowShape, LinkBounds, Linking!Bounds
<1>8. Linking!PersistedState(r) = "links_complete" => Len(made) = Len(LinksOf[p])
  BY <1>1, <1>2 DEF Linking!PersistedState, RunShape
<1> HIDE DEF w
<1>9. RunShape(w)
  BY <1>2, <1>4, <1>5 DEF RunShape, AtLink
<1>10. /\ DOMAIN i = {"state", "links"} /\ i.links = all
       /\ i.state = Linking!PersistedState(r)
  BY Zenon
<1> HIDE DEF made, known, i
<1>11. SubSeq(known, Len(made) + 1, Len(known)) \in Seq(Inodes)
  BY <1>5, <1>7
<1>12. /\ all \in Seq(Inodes)
       /\ Len(all) = IF Len(made) >= Len(known) THEN Len(made) ELSE Len(known)
  BY <1>5, <1>7, <1>11
<1>13. \A n \in 1 .. Len(all) : all[n] = IF n <= Len(made) THEN made[n] ELSE known[n]
  BY <1>5, <1>7, <1>11, <1>12
<1> HIDE DEF all
<1>14. LinkRowShape(p, i)
  BY <1>5, <1>7, <1>8, <1>10, <1>12 DEF LinkRowShape
<1>15. Held(p, all, tree, touched)
  <2> SUFFICES ASSUME NEW n \in 1 .. Len(all)
               PROVE  /\ Linking!Fits(all[n], LinksOf[p][n])
                      /\ LinksOf[p][n].destination \notin touched =>
                            tree[LinksOf[p][n].destination] = all[n]
    BY DEF Held
  <2>1. CASE n <= Len(made)
    <3>1. n \in 1 .. Len(made) /\ all[n] = made[n]
      BY <1>5, <1>12, <1>13, <2>1
    <3> QED
      BY <3>1, <1>2 DEF Held
  <2>2. CASE ~(n <= Len(made))
    <3>1. n \in 1 .. Len(known) /\ all[n] = known[n]
      BY <1>5, <1>7, <1>12, <1>13, <2>2
    <3> QED
      BY <3>1, <1>6 DEF Held
  <2> QED
    BY <2>1, <2>2
<1> HIDE DEF p
<1>16. PlacesOK'
  BY <1>1, <1>3 DEF LinkInv, PlacesOK
<1>17. RunLinksOK'
  <2> SUFFICES ASSUME NEW s \in Linking!Runs
               PROVE  RunShape(run'[s]) /\ Held(run'[s].plan, run'[s].made, tree', touched')
    BY DEF RunLinksOK, Linking!Runs
  <2>1. run'[s] = IF s = r THEN w ELSE run[s]
    BY <1>3 DEF LinkInv, PlacesOK
  <2> QED
    BY <1>1, <1>2, <1>4, <1>9, <2>1 DEF LinkInv, RunLinksOK
<1>18. RowLinksOK'
  <2> SUFFICES ASSUME NEW q \in LinkPlans
               PROVE  LinkRowShape(q, linkRow'[q]) /\ Held(q, linkRow'[q].links, tree', touched')
    BY DEF RowLinksOK
  <2>1. linkRow'[q] = IF q = p THEN i ELSE linkRow[q]
    BY <1>1 DEF LinkInv, PlacesOK
  <2> QED
    BY <1>1, <1>10, <1>14, <1>15, <2>1 DEF LinkInv, RowLinksOK
<1> QED
  BY <1>16, <1>17, <1>18 DEF LinkInv

\* The process dies: the runs begin again.
LEMMA CrashStep ==
    ASSUME LinkBounds, LinkInv, Linking!Crash
    PROVE  LinkInv'
<1>1. UNCHANGED <<file, tree, linkRow, touched>>
  BY Zenon DEF Linking!Crash
<1>2. ASSUME NEW r \in Linking!Runs
      PROVE  RunShape(run'[r]) /\ Held(run'[r].plan, run'[r].made, tree', touched')
  <2>1. RunShape(run[r]) /\ Held(run[r].plan, run[r].made, tree, touched)
    BY RunStepFields, Zenon
  <2>2. CASE run[r].pc \in {"none", "failed"}
    <3>1. run'[r] = run[r]
      BY <2>2, Zenon DEF Linking!Crash
    <3> QED
      BY <1>1, <2>1, <3>1
  <2>3. CASE run[r].pc \notin {"none", "failed"}
    <3> DEFINE w == [Linking!NoRun EXCEPT !.pc = "root", !.plan = run[r].plan]
    <3>1. run'[r] = w
      BY <2>3, Zenon DEF Linking!Crash
    <3>2. /\ DOMAIN w = {"pc", "plan", "opened", "made", "error"} /\ w.pc = "root"
          /\ w.plan = run[r].plan /\ w.made = <<>>
      BY DEF Linking!NoRun
    <3>3. run[r].plan \in LinkPlans
      BY <2>1, <2>3 DEF RunShape
    <3> HIDE DEF w
    <3>4. RunShape(w)
      BY <3>2, <3>3 DEF RunShape, AtLink, LinkBounds, Linking!Bounds
    <3> QED
      BY <3>1, <3>2, <3>4 DEF Held
  <2> QED
    BY <2>2, <2>3
<1>3. PlacesOK'
  BY <1>1, Zenon DEF Linking!Crash, LinkInv, PlacesOK
<1>4. RunLinksOK'
  BY <1>2 DEF RunLinksOK, Linking!Runs
<1>5. RowLinksOK'
  BY <1>1 DEF LinkInv, RowLinksOK
<1> QED
  BY <1>3, <1>4, <1>5 DEF LinkInv

\* Others change a source, or a destination that is then theirs.
LEMMA OthersStep ==
    ASSUME LinkBounds, LinkInv, Linking!Change
    PROVE  LinkInv'
<1>1. UNCHANGED <<linkRow, run>>
  BY DEF Linking!Change
<1>2. /\ file' \in [Sources -> Inodes \cup {None}] /\ touched \subseteq touched'
      /\ tree' \in [Linking!Nodes -> Inodes \cup {"directory", None}]
      /\ \A d : d \notin touched' /\ tree[d] \in Inodes => tree'[d] = tree[d]
  <2>1. CASE UNCHANGED <<tree, touched>> /\ \E s \in Sources, inode \in Inodes \cup {None} :
                                                file' = [file EXCEPT ![s] = inode]
    BY <2>1 DEF LinkInv, PlacesOK
  <2>2. ASSUME NEW node \in Linking!Nodes, NEW inode \in Inodes \cup {None}, UNCHANGED file,
               tree' = [tree EXCEPT ![node] = inode], touched' = touched \cup {node}
        PROVE  /\ file' \in [Sources -> Inodes \cup {None}] /\ touched \subseteq touched'
               /\ tree' \in [Linking!Nodes -> Inodes \cup {"directory", None}]
               /\ \A d : d \notin touched' /\ tree[d] \in Inodes => tree'[d] = tree[d]
    <3>1. tree \in [Linking!Nodes -> Inodes \cup {"directory", None}] /\ file \in [Sources -> Inodes \cup {None}]
      BY DEF LinkInv, PlacesOK
    <3> QED
      BY <2>2, <3>1
  <2> QED
    BY <2>1, <2>2 DEF Linking!Change
<1>3. PlacesOK'
  BY <1>1, <1>2 DEF LinkInv, PlacesOK
<1>4. ASSUME NEW r \in Linking!Runs
      PROVE  RunShape(run[r]) /\ Held(run[r].plan, run[r].made, tree', touched')
  <2>1. RunShape(run[r]) /\ Held(run[r].plan, run[r].made, tree, touched)
    BY RunStepFields, Zenon
  <2>2. run[r].made \in Seq(Inodes)
    BY <2>1 DEF RunShape
  <2> QED
    BY <1>2, <2>1, <2>2, HeldStays
<1>5. ASSUME NEW p \in LinkPlans
      PROVE  LinkRowShape(p, linkRow[p]) /\ Held(p, linkRow[p].links, tree', touched')
  <2>1. LinkRowShape(p, linkRow[p]) /\ Held(p, linkRow[p].links, tree, touched)
    BY DEF LinkInv, RowLinksOK
  <2>2. linkRow[p].links \in Seq(Inodes)
    BY <2>1 DEF LinkRowShape
  <2> QED
    BY <1>2, <2>1, <2>2, HeldStays
<1> QED
  BY <1>1, <1>3, <1>4, <1>5 DEF LinkInv, RunLinksOK, RowLinksOK, Linking!Runs

\* Every step keeps the invariant of the links.
LEMMA LinkNext ==
    ASSUME LinkBounds, LinkInv, [Linking!Next]_linkVars
    PROVE  LinkInv'
<1>1. ASSUME NEW r \in Linking!Runs, Linking!EnsureNamespace(r) \/ Linking!EnsureParent(r)
      PROVE  LinkInv'
  <2>1. CASE Linking!EnsureNamespace(r)
    BY <2>1, DirectoryStep DEF Linking!EnsureNamespace, AtLink
  <2>2. CASE Linking!EnsureParent(r)
    BY <2>2, DirectoryStep DEF Linking!EnsureParent, AtLink
  <2> QED
    BY <1>1, <2>1, <2>2
<1>2. CASE UNCHANGED linkVars
  BY <1>2 DEF linkVars, LinkInv, PlacesOK, RunLinksOK, RowLinksOK, Linking!Runs
<1> QED
  BY <1>1, <1>2, BeginSteps, OpenSourceStep, LinkSteps, PersistStep, CrashStep, OthersStep
     DEF Linking!Next, Linking!Activity

\* persist_links, for any plans, number of runs, changes by others and crashes: what is recorded
\* as linked is the planned file, and is in place unless somebody else has changed it; a plan is
\* complete only with all of its links.
THEOREM LinksStayPlanned ==
    ASSUME LinkBounds
    PROVE  Linking!Spec => []Linking!LinksArePlanned
<1>1. Linking!Init => LinkInv
  BY LinkInit
<1>2. LinkInv /\ [Linking!Next]_Linking!vars => LinkInv'
  BY LinkNext DEF Linking!vars, linkVars
<1>3. LinkInv => Linking!LinksArePlanned
  <2> SUFFICES ASSUME LinkInv, NEW p \in LinkPlans
               PROVE  /\ linkRow[p].state = "links_complete" => Len(linkRow[p].links) = Len(LinksOf[p])
                      /\ \A i \in DOMAIN linkRow[p].links :
                            /\ Linking!Fits(linkRow[p].links[i], LinksOf[p][i])
                            /\ LinksOf[p][i].destination \notin touched =>
                                  tree[LinksOf[p][i].destination] = linkRow[p].links[i]
    BY DEF Linking!LinksArePlanned
  <2>1. LinkRowShape(p, linkRow[p]) /\ Held(p, linkRow[p].links, tree, touched)
    BY DEF LinkInv, RowLinksOK
  <2>2. DOMAIN linkRow[p].links = 1 .. Len(linkRow[p].links)
    BY <2>1 DEF LinkRowShape
  <2> QED
    BY <2>1, <2>2 DEF LinkRowShape, Held
<1> QED
  BY <1>1, <1>2, <1>3, PTL DEF Linking!Spec

\* The sources are as planned, and the files of a plan do not get in each other's way.
WellPlanned == Linking!WellPlanned

\* Nobody but the runs of a plan has been there: the tree holds their own links.
TreeCalm(p, nodes) ==
    /\ nodes[<<>>] \in {None, "directory"}
    /\ \A i \in DOMAIN LinksOf[p] :
          /\ nodes[Linking!Parent(LinksOf[p][i].destination)] \in {None, "directory"}
          /\ nodes[LinksOf[p][i].destination] \in {None, InitialFiles[LinksOf[p][i].source]}

\* A run of the plan has met no error, and what it found is its own link.
RunCalm(p, w, nodes) ==
    /\ w.plan \in {p, None}
    /\ w.error = FALSE /\ w.pc # "failed"
    /\ w.pc \in {"parent", "link", "existing"} =>
          w.opened = InitialFiles[LinksOf[p][Len(w.made) + 1].source]
    /\ w.pc = "existing" => nodes[LinksOf[p][Len(w.made) + 1].destination] # None

PlanCalm(p, nodes, runs) == TreeCalm(p, nodes) /\ \A r \in Linking!Runs : RunCalm(p, runs[r], nodes)

OnlyPlan(p) == \A r \in Linking!Runs : run[r].plan \in {p, None}

CalmOK ==
    /\ linkChanges \in Nat
    /\ linkChanges = 0 =>
          /\ file = InitialFiles
          /\ \A p \in LinkPlans : OnlyPlan(p) =>
                PlanCalm(p, tree, run)

\* Nothing is there at first.
LEMMA CalmInit ==
    ASSUME LinkBounds, Linking!Init
    PROVE  CalmOK
<1>1. \A p \in LinkPlans : \A i \in DOMAIN LinksOf[p] :
         /\ LinksOf[p][i].destination \in Linking!Nodes
         /\ Linking!Parent(LinksOf[p][i].destination) \in Linking!Nodes
  <2>1. \A p \in LinkPlans : \A i \in DOMAIN LinksOf[p] : LinksOf[p][i].destination \in Linking!Destinations
    BY DEF Linking!Destinations
  <2> QED
    BY <2>1 DEF Linking!Nodes
<1>2. <<>> \in Linking!Nodes
  BY DEF Linking!Nodes
<1>3. \A p \in LinkPlans : TreeCalm(p, tree)
  BY <1>1, <1>2 DEF Linking!Init, TreeCalm
<1>4. \A r \in Linking!Runs : run[r] = Linking!NoRun
  BY DEF Linking!Init
<1>5. \A p \in LinkPlans, r \in Linking!Runs : RunCalm(p, run[r], tree)
  BY <1>4, SMTT(30) DEF Linking!NoRun, RunCalm
<1> QED
  BY <1>3, <1>5 DEF Linking!Init, CalmOK, PlanCalm

\* What a calm state gives for a run of the plan that is at a link.
LEMMA CalmLink ==
    ASSUME LinkBounds, WellPlanned, LinkInv, NEW p \in LinkPlans, NEW r \in Linking!Runs,
           run[r].pc \in AtLink, PlanCalm(p, tree, run)
    PROVE  /\ Linking!Link(r) = LinksOf[p][Len(run[r].made) + 1]
           /\ Len(run[r].made) + 1 \in DOMAIN LinksOf[p] /\ run[r].plan = p
           /\ InitialFiles[Linking!Link(r).source] # None
           /\ Linking!Fits(InitialFiles[Linking!Link(r).source], Linking!Link(r))
           /\ tree[Linking!Link(r).destination] \in {None, InitialFiles[Linking!Link(r).source]}
           /\ tree[Linking!Parent(Linking!Link(r).destination)] \in {None, "directory"}
<1>1. run[r].plan \in LinkPlans
  BY NextLink
<1>2. run[r].plan = p
  BY <1>1 DEF PlanCalm, RunCalm, LinkBounds, Linking!Bounds
<1>3. Linking!Link(r) = LinksOf[p][Len(run[r].made) + 1] /\ Len(run[r].made) + 1 \in DOMAIN LinksOf[p]
  BY <1>2, NextLink
<1> DEFINE i == Len(run[r].made) + 1
<1> HIDE DEF i
<1>4. /\ InitialFiles[LinksOf[p][i].source] # None
      /\ Linking!Fits(InitialFiles[LinksOf[p][i].source], LinksOf[p][i])
  BY <1>3 DEF WellPlanned, Linking!WellPlanned, i
<1>5. /\ tree[LinksOf[p][i].destination] \in {None, InitialFiles[LinksOf[p][i].source]}
      /\ tree[Linking!Parent(LinksOf[p][i].destination)] \in {None, "directory"}
  BY <1>3 DEF PlanCalm, TreeCalm, i
<1> QED
  BY <1>2, <1>3, <1>4, <1>5, Zenon DEF i

\* One run moves in a calm state, and takes nothing away.
LEMMA CalmMoves ==
    ASSUME LinkInv, NEW p \in LinkPlans, NEW r \in Linking!Runs, NEW w,
           PlanCalm(p, tree, run),
           run' = [run EXCEPT ![r] = w], TreeCalm(p, tree'), RunCalm(p, w, tree'),
           \A d : tree[d] # None => tree'[d] # None
    PROVE  PlanCalm(p, tree', run')
<1>1. ASSUME NEW s \in Linking!Runs
      PROVE  RunCalm(p, run'[s], tree')
  <2>1. run'[s] = IF s = r THEN w ELSE run[s]
    BY DEF LinkInv, PlacesOK
  <2>2. RunCalm(p, run[s], tree')
    BY DEF PlanCalm, RunCalm
  <2> QED
    BY <2>1, <2>2
<1> QED
  BY <1>1 DEF PlanCalm

\* One run moves in a calm state, and leaves the tree alone.
LEMMA CalmGoesOn ==
    ASSUME LinkInv, NEW p \in LinkPlans, NEW r \in Linking!Runs, NEW w, PlanCalm(p, tree, run),
           run' = [run EXCEPT ![r] = w], UNCHANGED tree, RunCalm(p, w, tree)
    PROVE  PlanCalm(p, tree', run')
<1>1. TreeCalm(p, tree') /\ RunCalm(p, w, tree') /\ \A d : tree[d] # None => tree'[d] # None
  BY DEF PlanCalm
<1> QED
  BY <1>1, CalmMoves, Zenon

\* A directory of the plan is made, or found.
LEMMA CalmDirectory ==
    ASSUME LinkBounds, WellPlanned, LinkInv, NEW p \in LinkPlans, NEW r \in Linking!Runs, NEW path, NEW pc,
           PlanCalm(p, tree, run),
           tree[path] \in {None, "directory"}, \A i \in DOMAIN LinksOf[p] : LinksOf[p][i].destination # path,
           pc \in {"source", "link"}, pc = "link" => run[r].pc = "parent",
           Linking!EnsureDirectory(r, path, pc)
    PROVE  PlanCalm(p, tree', run')
<1>2. Linking!Goto(r, pc) /\ tree' = [tree EXCEPT ![path] = "directory"]
  BY DEF Linking!EnsureDirectory
<1> DEFINE w == [run[r] EXCEPT !.pc = pc]
<1>3. run' = [run EXCEPT ![r] = w] /\ DOMAIN run[r] = {"pc", "plan", "opened", "made", "error"}
  BY <1>2, RunStepFields, Zenon
<1>5. DOMAIN tree = Linking!Nodes
  BY DEF LinkInv, PlacesOK
<1>6. TreeCalm(p, tree')
  <2>1. \A d : d # path => tree'[d] = tree[d]
    BY <1>2, <1>5
  <2>2. tree'[path] = "directory" \/ tree'[path] = tree[path]
    BY <1>2, <1>5
  <2>3. \A d : tree[d] \in {None, "directory"} => tree'[d] \in {None, "directory"}
    BY <2>1, <2>2
  <2>4. TreeCalm(p, tree)
    BY DEF PlanCalm
  <2>5. ASSUME NEW i \in DOMAIN LinksOf[p]
        PROVE  /\ tree'[Linking!Parent(LinksOf[p][i].destination)] \in {None, "directory"}
               /\ tree'[LinksOf[p][i].destination] \in {None, InitialFiles[LinksOf[p][i].source]}
    <3>1. tree'[LinksOf[p][i].destination] = tree[LinksOf[p][i].destination]
      BY <2>1
    <3>2. /\ tree[Linking!Parent(LinksOf[p][i].destination)] \in {None, "directory"}
          /\ tree[LinksOf[p][i].destination] \in {None, InitialFiles[LinksOf[p][i].source]}
      BY <2>4 DEF TreeCalm
    <3>3. tree'[Linking!Parent(LinksOf[p][i].destination)] \in {None, "directory"}
      <4> DEFINE d == Linking!Parent(LinksOf[p][i].destination)
      <4>1. tree[d] \in {None, "directory"}
        BY <3>2, Zenon
      <4> HIDE DEF d
      <4>2. tree'[d] \in {None, "directory"}
        BY <2>3, <4>1
      <4> QED
        BY <4>2, Zenon DEF d
    <3> QED
      BY <3>1, <3>2, <3>3
  <2>6. tree'[<<>>] \in {None, "directory"}
    <3>1. tree[<<>>] \in {None, "directory"}
      BY <2>4 DEF TreeCalm
    <3> QED
      BY <2>3, <3>1
  <2> QED
    BY <2>5, <2>6, Zenon DEF TreeCalm
<1>7. \A d : tree[d] # None => tree'[d] # None
  BY <1>2, <1>5 DEF LinkBounds, Linking!Bounds
<1>8. RunCalm(p, w, tree')
  <2>1. RunCalm(p, run[r], tree)
    BY DEF PlanCalm
  <2>2. /\ w.pc = pc /\ w.opened = run[r].opened /\ w.plan = run[r].plan /\ w.made = run[r].made
        /\ w.error = run[r].error
    BY <1>3
  <2> HIDE DEF w
  <2> QED
    BY <2>1, <2>2 DEF RunCalm
<1> HIDE DEF w
<1> QED
  BY <1>3, <1>6, <1>7, <1>8, CalmMoves, Zenon

\* A file of the plan is linked, or found.
LEMMA CalmMade ==
    ASSUME LinkBounds, WellPlanned, LinkInv, NEW p \in LinkPlans, NEW r \in Linking!Runs,
           PlanCalm(p, tree, run),
           run[r].pc \in {"link", "existing"}, Linking!Made(r, run[r].opened),
           \/ UNCHANGED tree
           \/ tree' = [tree EXCEPT ![Linking!Link(r).destination] = run[r].opened]
    PROVE  PlanCalm(p, tree', run')
<1> DEFINE made == Append(run[r].made, run[r].opened)
           pc == IF Len(made) = Len(LinksOf[run[r].plan]) THEN "persist" ELSE "namespace"
           w == [run[r] EXCEPT !.made = made, !.opened = None, !.pc = pc]
           node == Linking!Link(r).destination
           i == Len(run[r].made) + 1
<1>1. /\ DOMAIN run[r] = {"pc", "plan", "opened", "made", "error"} /\ RunShape(run[r])
      /\ RunCalm(p, run[r], tree) /\ run[r].pc \in AtLink
  BY RunStepFields, Zenon DEF AtLink, PlanCalm
<1>2. run' = [run EXCEPT ![r] = w]
  BY <1>1, Zenon DEF Linking!Made, Linking!Links, LinkInv, PlacesOK
<1>3. /\ w.pc \in {"persist", "namespace"} /\ w.plan = run[r].plan /\ w.error = run[r].error
  BY <1>1
<1>4. /\ node = LinksOf[p][i].destination /\ i \in DOMAIN LinksOf[p]
      /\ run[r].opened = InitialFiles[LinksOf[p][i].source] /\ run[r].opened # None
  <2>1. /\ Linking!Link(r) = LinksOf[p][i] /\ i \in DOMAIN LinksOf[p]
        /\ InitialFiles[Linking!Link(r).source] # None
    <3>1. run[r].pc \in AtLink
      BY <1>1, Zenon
    <3> HIDE DEF made, pc, w
    <3> QED
      BY <3>1, CalmLink, Zenon
  <2>2. run[r].opened = InitialFiles[LinksOf[p][i].source]
    BY <1>1 DEF RunCalm
  <2> QED
    BY <2>1, <2>2, Zenon
<1> HIDE DEF w, i, node
<1>5. RunCalm(p, w, tree')
  BY <1>1, <1>3 DEF RunCalm
<1>6. DOMAIN tree = Linking!Nodes
  BY DEF LinkInv, PlacesOK
<1>7. CASE UNCHANGED tree
  BY <1>2, <1>5, <1>7, CalmGoesOn, Zenon
<1>8. CASE tree' = [tree EXCEPT ![node] = run[r].opened]
  <2>1. \A d : d # node => tree'[d] = tree[d]
    BY <1>6, <1>8
  <2>2. tree'[node] = run[r].opened \/ tree'[node] = tree[node]
    BY <1>6, <1>8
  <2>3. \A d : tree[d] # None => tree'[d] # None
    BY <1>4, <2>1, <2>2
  <2>4. \A j \in DOMAIN LinksOf[p] :
           /\ node \notin {<<>>, Linking!Parent(LinksOf[p][j].destination)}
           /\ LinksOf[p][j].destination = node =>
                 InitialFiles[LinksOf[p][j].source] = InitialFiles[LinksOf[p][i].source]
    BY <1>4 DEF WellPlanned, Linking!WellPlanned
  <2>5. TreeCalm(p, tree')
    BY <1>4, <2>1, <2>2, <2>4 DEF PlanCalm, TreeCalm
  <2> QED
    BY <1>2, <1>5, <2>3, <2>5, CalmMoves, Zenon
<1> QED
  BY <1>7, <1>8 DEF node

\* No step of the runs of one plan disturbs the calm.
LEMMA CalmActivity ==
    ASSUME LinkBounds, WellPlanned, LinkInv, NEW p \in LinkPlans, NEW r \in Linking!Runs,
           PlanCalm(p, tree, run),
           file = InitialFiles, linkChanges \in Nat, linkChanges' = 0, run'[r].plan \in {p, None},
           Linking!Activity(r) \/ \E q \in LinkPlans : Linking!Start(r, q)
    PROVE  PlanCalm(p, tree', run')
<1>1. /\ DOMAIN run[r] = {"pc", "plan", "opened", "made", "error"} /\ RunShape(run[r])
      /\ RunCalm(p, run[r], tree)
  BY RunStepFields, Zenon DEF PlanCalm
<1>2. ASSUME NEW q \in LinkPlans, Linking!Start(r, q)
      PROVE  PlanCalm(p, tree', run')
  <2> DEFINE w == [Linking!NoRun EXCEPT !.pc = "root", !.plan = q]
  <2>1. run' = [run EXCEPT ![r] = w] /\ UNCHANGED tree
    BY <1>2, Zenon DEF Linking!Start
  <2>2. w.pc = "root" /\ w.plan = q /\ w.error = FALSE
    BY DEF Linking!NoRun
  <2> HIDE DEF w
  <2>3. w.plan \in {p, None}
    BY <2>1 DEF LinkInv, PlacesOK
  <2>4. RunCalm(p, w, tree')
    BY <2>2, <2>3 DEF RunCalm
  <2> QED
    BY <2>1, <2>4, CalmGoesOn, Zenon
<1>L. run[r].pc \in AtLink => Linking!Link(r) = LinksOf[p][Len(run[r].made) + 1]
  BY CalmLink, Zenon
<1>3. ASSUME NEW pc \in {"namespace", "existing", "ready"}, Linking!Goto(r, pc), UNCHANGED tree,
             pc = "existing" => run[r].pc = "link" /\ tree[Linking!Link(r).destination] # None
      PROVE  PlanCalm(p, tree', run')
  <2> DEFINE w == [run[r] EXCEPT !.pc = pc]
  <2>1. run' = [run EXCEPT ![r] = w]
    BY <1>3, RunStepFields, Zenon
  <2>2. /\ w.pc = pc /\ w.opened = run[r].opened /\ w.plan = run[r].plan /\ w.made = run[r].made
        /\ w.error = run[r].error
    BY <1>1
  <2> HIDE DEF w
  <2>3. pc = "existing" => tree[LinksOf[p][Len(run[r].made) + 1].destination] # None
    <3> SUFFICES ASSUME pc = "existing"
                 PROVE  tree[LinksOf[p][Len(run[r].made) + 1].destination] # None
      OBVIOUS
    <3>1. run[r].pc \in AtLink /\ tree[Linking!Link(r).destination] # None
      BY <1>3 DEF AtLink
    <3> QED
      BY <1>L, <3>1, Zenon
  <2>4. RunCalm(p, w, tree')
    BY <1>1, <1>3, <2>2, <2>3, ZenonT(30) DEF RunCalm
  <2> QED
    BY <1>3, <2>1, <2>4, CalmGoesOn, Zenon
<1>4. CASE Linking!OpenRoot(r)
  <2>1. Linking!Goto(r, "namespace") /\ UNCHANGED tree
    BY <1>4 DEF Linking!OpenRoot
  <2> QED
    BY <1>3, <2>1
<1>5. CASE Linking!EnsureNamespace(r)
  <2>1. Linking!EnsureDirectory(r, <<>>, "source")
    BY <1>5 DEF Linking!EnsureNamespace
  <2>2. tree[<<>>] \in {None, "directory"} /\ \A i \in DOMAIN LinksOf[p] : LinksOf[p][i].destination # <<>>
    BY DEF PlanCalm, TreeCalm, WellPlanned, Linking!WellPlanned
  <2> QED
    BY <2>1, <2>2, CalmDirectory
<1>6. CASE Linking!OpenSource(r)
  <2> DEFINE inode == file[Linking!Link(r).source]
             w == [run[r] EXCEPT !.pc = "parent", !.opened = inode]
  <2>1. run[r].pc = "source" /\ UNCHANGED tree
    BY <1>6 DEF Linking!OpenSource
  <2>2. /\ inode = InitialFiles[LinksOf[p][Len(run[r].made) + 1].source]
        /\ inode # None /\ Linking!Fits(inode, Linking!Link(r))
    <3>1. /\ Linking!Link(r) = LinksOf[p][Len(run[r].made) + 1]
          /\ InitialFiles[Linking!Link(r).source] # None
          /\ Linking!Fits(InitialFiles[Linking!Link(r).source], Linking!Link(r))
      BY <2>1, CalmLink DEF AtLink
    <3> QED
      BY <3>1
  <2>3. run' = [run EXCEPT ![r] = w]
    BY <1>1, <1>6, <2>2, Zenon DEF Linking!OpenSource, LinkInv, PlacesOK
  <2>4. /\ w.pc = "parent" /\ w.opened = inode /\ w.plan = run[r].plan /\ w.made = run[r].made
        /\ w.error = run[r].error
    BY <1>1
  <2> HIDE DEF w, inode
  <2>5. RunCalm(p, w, tree')
    BY <1>1, <2>2, <2>4, Zenon DEF RunCalm
  <2> QED
    BY <2>1, <2>3, <2>5, CalmGoesOn, Zenon
<1>7. CASE Linking!EnsureParent(r)
  <2>1. run[r].pc = "parent"
    BY <1>7 DEF Linking!EnsureParent
  <2>2. /\ tree[Linking!Parent(Linking!Link(r).destination)] \in {None, "directory"}
        /\ \A i \in DOMAIN LinksOf[p] :
              LinksOf[p][i].destination # Linking!Parent(Linking!Link(r).destination)
    <3>1. /\ tree[Linking!Parent(Linking!Link(r).destination)] \in {None, "directory"}
          /\ Linking!Link(r) = LinksOf[p][Len(run[r].made) + 1] /\ Len(run[r].made) + 1 \in DOMAIN LinksOf[p]
      <4>1. run[r].pc \in AtLink
        BY <2>1 DEF AtLink
      <4> QED
        BY <4>1, CalmLink, Zenon
    <3> QED
      BY <3>1 DEF WellPlanned, Linking!WellPlanned
  <2>3. Linking!EnsureDirectory(r, Linking!Parent(Linking!Link(r).destination), "link")
    BY <1>7 DEF Linking!EnsureParent
  <2> QED
    BY <2>1, <2>2, <2>3, CalmDirectory
<1>8. CASE Linking!LinkAt(r)
  <2>0. run[r].pc = "link" /\ ~Linking!Refused(r)
    <3>1. run[r].pc = "link"
      BY <1>8 DEF Linking!LinkAt
    <3>2. file[Linking!Link(r).source] = run[r].opened
      BY <1>1, <1>L, <3>1 DEF RunCalm, AtLink
    <3> QED
      BY <3>1, <3>2 DEF Linking!Refused
  <2>1. CASE tree[Linking!Link(r).destination] = None
    BY <1>8, <2>0, <2>1, CalmMade DEF Linking!LinkAt, Linking!Linked
  <2>2. CASE tree[Linking!Link(r).destination] # None
    BY <1>3, <1>8, <2>0, <2>2 DEF Linking!LinkAt
  <2> QED
    BY <2>1, <2>2
<1>9. CASE Linking!Existing(r)
  <2>1. run[r].pc = "existing" /\ UNCHANGED tree
    BY <1>9 DEF Linking!Existing
  <2>2. tree[Linking!Link(r).destination] = run[r].opened
    <3>1. /\ Linking!Link(r) = LinksOf[p][Len(run[r].made) + 1]
          /\ tree[Linking!Link(r).destination] \in {None, InitialFiles[Linking!Link(r).source]}
      <4>1. run[r].pc \in AtLink
        BY <2>1 DEF AtLink
      <4> QED
        BY <4>1, CalmLink, Zenon
    <3>2. /\ run[r].opened = InitialFiles[LinksOf[p][Len(run[r].made) + 1].source]
          /\ tree[LinksOf[p][Len(run[r].made) + 1].destination] # None
      BY <1>1, <2>1 DEF RunCalm
    <3> QED
      BY <3>1, <3>2
  <2> QED
    BY <1>9, <2>1, <2>2, CalmMade DEF Linking!Existing
<1>10. CASE Linking!PersistLinks(r)
  <2>1. Linking!Goto(r, "ready") /\ UNCHANGED tree
    BY <1>1, <1>10 DEF Linking!PersistLinks, RunCalm
  <2> QED
    BY <1>3, <2>1
<1> QED
  BY <1>2, <1>4, <1>5, <1>6, <1>7, <1>8, <1>9, <1>10 DEF Linking!Activity

\* Every step keeps the calm, or ends it by a change or another plan.
LEMMA CalmNext ==
    ASSUME LinkBounds, WellPlanned, LinkInv, CalmOK, [Linking!Next]_linkVars
    PROVE  CalmOK'
<1>1. CASE UNCHANGED linkVars
  BY <1>1 DEF linkVars, CalmOK, OnlyPlan, Linking!Runs
<1>2. CASE Linking!Next
  <2>1. linkChanges' = linkChanges \/ linkChanges' = linkChanges + 1
    BY <1>2, Zenon DEF Linking!Next, Linking!Activity, Linking!Start, Linking!OpenRoot, Linking!EnsureNamespace,
                Linking!OpenSource, Linking!EnsureParent, Linking!LinkAt, Linking!Refused, Linking!Existing,
                Linking!PersistLinks, Linking!Crash, Linking!Change
  <2>2. linkChanges \in Nat /\ linkChanges' \in Nat
    BY <2>1 DEF CalmOK
  <2> SUFFICES ASSUME linkChanges' = 0
               PROVE  /\ file' = InitialFiles
                      /\ \A p \in LinkPlans : OnlyPlan(p)' =>
                            PlanCalm(p, tree', run')
    BY <2>2, Zenon DEF CalmOK, Linking!Runs, PlanCalm, TreeCalm, RunCalm
  <2>3. linkChanges = 0 /\ file = InitialFiles
    BY <2>1, <2>2 DEF CalmOK
  <2>4. ~Linking!Change
    BY <2>3 DEF Linking!Change
  <2>5. file' = file
    BY <1>2, <2>4, Zenon DEF Linking!Next, Linking!Activity, Linking!Start, Linking!OpenRoot, Linking!EnsureNamespace,
                Linking!OpenSource, Linking!EnsureParent, Linking!LinkAt, Linking!Existing,
                Linking!PersistLinks, Linking!Crash
  <2>6. ASSUME NEW p \in LinkPlans, OnlyPlan(p)'
        PROVE  PlanCalm(p, tree', run')
    <3>1. \A r \in Linking!Runs : run'[r].plan \in {p, None}
      BY <2>6 DEF OnlyPlan, Linking!Runs
    <3>2. \A r \in Linking!Runs : run'[r].plan = run[r].plan \/ run[r].plan = None
      <4> SUFFICES ASSUME NEW r \in Linking!Runs
                   PROVE  run'[r].plan = run[r].plan \/ run[r].plan = None
        OBVIOUS
      <4>1. /\ run = [s \in Linking!Runs |-> run[s]]
            /\ \A s \in Linking!Runs : RunShape(run[s])
        BY DEF LinkInv, PlacesOK, RunLinksOK
      <4>2. CASE Linking!Crash
        BY <4>2, Zenon DEF Linking!Crash, Linking!NoRun
      <4>3. ASSUME NEW s \in Linking!Runs, NEW q \in LinkPlans, Linking!Start(s, q)
            PROVE  run'[r].plan = run[r].plan \/ run[r].plan = None
        BY <4>1, <4>3 DEF Linking!Start, RunShape
      <4>4. ASSUME NEW s \in Linking!Runs, Linking!Activity(s)
            PROVE  run'[r].plan = run[r].plan
        <5>1. DOMAIN run[s] = {"pc", "plan", "opened", "made", "error"}
          BY <4>1 DEF RunShape
        <5>2. ASSUME NEW w, w.plan = run[s].plan, run' = [run EXCEPT ![s] = w]
              PROVE  run'[r].plan = run[r].plan
          BY <4>1, <5>2
        <5>7. ASSUME NEW pc, Linking!Goto(s, pc)
              PROVE  run'[r].plan = run[r].plan
          <6>1. run' = [run EXCEPT ![s] = [run[s] EXCEPT !.pc = pc]]
            BY <5>7, RunStepFields, Zenon
          <6> QED
            BY <5>1, <5>2, <6>1
        <5>8. ASSUME Linking!Stop(s)
              PROVE  run'[r].plan = run[r].plan
          <6>1. run' = [run EXCEPT ![s] = [run[s] EXCEPT !.pc = "persist", !.error = TRUE]]
            BY <5>8, RunStepFields, Zenon
          <6> QED
            BY <5>1, <5>2, <6>1
        <5>9. ASSUME NEW inode, run' = [run EXCEPT ![s].pc = "parent", ![s].opened = inode]
              PROVE  run'[r].plan = run[r].plan
          <6>1. run' = [run EXCEPT ![s] = [run[s] EXCEPT !.pc = "parent", !.opened = inode]]
            BY <4>1, <5>9, Zenon
          <6> QED
            BY <5>1, <5>2, <6>1
        <5>10. ASSUME Linking!Made(s, run[s].opened)
               PROVE  run'[r].plan = run[r].plan
          <6>1. \E made, pc : run' = [run EXCEPT ![s] = [run[s] EXCEPT !.made = made, !.opened = None, !.pc = pc]]
            BY <4>1, <5>10, Zenon DEF Linking!Made
          <6>2. PICK made, pc : run' = [run EXCEPT ![s] = [run[s] EXCEPT !.made = made, !.opened = None, !.pc = pc]]
            BY <6>1, Zenon
          <6> QED
            BY <5>1, <5>2, <6>2
        <5>3. Linking!OpenRoot(s) \/ Linking!PersistLinks(s) => \E pc : Linking!Goto(s, pc)
          BY DEF Linking!OpenRoot, Linking!PersistLinks, Linking!Goto
        <5>4. Linking!EnsureNamespace(s) \/ Linking!EnsureParent(s) =>
                 Linking!Stop(s) \/ \E pc : Linking!Goto(s, pc)
          BY DEF Linking!EnsureNamespace, Linking!EnsureParent, Linking!EnsureDirectory
        <5>5. Linking!OpenSource(s) =>
                 Linking!Stop(s) \/ \E inode : run' = [run EXCEPT ![s].pc = "parent", ![s].opened = inode]
          BY DEF Linking!OpenSource
        <5>6. Linking!LinkAt(s) \/ Linking!Existing(s) =>
                 Linking!Stop(s) \/ Linking!Made(s, run[s].opened) \/ \E pc : Linking!Goto(s, pc)
          BY DEF Linking!LinkAt, Linking!Existing
        <5> QED
          BY <4>4, <5>3, <5>4, <5>5, <5>6, <5>7, <5>8, <5>9, <5>10 DEF Linking!Activity
      <4> QED
        BY <1>2, <2>4, <4>2, <4>3, <4>4 DEF Linking!Next
    <3>3. OnlyPlan(p)
      BY <3>1, <3>2 DEF OnlyPlan
    <3>4. PlanCalm(p, tree, run)
      BY <2>3, <3>3 DEF CalmOK
    <3>5. CASE Linking!Crash
      <4>1. UNCHANGED tree
        BY <3>5, Zenon DEF Linking!Crash
      <4>2. ASSUME NEW r \in Linking!Runs
            PROVE  RunCalm(p, run'[r], tree)
        <5> DEFINE w == [Linking!NoRun EXCEPT !.pc = "root", !.plan = run[r].plan]
        <5>1. run'[r] = run[r] \/ run'[r] = w
          BY <3>5, Zenon DEF Linking!Crash
        <5>2. w.pc = "root" /\ w.plan = run[r].plan /\ w.error = FALSE
          BY DEF Linking!NoRun
        <5> HIDE DEF w
        <5>3. RunCalm(p, w, tree)
          BY <3>4, <5>2 DEF PlanCalm, RunCalm
        <5> QED
          BY <3>4, <5>1, <5>3 DEF PlanCalm
      <4> QED
        BY <3>4, <4>1, <4>2 DEF PlanCalm
    <3>6. CASE \E r \in Linking!Runs : Linking!Activity(r) \/ \E q \in LinkPlans : Linking!Start(r, q)
      BY <2>2, <2>3, <3>1, <3>4, <3>6, CalmActivity
    <3> QED
      BY <1>2, <2>4, <3>5, <3>6 DEF Linking!Next
  <2> QED
    BY <2>3, <2>5, <2>6
<1> QED
  BY <1>1, <1>2

\* HardlinkMaterializer, for any number of runs and crashes: as long as nobody else changes
\* anything and the runs follow one plan, no run fails; a repeated run finds its own links.
THEOREM OwnLinksNeverConflict ==
    ASSUME LinkBounds, WellPlanned
    PROVE  Linking!Spec => []Linking!OwnLinksAreNoConflict
<1>1. Linking!Init => LinkInv /\ CalmOK
  BY LinkInit, CalmInit
<1>2. LinkInv /\ CalmOK /\ [Linking!Next]_Linking!vars => (LinkInv /\ CalmOK)'
  BY LinkNext, CalmNext DEF Linking!vars, linkVars
<1>3. LinkInv /\ CalmOK => Linking!OwnLinksAreNoConflict
  <2> SUFFICES ASSUME LinkInv, CalmOK, NEW r \in Linking!Runs, run[r].pc = "failed", ~(linkChanges > 0)
               PROVE  \E s, t \in Linking!Runs :
                          None \notin {run[s].plan, run[t].plan} /\ run[s].plan # run[t].plan
    BY DEF Linking!OwnLinksAreNoConflict
  <2>1. linkChanges = 0
    BY DEF CalmOK
  <2>2. run[r].plan \in LinkPlans /\ run[r].plan # None
    BY DEF LinkInv, RunLinksOK, RunShape, LinkBounds, Linking!Bounds
  <2>3. ~OnlyPlan(run[r].plan)
    BY <2>1, <2>2 DEF CalmOK, PlanCalm, RunCalm
  <2> QED
    BY <2>2, <2>3 DEF OnlyPlan
<1> QED
  BY <1>1, <1>2, <1>3, PTL DEF Linking!Spec

\* The two together, what persist_links records and what a repeated run meets.
THEOREM LinksStayExact ==
    ASSUME LinkBounds, WellPlanned
    PROVE  Linking!Spec => []LinksAreExact
<1>1. Linking!LinksArePlanned /\ Linking!OwnLinksAreNoConflict => LinksAreExact
  BY DEF LinksAreExact, Linking!LinksAreExact
<1> QED
  BY <1>1, LinksStayPlanned, OwnLinksNeverConflict, PTL
=============================================================================
