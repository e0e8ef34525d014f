------------------------ MODULE QbitInventoryProofs ------------------------
(***************************************************************************)
(* The records of an incremental sync, for any set of torrents, page size  *)
(* and number of changes and failures; and the scans of a data root.       *)
(***************************************************************************)
EXTENDS Inventories, Sequences, SequenceTheorems, FiniteSetTheorems, WellFoundedInduction, TLAPS

PassFields == {"kind", "full", "todo", "offset", "more", "detect", "view", "thenSync", "validated"}

\* The shape of what the argument is about.
ShapeOK ==
    /\ world = [t \in Torrents |-> world[t]]
    /\ \A t \in Torrents : DOMAIN world[t].value = Fields
    /\ rows = [t \in Torrents |-> rows[t]]
    /\ \A t \in Torrents : DOMAIN rows[t] = {"known", "available", "value", "seen"}
    /\ DOMAIN meta = {"cursor", "acked", "baseline", "requested"}
    /\ DOMAIN pass = PassFields

\* A record names a torrent, and only a sync brings incomplete ones.
TodoOK ==
    \A c \in pass.todo :
        /\ c.torrent \in Torrents
        /\ pass.kind \in {"sync", "reconcile"}
        /\ pass.kind = "reconcile" => ~c.gone /\ DOMAIN c.fields = Fields

\* The torrents that the cursor stands for have rows.
AckedOK == \A t \in Torrents : meta.acked[t].present => rows[t].known

\* The torrents that the cursor will stand for after the pass have rows, or a record.
ViewOK ==
    pass.kind = "sync" =>
        \A t \in Torrents : pass.view[t].present =>
            rows[t].known \/ \E c \in pass.todo : c.torrent = t /\ ~c.gone

IInv == ShapeOK /\ TodoOK /\ AckedOK /\ ViewOK /\ PartialRecordHasRow

-----------------------------------------------------------------------------

\* Initially nothing is acknowledged and no pass is under way.
LEMMA InitInv == Init => IInv
<1> SUFFICES ASSUME Init PROVE IInv
  OBVIOUS
<1>1. ShapeOK
  BY DEF Init, ShapeOK, NotThere, NoRow, NoPass, Fields, PassFields
<1>2. TodoOK /\ ViewOK /\ PartialRecordHasRow
  BY DEF Init, TodoOK, ViewOK, PartialRecordHasRow, NoPass
<1>3. AckedOK
  BY DEF Init, AckedOK, NotThere
<1> QED
  BY <1>1, <1>2, <1>3 DEF IInv

\* A pass without records, in which no view is waiting to be acknowledged.
LEMMA EmptyPass ==
    ASSUME IInv, UNCHANGED <<world, rows, meta>>,
           DOMAIN pass' = PassFields, pass'.todo = {}, pass'.kind # "sync"
    PROVE  IInv'
BY DEF IInv, ShapeOK, TodoOK, AckedOK, ViewOK, PartialRecordHasRow

\* The loop idle, and entering a pass.
LEMMA IdleShape ==
    /\ DOMAIN Idle = PassFields /\ Idle.todo = {} /\ Idle.kind = "idle"
    /\ DOMAIN NoPass = PassFields /\ NoPass.todo = {} /\ NoPass.kind = "idle"
    /\ \A kind : DOMAIN Enter(kind) = PassFields /\ Enter(kind).todo = {} /\ Enter(kind).kind = kind
BY DEF Idle, NoPass, Enter, PassFields

\* The ticks of the timers begin a pass without records.
LEMMA TickStep ==
    ASSUME IInv, SyncTick \/ FullTick
    PROVE  IInv'
<1>1. UNCHANGED <<world, rows, meta>>
  BY DEF SyncTick, FullTick
<1>2. /\ DOMAIN Enter("reconcile") = PassFields /\ Enter("reconcile").todo = {}
      /\ Enter("reconcile").kind = "reconcile"
      /\ DOMAIN Enter("ready") = PassFields /\ Enter("ready").todo = {} /\ Enter("ready").kind = "ready"
  BY IdleShape
<1>3. CASE SyncTick
  <2>1. \/ pass' = [Enter("reconcile") EXCEPT !.validated = TRUE, !.full = TRUE, !.more = TRUE,
                                              !.detect = meta.baseline, !.thenSync = TRUE]
        \/ pass' = [Enter("ready") EXCEPT !.validated = TRUE]
    BY <1>3 DEF SyncTick
  <2>2. DOMAIN pass' = PassFields /\ pass'.todo = {} /\ pass'.kind # "sync"
    BY <1>2, <2>1, Zenon DEF PassFields
  <2> QED
    BY <1>1, <2>2, EmptyPass
<1>4. CASE FullTick
  <2>1. pass' = [Enter("reconcile") EXCEPT !.full = TRUE, !.more = TRUE, !.detect = meta.baseline]
    BY <1>4 DEF FullTick
  <2>2. DOMAIN pass' = PassFields /\ pass'.todo = {} /\ pass'.kind # "sync"
    BY <1>2, <2>1 DEF PassFields
  <2> QED
    BY <1>1, <2>2, EmptyPass
<1> QED
  BY <1>3, <1>4

\* sync_once: a full answer has a whole record for every torrent there is; an incremental one
\* has a whole record for every torrent the cursor does not stand for.
LEMMA RequestStep ==
    ASSUME IInv, NEW full \in BOOLEAN, SyncRequest(full)
    PROVE  IInv'
<1> DEFINE todo == IF full THEN {Whole(t) : t \in Present} ELSE UNION {Difference(t) : t \in Torrents}
<1>1. UNCHANGED <<world, rows, meta>>
  BY DEF SyncRequest
<1>2. DOMAIN pass' = PassFields /\ pass'.todo = todo /\ pass'.kind = "sync" /\ pass'.view = world
  BY IdleShape DEF SyncRequest, PassFields
<1>3. \A t \in Torrents : LET c == Whole(t) IN c.torrent = t /\ ~c.gone /\ DOMAIN c.fields = Fields
  BY DEF IInv, ShapeOK, Whole, Change
<1>4. ASSUME NEW t \in Torrents, NEW c \in Difference(t)
      PROVE  c.torrent = t /\ (c.gone \/ DOMAIN c.fields = Fields \/ meta.acked[t].present)
  BY <1>3, <1>4 DEF Difference, Change
<1>5. \A c \in todo :
          c.torrent \in Torrents /\ (c.gone \/ DOMAIN c.fields = Fields \/ rows[c.torrent].known)
  BY <1>3, <1>4 DEF IInv, AckedOK, Present
<1>6. ASSUME NEW t \in Torrents, world[t].present
      PROVE  rows[t].known \/ \E c \in todo : c.torrent = t /\ ~c.gone
  <2>1. CASE full
    BY <1>3, <1>6, <2>1 DEF Present
  <2>2. CASE ~full /\ ~meta.acked[t].present
    <3>1. Whole(t) \in Difference(t)
      BY <1>6, <2>2 DEF Difference
    <3> QED
      BY <1>3, <2>2, <3>1
  <2>3. CASE meta.acked[t].present
    BY <2>3 DEF IInv, AckedOK
  <2> QED
    BY <2>1, <2>2, <2>3
<1> HIDE DEF todo
<1> QED
  BY <1>1, <1>2, <1>5, <1>6 DEF IInv, ShapeOK, TodoOK, AckedOK, ViewOK, PartialRecordHasRow

\* A page of the list has whole records.
LEMMA PageStep ==
    ASSUME IInv, ReconcilePage
    PROVE  IInv'
<1>1. UNCHANGED <<world, rows, meta>>
  BY DEF ReconcilePage
<1>2. PICK page, more, offset :
          /\ page \in SUBSET Present
          /\ pass' = [pass EXCEPT !.todo = {Whole(t) : t \in page}, !.more = more, !.offset = offset]
  BY Zenon DEF ReconcilePage
<1>3. /\ DOMAIN pass' = PassFields /\ pass'.todo = {Whole(t) : t \in page}
      /\ pass'.kind = "reconcile"
  BY <1>2, Zenon DEF IInv, ShapeOK, PassFields, ReconcilePage
<1>4. \A c \in pass'.todo : c.torrent \in Torrents /\ ~c.gone /\ DOMAIN c.fields = Fields
  BY <1>2, <1>3 DEF IInv, ShapeOK, Whole, Change, Present
<1> QED
  BY <1>1, <1>3, <1>4 DEF IInv, ShapeOK, TodoOK, AckedOK, ViewOK, PartialRecordHasRow

\* project_torrent: a record that is not of a removal leaves a row, and no row is lost.
LEMMA ProjectStep ==
    ASSUME IInv, NEW c \in pass.todo, Project(c)
    PROVE  IInv'
<1>1. c.torrent \in Torrents
  BY DEF IInv, TodoOK
<1>2. /\ UNCHANGED <<world, meta>>
      /\ DOMAIN pass' = PassFields /\ pass'.todo = pass.todo \ {c}
      /\ pass'.kind = pass.kind /\ pass'.view = pass.view
  BY DEF IInv, ShapeOK, PassFields, Project
<1>3. /\ rows' = [t \in Torrents |-> rows'[t]]
      /\ \A t \in Torrents : DOMAIN rows'[t] = {"known", "available", "value", "seen"}
  BY <1>1, Zenon DEF IInv, ShapeOK, Project
<1>4. \A t \in Torrents : rows[t].known => rows'[t].known
  BY <1>1 DEF IInv, ShapeOK, Project
<1>5. ~c.gone => rows'[c.torrent].known
  BY <1>1 DEF IInv, ShapeOK, Project
<1>6. ShapeOK' /\ TodoOK' /\ AckedOK'
  BY <1>2, <1>3, <1>4 DEF IInv, ShapeOK, TodoOK, AckedOK
<1>7. ViewOK'
  BY <1>1, <1>2, <1>4, <1>5 DEF IInv, ViewOK
<1>8. PartialRecordHasRow'
  BY <1>2, <1>4 DEF IInv, TodoOK, PartialRecordHasRow
<1> QED
  BY <1>6, <1>7, <1>8 DEF IInv

\* The sweep takes no row away; a sync moves the cursor to what it has projected.
LEMMA FinishStep ==
    ASSUME IInv, FinishSync \/ FinishReconcile
    PROVE  IInv'
<1>1. /\ rows' = [t \in Torrents |-> rows'[t]]
      /\ \A t \in Torrents : /\ DOMAIN rows'[t] = {"known", "available", "value", "seen"}
                             /\ rows'[t].known = rows[t].known
  <2>1. \A t \in Torrents : /\ DOMAIN Swept(rows[t]) = {"known", "available", "value", "seen"}
                            /\ Swept(rows[t]).known = rows[t].known
    BY DEF IInv, ShapeOK, Swept
  <2>2. rows' = [t \in Torrents |-> Swept(rows[t])] \/ rows' = rows
    BY DEF FinishSync, FinishReconcile
  <2> QED
    BY <2>1, <2>2 DEF IInv, ShapeOK
<1>2. DOMAIN pass' = PassFields /\ pass'.todo = {} /\ pass'.kind # "sync" /\ UNCHANGED world
  BY IdleShape DEF FinishSync, FinishReconcile
<1>3. DOMAIN meta' = {"cursor", "acked", "baseline", "requested"}
  BY ZenonT(30) DEF IInv, ShapeOK, FinishSync, FinishReconcile
<1>4. AckedOK'
  <2>1. CASE FinishSync
    <3>1. meta'.acked = pass.view /\ pass.todo = {} /\ pass.kind = "sync"
      BY <2>1 DEF IInv, ShapeOK, FinishSync
    <3> QED
      BY <1>1, <3>1 DEF IInv, ViewOK, AckedOK
  <2>2. CASE FinishReconcile
    <3>1. meta'.acked = meta.acked
      BY <2>2 DEF IInv, ShapeOK, FinishReconcile
    <3> QED
      BY <1>1, <3>1 DEF IInv, AckedOK
  <2> QED
    BY <2>1, <2>2
<1> QED
  BY <1>1, <1>2, <1>3, <1>4 DEF IInv, ShapeOK, TodoOK, ViewOK, PartialRecordHasRow

\* A failed pass is forgotten: what it has projected stays, the cursor does not move.
LEMMA OutsideStep ==
    ASSUME IInv, Fail \/ Request \/ (\E t \in Torrents : WorldChange(t)) \/ UNCHANGED vars
    PROVE  IInv'
<1>1. CASE Fail
  <2>1. UNCHANGED <<world, rows, meta>> /\ pass' \in {Idle, NoPass}
    BY <1>1 DEF Fail
  <2> QED
    BY <2>1, IdleShape, EmptyPass
<1>2. CASE Request
  <2>1. /\ UNCHANGED <<world, rows, pass>>
        /\ DOMAIN meta' = {"cursor", "acked", "baseline", "requested"} /\ meta'.acked = meta.acked
    BY <1>2 DEF IInv, ShapeOK, Request
  <2> QED
    BY <2>1 DEF IInv, ShapeOK, TodoOK, AckedOK, ViewOK, PartialRecordHasRow
<1>3. ASSUME NEW t \in Torrents, WorldChange(t) PROVE IInv'
  <2>1. UNCHANGED <<rows, meta, pass>>
    BY <1>3, Zenon DEF WorldChange
  <2>2. PICK new : DOMAIN new.value = Fields /\ world' = [world EXCEPT ![t] = new]
    BY <1>3, Zenon DEF WorldChange, NotThere, Fields
  <2>3. /\ world' = [u \in Torrents |-> world'[u]]
        /\ \A u \in Torrents : DOMAIN world'[u].value = Fields
    BY <2>2 DEF IInv, ShapeOK
  <2> QED
    BY <2>1, <2>3 DEF IInv, ShapeOK, TodoOK, AckedOK, ViewOK, PartialRecordHasRow
<1>4. CASE UNCHANGED vars
  BY <1>4 DEF vars, IInv, ShapeOK, TodoOK, AckedOK, ViewOK, PartialRecordHasRow
<1> QED
  BY <1>1, <1>2, <1>3, <1>4

\* Every step keeps the invariant.
LEMMA NextInv == IInv /\ [Next]_vars => IInv'
BY TickStep, RequestStep, PageStep, ProjectStep, FinishStep, OutsideStep DEF Next, Loop

\* project_torrent never meets an incomplete record of a torrent without a row, whatever
\* passes have failed, and wherever: the cursor moves only to what has been projected.
THEOREM PartialRecordsHaveRows == Spec => []PartialRecordHasRow
<1>1. IInv => PartialRecordHasRow
  BY DEF IInv
<1> QED
  BY <1>1, InitInv, NextInv, PTL DEF Spec


-----------------------------------------------------------------------------
(* The scans of a data root (module DataScan)                              *)

Paths == Scanning!Paths
Ancestry == Scanning!Ancestry

\* Names are numbers, and what holds something is a directory.
ScanBounds == Scanning!Bounds(MaxName)

\* The directories of a scan that has just been accepted.
FirstDirs == [d \in {<<>>} |-> [state |-> "queued", cursor |-> None]]

\* The first n names of a path.
Upto(p, n) == SubSeq(p, 1, n)

\* The shape of what is updated by field.
ScanShape ==
    /\ root \in {"present", "missing", "unsafe"} /\ disk \subseteq Paths
    /\ workflow \in [Scans -> {"none", "activity", "ended"}]
    /\ source = [p \in Paths |-> source[p]]
    /\ \A p \in Paths : /\ DOMAIN source[p] = {"available", "generation"}
                        /\ source[p].available \in BOOLEAN
    /\ exec = [s \in Scans |-> exec[s]] /\ scan = [s \in Scans |-> scan[s]]
    /\ history = [s \in Scans |-> history[s]]
    /\ \A s \in Scans : /\ DOMAIN exec[s] = {"pc", "directory", "page", "reason"}
                        /\ DOMAIN scan[s] = {"state", "reason", "terminal", "dirs", "observed"}
                        /\ DOMAIN history[s] = {"always", "ever", "alone"}
                        /\ history[s].alone \in BOOLEAN

\* What a scan knows of the disk was there, and what it has recorded is its own; before a
\* scan is accepted nothing is of its generation.
KnownOK(s) ==
    /\ workflow[s] # "activity" => exec[s].pc = "idle"
    /\ workflow[s] = "none" => \A p \in Paths : source[p].generation # s
    /\ workflow[s] # "none" =>
          /\ history[s].always \subseteq disk /\ disk \subseteq history[s].ever
          /\ <<>> \in DOMAIN scan[s].dirs
          /\ \A p \in Paths : source[p].generation = s => p \in history[s].ever
    /\ exec[s].pc = "record" =>
          /\ exec[s].page.releases \subseteq history[s].ever
          /\ \A c \in exec[s].page.children : c \in Paths /\ Scanning!Parent[c] = exec[s].directory

\* A scan sweeps when nothing remains; one that was accepted while the root was missing has
\* not begun.
ProgressOK(s) ==
    /\ exec[s].pc = "sweep" => Scanning!Remaining(s) = {}
    /\ workflow[s] = "activity" /\ root = "missing" /\ history[s].always # {} =>
          scan[s].dirs = FirstDirs /\ exec[s].pc \in {"idle", "finish", "done"}

\* A page that is about to be recorded holds what stood on the way to p below its directory, or
\* leaves it to a later page.
PageOK(s) ==
    exec[s].pc = "record" =>
        \A p \in Paths : Scanning!StoodAllTheTime(s, p) =>
            \A n \in 0 .. Len(p) - 1 :
                /\ exec[s].directory = Upto(p, n)
                /\ Scanning!PastCursor(Upto(p, n + 1), scan[s].dirs[Upto(p, n)].cursor)
                => \/ n + 1 = Len(p) /\ p \in exec[s].page.releases
                   \/ n + 1 < Len(p) /\ Upto(p, n + 1) \in exec[s].page.children
                   \/ exec[s].page.hasMore /\ Scanning!PastCursor(Upto(p, n + 1), exec[s].page.last)

\* What stood on the way to p below a directory that the scan has queued is still to be read
\* there, or is queued itself, or is p, recorded and available.
Covered(s, p, n) ==
    Upto(p, n) \in DOMAIN scan[s].dirs =>
        \/ /\ scan[s].dirs[Upto(p, n)].state \in {"queued", "running"}
           /\ Scanning!PastCursor(Upto(p, n + 1), scan[s].dirs[Upto(p, n)].cursor)
        \/ n + 1 = Len(p) /\ source[p].available /\ source[p].generation = s
        \/ n + 1 < Len(p) /\ Upto(p, n + 1) \in DOMAIN scan[s].dirs

CoveredOK(s) ==
    workflow[s] = "activity" /\ history[s].alone =>
        /\ \A t \in Scans \ {s} : workflow[t] # "activity"
        /\ \A p \in Paths : Scanning!StoodAllTheTime(s, p) =>
              \A n \in 0 .. Len(p) - 1 : Covered(s, p, n)

ScanInv ==
    /\ ScanShape
    /\ \A s \in Scans : KnownOK(s) /\ ProgressOK(s) /\ PageOK(s) /\ CoveredOK(s)

\* A set of numbers has a least one.
LEMMA Least ==
    ASSUME NEW S \in SUBSET Nat, S # {}
    PROVE  \E m \in S : \A u \in S : m <= u
<1> DEFINE R == OpToRel(<, Nat)
<1>1. IsWellFoundedOn(R, Nat)
  BY NatLessThanWellFounded, Zenon
<1>2. \A x, y \in Nat : <<x, y>> \in R <=> x < y
  BY DEF OpToRel
<1> HIDE DEF R
<1>3. PICK x \in S : \A y \in S : ~(<<y, x>> \in R)
  BY <1>1, WFMin, Zenon
<1>4. \A y \in S : ~(y < x)
  <2> SUFFICES ASSUME NEW y \in S, y < x
               PROVE  FALSE
    OBVIOUS
  <2>1. x \in Nat /\ y \in Nat
    OBVIOUS
  <2>2. <<y, x>> \in R
    BY <1>2, <2>1
  <2> QED
    BY <1>3, <2>2
<1>5. \A y \in S : y \in Nat /\ x \in Nat
  OBVIOUS
<1> QED
  BY <1>4, <1>5

\* A bounded set of numbers has a greatest one.
LEMMA Greatest ==
    ASSUME NEW n \in Nat, NEW S \in SUBSET (0 .. n), S # {}
    PROVE  \E m \in S : \A u \in S : u <= m
<1> DEFINE T == {n - x : x \in S}
<1>1. T \in SUBSET Nat /\ T # {}
  <2>1. \A x \in S : n - x \in Nat
    OBVIOUS
  <2> QED
    BY <2>1, Zenon
<1> HIDE DEF T
<1>2. PICK t \in T : \A u \in T : t <= u
  BY <1>1, Least
<1> USE DEF T
<1>3. PICK m \in S : t = n - m
  OBVIOUS
<1>4. \A u \in S : n - m <= n - u
  BY <1>2, <1>3, Zenon
<1>5. \A u \in S : u <= m
  BY <1>4
<1> QED
  BY <1>5, Zenon

\* The number of elements, as module DataScan counts them.
LEMMA ScanCardinality == \A S : Scanning!Cardinality(S) = Cardinality(S)
  BY DEF Scanning!Cardinality, Cardinality

\* Paths, their first names and their names.
LEMMA PathParts ==
    ASSUME ScanBounds, NEW p \in Paths
    PROVE  /\ p \in Seq(0 .. MaxName) /\ Len(p) \in Nat \ {0}
           /\ Upto(p, 0) = <<>> /\ Upto(p, Len(p)) = p
           /\ Ancestry[p] = {Upto(p, n) : n \in 1 .. Len(p)}
           /\ \A n \in 1 .. Len(p) : Len(Upto(p, n)) = n /\ Upto(p, n) \in Paths
<1>1. p \in Seq(0 .. MaxName) /\ Len(p) \in Nat \ {0}
  BY DEF ScanBounds, Scanning!Bounds, Paths
<1>2. Ancestry[p] = {Upto(p, n) : n \in 1 .. Len(p)}
  BY DEF Ancestry, Scanning!Ancestry, Paths, Upto
<1>3. Upto(p, 0) = <<>> /\ Upto(p, Len(p)) = p
  BY <1>1, SubSeqFull, SubSeqEmpty DEF Upto
<1>4. \A n \in 1 .. Len(p) : Len(Upto(p, n)) = n
  BY <1>1 DEF Upto
<1>5. ASSUME NEW n \in 1 .. Len(p)
      PROVE  Upto(p, n) \in Paths
  BY <1>2 DEF ScanBounds, Scanning!Bounds, Paths, Ancestry
<1> QED
  BY <1>1, <1>2, <1>3, <1>4, <1>5

\* The first names of the first names.
LEMMA UptoUpto ==
    ASSUME ScanBounds, NEW p \in Paths, NEW n \in 1 .. Len(p), NEW k \in 0 .. n
    PROVE  Upto(Upto(p, n), k) = Upto(p, k)
<1>1. p \in Seq(0 .. MaxName) /\ Len(p) \in Nat
  BY PathParts
<1> QED
  BY <1>1 DEF Upto

\* The directory that holds what is next on the way to a path.
LEMMA UptoParent ==
    ASSUME ScanBounds, NEW p \in Paths, NEW n \in 0 .. Len(p) - 1
    PROVE  /\ Upto(p, n + 1) \in Paths /\ Len(Upto(p, n + 1)) = n + 1
           /\ Scanning!Parent[Upto(p, n + 1)] = Upto(p, n)
           /\ Ancestry[Upto(p, n + 1)] \subseteq Ancestry[p]
           /\ Upto(p, n + 1) \in Ancestry[p]
<1>1. n + 1 \in 1 .. Len(p) /\ n \in 0 .. n + 1 /\ n + 1 - 1 = n /\ Len(p) \in Nat
  BY PathParts
<1>2. Upto(p, n + 1) \in Paths /\ Len(Upto(p, n + 1)) = n + 1
  BY <1>1, PathParts, Zenon
<1>3. Scanning!Parent[Upto(p, n + 1)] = Upto(Upto(p, n + 1), Len(Upto(p, n + 1)) - 1)
  BY <1>2 DEF Scanning!Parent, Paths, Upto
<1>4. Upto(Upto(p, n + 1), n) = Upto(p, n)
  BY <1>1, UptoUpto
<1>5. ASSUME NEW a \in Ancestry[Upto(p, n + 1)]
      PROVE  a \in Ancestry[p]
  <2>1. PICK k \in 1 .. n + 1 : a = Upto(Upto(p, n + 1), k)
    BY <1>2, PathParts
  <2>2. k \in 0 .. n + 1 /\ k \in 1 .. Len(p)
    BY <1>1
  <2>3. a = Upto(p, k)
    BY <1>1, <2>1, <2>2, UptoUpto
  <2> QED
    BY <2>2, <2>3, PathParts
<1>6. Upto(p, n + 1) \in Ancestry[p]
  BY <1>1, PathParts
<1> QED
  BY <1>1, <1>2, <1>3, <1>4, <1>5, <1>6

\* What is above an entry is its directory and what is above that.
LEMMA EntryAncestry ==
    ASSUME ScanBounds, NEW r \in Paths
    PROVE  /\ Scanning!Parent[r] # r
           /\ Scanning!Parent[r] \in Paths => Ancestry[r] \subseteq Ancestry[Scanning!Parent[r]] \cup {r}
<1> DEFINE m == Len(r) - 1
<1>1. Len(r) \in Nat \ {0} /\ m \in Nat /\ m \in 0 .. Len(r) - 1 /\ Upto(r, Len(r)) = r
  BY PathParts
<1>2. Scanning!Parent[r] = Upto(r, m)
  BY DEF Scanning!Parent, Paths, Upto
<1>3. Len(Upto(r, m)) = m
  <2>1. CASE m = 0
    BY <2>1, PathParts
  <2>2. CASE m # 0
    BY <1>1, <2>2, PathParts
  <2> QED
    BY <2>1, <2>2
<1>4. Upto(r, m) # r
  BY <1>1, <1>3
<1>5. ASSUME Upto(r, m) \in Paths, NEW a \in Ancestry[r]
      PROVE  a \in Ancestry[Upto(r, m)] \/ a = r
  <2>1. PICK k \in 1 .. Len(r) : a = Upto(r, k)
    BY PathParts
  <2>2. CASE k = Len(r)
    BY <1>1, <2>1, <2>2
  <2>3. CASE k # Len(r)
    <3>1. m \in 1 .. Len(r) /\ k \in 0 .. m /\ k \in 1 .. m
      BY <1>1, <2>3
    <3>2. a = Upto(Upto(r, m), k)
      BY <2>1, <3>1, UptoUpto
    <3>3. Ancestry[Upto(r, m)] = {Upto(Upto(r, m), j) : j \in 1 .. m}
      BY <1>3, <1>5, PathParts
    <3> QED
      BY <3>1, <3>2, <3>3
  <2> QED
    BY <2>2, <2>3
<1> QED
  BY <1>2, <1>4, <1>5

\* scan_directory's page: what it leaves out lies behind its last name.
LEMMA LeftToLater ==
    ASSUME ScanBounds, disk \subseteq Paths, NEW d, NEW cursor,
           NEW q \in Scanning!Below(d), Scanning!PastCursor(q, cursor),
           q \notin Scanning!Selected(d, cursor)
    PROVE  /\ Scanning!HasMore(d, cursor)
           /\ Scanning!Selected(d, cursor) # {} =>
                 Scanning!Name[q] > Scanning!LastName(Scanning!Selected(d, cursor))
<1> DEFINE after == {p \in Scanning!Below(d) : Scanning!PastCursor(p, cursor)}
           upto(p) == {r \in after : Scanning!Name[r] <= Scanning!Name[p]}
           listed == {p \in after : Cardinality(upto(p)) <= ScanPageSize}
           names == {Scanning!Name[p] : p \in listed}
<1>1. Scanning!Selected(d, cursor) = listed
  BY ScanCardinality DEF Scanning!Selected
<1>2. q \in after /\ q \notin listed
  BY <1>1
<1>3. Scanning!HasMore(d, cursor)
  BY <1>2 DEF Scanning!HasMore
<1>4. IsFiniteSet(Paths) /\ ScanPageSize \in Nat /\ MaxName \in Nat
  BY DEF ScanBounds, Scanning!Bounds, Scanning!IsFiniteSet, IsFiniteSet, Paths
<1>5. after \subseteq Paths
  BY DEF Scanning!Below
<1>6. \A S \in SUBSET Paths : IsFiniteSet(S) /\ Cardinality(S) \in Nat
  BY <1>4, FS_Subset, FS_CardinalityType, Zenon
<1>7. \A p \in Paths : Scanning!Name[p] \in 0 .. MaxName
  <2> SUFFICES ASSUME NEW p \in Paths
               PROVE  p[Len(p)] \in 0 .. MaxName
    BY DEF Scanning!Name, Paths
  <2>1. p \in Seq(0 .. MaxName) /\ Len(p) \in 1 .. Len(p)
    BY PathParts
  <2> QED
    BY <2>1, ElementOfSeq, Zenon
<1>8. ASSUME NEW p \in listed
      PROVE  Scanning!Name[p] < Scanning!Name[q]
  <2>1. p \in after /\ p \in Paths /\ q \in Paths
    BY <1>2, <1>5
  <2>2. Scanning!Name[p] \in Nat /\ Scanning!Name[q] \in Nat
    BY <1>4, <1>7, <2>1
  <2> SUFFICES ASSUME Scanning!Name[q] <= Scanning!Name[p]
               PROVE  FALSE
    BY <2>2
  <2>3. upto(q) \subseteq upto(p)
    <3> SUFFICES ASSUME NEW r \in after, Scanning!Name[r] <= Scanning!Name[q]
                 PROVE  Scanning!Name[r] <= Scanning!Name[p]
      OBVIOUS
    <3>1. Scanning!Name[r] \in Nat
      BY <1>4, <1>5, <1>7
    <3> QED
      BY <2>2, <3>1
  <2>4. upto(p) \in SUBSET Paths /\ upto(q) \in SUBSET Paths
    BY <1>5
  <2>5. Cardinality(upto(q)) <= Cardinality(upto(p))
    BY <1>6, <2>3, <2>4, FS_Subset, Zenon
  <2>6. Cardinality(upto(p)) <= ScanPageSize
    BY <1>8
  <2>7. Cardinality(upto(q)) <= ScanPageSize
    BY <1>4, <1>6, <2>4, <2>5, <2>6
  <2> QED
    BY <1>2, <2>7
<1>9. ASSUME listed # {}
      PROVE  Scanning!Name[q] > Scanning!LastName(listed)
  <2>1. names \in SUBSET (0 .. MaxName) /\ names # {}
    BY <1>5, <1>7, <1>9
  <2>2. PICK m \in names : \A u \in names : u <= m
    BY <1>4, <2>1, Greatest
  <2>3. Scanning!LastName(listed) \in names
    BY <1>9, <2>2 DEF Scanning!LastName
  <2>4. PICK p \in listed : Scanning!LastName(listed) = Scanning!Name[p]
    BY <2>3
  <2>5. Scanning!Name[p] \in Nat /\ Scanning!Name[q] \in Nat
    BY <1>2, <1>4, <1>5, <1>7
  <2> QED
    BY <1>8, <2>4, <2>5
<1> QED
  BY <1>1, <1>3, <1>9

\* What stood all the time until now stood all the time until a moment ago.
LEMMA StoodShrinks ==
    ASSUME NEW s \in Scans, NEW p, Scanning!StoodAllTheTime(s, p)',
           history'[s].always \subseteq history[s].always, history[s].ever \subseteq history'[s].ever
    PROVE  Scanning!StoodAllTheTime(s, p)
<1>1. \A d : Scanning!MayHold(history[s].ever, d) => Scanning!MayHold(history'[s].ever, d)
  BY DEF Scanning!MayHold
<1>2. \A d : Scanning!MayHold(history'[s].always, d) => Scanning!MayHold(history[s].always, d)
  BY DEF Scanning!MayHold
<1> QED
  BY <1>1, <1>2 DEF Scanning!StoodAllTheTime

\* What stands is seen, as a release or as a directory to go into.
LEMMA StoodIsSeen ==
    ASSUME ScanBounds, NEW s \in Scans, disk \subseteq Paths,
           history[s].always \subseteq disk, disk \subseteq history[s].ever,
           NEW p \in Paths, Scanning!StoodAllTheTime(s, p), NEW n \in 0 .. Len(p) - 1
    PROVE  /\ Upto(p, n + 1) \in Scanning!Below(Upto(p, n))
           /\ n + 1 = Len(p) => Scanning!IsRelease(Upto(p, n + 1))
           /\ n + 1 < Len(p) => /\ Scanning!IsDirectory(Upto(p, n + 1))
                                /\ ~Scanning!LooksLikeRelease(Upto(p, n + 1))
                                /\ Len(Upto(p, n)) < MaxDepth
<1> DEFINE q == Upto(p, n + 1)
<1>1. /\ q \in Paths /\ Len(q) = n + 1 /\ Scanning!Parent[q] = Upto(p, n)
      /\ Ancestry[q] \subseteq Ancestry[p] /\ q \in Ancestry[p]
  BY UptoParent
<1>2. /\ Ancestry[p] \subseteq history[s].always /\ Len(p) - 1 <= MaxDepth
      /\ \A directory \in Ancestry[p] \ {p} : ~Scanning!MayHold(history[s].ever, directory)
  BY DEF Scanning!StoodAllTheTime, Ancestry
<1>3. q \in disk /\ Scanning!Visible(q)
  BY <1>1, <1>2 DEF Scanning!Visible, Ancestry
<1>4. q \in Scanning!Below(Upto(p, n))
  BY <1>1, <1>3 DEF Scanning!Below
<1>5. Len(p) \in Nat \ {0} /\ Upto(p, Len(p)) = p /\ MaxDepth \in Nat
  BY PathParts DEF ScanBounds, Scanning!Bounds
<1>6. ASSUME n + 1 = Len(p)
      PROVE  Scanning!IsRelease(q)
  <2>1. q = p
    BY <1>5, <1>6
  <2>2. CASE KindOf[p] = "video"
    BY <2>1, <2>2 DEF Scanning!IsRelease
  <2>3. CASE KindOf[p] # "video"
    <3>1. /\ Scanning!IsDirectory(p) /\ Scanning!MayHold(history[s].always, p)
          /\ \E r \in history[s].always : /\ p \in Ancestry[r] /\ Ancestry[r] \subseteq history[s].always
                                          /\ KindOf[r] = "video"
      BY <2>3 DEF Scanning!StoodAllTheTime, Ancestry
    <3>2. PICK r \in history[s].always : Scanning!Parent[r] = p /\ KindOf[r] \in {"video", "disc"}
      BY <3>1 DEF Scanning!MayHold
    <3>3. r \in disk /\ r \in Paths
      BY <3>2
    <3>4. Ancestry[r] \subseteq Ancestry[p] \cup {r}
      BY <3>2, <3>3, EntryAncestry
    <3>5. r \in Scanning!Below(p)
      BY <1>2, <3>2, <3>3, <3>4 DEF Scanning!Below, Scanning!Visible, Ancestry
    <3>6. Scanning!LooksLikeRelease(p)
      BY <3>1, <3>2, <3>5 DEF Scanning!LooksLikeRelease
    <3>7. \E v \in Scanning!FilesIn(p) : KindOf[v] = "video"
      BY <3>1 DEF Scanning!FilesIn, Scanning!Visible, Ancestry
    <3> QED
      BY <2>1, <3>6, <3>7 DEF Scanning!IsRelease
  <2> QED
    BY <2>2, <2>3
<1>7. ASSUME n + 1 < Len(p)
      PROVE  /\ Scanning!IsDirectory(q) /\ ~Scanning!LooksLikeRelease(q)
             /\ Len(Upto(p, n)) < MaxDepth
  <2>1. q # p
    BY <1>1, <1>5, <1>7
  <2>2. Scanning!IsDirectory(q)
    BY <1>1, <2>1 DEF ScanBounds, Scanning!Bounds, Scanning!IsDirectory, Paths, Ancestry
  <2>3. ~Scanning!MayHold(history[s].ever, q)
    BY <1>1, <1>2, <2>1
  <2>4. ~Scanning!LooksLikeRelease(q)
    BY <2>3 DEF Scanning!LooksLikeRelease, Scanning!MayHold, Scanning!Below
  <2>5. Len(Upto(p, n)) = n
    <3>1. n = 0 \/ n \in 1 .. Len(p)
      BY <1>5
    <3> QED
      BY <3>1, PathParts
  <2>6. n < MaxDepth
    BY <1>2, <1>5, <1>7
  <2> QED
    BY <2>2, <2>4, <2>5, <2>6
<1> QED
  BY <1>4, <1>6, <1>7

\* A page of a directory on the way to p, read while p stood.
LEMMA PageHolds ==
    ASSUME ScanBounds, NEW s \in Scans, disk \subseteq Paths,
           history[s].always \subseteq disk, disk \subseteq history[s].ever,
           NEW p \in Paths, Scanning!StoodAllTheTime(s, p), NEW n \in 0 .. Len(p) - 1,
           NEW cursor, Scanning!PastCursor(Upto(p, n + 1), cursor)
    PROVE  LET page == Scanning!ReadPage(Upto(p, n), cursor)
           IN  \/ n + 1 = Len(p) /\ p \in page.releases
               \/ n + 1 < Len(p) /\ Upto(p, n + 1) \in page.children
               \/ page.hasMore /\ Scanning!PastCursor(Upto(p, n + 1), page.last)
<1> DEFINE q == Upto(p, n + 1)
           d == Upto(p, n)
           page == Scanning!ReadPage(d, cursor)
           selected == Scanning!Selected(d, cursor)
<1>1. /\ q \in Scanning!Below(d)
      /\ n + 1 = Len(p) => Scanning!IsRelease(q)
      /\ n + 1 < Len(p) => /\ Scanning!IsDirectory(q) /\ ~Scanning!LooksLikeRelease(q)
                           /\ Len(d) < MaxDepth
  BY StoodIsSeen
<1>2. Len(p) \in Nat \ {0} /\ Upto(p, Len(p)) = p
  BY PathParts
<1>3. /\ page.releases = {r \in selected : Scanning!IsRelease(r)}
      /\ page.children = {r \in selected : /\ Scanning!IsDirectory(r) /\ ~Scanning!LooksLikeRelease(r)
                                           /\ Len(d) < MaxDepth}
      /\ page.last = Scanning!LastName(selected) /\ page.hasMore = Scanning!HasMore(d, cursor)
  BY DEF Scanning!ReadPage
<1>4. n + 1 = Len(p) \/ n + 1 < Len(p)
  BY <1>2
<1> HIDE DEF q, d, page, selected
<1>5. CASE q \in selected /\ n + 1 = Len(p)
  BY <1>1, <1>2, <1>3, <1>5 DEF q, d, page
<1>6. CASE q \in selected /\ n + 1 < Len(p)
  BY <1>1, <1>3, <1>6 DEF q, d, page
<1>7. CASE q \notin selected
  <2>1. /\ Scanning!HasMore(d, cursor)
        /\ selected # {} => Scanning!Name[q] > Scanning!LastName(selected)
    BY <1>1, <1>7, LeftToLater DEF q, selected
  <2>2. selected = {} => Scanning!LastName(selected) = None
    BY DEF Scanning!LastName
  <2>3. Scanning!PastCursor(q, Scanning!LastName(selected))
    BY <2>1, <2>2 DEF Scanning!PastCursor
  <2> QED
    BY <1>3, <2>1, <2>3 DEF q, d, page
<1> QED
  BY <1>4, <1>5, <1>6, <1>7 DEF q, d, page

\* Nothing is accepted at first.
LEMMA ScanInit ==
    ASSUME ScanBounds, Scanning!Init
    PROVE  ScanInv
<1>1. /\ disk \subseteq Paths /\ None \notin Scans
      /\ \A s \in Scans : /\ exec[s] = Scanning!NoPage /\ workflow[s] = "none"
                          /\ scan[s] = [state |-> "none", reason |-> None, terminal |-> FALSE,
                                        dirs |-> <<>>, observed |-> 0]
                          /\ history[s] = [always |-> {}, ever |-> {}, alone |-> TRUE]
      /\ \A p \in Paths : /\ source[p].available \in BOOLEAN /\ source[p].generation = None
                          /\ DOMAIN source[p] = {"available", "generation"}
  BY DEF Scanning!Init, ScanBounds, Scanning!Bounds, Paths
<1>2. ScanShape
  BY <1>1 DEF Scanning!Init, ScanShape, Scanning!NoPage, Paths
<1>3. ASSUME NEW s \in Scans
      PROVE  KnownOK(s) /\ ProgressOK(s) /\ PageOK(s) /\ CoveredOK(s)
  <2>1. exec[s].pc = "idle" /\ workflow[s] = "none" /\ \A p \in Paths : source[p].generation # s
    BY <1>1 DEF Scanning!NoPage
  <2>2. KnownOK(s)
    BY <2>1 DEF KnownOK
  <2>3. ProgressOK(s) /\ CoveredOK(s)
    BY <2>1 DEF ProgressOK, CoveredOK
  <2>4. PageOK(s)
    BY <2>1, Zenon DEF PageOK
  <2> QED
    BY <2>2, <2>3, <2>4
<1> QED
  BY <1>2, <1>3 DEF ScanInv

\* Only a scan that has been accepted and has not ended moves.
LEMMA MovesWhileActive ==
    ASSUME ScanInv, NEW s \in Scans, Scanning!Step(s)
    PROVE  workflow[s] = "activity"
<1>1. exec[s].pc # "idle" => workflow[s] = "activity"
  BY DEF ScanInv, KnownOK
<1> QED
  BY <1>1 DEF Scanning!Step, Scanning!StartPage, Scanning!ScanDirectory, Scanning!RecordPage,
              Scanning!CountRemaining, Scanning!Sweep, Scanning!Finish, Scanning!Return

\* A scan does not disturb another one, which is not alone.
LEMMA OtherStays ==
    ASSUME ScanInv, NEW s \in Scans, NEW t \in Scans, t # s, workflow[s] = "activity",
           UNCHANGED <<root, disk, history>>,
           exec'[t] = exec[t], scan'[t] = scan[t], workflow'[t] = workflow[t],
           \A p \in Paths : source'[p].generation = t => source[p].generation = t
    PROVE  KnownOK(t)' /\ ProgressOK(t)' /\ PageOK(t)' /\ CoveredOK(t)'
<1>1. KnownOK(t) /\ ProgressOK(t) /\ PageOK(t) /\ CoveredOK(t)
  BY DEF ScanInv
<1>2. KnownOK(t)'
  BY <1>1 DEF KnownOK, Paths
<1>3. ProgressOK(t)'
  BY <1>1 DEF ProgressOK, Scanning!Remaining, FirstDirs
<1>4. \A p : Scanning!StoodAllTheTime(t, p)' => Scanning!StoodAllTheTime(t, p)
  BY StoodShrinks
<1>5. PageOK(t)'
  BY <1>1, <1>4, Zenon DEF PageOK, Scanning!PastCursor, Scanning!Name, Scanning!Paths, Upto, Paths
<1>6. CoveredOK(t)'
  BY <1>1 DEF CoveredOK
<1> QED
  BY <1>2, <1>3, <1>5, <1>6

\* One scan moves.
LEMMA OneScan ==
    ASSUME ScanInv, NEW s \in Scans, workflow[s] = "activity", UNCHANGED <<root, disk, history>>,
           NEW e, exec' = [exec EXCEPT ![s] = e], DOMAIN e = {"pc", "directory", "page", "reason"},
           NEW c, scan' = [scan EXCEPT ![s] = c],
           DOMAIN c = {"state", "reason", "terminal", "dirs", "observed"},
           NEW w \in {"activity", "ended"}, workflow' = [workflow EXCEPT ![s] = w],
           source' = [p \in Paths |-> source'[p]],
           \A p \in Paths : /\ DOMAIN source'[p] = {"available", "generation"}
                            /\ source'[p].available \in BOOLEAN
                            /\ source'[p].generation \in {source[p].generation, s},
           KnownOK(s)' /\ ProgressOK(s)' /\ PageOK(s)' /\ CoveredOK(s)'
    PROVE  ScanInv'
<1>1. ScanShape'
  BY DEF ScanInv, ScanShape, Paths
<1>2. ASSUME NEW t \in Scans, t # s
      PROVE  KnownOK(t)' /\ ProgressOK(t)' /\ PageOK(t)' /\ CoveredOK(t)'
  <2>1. exec'[t] = exec[t] /\ scan'[t] = scan[t] /\ workflow'[t] = workflow[t]
    BY <1>2 DEF ScanInv, ScanShape
  <2>2. \A p \in Paths : source'[p].generation = t => source[p].generation = t
    BY <1>2
  <2> QED
    BY <1>2, <2>1, <2>2, OtherStays
<1> QED
  BY <1>1, <1>2 DEF ScanInv

\* What is covered stays so while the directories and the recorded sources stay.
LEMMA CoveredStays ==
    ASSUME ScanInv, NEW s \in Scans, UNCHANGED history, scan'[s].dirs = scan[s].dirs,
           workflow'[s] = "activity" => workflow[s] = "activity",
           \A t \in Scans \ {s} : workflow'[t] = workflow[t],
           \A p \in Paths : source[p].available /\ source[p].generation = s
                               => source'[p].available /\ source'[p].generation = s
    PROVE  CoveredOK(s)'
<1>1. CoveredOK(s)
  BY DEF ScanInv
<1>2. \A p : Scanning!StoodAllTheTime(s, p)' => Scanning!StoodAllTheTime(s, p)
  BY StoodShrinks
<1>3. \A p \in Paths : \A n : Covered(s, p, n) => Covered(s, p, n)'
  BY DEF Covered, Scanning!PastCursor, Scanning!Name, Upto, Paths
<1> QED
  BY <1>1, <1>2, <1>3 DEF CoveredOK, Paths

\* A step that records nothing.
LEMMA QuietStep ==
    ASSUME ScanInv, NEW s \in Scans, workflow[s] = "activity", UNCHANGED <<root, disk, history, source>>,
           NEW e, exec' = [exec EXCEPT ![s] = e], DOMAIN e = {"pc", "directory", "page", "reason"},
           NEW c, scan' = [scan EXCEPT ![s] = c], c.dirs = scan[s].dirs,
           DOMAIN c = {"state", "reason", "terminal", "dirs", "observed"},
           NEW w \in {"activity", "ended"}, workflow' = [workflow EXCEPT ![s] = w],
           w = "ended" => e.pc = "idle",
           e.pc = "sweep" => Scanning!Remaining(s) = {},
           root = "missing" /\ history[s].always # {} => e.pc \in {"idle", "finish", "done"},
           e.pc = "record" =>
              /\ e.page.releases \subseteq history[s].ever
              /\ \A d \in e.page.children : d \in Paths /\ Scanning!Parent[d] = e.directory,
           PageOK(s)'
    PROVE  ScanInv'
<1>1. /\ exec'[s] = e /\ scan'[s] = c /\ workflow'[s] = w /\ scan'[s].dirs = scan[s].dirs
      /\ \A t \in Scans \ {s} : workflow'[t] = workflow[t]
  BY DEF ScanInv, ScanShape
<1>2. KnownOK(s) /\ ProgressOK(s) /\ ScanShape
  BY DEF ScanInv
<1>3. KnownOK(s)'
  BY <1>1, <1>2 DEF KnownOK, Paths, Scanning!Parent, Scanning!Paths
<1>4. ProgressOK(s)'
  BY <1>1, <1>2 DEF ProgressOK, Scanning!Remaining, FirstDirs
<1>5. CoveredOK(s)'
  BY <1>1, CoveredStays
<1>6. /\ source' = [p \in Paths |-> source'[p]]
      /\ \A p \in Paths : /\ DOMAIN source'[p] = {"available", "generation"}
                          /\ source'[p].available \in BOOLEAN
                          /\ source'[p].generation \in {source[p].generation, s}
  BY <1>2 DEF ScanShape
<1> QED
  BY <1>3, <1>4, <1>5, <1>6, OneScan

\* A page that is not about to be recorded promises nothing.
LEMMA NoPagePromised ==
    ASSUME NEW s, exec'[s].pc # "record"
    PROVE  PageOK(s)'
BY DEF PageOK

\* A step that goes to another place.
LEMMA GotoStep ==
    ASSUME ScanInv, NEW s \in Scans, workflow[s] = "activity",
           UNCHANGED <<root, disk, history, source, scan, workflow>>,
           NEW pc, NEW reason, Scanning!Goto(s, pc, reason), pc # "record",
           pc = "sweep" => Scanning!Remaining(s) = {},
           root = "missing" /\ history[s].always # {} => pc \in {"idle", "finish", "done"}
    PROVE  ScanInv'
<1> DEFINE e == [exec[s] EXCEPT !.pc = pc, !.reason = reason]
<1>1. /\ DOMAIN exec[s] = {"pc", "directory", "page", "reason"}
      /\ DOMAIN scan[s] = {"state", "reason", "terminal", "dirs", "observed"}
      /\ exec = [t \in Scans |-> exec[t]] /\ scan = [t \in Scans |-> scan[t]]
      /\ workflow \in [Scans -> {"none", "activity", "ended"}]
  BY DEF ScanInv, ScanShape
<1>2. exec' = [exec EXCEPT ![s] = e]
  BY Zenon DEF Scanning!Goto
<1>3. e.pc = pc /\ DOMAIN e = {"pc", "directory", "page", "reason"}
  BY <1>1
<1> HIDE DEF e
<1>4. scan' = [scan EXCEPT ![s] = scan[s]] /\ workflow' = [workflow EXCEPT ![s] = "activity"]
  BY <1>1
<1>5. exec'[s] = e
  BY <1>1, <1>2
<1>6. PageOK(s)'
  BY <1>3, <1>5, NoPagePromised
<1> QED
  BY <1>1, <1>2, <1>3, <1>4, <1>6, QuietStep

\* The root is checked and a directory chosen.
LEMMA StartPageStep ==
    ASSUME ScanBounds, ScanInv, NEW s \in Scans, Scanning!StartPage(s)
    PROVE  ScanInv'
<1>1. workflow[s] = "activity" /\ UNCHANGED <<root, disk, scan, workflow, history>>
  BY DEF Scanning!StartPage
<1>2. /\ DOMAIN exec[s] = {"pc", "directory", "page", "reason"}
      /\ DOMAIN scan[s] = {"state", "reason", "terminal", "dirs", "observed"}
      /\ exec = [t \in Scans |-> exec[t]] /\ scan = [t \in Scans |-> scan[t]]
      /\ workflow \in [Scans -> {"none", "activity", "ended"}]
      /\ KnownOK(s) /\ ProgressOK(s) /\ CoveredOK(s) /\ ScanShape
  BY DEF ScanInv, ScanShape
<1>3. scan' = [scan EXCEPT ![s] = scan[s]] /\ workflow' = [workflow EXCEPT ![s] = "activity"]
  BY <1>1, <1>2
<1>4. CASE Scanning!NotConfigured(s)
  BY <1>1, <1>4, GotoStep DEF Scanning!NotConfigured
<1>5. CASE root = "missing" /\ ~Scanning!NotConfigured(s)
  <2> DEFINE e == [exec[s] EXCEPT !.pc = "finish", !.reason = "root_unavailable"]
  <2>1. /\ exec' = [exec EXCEPT ![s] = e]
        /\ source' = [p \in Paths |-> [source[p] EXCEPT !.available = FALSE]]
    BY <1>5 DEF Scanning!StartPage, Scanning!Goto, Paths
  <2>2. e.pc = "finish" /\ DOMAIN e = {"pc", "directory", "page", "reason"}
    BY <1>2
  <2> HIDE DEF e
  <2>3. exec'[s] = e
    BY <1>2, <2>1
  <2>4. \A p \in Paths : /\ DOMAIN source'[p] = {"available", "generation"}
                         /\ source'[p].available = FALSE /\ source'[p].generation = source[p].generation
    BY <1>2, <2>1 DEF ScanShape
  <2>5. KnownOK(s)'
    BY <1>1, <1>2, <2>2, <2>3, <2>4 DEF KnownOK, Paths
  <2>6. ProgressOK(s)'
    BY <1>1, <1>2, <1>5, <2>2, <2>3 DEF ProgressOK, FirstDirs
  <2>7. PageOK(s)'
    BY <2>2, <2>3, NoPagePromised
  <2>8. CoveredOK(s)'
    <3>1. \A p : Scanning!StoodAllTheTime(s, p)' => Scanning!StoodAllTheTime(s, p)
      BY <1>1, StoodShrinks
    <3>2. ASSUME NEW p \in Paths, Scanning!StoodAllTheTime(s, p), NEW n \in 0 .. Len(p) - 1
          PROVE  Covered(s, p, n)'
      <4>1. history[s].always # {}
        <5>1. Upto(p, Len(p)) \in Ancestry[p]
          BY PathParts
        <5>2. Ancestry[p] \subseteq history[s].always
          BY <3>2 DEF Scanning!StoodAllTheTime, Ancestry
        <5> QED
          BY <5>1, <5>2
      <4>2. scan'[s].dirs = FirstDirs
        BY <1>1, <1>2, <1>5, <4>1 DEF ProgressOK
      <4> QED
        BY <4>2 DEF Covered, FirstDirs, Scanning!PastCursor
    <3> QED
      BY <1>1, <1>2, <3>1, <3>2 DEF CoveredOK, Paths
  <2>9. source' = [p \in Paths |-> source'[p]]
    BY <2>1
  <2> QED
    BY <1>1, <1>2, <1>3, <2>1, <2>2, <2>4, <2>5, <2>6, <2>7, <2>8, <2>9, OneScan
<1>6. CASE root = "unsafe" /\ ~Scanning!NotConfigured(s)
  BY <1>1, <1>6, GotoStep DEF Scanning!StartPage
<1>7. CASE root = "present" /\ Scanning!Remaining(s) = {} /\ ~Scanning!NotConfigured(s)
  BY <1>1, <1>7, GotoStep DEF Scanning!StartPage
<1>8. CASE root = "present" /\ Scanning!Remaining(s) # {} /\ ~Scanning!NotConfigured(s)
  <2> DEFINE d == CHOOSE d \in Scanning!Remaining(s) :
                      \A other \in Scanning!Remaining(s) \ {d} : Scanning!Before(d, other)
             e == [exec[s] EXCEPT !.pc = "read", !.directory = d]
  <2>1. UNCHANGED source /\ exec' = [exec EXCEPT ![s] = e]
    BY <1>8, Zenon DEF Scanning!StartPage
  <2> HIDE DEF d
  <2>2. e.pc = "read" /\ DOMAIN e = {"pc", "directory", "page", "reason"}
    BY <1>2
  <2> HIDE DEF e
  <2>3. exec'[s] = e
    BY <1>2, <2>1
  <2>4. PageOK(s)'
    BY <2>2, <2>3, NoPagePromised
  <2> QED
    BY <1>1, <1>2, <1>3, <1>8, <2>1, <2>2, <2>4, QuietStep
<1> QED
  BY <1>2, <1>5, <1>6, <1>7, <1>8, <1>4 DEF ScanShape

\* A page is read.
LEMMA ScanDirectoryStep ==
    ASSUME ScanBounds, ScanInv, NEW s \in Scans, Scanning!ScanDirectory(s)
    PROVE  ScanInv'
<1> DEFINE directory == exec[s].directory
           page == Scanning!ReadPage(directory, scan[s].dirs[directory].cursor)
           e == [exec[s] EXCEPT !.pc = "record", !.page = page]
<1>1. /\ DOMAIN exec[s] = {"pc", "directory", "page", "reason"}
      /\ DOMAIN scan[s] = {"state", "reason", "terminal", "dirs", "observed"}
      /\ exec = [t \in Scans |-> exec[t]] /\ scan = [t \in Scans |-> scan[t]]
      /\ workflow \in [Scans -> {"none", "activity", "ended"}]
      /\ KnownOK(s) /\ ProgressOK(s) /\ disk \subseteq Paths
  BY DEF ScanInv, ScanShape
<1>2. exec[s].pc = "read" /\ UNCHANGED <<root, disk, source, scan, workflow, history>>
  BY DEF Scanning!ScanDirectory
<1>3. workflow[s] = "activity"
  BY <1>1, <1>2 DEF KnownOK
<1>4. CASE \E reason : Scanning!Goto(s, "finish", reason)
  BY <1>2, <1>3, <1>4, GotoStep
<1>5. CASE exec' = [exec EXCEPT ![s] = e]
  <2>1. /\ e.pc = "record" /\ e.page = page /\ e.directory = directory
        /\ DOMAIN e = {"pc", "directory", "page", "reason"}
    BY <1>1
  <2>2. exec'[s] = e
    BY <1>1, <1>5
  <2>3. scan' = [scan EXCEPT ![s] = scan[s]] /\ workflow' = [workflow EXCEPT ![s] = "activity"]
    BY <1>1, <1>2, <1>3
  <2>4. history[s].always \subseteq disk /\ disk \subseteq history[s].ever
    BY <1>1, <1>3 DEF KnownOK
  <2>5. ~(root = "missing" /\ history[s].always # {})
    BY <1>1, <1>2, <1>3 DEF ProgressOK
  <2>6. /\ page.releases \subseteq history[s].ever
        /\ \A d \in page.children : d \in Paths /\ Scanning!Parent[d] = directory
    <3>1. Scanning!Selected(directory, scan[s].dirs[directory].cursor) \subseteq Scanning!Below(directory)
      BY DEF Scanning!Selected
    <3>2. \A d \in Scanning!Below(directory) : d \in disk /\ Scanning!Parent[d] = directory
      BY DEF Scanning!Below
    <3>3. /\ page.releases \subseteq Scanning!Selected(directory, scan[s].dirs[directory].cursor)
          /\ page.children \subseteq Scanning!Selected(directory, scan[s].dirs[directory].cursor)
      BY DEF Scanning!ReadPage
    <3> HIDE DEF page, directory
    <3> QED
      BY <1>1, <2>4, <3>1, <3>2, <3>3
  <2>7. PageOK(s)'
    <3> SUFFICES ASSUME NEW p \in Paths, Scanning!StoodAllTheTime(s, p)', NEW n \in 0 .. Len(p) - 1,
                        directory = Upto(p, n),
                        Scanning!PastCursor(Upto(p, n + 1), scan[s].dirs[Upto(p, n)].cursor)
                 PROVE  \/ n + 1 = Len(p) /\ p \in page.releases
                        \/ n + 1 < Len(p) /\ Upto(p, n + 1) \in page.children
                        \/ page.hasMore /\ Scanning!PastCursor(Upto(p, n + 1), page.last)
      <4> HIDE DEF page, directory, e
      <4> QED
        BY <1>2, <2>1, <2>2, Zenon DEF PageOK, Paths, Scanning!PastCursor, Scanning!Name, Scanning!Paths, Upto
    <3>1. Scanning!StoodAllTheTime(s, p)
      BY <1>2, StoodShrinks
    <3>2. page = Scanning!ReadPage(Upto(p, n), scan[s].dirs[Upto(p, n)].cursor)
      OBVIOUS
    <3> HIDE DEF page, directory, e
    <3> QED
      BY <1>1, <2>4, <3>1, <3>2, PageHolds, Zenon
  <2> HIDE DEF e, page, directory
  <2> QED
    BY <1>1, <1>2, <1>3, <1>5, <2>1, <2>3, <2>5, <2>6, <2>7, QuietStep
<1> QED
  BY <1>4, <1>5, Zenon DEF Scanning!ScanDirectory

\* The scan looks whether something remains.
LEMMA CountRemainingStep ==
    ASSUME ScanInv, NEW s \in Scans, Scanning!CountRemaining(s)
    PROVE  ScanInv'
<1>1. /\ exec[s].pc = "remaining" /\ KnownOK(s) /\ ProgressOK(s)
      /\ UNCHANGED <<root, disk, source, scan, workflow, history>>
  BY DEF Scanning!CountRemaining, ScanInv
<1>2. workflow[s] = "activity" /\ ~(root = "missing" /\ history[s].always # {})
  BY <1>1 DEF KnownOK, ProgressOK
<1>3. \/ Scanning!Goto(s, "sweep", None) /\ Scanning!Remaining(s) = {}
      \/ Scanning!Goto(s, "continue", None)
  BY DEF Scanning!CountRemaining
<1> QED
  BY <1>1, <1>2, <1>3, GotoStep

\* A scan is called finished.
LEMMA FinishScanStep ==
    ASSUME ScanInv, NEW s \in Scans, Scanning!Finish(s)
    PROVE  ScanInv'
<1> DEFINE e == [exec[s] EXCEPT !.pc = "done", !.reason = exec[s].reason]
           c == [scan[s] EXCEPT !.reason = exec[s].reason, !.terminal = TRUE,
                   !.state = IF exec[s].reason \in {"completed", "root_unavailable"}
                             THEN "completed" ELSE "failed"]
<1>1. /\ DOMAIN exec[s] = {"pc", "directory", "page", "reason"}
      /\ DOMAIN scan[s] = {"state", "reason", "terminal", "dirs", "observed"}
      /\ exec = [t \in Scans |-> exec[t]]
      /\ workflow \in [Scans -> {"none", "activity", "ended"}]
      /\ KnownOK(s)
  BY DEF ScanInv, ScanShape
<1>2. exec[s].pc = "finish" /\ UNCHANGED <<root, disk, source, workflow, history>>
  BY DEF Scanning!Finish
<1>3. exec' = [exec EXCEPT ![s] = e] /\ scan' = [scan EXCEPT ![s] = c]
  BY Zenon DEF Scanning!Finish, Scanning!Goto
<1>4. /\ e.pc = "done" /\ DOMAIN e = {"pc", "directory", "page", "reason"}
      /\ c.dirs = scan[s].dirs /\ DOMAIN c = {"state", "reason", "terminal", "dirs", "observed"}
  BY <1>1
<1> HIDE DEF e, c
<1>5. workflow[s] = "activity" /\ workflow' = [workflow EXCEPT ![s] = "activity"]
  BY <1>1, <1>2 DEF KnownOK
<1>6. PageOK(s)'
  BY <1>1, <1>3, <1>4, NoPagePromised
<1> QED
  BY <1>2, <1>3, <1>4, <1>5, <1>6, QuietStep

\* The workflow continues as new, or ends.
LEMMA ReturnScanStep ==
    ASSUME ScanInv, NEW s \in Scans, Scanning!Return(s)
    PROVE  ScanInv'
<1> DEFINE w == IF exec[s].pc = "done" THEN "ended" ELSE "activity"
<1>1. /\ DOMAIN scan[s] = {"state", "reason", "terminal", "dirs", "observed"}
      /\ exec = [t \in Scans |-> exec[t]] /\ scan = [t \in Scans |-> scan[t]]
      /\ workflow \in [Scans -> {"none", "activity", "ended"}]
      /\ KnownOK(s)
  BY DEF ScanInv, ScanShape
<1>2. /\ exec[s].pc # "idle" /\ UNCHANGED <<root, disk, source, scan, history>>
      /\ exec' = [exec EXCEPT ![s] = Scanning!NoPage]
  BY DEF Scanning!Return
<1>3. workflow[s] = "activity"
  BY <1>1, <1>2 DEF KnownOK
<1>4. workflow' = [workflow EXCEPT ![s] = w] /\ w \in {"activity", "ended"}
  BY <1>3 DEF Scanning!Return
<1>5. Scanning!NoPage.pc = "idle" /\ DOMAIN Scanning!NoPage = {"pc", "directory", "page", "reason"}
  BY DEF Scanning!NoPage
<1>6. scan' = [scan EXCEPT ![s] = scan[s]]
  BY <1>1, <1>2
<1>7. PageOK(s)'
  BY <1>1, <1>2, <1>5, NoPagePromised
<1> HIDE DEF w
<1> QED
  BY <1>1, <1>2, <1>3, <1>4, <1>5, <1>6, <1>7, QuietStep

\* The sweep leaves what the scan has recorded.
LEMMA SweepStep ==
    ASSUME ScanInv, NEW s \in Scans, Scanning!Sweep(s)
    PROVE  ScanInv'
<1> DEFINE e == [exec[s] EXCEPT !.pc = "finish", !.reason = "completed"]
<1>1. /\ DOMAIN exec[s] = {"pc", "directory", "page", "reason"}
      /\ DOMAIN scan[s] = {"state", "reason", "terminal", "dirs", "observed"}
      /\ exec = [t \in Scans |-> exec[t]] /\ scan = [t \in Scans |-> scan[t]]
      /\ workflow \in [Scans -> {"none", "activity", "ended"}]
      /\ KnownOK(s) /\ ProgressOK(s) /\ ScanShape
  BY DEF ScanInv, ScanShape
<1>2. /\ exec[s].pc = "sweep" /\ UNCHANGED <<root, disk, scan, workflow, history>>
      /\ source' = Scanning!SweptSources(s)
  BY DEF Scanning!Sweep
<1>3. exec' = [exec EXCEPT ![s] = e]
  BY Zenon DEF Scanning!Sweep, Scanning!Goto
<1>4. e.pc = "finish" /\ DOMAIN e = {"pc", "directory", "page", "reason"}
  BY <1>1
<1> HIDE DEF e
<1>5. exec'[s] = e /\ workflow[s] = "activity"
  BY <1>1, <1>2, <1>3 DEF KnownOK
<1>6. scan' = [scan EXCEPT ![s] = scan[s]] /\ workflow' = [workflow EXCEPT ![s] = "activity"]
  BY <1>1, <1>2, <1>5
<1>7. source' = [p \in Paths |-> source'[p]]
  BY <1>2 DEF Scanning!SweptSources, Paths
<1>8. \A p \in Paths : /\ DOMAIN source'[p] = {"available", "generation"}
                       /\ source'[p].available \in BOOLEAN
                       /\ source'[p].generation = source[p].generation
                       /\ source[p].generation = s => source'[p] = source[p]
  <2> SUFFICES ASSUME NEW p \in Paths
               PROVE  /\ DOMAIN source'[p] = {"available", "generation"}
                      /\ source'[p].available \in BOOLEAN
                      /\ source'[p].generation = source[p].generation
                      /\ source[p].generation = s => source'[p] = source[p]
    OBVIOUS
  <2>1. DOMAIN source[p] = {"available", "generation"} /\ source[p].available \in BOOLEAN
    BY <1>1, Zenon DEF ScanShape
  <2>2. source'[p] = IF source[p].generation # s THEN [source[p] EXCEPT !.available = FALSE] ELSE source[p]
    BY <1>2 DEF Scanning!SweptSources, Paths
  <2>3. CASE source[p].generation = s
    BY <2>1, <2>2, <2>3, Zenon
  <2>4. CASE source[p].generation # s
    BY <2>1, <2>2, <2>4
  <2> QED
    BY <2>3, <2>4
<1>9. KnownOK(s)'
  BY <1>1, <1>2, <1>4, <1>5, <1>8 DEF KnownOK, Paths
<1>10. ProgressOK(s)'
  BY <1>1, <1>2, <1>4, <1>5 DEF ProgressOK, FirstDirs
<1>11. PageOK(s)'
  BY <1>4, <1>5, NoPagePromised
<1>12. CoveredOK(s)'
  BY <1>2, <1>8, CoveredStays
<1> QED
  BY <1>1, <1>2, <1>3, <1>4, <1>5, <1>6, <1>7, <1>8, <1>9, <1>10, <1>11, <1>12, OneScan

\* The transaction of a page: what stood below its directory is recorded, queued, or left
\* behind the new cursor.
LEMMA RecordCovers ==
    ASSUME ScanBounds, ScanInv, NEW s \in Scans, UNCHANGED <<history, workflow>>,
           exec[s].pc = "record",
           NEW dirs, scan'[s].dirs = dirs,
           DOMAIN dirs = DOMAIN scan[s].dirs \cup exec[s].page.children,
           \A d \in DOMAIN dirs :
              dirs[d] = IF d = exec[s].directory
                        THEN IF exec[s].page.hasMore THEN [state |-> "running", cursor |-> exec[s].page.last]
                             ELSE [state |-> "completed", cursor |-> None]
                        ELSE IF d \in DOMAIN scan[s].dirs THEN scan[s].dirs[d]
                        ELSE [state |-> "queued", cursor |-> None],
           \A p \in Paths : source'[p] = IF p \in exec[s].page.releases
                                         THEN [available |-> TRUE, generation |-> s] ELSE source[p]
    PROVE  CoveredOK(s)'
<1>1. CoveredOK(s) /\ PageOK(s) /\ KnownOK(s)
  BY DEF ScanInv
<1>2. \A p : Scanning!StoodAllTheTime(s, p)' => Scanning!StoodAllTheTime(s, p)
  BY StoodShrinks
<1>3. ASSUME NEW p \in Paths, Scanning!StoodAllTheTime(s, p), NEW n \in 0 .. Len(p) - 1, Covered(s, p, n),
             Upto(p, n) \in DOMAIN dirs
      PROVE  \/ /\ dirs[Upto(p, n)].state \in {"queued", "running"}
                /\ Scanning!PastCursor(Upto(p, n + 1), dirs[Upto(p, n)].cursor)
             \/ n + 1 = Len(p) /\ source'[p].available /\ source'[p].generation = s
             \/ n + 1 < Len(p) /\ Upto(p, n + 1) \in DOMAIN dirs
  <2> DEFINE d == Upto(p, n)
             q == Upto(p, n + 1)
             old == scan[s].dirs
             recorded == source'[p].available /\ source'[p].generation = s
  <2>1. source[p].available /\ source[p].generation = s => recorded
    OBVIOUS
  <2>2. p \in exec[s].page.releases => recorded
    OBVIOUS
  <2>3. CASE d \notin DOMAIN old
    <3>1. d \in exec[s].page.children
      BY <1>3, <2>3
    <3>2. d \in Paths /\ Scanning!Parent[d] = exec[s].directory
      BY <1>1, <3>1 DEF KnownOK
    <3>3. d # exec[s].directory
      BY <3>2, EntryAncestry
    <3>4. dirs[d] = [state |-> "queued", cursor |-> None]
      BY <1>3, <2>3, <3>3
    <3> HIDE DEF d, q, old, recorded
    <3>5. dirs[d].state = "queued" /\ dirs[d].cursor = None
      BY <3>4
    <3>6. Scanning!PastCursor(q, dirs[d].cursor)
      BY <3>5 DEF Scanning!PastCursor
    <3> USE DEF d, q
    <3> QED
      BY <3>5, <3>6
  <2>4. CASE d \in DOMAIN old /\ d # exec[s].directory
    <3>1. dirs[d] = old[d]
      BY <1>3, <2>4
    <3> QED
      BY <1>3, <2>1, <2>4, <3>1 DEF Covered
  <2>5. CASE d \in DOMAIN old /\ d = exec[s].directory
    <3>1. CASE Scanning!PastCursor(q, old[d].cursor)
      <4>1. \/ n + 1 = Len(p) /\ p \in exec[s].page.releases
            \/ n + 1 < Len(p) /\ q \in exec[s].page.children
            \/ exec[s].page.hasMore /\ Scanning!PastCursor(q, exec[s].page.last)
        BY <1>1, <1>3, <2>5, <3>1 DEF PageOK
      <4>2. ASSUME exec[s].page.hasMore, Scanning!PastCursor(q, exec[s].page.last)
            PROVE  dirs[d].state = "running" /\ Scanning!PastCursor(q, dirs[d].cursor)
        <5>1. dirs[d] = [state |-> "running", cursor |-> exec[s].page.last]
          BY <1>3, <2>5, <4>2
        <5> HIDE DEF d, q, old, recorded
        <5>2. dirs[d].state = "running" /\ dirs[d].cursor = exec[s].page.last
          BY <5>1
        <5> QED
          BY <4>2, <5>2, Zenon
      <4> QED
        BY <2>2, <4>1, <4>2
    <3>2. CASE ~Scanning!PastCursor(q, old[d].cursor)
      BY <1>3, <2>1, <2>5, <3>2 DEF Covered
    <3> QED
      BY <3>1, <3>2
  <2> QED
    BY <2>3, <2>4, <2>5
<1>4. ASSUME NEW p \in Paths, Scanning!StoodAllTheTime(s, p), NEW n \in 0 .. Len(p) - 1, Covered(s, p, n)
      PROVE  Covered(s, p, n)'
  <2>1. Upto(p, n)' = Upto(p, n) /\ Upto(p, n + 1)' = Upto(p, n + 1)
    BY DEF Upto
  <2>2. \A q, c : Scanning!PastCursor(q, c)' = Scanning!PastCursor(q, c)
    BY DEF Scanning!PastCursor, Scanning!Name, Scanning!Paths
  <2> QED
    BY <1>3, <1>4 DEF Covered, Upto, Scanning!PastCursor, Scanning!Name, Scanning!Paths
<1> QED
  BY <1>1, <1>2, <1>4 DEF CoveredOK, Paths

\* A page is recorded.
LEMMA RecordPageStep ==
    ASSUME ScanBounds, ScanInv, NEW s \in Scans, Scanning!RecordPage(s)
    PROVE  ScanInv'
<1> DEFINE page == exec[s].page
           old == scan[s].dirs
           directory == exec[s].directory
           entry == IF Scanning!DirectoryDone(page) THEN [state |-> "completed", cursor |-> None]
                    ELSE [state |-> "running", cursor |-> page.last]
           dirs == [d \in DOMAIN old \cup page.children |->
                      IF d = directory THEN entry
                      ELSE IF d \in DOMAIN old THEN old[d]
                      ELSE [state |-> "queued", cursor |-> None]]
           c == [scan[s] EXCEPT !.dirs = dirs,
                    !.observed = scan[s].observed + Scanning!Cardinality(page.releases),
                    !.state = "running"]
           e == [exec[s] EXCEPT !.pc = "remaining", !.page = None]
<1>1. /\ DOMAIN exec[s] = {"pc", "directory", "page", "reason"}
      /\ DOMAIN scan[s] = {"state", "reason", "terminal", "dirs", "observed"}
      /\ exec = [t \in Scans |-> exec[t]] /\ scan = [t \in Scans |-> scan[t]]
      /\ workflow \in [Scans -> {"none", "activity", "ended"}]
      /\ KnownOK(s) /\ ProgressOK(s) /\ ScanShape
  BY DEF ScanInv, ScanShape
<1>2. exec[s].pc = "record" /\ UNCHANGED <<root, disk, workflow, history>>
  BY DEF Scanning!RecordPage
<1>3. workflow[s] = "activity" /\ ~(root = "missing" /\ history[s].always # {})
  BY <1>1, <1>2 DEF KnownOK, ProgressOK
<1>4. CASE Scanning!Goto(s, "finish", "release_limit") /\ UNCHANGED <<source, scan>>
  BY <1>2, <1>3, <1>4, GotoStep
<1>5. CASE /\ source' = Scanning!Persisted(s, page.releases)
           /\ scan' = [scan EXCEPT ![s].dirs = dirs,
                 ![s].observed = scan[s].observed + Scanning!Cardinality(page.releases),
                 ![s].state = "running"]
           /\ exec' = [exec EXCEPT ![s].pc = "remaining", ![s].page = None]
  <2>1. exec' = [exec EXCEPT ![s] = e]
    BY <1>5, Zenon
  <2>2. e.pc = "remaining" /\ DOMAIN e = {"pc", "directory", "page", "reason"}
    BY <1>1
  <2>3. scan' = [scan EXCEPT ![s] = c]
    <3> HIDE DEF dirs, page
    <3> QED
      BY <1>5, Zenon
  <2>4. c.dirs = dirs /\ DOMAIN c = {"state", "reason", "terminal", "dirs", "observed"}
    <3> HIDE DEF dirs, page
    <3> QED
      BY <1>1
  <2>5. /\ DOMAIN dirs = DOMAIN old \cup page.children
        /\ \A d \in DOMAIN dirs :
              dirs[d] = IF d = directory
                        THEN IF page.hasMore THEN [state |-> "running", cursor |-> page.last]
                             ELSE [state |-> "completed", cursor |-> None]
                        ELSE IF d \in DOMAIN old THEN old[d]
                        ELSE [state |-> "queued", cursor |-> None]
    BY DEF Scanning!DirectoryDone
  <2> HIDE DEF dirs, c, e
  <2>6. exec'[s] = e /\ scan'[s] = c /\ workflow' = [workflow EXCEPT ![s] = "activity"]
    BY <1>1, <1>2, <1>3, <2>1, <2>3
  <2>7. source' = [p \in Paths |-> source'[p]]
    BY <1>5 DEF Scanning!Persisted, Paths
  <2>8. \A p \in Paths : source'[p] = IF p \in page.releases
                                      THEN [available |-> TRUE, generation |-> s] ELSE source[p]
    BY <1>5 DEF Scanning!Persisted, Paths
  <2>9. \A p \in Paths : /\ DOMAIN source'[p] = {"available", "generation"}
                         /\ source'[p].available \in BOOLEAN
                         /\ source'[p].generation \in {source[p].generation, s}
    <3> SUFFICES ASSUME NEW p \in Paths
                 PROVE  /\ DOMAIN source'[p] = {"available", "generation"}
                        /\ source'[p].available \in BOOLEAN
                        /\ source'[p].generation \in {source[p].generation, s}
      OBVIOUS
    <3>1. DOMAIN source[p] = {"available", "generation"} /\ source[p].available \in BOOLEAN
      BY <1>1, Zenon DEF ScanShape
    <3>2. CASE source'[p] = source[p]
      BY <3>1, <3>2
    <3>3. CASE source'[p] = [available |-> TRUE, generation |-> s]
      BY <3>3
    <3> QED
      BY <2>8, <3>2, <3>3, Zenon
  <2>10. KnownOK(s)'
    <3>1. \A p \in Paths : source'[p].generation = s => p \in history[s].ever
      BY <1>1, <1>2, <1>3, <2>8 DEF KnownOK
    <3>2. <<>> \in DOMAIN scan'[s].dirs
      BY <1>1, <1>3, <2>4, <2>5, <2>6 DEF KnownOK
    <3> QED
      BY <1>1, <1>2, <1>3, <2>2, <2>6, <3>1, <3>2 DEF KnownOK, Paths
  <2>11. ProgressOK(s)'
    BY <1>2, <1>3, <2>2, <2>6 DEF ProgressOK
  <2>12. PageOK(s)'
    BY <2>2, <2>6, NoPagePromised
  <2>13. CoveredOK(s)'
    <3>1. scan'[s].dirs = dirs
      BY <2>4, <2>6
    <3> QED
      BY <1>2, <2>5, <2>8, <3>1, RecordCovers, Zenon
  <2> HIDE DEF page, directory, old
  <2> QED
    BY <1>2, <1>3, <2>1, <2>2, <2>3, <2>4, <2>6, <2>7, <2>9, <2>10, <2>11, <2>12, <2>13, OneScan
<1> QED
  BY <1>4, <1>5, Zenon DEF Scanning!RecordPage

\* A scan is accepted: it has the root to walk, and is alone when no other one runs.
LEMMA AcceptScanStep ==
    ASSUME ScanBounds, ScanInv, NEW s \in Scans, Scanning!Accept(s)
    PROVE  ScanInv'
<1> DEFINE c == [scan[s] EXCEPT !.state = "queued", !.dirs = FirstDirs]
           free == \A u \in Scans : workflow[u] # "activity"
           h == [always |-> disk, ever |-> disk, alone |-> free]
<1>1. /\ ScanShape
      /\ DOMAIN scan[s] = {"state", "reason", "terminal", "dirs", "observed"}
      /\ exec = [t \in Scans |-> exec[t]] /\ scan = [t \in Scans |-> scan[t]]
      /\ workflow \in [Scans -> {"none", "activity", "ended"}]
  BY DEF ScanInv, ScanShape
<1>2. workflow[s] = "none" /\ UNCHANGED <<root, disk, source, exec>>
  BY DEF Scanning!Accept
<1>3. workflow' = [workflow EXCEPT ![s] = "activity"] /\ scan' = [scan EXCEPT ![s] = c]
  BY Zenon DEF Scanning!Accept, FirstDirs
<1>4. history' = [t \in Scans |-> IF t = s THEN h ELSE [history[t] EXCEPT !.alone = FALSE]]
  BY DEF Scanning!Accept
<1>5. /\ scan'[s] = c /\ c.dirs = FirstDirs /\ workflow'[s] = "activity"
      /\ DOMAIN c = {"state", "reason", "terminal", "dirs", "observed"}
      /\ \A t \in Scans \ {s} : scan'[t] = scan[t] /\ workflow'[t] = workflow[t]
  BY <1>1, <1>3
<1> HIDE DEF c
<1>6. /\ history'[s] = h
      /\ \A t \in Scans \ {s} :
            /\ DOMAIN history'[t] = {"always", "ever", "alone"} /\ history'[t].alone = FALSE
            /\ history'[t].always = history[t].always /\ history'[t].ever = history[t].ever
  BY <1>1, <1>4 DEF ScanShape
<1>7. /\ DOMAIN h = {"always", "ever", "alone"} /\ h.alone \in BOOLEAN
      /\ h.always = disk /\ h.ever = disk /\ h.alone = free
  OBVIOUS
<1> HIDE DEF h
<1>8. ScanShape'
  <2>1. history' = [t \in Scans |-> history'[t]]
    BY <1>4
  <2>2. \A t \in Scans : DOMAIN history'[t] = {"always", "ever", "alone"} /\ history'[t].alone \in BOOLEAN
    BY <1>6, <1>7
  <2>3. \A t \in Scans : DOMAIN scan'[t] = {"state", "reason", "terminal", "dirs", "observed"}
    BY <1>1, <1>5 DEF ScanShape
  <2>4. workflow' \in [Scans -> {"none", "activity", "ended"}] /\ scan' = [t \in Scans |-> scan'[t]]
    BY <1>1, <1>3
  <2> QED
    BY <1>1, <1>2, <2>1, <2>2, <2>3, <2>4 DEF ScanShape, Paths
<1>9. ASSUME NEW t \in Scans, t # s
      PROVE  KnownOK(t)' /\ ProgressOK(t)' /\ PageOK(t)' /\ CoveredOK(t)'
  <2>1. KnownOK(t) /\ ProgressOK(t) /\ PageOK(t)
    BY DEF ScanInv
  <2>2. /\ history'[t].always = history[t].always /\ history'[t].ever = history[t].ever
        /\ history'[t].alone = FALSE /\ scan'[t] = scan[t] /\ workflow'[t] = workflow[t]
    BY <1>5, <1>6, <1>9
  <2>3. KnownOK(t)'
    BY <1>2, <2>1, <2>2 DEF KnownOK, Paths
  <2>4. ProgressOK(t)'
    BY <1>2, <2>1, <2>2 DEF ProgressOK, Scanning!Remaining, FirstDirs
  <2>5. \A p : Scanning!StoodAllTheTime(t, p)' => Scanning!StoodAllTheTime(t, p)
    BY <2>2, StoodShrinks
  <2>6. PageOK(t)'
    BY <1>2, <2>1, <2>2, <2>5 DEF PageOK, Scanning!PastCursor, Scanning!Name, Upto, Paths
  <2>7. CoveredOK(t)'
    BY <2>2 DEF CoveredOK
  <2> QED
    BY <2>3, <2>4, <2>6, <2>7
<1>10. exec'[s].pc = "idle"
  BY <1>2 DEF ScanInv, KnownOK
<1>11. KnownOK(s)'
  <2>1. \A p \in Paths : source[p].generation # s
    BY <1>2 DEF ScanInv, KnownOK
  <2>2. <<>> \in DOMAIN scan'[s].dirs
    BY <1>5 DEF FirstDirs
  <2> QED
    BY <1>2, <1>5, <1>6, <1>7, <1>10, <2>1, <2>2 DEF KnownOK, Paths
<1>12. ProgressOK(s)'
  BY <1>5, <1>10 DEF ProgressOK, FirstDirs
<1>13. PageOK(s)'
  BY <1>10, NoPagePromised
<1>14. CoveredOK(s)'
  <2>1. history'[s].alone => \A t \in Scans \ {s} : workflow'[t] # "activity"
    BY <1>5, <1>6, <1>7
  <2>2. ASSUME NEW p \in Paths, NEW n \in 0 .. Len(p) - 1
        PROVE  Covered(s, p, n)'
    <3>1. \A d \in DOMAIN FirstDirs : FirstDirs[d].state = "queued" /\ FirstDirs[d].cursor = None
      BY DEF FirstDirs
    <3>2. scan'[s].dirs = FirstDirs
      BY <1>5, Zenon
    <3> QED
      BY <3>1, <3>2 DEF Covered, Scanning!PastCursor
  <2> QED
    BY <2>1, <2>2 DEF CoveredOK, Paths
<1> QED
  BY <1>8, <1>9, <1>11, <1>12, <1>13, <1>14 DEF ScanInv

\* The disk changes: less has stood all the time, and more has been there.
LEMMA DiskStep ==
    ASSUME ScanBounds, ScanInv, Scanning!DiskChanges
    PROVE  ScanInv'
<1>1. UNCHANGED <<source, scan, exec, workflow>> /\ ScanShape
  BY DEF Scanning!DiskChanges, ScanInv
<1>2. disk' \subseteq Paths /\ root' \in {"present", "missing", "unsafe"}
  BY <1>1 DEF Scanning!DiskChanges, ScanShape, Paths
<1>3. root' = "missing" => root = "missing" \/ \A s \in Scans : history'[s].always = {}
  <2>1. ASSUME NEW s \in Scans, root' = "missing"
        PROVE  history'[s].always = {}
    BY <1>1, <2>1 DEF Scanning!DiskChanges, ScanShape
  <2> QED
    BY <2>1
<1>4. ASSUME NEW s \in Scans
      PROVE  /\ DOMAIN history'[s] = {"always", "ever", "alone"} /\ history'[s].alone = history[s].alone
             /\ history'[s].always \subseteq history[s].always \cap disk'
             /\ history'[s].ever = history[s].ever \cup disk'
  <2>1. history'[s] = [history[s] EXCEPT !.always = IF root' = "missing" THEN {} ELSE @ \cap disk',
                                         !.ever = @ \cup disk']
    BY DEF Scanning!DiskChanges
  <2>2. DOMAIN history[s] = {"always", "ever", "alone"}
    BY <1>1 DEF ScanShape
  <2> QED
    BY <2>1, <2>2
<1>5. ScanShape'
  <2>1. history' = [s \in Scans |-> history'[s]]
    BY DEF Scanning!DiskChanges
  <2>2. \A s \in Scans : DOMAIN history'[s] = {"always", "ever", "alone"} /\ history'[s].alone \in BOOLEAN
    BY <1>1, <1>4 DEF ScanShape
  <2> QED
    BY <1>1, <1>2, <2>1, <2>2 DEF ScanShape, Paths
<1>6. ASSUME NEW s \in Scans
      PROVE  KnownOK(s)' /\ ProgressOK(s)' /\ PageOK(s)' /\ CoveredOK(s)'
  <2>1. KnownOK(s) /\ ProgressOK(s) /\ PageOK(s) /\ CoveredOK(s)
    BY DEF ScanInv
  <2>2. KnownOK(s)'
    BY <1>1, <1>4, <2>1 DEF KnownOK, Paths
  <2>3. ProgressOK(s)'
    <3>1. root' = "missing" /\ history'[s].always # {} => root = "missing" /\ history[s].always # {}
      BY <1>3, <1>4
    <3> QED
      BY <1>1, <2>1, <3>1 DEF ProgressOK, Scanning!Remaining, FirstDirs
  <2>4. \A p : Scanning!StoodAllTheTime(s, p)' => Scanning!StoodAllTheTime(s, p)
    BY <1>4, StoodShrinks
  <2>5. PageOK(s)'
    BY <1>1, <2>1, <2>4 DEF PageOK, Scanning!PastCursor, Scanning!Name, Upto, Paths
  <2>6. \A p \in Paths : \A n : Covered(s, p, n) => Covered(s, p, n)'
    BY <1>1 DEF Covered, Scanning!PastCursor, Scanning!Name, Upto, Paths
  <2>7. CoveredOK(s)'
    BY <1>1, <1>4, <2>1, <2>4, <2>6 DEF CoveredOK, Paths
  <2> QED
    BY <2>2, <2>3, <2>5, <2>7
<1> QED
  BY <1>5, <1>6 DEF ScanInv

\* A crash forgets the pages that were being read; a workflow that fails has ended.
LEMMA FaultStep ==
    ASSUME ScanInv, Scanning!Fault
    PROVE  ScanInv'
<1>1. UNCHANGED <<root, disk, source, scan, history>> /\ ScanShape
  BY DEF Scanning!Fault, ScanInv
<1>2. /\ exec' = [t \in Scans |-> exec'[t]]
      /\ workflow' \in [Scans -> {"none", "activity", "ended"}]
      /\ \A t \in Scans : exec'[t] = exec[t] \/ exec'[t] = Scanning!NoPage
      /\ \A t \in Scans : \/ workflow'[t] = workflow[t]
                          \/ workflow'[t] = "ended" /\ workflow[t] = "activity" /\ exec'[t] = Scanning!NoPage
  <2>1. CASE exec' = [s \in Scans |-> Scanning!NoPage] /\ UNCHANGED workflow
    BY <1>1, <2>1 DEF ScanShape
  <2>2. CASE \E s \in Scans : /\ workflow[s] = "activity"
                              /\ exec' = [exec EXCEPT ![s] = Scanning!NoPage]
                              /\ workflow' = [workflow EXCEPT ![s] = "ended"]
    BY <1>1, <2>2 DEF ScanShape
  <2> QED
    BY <2>1, <2>2 DEF Scanning!Fault
<1>3. Scanning!NoPage.pc = "idle" /\ DOMAIN Scanning!NoPage = {"pc", "directory", "page", "reason"}
  BY DEF Scanning!NoPage
<1>4. ScanShape'
  <2>1. \A t \in Scans : DOMAIN exec'[t] = {"pc", "directory", "page", "reason"}
    BY <1>1, <1>2, <1>3 DEF ScanShape
  <2> QED
    BY <1>1, <1>2, <2>1 DEF ScanShape, Paths
<1>5. ASSUME NEW s \in Scans
      PROVE  KnownOK(s)' /\ ProgressOK(s)' /\ PageOK(s)' /\ CoveredOK(s)'
  <2>1. KnownOK(s) /\ ProgressOK(s) /\ PageOK(s) /\ CoveredOK(s)
    BY DEF ScanInv
  <2>2. exec'[s] = exec[s] \/ exec'[s].pc = "idle"
    BY <1>2, <1>3
  <2>3. workflow'[s] = workflow[s] \/ (workflow'[s] = "ended" /\ workflow[s] = "activity" /\ exec'[s].pc = "idle")
    BY <1>2, <1>3
  <2>4. KnownOK(s)'
    BY <1>1, <2>1, <2>2, <2>3 DEF KnownOK, Paths
  <2>5. ProgressOK(s)'
    BY <1>1, <2>1, <2>2, <2>3 DEF ProgressOK, Scanning!Remaining, FirstDirs
  <2>6. \A p : Scanning!StoodAllTheTime(s, p)' => Scanning!StoodAllTheTime(s, p)
    BY <1>1, StoodShrinks
  <2>7. PageOK(s)'
    BY <1>1, <2>1, <2>2, <2>6 DEF PageOK, Scanning!PastCursor, Scanning!Name, Upto, Paths
  <2>8. \A p \in Paths : \A n : Covered(s, p, n) => Covered(s, p, n)'
    BY <1>1 DEF Covered, Scanning!PastCursor, Scanning!Name, Upto, Paths
  <2>9. \A t \in Scans : workflow'[t] = "activity" => workflow[t] = "activity"
    BY <1>2
  <2>10. CoveredOK(s)'
    BY <1>1, <2>1, <2>6, <2>8, <2>9 DEF CoveredOK, Paths
  <2> QED
    BY <2>4, <2>5, <2>7, <2>10
<1> QED
  BY <1>4, <1>5 DEF ScanInv

\* Every step keeps the invariant.
LEMMA ScanNext ==
    ASSUME ScanBounds, ScanInv, [Scanning!Next]_scanVars
    PROVE  ScanInv'
<1>1. CASE UNCHANGED scanVars
  <2>1. UNCHANGED <<root, disk, source, scan, exec, workflow, history>>
    BY <1>1 DEF scanVars
  <2>2. \A s \in Scans : \A p : Scanning!StoodAllTheTime(s, p)' => Scanning!StoodAllTheTime(s, p)
    BY <2>1, StoodShrinks
  <2>3. ScanShape'
    BY <2>1 DEF ScanInv, ScanShape, Paths
  <2>4. ASSUME NEW s \in Scans
        PROVE  KnownOK(s)' /\ ProgressOK(s)' /\ PageOK(s)' /\ CoveredOK(s)'
    <3>1. KnownOK(s) /\ ProgressOK(s) /\ PageOK(s)
      BY DEF ScanInv
    <3>2. KnownOK(s)' /\ ProgressOK(s)'
      BY <2>1, <3>1 DEF KnownOK, ProgressOK, Scanning!Remaining, FirstDirs, Paths
    <3>3. PageOK(s)'
      BY <2>1, <2>2, <3>1 DEF PageOK, Scanning!PastCursor, Scanning!Name, Upto, Paths
    <3>4. CoveredOK(s)'
      BY <2>1, CoveredStays
    <3> QED
      BY <3>2, <3>3, <3>4
  <2> QED
    BY <2>3, <2>4 DEF ScanInv
<1>2. ASSUME NEW s \in Scans, Scanning!Step(s)
      PROVE  ScanInv'
  BY <1>2, StartPageStep, ScanDirectoryStep, RecordPageStep, CountRemainingStep, SweepStep,
     FinishScanStep, ReturnScanStep DEF Scanning!Step
<1> QED
  BY <1>1, <1>2, AcceptScanStep, DiskStep, FaultStep DEF Scanning!Next

\* A scan comes from its walk to its end by sweeping.
LEMMA EndsBySweep ==
    ASSUME ScanInv, Scanning!Next, NEW s \in Scans, exec[s].pc = "sweep", exec'[s].pc = "finish"
    PROVE  Scanning!Sweep(s)
<1>1. exec = [t \in Scans |-> exec[t]] /\ exec'[s] # exec[s]
  BY DEF ScanInv, ScanShape
<1>2. CASE Scanning!DiskChanges \/ \E t \in Scans : Scanning!Accept(t)
  BY <1>1, <1>2 DEF Scanning!DiskChanges, Scanning!Accept
<1>3. CASE Scanning!Fault
  <2>1. exec'[s] = Scanning!NoPage \/ exec'[s] = exec[s]
    BY <1>1, <1>3 DEF Scanning!Fault
  <2> QED
    BY <1>1, <2>1 DEF Scanning!NoPage
<1>4. ASSUME NEW t \in Scans, t # s, Scanning!Step(t)
      PROVE  exec'[s] = exec[s]
  <2>1. CASE Scanning!StartPage(t)
    BY <1>1, <1>4, <2>1 DEF Scanning!StartPage, Scanning!NotConfigured, Scanning!Goto
  <2>2. CASE Scanning!ScanDirectory(t)
    <3>1. \/ \E reason : exec' = [exec EXCEPT ![t].pc = "finish", ![t].reason = reason]
          \/ \E page : exec' = [exec EXCEPT ![t].pc = "record", ![t].page = page]
      BY <2>2, Zenon DEF Scanning!ScanDirectory, Scanning!Goto
    <3> QED
      BY <1>1, <1>4, <3>1
  <2>3. CASE Scanning!RecordPage(t)
    <3>1. \/ \E reason : exec' = [exec EXCEPT ![t].pc = "finish", ![t].reason = reason]
          \/ exec' = [exec EXCEPT ![t].pc = "remaining", ![t].page = None]
      BY <2>3, Zenon DEF Scanning!RecordPage, Scanning!Goto
    <3> QED
      BY <1>1, <1>4, <3>1
  <2>4. CASE Scanning!CountRemaining(t) \/ Scanning!Sweep(t) \/ Scanning!Finish(t) \/ Scanning!Return(t)
    BY <1>1, <1>4, <2>4 DEF Scanning!CountRemaining, Scanning!Sweep, Scanning!Finish, Scanning!Return, Scanning!Goto
  <2> QED
    BY <1>4, <2>1, <2>2, <2>3, <2>4 DEF Scanning!Step
<1>5. ASSUME Scanning!Step(s)
      PROVE  Scanning!Sweep(s)
  BY <1>5 DEF Scanning!Step, Scanning!StartPage, Scanning!NotConfigured, Scanning!ScanDirectory, Scanning!RecordPage,
              Scanning!CountRemaining, Scanning!Finish, Scanning!Return
<1> QED
  BY <1>1, <1>2, <1>3, <1>4, <1>5 DEF Scanning!Next

\* When nothing remains, everything that stood is recorded: follow the path to it as far as the
\* scan has gone.
LEMMA NothingLeftOut ==
    ASSUME ScanBounds, ScanInv, NEW s \in Scans, exec[s].pc = "sweep", history[s].alone,
           NEW p \in Paths, Scanning!StoodAllTheTime(s, p)
    PROVE  source[p].available /\ source[p].generation = s
<1> DEFINE reached == {n \in 0 .. Len(p) - 1 : Upto(p, n) \in DOMAIN scan[s].dirs}
<1>1. Len(p) \in Nat \ {0} /\ Upto(p, 0) = <<>>
  BY PathParts
<1>2. /\ workflow[s] = "activity" /\ Scanning!Remaining(s) = {} /\ <<>> \in DOMAIN scan[s].dirs
      /\ \A n \in 0 .. Len(p) - 1 : Covered(s, p, n)
  BY DEF ScanInv, KnownOK, ProgressOK, CoveredOK
<1>3. reached \in SUBSET (0 .. Len(p) - 1) /\ 0 \in reached /\ Len(p) - 1 \in Nat
  BY <1>1, <1>2
<1>4. PICK m \in reached : \A n \in reached : n <= m
  BY <1>3, Greatest
<1>5. m \in 0 .. Len(p) - 1 /\ Upto(p, m) \in DOMAIN scan[s].dirs /\ Covered(s, p, m)
  BY <1>2
<1>6. scan[s].dirs[Upto(p, m)].state \notin {"queued", "running"}
  BY <1>2, <1>5 DEF Scanning!Remaining
<1>7. ~(m + 1 < Len(p) /\ Upto(p, m + 1) \in DOMAIN scan[s].dirs)
  <2> SUFFICES ASSUME m + 1 < Len(p), Upto(p, m + 1) \in DOMAIN scan[s].dirs
               PROVE  FALSE
    OBVIOUS
  <2>1. m + 1 \in reached
    BY <1>1, <1>5
  <2>2. m + 1 <= m
    BY <1>4, <2>1
  <2> QED
    BY <1>5, <2>2
<1> QED
  BY <1>5, <1>6, <1>7 DEF Covered

\* ScanDataRoot, for any tree, page size, depth, number of scans, changes of the disk and
\* crashes: the sweep of a scan that no other one overlaps leaves exactly the right sources
\* available, every release that stood during the scan and none that was never there.
THEOREM ScansAreExact ==
    ASSUME ScanBounds
    PROVE  Scanning!Spec => CompletedScanIsExact
<1>1. Scanning!Init => ScanInv
  BY ScanInit
<1>2. ScanInv /\ [Scanning!Next]_Scanning!vars => ScanInv'
  BY ScanNext DEF Scanning!vars, scanVars
<1>3. ASSUME ScanInv, Scanning!Next, NEW s \in Scans, exec[s].pc = "sweep", exec'[s].pc = "finish",
             history[s].alone, NEW p \in Paths
      PROVE  /\ Scanning!StoodAllTheTime(s, p) => source'[p].available
             /\ source'[p].available => p \in history[s].ever
  <2>1. source' = Scanning!SweptSources(s)
    BY <1>3, EndsBySweep DEF Scanning!Sweep
  <2>2. /\ DOMAIN source[p] = {"available", "generation"} /\ workflow[s] # "none"
        /\ source[p].generation = s => p \in history[s].ever
    BY <1>3 DEF ScanInv, ScanShape, KnownOK
  <2>3. source'[p] = IF source[p].generation # s THEN [source[p] EXCEPT !.available = FALSE] ELSE source[p]
    BY <2>1 DEF Scanning!SweptSources, Paths
  <2>4. CASE source[p].generation = s
    BY <1>3, <2>2, <2>3, <2>4, NothingLeftOut
  <2>5. CASE source[p].generation # s
    <3>1. source'[p].available = FALSE
      BY <2>2, <2>3, <2>5
    <3>2. ~Scanning!StoodAllTheTime(s, p)
      BY <1>3, <2>5, NothingLeftOut
    <3> QED
      BY <3>1, <3>2
  <2> QED
    BY <2>4, <2>5
<1>4. ScanInv /\ [Scanning!Next]_Scanning!vars =>
         [\A s \in Scans :
             /\ exec[s].pc = "sweep" /\ exec'[s].pc = "finish"
             /\ history[s].alone
             => \A p \in Scanning!Paths :
                   /\ Scanning!StoodAllTheTime(s, p) => source'[p].available
                   /\ source'[p].available => p \in history[s].ever]_Scanning!vars
  BY <1>3 DEF Paths
<1> QED
  BY <1>1, <1>2, <1>4, PTL DEF Scanning!Spec, CompletedScanIsExact, Scanning!CompletedScanIsExact
=============================================================================
