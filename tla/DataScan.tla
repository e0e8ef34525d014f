------------------------------ MODULE DataScan ------------------------------
(***************************************************************************)
(* ScanDataRoot (data_scan.rs): scans of one data root.  A scan walks the  *)
(* directories it has queued, one page of names at a time, each page one   *)
(* activity: the page is read from disk, then recorded in one transaction  *)
(* with the cursor.  When no directory is left it sweeps: every source of  *)
(* the root that it has not seen becomes unavailable.  The disk changes    *)
(* meanwhile, and activities are delivered again after a crash.            *)
(***************************************************************************)
EXTENDS Integers, FiniteSets, Sequences

CONSTANTS
    Scans,              \* operations; the generation of a scan derives from its operation
    KindOf,             \* the tree: its paths, sequences of names, with what each one is
    InitialDisks,       \* sets of paths present at the start
    PageSize, MaxDepth, MaxFiles, MaxReleases,
    None,
    MaxChanges, MaxCrashes      \* bounds of the model

VARIABLES
    root,       \* the root itself: "present", "missing", "unsafe"
    disk,       \* the paths present
    source,     \* sporos_data_source by path: [available, generation]
    scan,       \* [Scans -> [state, reason, terminal, dirs, observed]]
    exec,       \* [Scans -> the running page]
    workflow,   \* [Scans -> "none", "activity", "ended"]
    history,    \* [Scans -> [always, ever, alone]]: what was on disk all the time and at
                \* some time since the scan was accepted, and whether no other one ran
    changes, crashes

vars == <<root, disk, source, scan, exec, workflow, history, changes, crashes>>

Paths == DOMAIN KindOf
Parent == [p \in Paths |-> SubSeq(p, 1, Len(p) - 1)]
Name == [p \in Paths |-> p[Len(p)]]
Ancestry == [p \in Paths \cup {<<>>} |-> {SubSeq(p, 1, n) : n \in 1 .. Len(p)}]

\* Names are numbers, and what holds something is a directory.
Bounds(maxName) ==
    /\ IsFiniteSet(Paths) /\ {PageSize, MaxDepth, maxName} \subseteq Nat
    /\ None \notin Scans
    /\ InitialDisks \subseteq SUBSET Paths
    /\ \A p \in Paths :
          /\ Len(p) > 0 /\ p \in Seq(0 .. maxName)
          /\ \A directory \in Ancestry[p] \ {p} :
                directory \in Paths /\ KindOf[directory] \in {"directory", "disc"}

(***************************************************************************)
(* What a page of a directory holds.                                       *)
(***************************************************************************)
\* A file is there when its directories are.
Visible(path) == Ancestry[path] \subseteq disk

Below(directory) == {p \in disk : Parent[p] = directory /\ Visible(p)}

\* Faulty variant: the entry the cursor stands on is passed over with its successor.
PastCursorByOne(path, cursor) == cursor = None \/ Name[path] > cursor + 1

PastCursor(path, cursor) == cursor = None \/ Name[path] > cursor

\* The smallest names after the cursor, at most PageSize of them.
Selected(directory, cursor) ==
    LET after == {p \in Below(directory) : PastCursor(p, cursor)}
    IN  {p \in after : Cardinality({q \in after : Name[q] <= Name[p]}) <= PageSize}

HasMore(directory, cursor) ==
    Selected(directory, cursor) # {p \in Below(directory) : PastCursor(p, cursor)}

LastName(selected) ==
    IF selected = {} THEN None
    ELSE CHOOSE name \in {Name[p] : p \in selected} : \A p \in selected : Name[p] <= name

\* A "disc" is a directory named BDMV or VIDEO_TS; a symbolic link is passed over.
IsDirectory(path) == KindOf[path] \in {"directory", "disc"}

LooksLikeRelease(path) == IsDirectory(path) /\ \E p \in Below(path) : KindOf[p] \in {"video", "disc"}

FilesIn(path) == {p \in disk : path \in Ancestry[p] /\ Visible(p) /\ KindOf[p] \in {"video", "other"}}

\* A video file, or a directory that looks like a release and has a video somewhere.
IsRelease(path) ==
    KindOf[path] = "video" \/ (LooksLikeRelease(path) /\ \E p \in FilesIn(path) : KindOf[p] = "video")

ReadPage(directory, cursor) ==
    LET selected == Selected(directory, cursor)
    IN  [releases |-> {p \in selected : IsRelease(p)},
         children |-> {p \in selected : /\ IsDirectory(p)
                                        /\ ~LooksLikeRelease(p)
                                        /\ Len(directory) < MaxDepth},
         last |-> LastName(selected),
         hasMore |-> HasMore(directory, cursor),
         failure |-> \E p \in selected : LooksLikeRelease(p) /\ Cardinality(FilesIn(p)) > MaxFiles]

(***************************************************************************)
(* Scans.                                                                  *)
(***************************************************************************)
Remaining(s) == {d \in DOMAIN scan[s].dirs : scan[s].dirs[d].state \in {"queued", "running"}}

NoPage == [pc |-> "idle", directory |-> <<>>, page |-> None, reason |-> None]

Goto(s, pc, reason) == exec' = [exec EXCEPT ![s].pc = pc, ![s].reason = reason]

\* A repeated request finds its operation and changes nothing.
Accept(s) ==
    /\ workflow[s] = "none"
    /\ workflow' = [workflow EXCEPT ![s] = "activity"]
    /\ scan' = [scan EXCEPT ![s].state = "queued",
                            ![s].dirs = [d \in {<<>>} |-> [state |-> "queued", cursor |-> None]]]
    /\ history' = [t \in Scans |->
                     IF t = s THEN [always |-> disk, ever |-> disk,
                                    alone |-> \A u \in Scans : workflow[u] # "activity"]
                     ELSE [history[t] EXCEPT !.alone = FALSE]]
    /\ UNCHANGED <<root, disk, source, exec, changes, crashes>>

\* The root is checked and the next directory chosen, in the order of the paths.
Before(p, q) ==
    \E n \in 1 .. Len(q) : /\ n <= Len(p) + 1 /\ \A k \in 1 .. n - 1 : p[k] = q[k]
                           /\ n > Len(p) \/ p[n] < q[n]

\* The configuration is read at the start of a process: another one may lack the root.
NotConfigured(s) ==
    crashes > 0 /\ Goto(s, "finish", "root_not_configured") /\ UNCHANGED source

StartPage(s) ==
    /\ workflow[s] = "activity"
    /\ exec[s].pc = "idle"
    /\ \/ NotConfigured(s)
       \/ /\ root = "missing"
          /\ source' = [p \in Paths |-> [source[p] EXCEPT !.available = FALSE]]
          /\ Goto(s, "finish", "root_unavailable")
       \/ root = "unsafe" /\ Goto(s, "finish", "unsafe_root") /\ UNCHANGED source
       \/ root = "present" /\ Remaining(s) = {} /\ Goto(s, "sweep", None) /\ UNCHANGED source
       \/ /\ root = "present" /\ Remaining(s) # {}
          /\ exec' = [exec EXCEPT ![s].pc = "read",
                        ![s].directory = CHOOSE d \in Remaining(s) :
                                            \A other \in Remaining(s) \ {d} : Before(d, other)]
          /\ UNCHANGED source
    /\ UNCHANGED <<root, disk, scan, workflow, history, changes, crashes>>

\* scan_directory, on the blocking pool; a directory that is gone is an error.  A root that
\* has become a symbolic link is noticed here when the root itself is the directory.
ScanDirectory(s) ==
    LET directory == exec[s].directory
        page == ReadPage(directory, scan[s].dirs[directory].cursor)
    IN  /\ exec[s].pc = "read"
        /\ IF root = "missing" \/ (root = "unsafe" /\ directory = <<>>) \/ ~Visible(directory)
           THEN Goto(s, "finish", "filesystem_error")
           ELSE IF page.failure THEN Goto(s, "finish", "file_limit")
           ELSE exec' = [exec EXCEPT ![s].pc = "record", ![s].page = page]
        /\ UNCHANGED <<root, disk, source, scan, workflow, history, changes, crashes>>

DirectoryDone(page) == ~page.hasMore

\* persist_release: the source, its facts and its files, under the scan's generation.
Persisted(s, releases) ==
    [p \in Paths |-> IF p \in releases THEN [available |-> TRUE, generation |-> s] ELSE source[p]]

\* The transaction of a page: sources, their searches, children, cursor and counters.
RecordPage(s) ==
    LET page == exec[s].page
        directory == exec[s].directory
        old == scan[s].dirs
        observed == scan[s].observed + Cardinality(page.releases)
        entry == IF DirectoryDone(page) THEN [state |-> "completed", cursor |-> None]
                 ELSE [state |-> "running", cursor |-> page.last]
        dirs == [d \in DOMAIN old \cup page.children |->
                   IF d = directory THEN entry
                   ELSE IF d \in DOMAIN old THEN old[d]
                   ELSE [state |-> "queued", cursor |-> None]]
    IN  /\ exec[s].pc = "record"
        /\ IF observed > MaxReleases
           THEN Goto(s, "finish", "release_limit") /\ UNCHANGED <<source, scan>>
           ELSE /\ source' = Persisted(s, page.releases)
                /\ scan' = [scan EXCEPT ![s].dirs = dirs, ![s].observed = observed, ![s].state = "running"]
                /\ exec' = [exec EXCEPT ![s].pc = "remaining", ![s].page = None]
        /\ UNCHANGED <<root, disk, workflow, history, changes, crashes>>

CountRemaining(s) ==
    /\ exec[s].pc = "remaining"
    /\ IF Remaining(s) = {} THEN Goto(s, "sweep", None) ELSE Goto(s, "continue", None)
    /\ UNCHANGED <<root, disk, source, scan, workflow, history, changes, crashes>>

SweptSources(s) ==
    [p \in Paths |-> IF source[p].generation # s THEN [source[p] EXCEPT !.available = FALSE] ELSE source[p]]

Sweep(s) ==
    /\ exec[s].pc = "sweep"
    /\ source' = SweptSources(s)
    /\ Goto(s, "finish", "completed")
    /\ UNCHANGED <<root, disk, scan, workflow, history, changes, crashes>>

\* finish, one transaction over the scan, the operation and the task.
Finish(s) ==
    /\ exec[s].pc = "finish"
    /\ scan' = [scan EXCEPT ![s].reason = exec[s].reason, ![s].terminal = TRUE,
                  ![s].state = IF exec[s].reason \in {"completed", "root_unavailable"}
                               THEN "completed" ELSE "failed"]
    /\ Goto(s, "done", exec[s].reason)
    /\ UNCHANGED <<root, disk, source, workflow, history, changes, crashes>>

\* Faulty variant: a scan that has failed is taken up again.
ReturnUnlessCompleted(s) ==
    /\ exec[s].pc \in {"continue", "done"}
    /\ exec' = [exec EXCEPT ![s] = NoPage]
    /\ workflow' = [workflow EXCEPT ![s] = IF exec[s].reason = "completed" THEN "ended" ELSE @]
    /\ UNCHANGED <<root, disk, source, scan, history, changes, crashes>>

\* The workflow continues as new for the next page, or ends.
Return(s) ==
    /\ exec[s].pc \in {"continue", "done"}
    /\ exec' = [exec EXCEPT ![s] = NoPage]
    /\ workflow' = [workflow EXCEPT ![s] = IF exec[s].pc = "done" THEN "ended" ELSE @]
    /\ UNCHANGED <<root, disk, source, scan, history, changes, crashes>>

(***************************************************************************)
(* Disk and faults.                                                        *)
(***************************************************************************)
DiskChanges ==
    /\ changes < MaxChanges
    /\ changes' = changes + 1
    /\ \/ /\ \E p \in Paths : disk' = (disk \ {p}) \cup ({p} \ disk)
          /\ UNCHANGED root
       \/ /\ root' \in {"present", "missing", "unsafe"} \ {root}
          /\ UNCHANGED disk
    /\ history' = [s \in Scans |->
                     [history[s] EXCEPT !.always = IF root' = "missing" THEN {} ELSE @ \cap disk',
                                        !.ever = @ \cup disk']]
    /\ UNCHANGED <<source, scan, exec, workflow, crashes>>

\* The process dies, or the retries of one page run out and the workflow fails: the
\* projection sees to the task, nobody to the scan and its operation.
Fault ==
    /\ crashes < MaxCrashes
    /\ crashes' = crashes + 1
    /\ \/ /\ exec' = [s \in Scans |-> NoPage]
          /\ UNCHANGED workflow
       \/ \E s \in Scans : /\ workflow[s] = "activity"
                            /\ exec' = [exec EXCEPT ![s] = NoPage]
                            /\ workflow' = [workflow EXCEPT ![s] = "ended"]
    /\ UNCHANGED <<root, disk, source, scan, history, changes>>

Init ==
    /\ root = "present"
    /\ disk \in InitialDisks
    /\ \E known \in BOOLEAN : source = [p \in Paths |-> [available |-> known, generation |-> None]]
    /\ scan = [s \in Scans |-> [state |-> "none", reason |-> None, terminal |-> FALSE,
                                dirs |-> <<>>, observed |-> 0]]
    /\ exec = [s \in Scans |-> NoPage]
    /\ workflow = [s \in Scans |-> "none"]
    /\ history = [s \in Scans |-> [always |-> {}, ever |-> {}, alone |-> TRUE]]
    /\ changes = 0
    /\ crashes = 0

Step(s) ==
    \/ StartPage(s) \/ ScanDirectory(s) \/ RecordPage(s) \/ CountRemaining(s)
    \/ Sweep(s) \/ Finish(s) \/ Return(s)

Next == DiskChanges \/ Fault \/ \E s \in Scans : Accept(s) \/ Step(s)

\* The runtime keeps delivering the activities of a scan.
Fairness == \A s \in Scans : WF_vars(Step(s))

Spec == Init /\ [][Next]_vars /\ Fairness

(***************************************************************************)
(* Properties.                                                             *)
(***************************************************************************)
MayHold(paths, path) == \E p \in paths : Parent[p] = path /\ KindOf[p] \in {"video", "disc"}

\* A release that stood all the time in directories that were never releases themselves.
StoodAllTheTime(s, path) ==
    LET always == history[s].always
    IN  /\ Ancestry[path] \subseteq always
        /\ \A directory \in Ancestry[path] \ {path} : ~MayHold(history[s].ever, directory)
        /\ Len(path) - 1 <= MaxDepth
        /\ \/ KindOf[path] = "video"
           \/ /\ IsDirectory(path) /\ MayHold(always, path)
              /\ \E p \in always : path \in Ancestry[p] /\ Ancestry[p] \subseteq always /\ KindOf[p] = "video"

\* A scan that no other one overlaps leaves exactly the right sources available when it
\* sweeps: every release that stood during the scan, and none that was never there, however
\* the names are paged, the disk changes and activities are delivered again.
CompletedScanIsExact ==
    [][\A s \in Scans :
          /\ exec[s].pc = "sweep" /\ exec'[s].pc = "finish"
          /\ history[s].alone
          => \A p \in Paths :
                /\ StoodAllTheTime(s, p) => source'[p].available
                /\ source'[p].available => p \in history[s].ever]_vars

\* Every accepted scan ends.
ScanEnds == \A s \in Scans : workflow[s] = "activity" ~> workflow[s] = "ended"
=============================================================================
