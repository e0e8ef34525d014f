------------------------------ MODULE Hardlink ------------------------------
(***************************************************************************)
(* The materialisation of a plan's hardlinks (hardlink.rs, called by       *)
(* MaterializeInjectionLinks) in a file system that others change.  A run  *)
(* is an activity of one workflow instance; the run of a cancelled         *)
(* instance may still be linking when the run of the retried one, with     *)
(* the same plan or another, begins in the same namespace.  Every system   *)
(* call that changes or trusts the tree is a step; a file that is open     *)
(* stays what it is whatever happens to its path.                          *)
(*                                                                         *)
(* The rows that name a plan's files are never changed or removed once     *)
(* they are published, so a plan is a constant.  Only the folder in which  *)
(* a torrent's files lie is read when the run begins; a torrent that has   *)
(* moved by then is, here, a source whose file has changed.  Paths below   *)
(* the namespace are sequences of at most two names; <<>> is the namespace *)
(* itself.                                                                 *)
(***************************************************************************)
EXTENDS Naturals, Sequences

CONSTANTS
    Plans, LinksOf,     \* [Plans -> sequences of [source, destination, size, inode]]
    Sources,            \* absolute source paths
    Inodes, InodeOf,    \* [Inodes -> [size, device, regular]]
    InitialFiles,       \* what the sources hold at first
    LinkDevice,         \* the device of the link root
    MaxRuns,            \* workflow instances of the task
    None,
    MaxChanges, MaxCrashes  \* bounds of the model

\* A plan has links, of known sources; a file is neither a directory nor nothing.
Bounds ==
    /\ None \notin Plans \cup Inodes /\ "directory" \notin Inodes \cup {None}
    /\ InitialFiles \in [Sources -> Inodes \cup {None}]
    /\ \A p \in Plans :
          /\ Len(LinksOf[p]) \in Nat \ {0} /\ DOMAIN LinksOf[p] = 1 .. Len(LinksOf[p])
          /\ \A i \in DOMAIN LinksOf[p] : LinksOf[p][i].source \in Sources

VARIABLES
    file,       \* [Sources -> Inodes \cup {None}]
    tree,       \* the namespace: [Nodes -> Inodes \cup {"directory", None}]
    linkRow,    \* [Plans -> [state, links]]: the state of the plan, sporos_link by ordinal
    run,        \* [Runs -> [pc, plan, opened, made, error]]
    touched,    \* destinations that somebody else has changed
    changes, crashes

Runs == 1 .. MaxRuns

vars == <<file, tree, linkRow, run, touched, changes, crashes>>

Destinations == UNION {{LinksOf[p][i].destination : i \in DOMAIN LinksOf[p]} : p \in Plans}

Parent(path) == SubSeq(path, 1, Len(path) - 1)

Nodes == {<<>>} \cup Destinations \cup {Parent(d) : d \in Destinations}

NoRun == [pc |-> "none", plan |-> None, opened |-> None, made |-> <<>>, error |-> FALSE]

\* planned_links, and the link that is next.
Links(r) == LinksOf[run[r].plan]

Link(r) == Links(r)[Len(run[r].made) + 1]

Goto(r, pc) == run' = [run EXCEPT ![r].pc = pc]

\* The first error ends the loop; the links made so far are persisted.
Stop(r) == run' = [run EXCEPT ![r].pc = "persist", ![r].error = TRUE]

\* The next link, or the end of the loop.
Made(r, inode) ==
    LET made == Append(run[r].made, inode)
    IN  run' = [run EXCEPT ![r].made = made, ![r].opened = None,
                           ![r].pc = IF Len(made) = Len(Links(r)) THEN "persist" ELSE "namespace"]

(***************************************************************************)
(* The activity.                                                           *)
(***************************************************************************)
\* An instance reaches the activity with the plan that its evaluation has chosen, a retried
\* one after the one it replaces.
Start(r, p) ==
    /\ run[r].pc = "none"
    /\ r > 1 => run[r - 1].pc # "none"
    /\ run' = [run EXCEPT ![r] = [NoRun EXCEPT !.pc = "root", !.plan = p]]
    /\ UNCHANGED <<file, tree, linkRow, touched, changes, crashes>>

\* HardlinkMaterializer::open.  Without the root nothing is persisted.
OpenRoot(r) ==
    /\ run[r].pc = "root"
    /\ \/ Goto(r, "namespace") /\ UNCHANGED changes
       \/ /\ changes < MaxChanges
          /\ changes' = changes + 1
          /\ run' = [run EXCEPT ![r].pc = "failed"]
    /\ UNCHANGED <<file, tree, linkRow, touched, crashes>>

\* ensure_directory: a directory is made or found; anything else is in the way.
EnsureDirectory(r, path, pc) ==
    IF tree[path] \in {None, "directory"}
    THEN tree' = [tree EXCEPT ![path] = "directory"] /\ Goto(r, pc)
    ELSE Stop(r) /\ UNCHANGED tree

EnsureNamespace(r) ==
    /\ run[r].pc = "namespace"
    /\ EnsureDirectory(r, <<>>, "source")
    /\ UNCHANGED <<file, linkRow, touched, changes, crashes>>

\* What an opened source must be.
Fits(inode, link) ==
    /\ InodeOf[inode].regular
    /\ InodeOf[inode].size = link.size
    /\ link.inode # None => inode = link.inode
    /\ InodeOf[inode].device = LinkDevice

\* The sources are as planned, and the files of a plan do not get in each other's way.
WellPlanned ==
    \A p \in Plans : \A i, j \in DOMAIN LinksOf[p] :
        LET a == LinksOf[p][i]
            b == LinksOf[p][j]
        IN  /\ InitialFiles[a.source] # None /\ Fits(InitialFiles[a.source], a)
            /\ b.destination \notin {<<>>, Parent(a.destination)}
            /\ a.destination = b.destination => a.source = b.source

OpenSource(r) ==
    LET inode == file[Link(r).source]
    IN  /\ run[r].pc = "source"
        /\ IF inode # None /\ Fits(inode, Link(r))
           THEN run' = [run EXCEPT ![r].pc = "parent", ![r].opened = inode]
           ELSE Stop(r)
        /\ UNCHANGED <<file, tree, linkRow, touched, changes, crashes>>

EnsureParent(r) ==
    /\ run[r].pc = "parent"
    /\ EnsureDirectory(r, Parent(Link(r).destination), "link")
    /\ UNCHANGED <<file, linkRow, touched, changes, crashes>>

\* Faulty variant: the source is linked by its path.
LinkedByPath(r) == IF file[Link(r).source] = None THEN run[r].opened ELSE file[Link(r).source]

\* linkat with EMPTY_PATH links the file that was opened.
Linked(r) == run[r].opened

\* CreateLink: the last path of the opened file is gone, or the file system allows no link.
Refused(r) ==
    \/ file[Link(r).source] # run[r].opened /\ UNCHANGED changes
    \/ changes < MaxChanges /\ changes' = changes + 1

\* linkat never replaces what is there.
LinkAt(r) ==
    LET node == Link(r).destination
    IN  /\ run[r].pc = "link"
        /\ \/ /\ tree[node] = None
              /\ tree' = [tree EXCEPT ![node] = Linked(r)]
              /\ Made(r, run[r].opened)
              /\ UNCHANGED changes
           \/ tree[node] # None /\ Goto(r, "existing") /\ UNCHANGED <<tree, changes>>
           \/ Refused(r) /\ Stop(r) /\ UNCHANGED tree
        /\ UNCHANGED <<file, linkRow, touched, crashes>>

\* Only the same file may be there already.
Existing(r) ==
    /\ run[r].pc = "existing"
    /\ IF tree[Link(r).destination] = run[r].opened THEN Made(r, run[r].opened) ELSE Stop(r)
    /\ UNCHANGED <<file, tree, linkRow, touched, changes, crashes>>

PersistedState(r) == IF run[r].error THEN "links_partial" ELSE "links_complete"

\* persist_links: one transaction upserts a row for each link that was made.
PersistLinks(r) ==
    LET made == run[r].made
        known == linkRow[run[r].plan].links
    IN  /\ run[r].pc = "persist"
        /\ linkRow' = [linkRow EXCEPT ![run[r].plan] =
              [state |-> PersistedState(r),
               links |-> made \o SubSeq(known, Len(made) + 1, Len(known))]]
        /\ Goto(r, IF run[r].error THEN "failed" ELSE "ready")
        /\ UNCHANGED <<file, tree, touched, changes, crashes>>

Activity(r) ==
    \/ OpenRoot(r) \/ EnsureNamespace(r) \/ OpenSource(r) \/ EnsureParent(r)
    \/ LinkAt(r) \/ Existing(r) \/ PersistLinks(r)

(***************************************************************************)
(* The rest of the machine.                                                *)
(***************************************************************************)
\* The process dies, or the reply is lost, and the activity is delivered again.
Crash ==
    /\ crashes < MaxCrashes
    /\ crashes' = crashes + 1
    /\ run' = [r \in Runs |-> IF run[r].pc \in {"none", "failed"} THEN run[r]
                              ELSE [NoRun EXCEPT !.pc = "root", !.plan = run[r].plan]]
    /\ UNCHANGED <<file, tree, linkRow, touched, changes>>

\* A source is replaced, moved or deleted; a destination is deleted or put there by others.
Change ==
    /\ changes < MaxChanges
    /\ changes' = changes + 1
    /\ \/ /\ \E s \in Sources, inode \in Inodes \cup {None} : file' = [file EXCEPT ![s] = inode]
          /\ UNCHANGED <<tree, touched>>
       \/ \E node \in Nodes, inode \in Inodes \cup {None} :
            /\ tree[node] # "directory"
            /\ node # <<>> => tree[Parent(node)] = "directory"
            /\ tree' = [tree EXCEPT ![node] = inode]
            /\ touched' = touched \cup {node}
            /\ UNCHANGED file
    /\ UNCHANGED <<linkRow, run, crashes>>

Init ==
    /\ file = InitialFiles
    /\ tree = [node \in Nodes |-> None]
    /\ linkRow = [p \in Plans |-> [state |-> "none", links |-> <<>>]]
    /\ run = [r \in Runs |-> NoRun]
    /\ touched = {}
    /\ changes = 0
    /\ crashes = 0

Next ==
    \/ \E r \in Runs : Activity(r) \/ \E p \in Plans : Start(r, p)
    \/ Crash \/ Change

Spec == Init /\ [][Next]_vars

(***************************************************************************)
(* Properties.                                                             *)
(***************************************************************************)
\* Every link that is recorded as verified is the planned file, of the planned size and
\* identity, and is what the destination holds until somebody else changes it: neither a
\* source replaced between its check and its link, nor another run with another plan, gets
\* in; and a plan is recorded as complete only with all of its links.
LinksArePlanned ==
    \A p \in Plans :
        LET row == linkRow[p]
        IN  /\ row.state = "links_complete" => Len(row.links) = Len(LinksOf[p])
            /\ \A i \in DOMAIN row.links :
                  /\ Fits(row.links[i], LinksOf[p][i])
                  /\ LinksOf[p][i].destination \notin touched =>
                        tree[LinksOf[p][i].destination] = row.links[i]

\* A materialisation fails only when somebody else has changed something or another plan is
\* in the same place: run again after a crash, or beside itself, it finds its own links.
OwnLinksAreNoConflict ==
    (\E r \in Runs : run[r].pc = "failed") =>
        \/ changes > 0
        \/ \E r, s \in Runs : None \notin {run[r].plan, run[s].plan} /\ run[r].plan # run[s].plan

LinksAreExact == LinksArePlanned /\ OwnLinksAreNoConflict
=============================================================================
