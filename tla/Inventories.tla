---------------------------- MODULE Inventories ----------------------------
(***************************************************************************)
(* The two inventories of what is there to match, side by side: a          *)
(* behaviour is one of QbitInventory or of DataScan, the other stays where *)
(* it starts.                                                              *)
(***************************************************************************)
EXTENDS QbitInventory

CONSTANTS
    None, Scans, KindOf, InitialDisks, ScanPageSize, MaxDepth, MaxFiles, MaxReleases,
    MaxName, MaxDiskChanges, MaxCrashes

VARIABLES
    part,       \* "torrents" or "data"
    root, disk, source, scan, exec, workflow, history, diskChanges, crashes

Scanning == INSTANCE DataScan WITH
    PageSize <- ScanPageSize, MaxChanges <- MaxDiskChanges, changes <- diskChanges

scanVars == <<root, disk, source, scan, exec, workflow, history, diskChanges, crashes>>

allVars == <<part, vars, scanVars>>

\* The part that stays where it starts has one place to start.
AllInit ==
    /\ part \in {"torrents", "data"}
    /\ Init /\ (part = "data" => world = [t \in Torrents |-> NotThere])
    /\ Scanning!Init
    /\ part = "torrents" => /\ disk = CHOOSE d \in InitialDisks : TRUE
                            /\ \A p \in DOMAIN source : source[p].available

Syncing(step) == part = "torrents" /\ step /\ UNCHANGED <<part, scanVars>>

\* The one way to stop: all scans have ended.  The loop of QbitInventory never stops.
ScansDone ==
    /\ part = "data" /\ \A s \in Scans : workflow[s] = "ended"
    /\ UNCHANGED allVars

AllNext ==
    \/ Syncing(Next)
    \/ part = "data" /\ Scanning!Next /\ UNCHANGED <<part, vars>>
    \/ ScansDone

\* FairSpec of QbitInventory, in its own behaviours, and of DataScan, where nothing is
\* obliged to move before it has been accepted.
AllSpec ==
    /\ AllInit /\ [][AllNext]_allVars
    /\ WF_vars(Syncing(Loop))
    /\ SF_vars(Syncing(SyncTick))
    /\ SF_vars(Syncing(FullTick))
    /\ Scanning!Fairness

\* The sweep of a scan that no other one overlaps leaves available every release that stood
\* during the scan, and none that was never there (finish of data_scan.rs).
CompletedScanIsExact == Scanning!CompletedScanIsExact

\* Every accepted scan ends: its workflow does not continue as new for ever.
ScanEnds == Scanning!ScanEnds
=============================================================================
