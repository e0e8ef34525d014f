---------------------------- MODULE MCOperations ----------------------------
(* Three versions of the process, and the links of two plans.                          *)
EXTENDS Operations, TLC

\* Two versions, and one whose second migration differs.
MCMigrationsOf == [old |-> <<"a", "b">>, new |-> <<"a", "b", "c">>, fork |-> <<"a", "x">>]

-----------------------------------------------------------------------------
\* Two plans that disagree on a file; one names its inodes, as a scanned source does.
PlannedLink(from, to, size, inode) ==
    [source |-> from, destination |-> to, size |-> size, inode |-> inode]

MCLinksOf ==
    [p |-> << PlannedLink("s1", <<"d", "f">>, 1, None), PlannedLink("s2", <<"g">>, 2, None) >>,
     q |-> << PlannedLink("s3", <<"d", "f">>, 1, "n3"), PlannedLink("s2", <<"g">>, 2, "n2") >>]

MCInodeOf ==
    LET inode(size, device, regular) == [size |-> size, device |-> device, regular |-> regular]
    IN  [n1 |-> inode(1, "disk", TRUE), n2 |-> inode(2, "disk", TRUE), n3 |-> inode(1, "disk", TRUE),
         other |-> inode(1, "elsewhere", TRUE), symlink |-> inode(2, "disk", FALSE)]

MCInitialFiles == [s1 |-> "n1", s2 |-> "n2", s3 |-> "n3"]

ASSUME LinkBounds == Linking!Bounds /\ Linking!WellPlanned
=============================================================================
