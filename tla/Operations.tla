----------------------------- MODULE Operations -----------------------------
(***************************************************************************)
(* The process and the links that an injection makes, side by side: a      *)
(* behaviour is one of Service or of Hardlink, the other stays where it    *)
(* starts.                                                                 *)
(***************************************************************************)
EXTENDS Service

CONSTANTS
    LinkPlans, LinksOf, Sources, Inodes, InodeOf, InitialFiles, LinkDevice, MaxLinkRuns,
    MaxLinkChanges, MaxLinkCrashes

VARIABLES
    part,       \* "process" or "links"
    file, tree, linkRow, run, touched, linkChanges, linkCrashes

Linking == INSTANCE Hardlink WITH
    Plans <- LinkPlans, MaxRuns <- MaxLinkRuns, MaxChanges <- MaxLinkChanges,
    MaxCrashes <- MaxLinkCrashes, changes <- linkChanges, crashes <- linkCrashes

linkVars == <<file, tree, linkRow, run, touched, linkChanges, linkCrashes>>

allVars == <<part, vars, linkVars>>

AllInit == part \in {"process", "links"} /\ Init /\ Linking!Init

AllNext ==
    \/ part = "process" /\ Next /\ UNCHANGED <<part, linkVars>>
    \/ part = "links" /\ Linking!Next /\ UNCHANGED <<part, vars>>

\* Nothing is obliged to move before it has been started.
AllSpec == AllInit /\ [][AllNext]_allVars /\ Fairness

\* What is recorded as linked is the planned file in its place, and no run takes the links of
\* another run of its plan for a conflict (hardlink.rs).
LinksAreExact == Linking!LinksAreExact
=============================================================================
