----------------------------- MODULE Candidates -----------------------------
(***************************************************************************)
(* The candidate that waits for its sources and the manifest of one        *)
(* source, side by side: a behaviour is one of Candidate or one of         *)
(* QbitManifest, the other stays where it starts.                          *)
(***************************************************************************)
EXTENDS Candidate

CONSTANTS MaxContent, Count, Fingerprint, MaxManifestFaults

VARIABLES
    part,       \* "candidate" or "manifest"
    torrent, row, files, loader, reader, manifestFaults

Manifest == INSTANCE QbitManifest WITH MaxFaults <- MaxManifestFaults, faults <- manifestFaults

manifestVars == <<torrent, row, files, loader, reader, manifestFaults>>

allVars == <<part, vars, manifestVars>>

\* The part that stays where it starts has one place to start.
AllInit ==
    /\ part \in {"manifest", "candidate"}
    /\ Init /\ (part = "manifest" => source = CHOOSE s \in InitialSources : TRUE)
    /\ Manifest!Init /\ (part = "candidate" => ~torrent.done)

Loading(step) == part = "manifest" /\ step /\ UNCHANGED <<part, vars>>

AllNext ==
    \/ part = "candidate" /\ Next /\ UNCHANGED <<part, manifestVars>>
    \/ Loading(Manifest!Next)

\* Spec of Candidate and FairSpec of QbitManifest, each in its own behaviours.
AllSpec ==
    /\ AllInit /\ [][AllNext]_allVars
    /\ Fairness
    /\ WF_allVars(Loading(Manifest!Loop)) /\ WF_allVars(Loading(Manifest!Reader))

\* What is published of a torrent is one whole listing, and an evaluation judges a whole one or
\* nothing, whatever interrupted loads left behind (qbit_projection.rs).
WholeListings == Manifest!WholeListings

\* A manifest that counts as loaded was listed after the last change of the torrent's
\* fingerprint that the projection has seen (project_torrent's manifest_needed).
LoadedAfterLastChange == Manifest!LoadedAfterLastChange

\* A torrent that is complete is judged in the end, though loads of its manifest fail.
CompleteSourceIsJudged == Manifest!CompleteSourceIsJudged
=============================================================================
