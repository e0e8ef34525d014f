---------------------------- MODULE MCCandidates ----------------------------
(* A candidate with a source that matches and one that does not, and a manifest that is *)
(* renamed under its loader.                                                            *)
EXTENDS Candidates, TLC

MCVerdictOf == [good |-> "match", poor |-> "none", twin |-> "same"]

\* A matching source still to come, or complete and never loaded, beside one that does not
\* match; or the candidate itself, downloading.
MCInitialSources ==
    {[good |-> g, poor |-> "stale", twin |-> "absent"] : g \in {"downloading", "unloaded"}}
    \cup {[good |-> "absent", poor |-> "loaded", twin |-> "downloading"]}

\* A rename that drops a file, one that adds it again, and one that drops it.
MCCount == (0 :> 2) @@ (1 :> 1) @@ (2 :> 2) @@ (3 :> 1)

\* The second rename gives the first name back, the third is inside the torrent.
MCFingerprint == (0 :> "f") @@ (1 :> "g") @@ (2 :> "f") @@ (3 :> "f")

ASSUME ManifestBounds == Manifest!Bounds
=============================================================================
