---------------------------- MODULE QbitManifest ----------------------------
(***************************************************************************)
(* The file manifest of one qBittorrent torrent: projection marks it stale *)
(* (project_torrent), the inventory loop loads it (refresh_manifests and   *)
(* load_manifest of qbit_sync.rs over qbit_projection.rs), and a           *)
(* candidate's evaluation reads it (candidate_workflow.rs).  Files are     *)
(* staged under the next version and published in one transaction.  The    *)
(* evaluation runs beside the loop and reads the torrent's row and its     *)
(* files in two statements.                                                *)
(*                                                                         *)
(* The content of the torrent is a number that grows whenever it, or a     *)
(* file of it, is renamed or moved; content c has Count[c] files, each     *)
(* told apart from those of every other content.  The row keeps only a     *)
(* fingerprint of the hashes, the name, the size and the two paths:        *)
(* contents that differ inside the torrent, or a name that is given back,  *)
(* have the same one.  The torrent is in the inventory from the start and  *)
(* after the baseline, and is not removed; the candidate's deadline is     *)
(* left out.                                                               *)
(***************************************************************************)
EXTENDS Naturals, FiniteSets

CONSTANTS
    MaxContent,   \* bound on renames
    Count,        \* number of files of each content
    Fingerprint,  \* content_fingerprint of each content
    MaxFaults     \* bound on failed loads and crashes

\* The listings that are checked, and proved about.
Bounds == MaxContent \in Nat /\ Count \in [0 .. MaxContent -> Nat]

VARIABLES
    torrent,   \* in qBittorrent: its content, and whether it is complete
    row,       \* sporos_qbit_torrent, by the content that it was projected from; since is
               \* history: the content with which its present fingerprint came
    files,     \* sporos_source_file, as (version, ordinal) -> content and availability
    loader,    \* load_manifest
    reader,    \* an evaluation of a candidate that only this source matches
    faults

vars == <<torrent, row, files, loader, reader, faults>>

Listing(c) == {[ordinal |-> i, content |-> c] : i \in 0 .. Count[c] - 1}
NoLoad == [pc |-> "idle", version |-> 0, content |-> 0, next |-> 0]
NoRead == [pc |-> "start", version |-> 0, count |-> 0, files |-> {}]

\* One type invariant; a version and an ordinal identify a file.
TypeOK ==
    /\ torrent \in [content : 0 .. MaxContent, done : BOOLEAN]
    /\ row \in [content : 0 .. MaxContent, since : 0 .. MaxContent, done : BOOLEAN, version : Nat,
                state : {"unloaded", "stale", "loading", "loaded"}]
    /\ \A f \in files : f.version \in 1 .. row.version + 1
    /\ \A f, g \in files : f.version = g.version /\ f.ordinal = g.ordinal => f = g
    /\ loader.pc \in {"idle", "fetch", "stage"}
    /\ loader.pc # "idle" => loader.version = row.version + 1
    /\ reader.pc \in {"start", "read", "judged", "waiting"}

Init ==
    /\ torrent \in [content : {0}, done : BOOLEAN]
    /\ row = [content |-> 0, since |-> 0, done |-> torrent.done, version |-> 0, state |-> "unloaded"]
    /\ files = {}
    /\ loader = NoLoad
    /\ reader = NoRead
    /\ faults = 0

-----------------------------------------------------------------------------
(* qBittorrent and the projection                                          *)

\* The torrent, or a file of it, gets another name or place, or gets an old one back.
Rename ==
    /\ torrent.content < MaxContent
    /\ torrent' = [torrent EXCEPT !.content = @ + 1]
    /\ UNCHANGED <<row, files, loader, reader, faults>>

Complete ==
    /\ ~torrent.done
    /\ torrent' = [torrent EXCEPT !.done = TRUE]
    /\ UNCHANGED <<row, files, loader, reader, faults>>

\* Faulty variant: a changed fingerprint does not invalidate the manifest.
ManifestNeededOnCompletion == ~row.done /\ torrent.done

FingerprintChanged == Fingerprint[row.content] # Fingerprint[torrent.content]

\* manifest_needed
ManifestNeeded ==
    \/ ~row.done /\ torrent.done
    \/ FingerprintChanged /\ row.version > 0

\* project_torrent, between two loads of the same loop.
Project ==
    /\ loader.pc = "idle"
    /\ row.content # torrent.content \/ row.done # torrent.done
    /\ row' = [row EXCEPT !.content = torrent.content, !.done = torrent.done,
                          !.since = IF FingerprintChanged THEN torrent.content ELSE @,
                          !.state = IF ManifestNeeded THEN "stale" ELSE @]
    /\ UNCHANGED <<torrent, files, loader, reader, faults>>

-----------------------------------------------------------------------------
(* Loading                                                                 *)

\* The manifests that refresh_manifests takes up.
Wanted == row.state \in {"stale", "loading"}

Off(f) == [f EXCEPT !.available = FALSE]

\* prepare_qbit_manifest
Prepare ==
    /\ loader.pc = "idle"
    /\ Wanted
    /\ row' = [row EXCEPT !.state = "loading"]
    /\ files' = {IF f.version = row.version + 1 THEN Off(f) ELSE f : f \in files}
    /\ loader' = [NoLoad EXCEPT !.pc = "fetch", !.version = row.version + 1]
    /\ UNCHANGED <<torrent, reader, faults>>

\* torrent_files: the list as it is now.
Fetch ==
    /\ loader.pc = "fetch"
    /\ loader' = [loader EXCEPT !.pc = "stage", !.content = torrent.content]
    /\ UNCHANGED <<torrent, row, files, reader, faults>>

\* project_qbit_files, a batch of one: inserted, or over what an earlier load
\* of this version has left.
Stage ==
    /\ loader.pc = "stage"
    /\ loader.next < Count[loader.content]
    /\ files' = {f \in files : f.version # loader.version \/ f.ordinal # loader.next}
                \cup {[version |-> loader.version, ordinal |-> loader.next,
                       content |-> loader.content, available |-> FALSE]}
    /\ loader' = [loader EXCEPT !.next = @ + 1]
    /\ UNCHANGED <<torrent, row, reader, faults>>

\* Faulty variant: every file of the version is published.
PublishedFilesAll(f) == f.version = loader.version

PublishedFiles(f) == f.version = loader.version /\ f.ordinal < Count[loader.content]

\* finish_qbit_manifest
Publish ==
    /\ loader.pc = "stage"
    /\ loader.next = Count[loader.content]
    /\ files' = {[f EXCEPT !.available = PublishedFiles(f)] : f \in files}
    /\ row' = [row EXCEPT !.version = loader.version, !.state = "loaded"]
    /\ loader' = NoLoad
    /\ UNCHANGED <<torrent, reader, faults>>

\* load_manifest's error path (fail_qbit_manifest), which a crash skips.
Fail ==
    /\ loader.pc # "idle"
    /\ faults < MaxFaults
    /\ faults' = faults + 1
    /\ row' \in {row, [row EXCEPT !.state = "stale"]}
    /\ loader' = NoLoad
    /\ UNCHANGED <<torrent, files, reader>>

-----------------------------------------------------------------------------
(* Evaluation                                                              *)

Available(version) == {f \in files : f.version = version /\ f.available}

\* Faulty variant: the manifest is not requested.
ReadRowSilent ==
    /\ reader.pc \in {"start", "waiting"}
    /\ reader' = [NoRead EXCEPT !.pc = IF row.done /\ row.state = "loaded" THEN "read" ELSE "waiting",
                                !.version = row.version,
                                !.count = Cardinality(Available(row.version))]
    /\ UNCHANGED <<torrent, row, files, loader, faults>>

\* candidate_sources and request_manifest: the row decides whether the files are
\* read, the manifest is requested, or the candidate waits.
ReadRow ==
    LET loaded == row.version > 0 /\ row.state = "loaded" IN
    /\ reader.pc \in {"start", "waiting"}
    /\ reader' = [NoRead EXCEPT !.pc = IF row.done /\ loaded THEN "read" ELSE "waiting",
                                !.version = row.version,
                                !.count = Cardinality(Available(row.version))]
    /\ row' = IF row.done /\ row.state = "unloaded" THEN [row EXCEPT !.state = "stale"] ELSE row
    /\ UNCHANGED <<torrent, files, loader, faults>>

\* source_files, of the version that the row named; what is read is judged.
ReadFiles ==
    /\ reader.pc = "read"
    /\ reader' = [reader EXCEPT !.pc = "judged", !.files = Available(reader.version)]
    /\ UNCHANGED <<torrent, row, files, loader, faults>>

\* Another candidate.
Again ==
    /\ reader.pc = "judged"
    /\ reader' = NoRead
    /\ UNCHANGED <<torrent, row, files, loader, faults>>

Loop == Project \/ Prepare \/ Fetch \/ Stage \/ Publish

Reader == ReadRow \/ ReadFiles \/ Again

Next == Rename \/ Complete \/ Loop \/ Fail \/ Reader

Spec == Init /\ [][Next]_vars

\* The loop and the candidate's workflow go on.
FairSpec == Spec /\ WF_vars(Loop) /\ WF_vars(Reader)

-----------------------------------------------------------------------------
(* Properties                                                              *)

Shown(fs) == {[ordinal |-> f.ordinal, content |-> f.content] : f \in fs}

\* "publishes_a_manifest_only_after_all_files_are_staged" (tests of
\* qbit_projection.rs): what is available is at all times one whole listing,
\* whatever interrupted loads have left under the next version.
PublishedIsOneListing ==
    row.version > 0 =>
        \E c \in 0 .. MaxContent : Shown({f \in files : f.available}) = Listing(c)

\* A change of the fingerprint that the projection sees is never missed: a manifest that
\* counts as loaded is a listing that the torrent had after that change, whatever loads were
\* under way or failed around it.  (It need not be the present one: see Fingerprint.)
LoadedAfterLastChange ==
    row.state = "loaded" =>
        \E c \in row.since .. torrent.content : Shown(Available(row.version)) = Listing(c)

\* An evaluation judges the files of one whole listing or, when a newer manifest
\* was published between its two statements, no file at all; never a mixture,
\* and never more than it counted.
ReadIsWholeOrEmpty ==
    reader.pc = "judged" =>
        \/ reader.files = {}
        \/ /\ \E c \in 0 .. MaxContent : Shown(reader.files) = Listing(c)
           /\ Cardinality(reader.files) = reader.count

\* What is published, and what an evaluation judges, is never half of a listing.
WholeListings == PublishedIsOneListing /\ ReadIsWholeOrEmpty

\* A candidate that waits for the manifest of a complete source is judged in the
\* end (within its deadline, if the loop is fast enough).
CompleteSourceIsJudged == row.done ~> reader.pc = "judged"
=============================================================================
