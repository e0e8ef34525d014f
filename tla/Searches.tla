------------------------------ MODULE Searches ------------------------------
(***************************************************************************)
(* The searches of indexers and the operations that ask for them, side by  *)
(* side: a behaviour is one of Search or of Backfill, the other stays      *)
(* where it starts.  They share rows that only one of them writes.         *)
(***************************************************************************)
EXTENDS Search

CONSTANTS
    Backfills, Completions, Torrents, BackfillIndexers, CompletedOf, LabelsOf, Selections,
    PageSize, MaxId, MaxInventoryChanges, MaxCrashes

VARIABLES
    part,       \* "search" or "backfill"
    complete, eligible, operation, instance, page, searches, stable, inventoryChanges, crashes

Produce == INSTANCE Backfill WITH
    Indexers <- BackfillIndexers, SourceOf <- CompletedOf, MaxChanges <- MaxInventoryChanges,
    exec <- page, changes <- inventoryChanges

produceVars == <<complete, eligible, operation, instance, page, searches, stable, inventoryChanges, crashes>>

allVars == <<part, vars, produceVars>>

AllInit == part \in {"search", "backfill"} /\ Init /\ Produce!Init

Searching(step) == part = "search" /\ step /\ UNCHANGED <<part, produceVars>>

AllNext ==
    \/ Searching(Next)
    \/ part = "backfill" /\ Produce!Next /\ UNCHANGED <<part, vars>>

\* Fairness of Search, in its own behaviours, and of Backfill, where nothing is obliged to
\* move before it has been accepted.
AllSpec ==
    /\ AllInit /\ [][AllNext]_allVars
    /\ WF_vars(Searching(Tick))
    /\ \A a \in Attempts : WF_vars(Searching(Step(a) \/ Listed(a) \/ Download(a)))
    /\ OutagesEnd
    /\ Produce!Fairness

\* A completed backfill has accepted a search of every selected torrent that stayed on every
\* selected indexer that stayed eligible, and counts its searches rightly (produce_page of
\* search.rs).
BackfillCovers == Produce!BackfillCovers

\* Every search ends, and so does every accepted backfill and completion: whatever is under
\* way, a time comes at which nothing is.
SearchesEnd ==
    []<>(/\ part = "search" => \A a \in Attempts : Ended(a)
         /\ \A o \in Produce!Operations : Produce!AtRest(o))
=============================================================================
