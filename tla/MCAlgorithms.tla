----------------------------- MODULE MCAlgorithms -----------------------------
(* The pure algorithms side by side: a behaviour runs one of them, the others  *)
(* stay where they start.                                                      *)
EXTENDS MCPieceIntegrity, MCMatchInputs

CONSTANTS Rows, SourceColumns, Weights, Infinity

VARIABLES
    part, request, decision, stored, facts, cache, enriching,
    weights, banned, untried, best, alternative, phase, row, column, rowPotential,
    columnPotential, columnRow, previous, minimum, used

M == INSTANCE SourceFacts WITH
        Batches <- MCBatches, QbitSources <- {1, 2}, DataSources <- {3, 4}, Searched <- {1},
        Reports <- MCReports, ArrInstances <- MCArrInstances, Filters <- MCFilters,
        Candidates <- MCCandidates, Announced <- {0, 10, 12}, AllowSeason <- TRUE,
        TolerancePercent <- 5, MaxAlternates <- 1, MaxSources <- 2, MaxRows <- 1

A == INSTANCE Assignment

AllInit ==
    /\ part \in {"pieces", "match", "facts", "assignment"}
    /\ IF part = "pieces" THEN Init
       ELSE manifest = [sizes |-> <<>>, mapped |-> {}, v2 |-> FALSE] /\ Init
    /\ IF part = "match" THEN M!Init ELSE request = <<>> /\ decision = <<>>
    /\ M!FactsInit
    /\ IF part = "assignment" THEN A!Init
       ELSE weights = [r \in 1 .. Rows |-> [c \in 1 .. SourceColumns |-> 0]] /\ A!Init

matchVars == <<request, decision>>
factVars == <<stored, facts, cache, enriching>>
assignVars == <<weights, banned, untried, best, alternative, phase, row, column, rowPotential,
                columnPotential, columnRow, previous, minimum, used>>

PieceStep == part = "pieces" /\ Next /\ UNCHANGED <<part, matchVars, factVars, assignVars>>
MatchStep == part = "match" /\ M!Decide /\ UNCHANGED <<part, vars, factVars, assignVars>>
FactStep == part = "facts" /\ M!FactsNext /\ UNCHANGED <<part, vars, matchVars, assignVars>>
AssignStep == part = "assignment" /\ A!Next /\ UNCHANGED <<part, vars, matchVars, factVars>>

AllNext == PieceStep \/ MatchStep \/ FactStep \/ AssignStep

allVars == <<part, vars, matchVars, factVars, assignVars>>

AllSpec == AllInit /\ [][AllNext]_allVars

\* Module Matching.
AssignmentIsUniqueBest == M!AssignmentIsUniqueBest
DecisionIsSound == M!DecisionIsSound

\* Module SourceFacts.  Nothing is stored in the behaviours of the others.
QueriesKeepMatches == part = "facts" => M!QueriesKeepMatches

\* Module Assignment.
SelectionIsOptimal == A!SelectionIsOptimal
=============================================================================
