------------------------------ MODULE Assignment ------------------------------
(***************************************************************************)
(* optimal_assignment and hungarian of sporos-matcher, and the loop that   *)
(* forbids one selected edge after another to tell whether the best        *)
(* assignment of a component is the only one.                              *)
(*                                                                         *)
(* A row is a candidate file, a column a source file or the row's private  *)
(* dummy.  One step of hungarian's inner loops is one step here.           *)
(***************************************************************************)
EXTENDS Integers, FiniteSets, FiniteSetsExt

CONSTANTS
    Rows, SourceColumns,   \* how many
    Weights,               \* weights an edge may have; 0 stands for no edge
    Infinity               \* i128::MAX: above every reduced cost

VARIABLES
    weights,       \* row -> source column -> weight
    banned,        \* the forbidden edge, NoEdge in the first call
    untried,       \* selected edges not yet forbidden
    best,          \* [total, pairs] of the first call
    alternative,   \* total of the last call with a forbidden edge
    phase,         \* "call" | "rows" | "grow" | "augment" | "unique" | "ambiguous"
    row, column,   \* the loop variables of hungarian
    rowPotential, columnPotential, columnRow, previous, minimum, used

loopVars == <<row, column, rowPotential, columnPotential, columnRow, previous, minimum, used>>
vars == <<weights, banned, untried, best, alternative, phase, loopVars>>

NoEdge == <<0, 0>>
Columns == SourceColumns + Rows
Unknown == -1

\* An edge costs its negated weight; no edge, the forbidden one and a dummy cost nothing.
Cost(r, c) ==
    IF c > SourceColumns \/ banned = <<r, c>> THEN 0 ELSE -weights[r][c]

Init ==
    /\ weights \in [1 .. Rows -> [1 .. SourceColumns -> Weights]]
    /\ banned = NoEdge
    /\ untried = {}
    /\ best = [total |-> Unknown, pairs |-> {}]
    /\ alternative = Unknown
    /\ phase = "call"
    /\ row = 0 /\ column = 0
    /\ rowPotential = <<>> /\ columnPotential = <<>> /\ columnRow = <<>> /\ previous = <<>>
    /\ minimum = <<>> /\ used = {}

Call ==
    /\ phase = "call"
    /\ phase' = "rows"
    /\ row' = 0
    /\ rowPotential' = [r \in 0 .. Rows |-> 0]
    /\ columnPotential' = [c \in 0 .. Columns |-> 0]
    /\ columnRow' = [c \in 0 .. Columns |-> 0]
    /\ previous' = [c \in 0 .. Columns |-> 0]
    /\ UNCHANGED <<weights, banned, untried, best, alternative, column, minimum, used>>

\* Faulty variant: the slacks of the row before are kept.
NextRowKeepingSlack ==
    /\ phase = "rows" /\ row < Rows
    /\ row' = row + 1
    /\ column' = 0
    /\ columnRow' = [columnRow EXCEPT ![0] = row + 1]
    /\ minimum' = IF row = 0 THEN [c \in 0 .. Columns |-> Infinity] ELSE minimum
    /\ used' = {}
    /\ phase' = "grow"
    /\ UNCHANGED <<weights, banned, untried, best, alternative, rowPotential, columnPotential,
                   previous>>

NextRow ==
    /\ phase = "rows" /\ row < Rows
    /\ row' = row + 1
    /\ column' = 0
    /\ columnRow' = [columnRow EXCEPT ![0] = row + 1]
    /\ minimum' = [c \in 0 .. Columns |-> Infinity]
    /\ used' = {}
    /\ phase' = "grow"
    /\ UNCHANGED <<weights, banned, untried, best, alternative, rowPotential, columnPotential,
                   previous>>

\* One turn of the loop that grows the alternating tree: relax the columns from the
\* current row, shift the potentials by the least slack, move to its first column.
Grow ==
    /\ phase = "grow"
    /\ LET tree == used \cup {column}
           current == columnRow[column]
           reduced(c) == Cost(current, c) - rowPotential[current] - columnPotential[c]
           open == (1 .. Columns) \ tree
           relaxed == {c \in open : reduced(c) < minimum[c]}
           slack == [c \in 0 .. Columns |-> IF c \in relaxed THEN reduced(c) ELSE minimum[c]]
           delta == Min({slack[c] : c \in open})
           next == Min({c \in open : slack[c] = delta})
       IN  /\ used' = tree
           /\ previous' = [c \in 0 .. Columns |-> IF c \in relaxed THEN column ELSE previous[c]]
           /\ rowPotential' =
                [r \in 0 .. Rows |->
                    rowPotential[r] + IF \E c \in tree : columnRow[c] = r THEN delta ELSE 0]
           /\ columnPotential' =
                [c \in 0 .. Columns |-> columnPotential[c] - IF c \in tree THEN delta ELSE 0]
           /\ minimum' = [c \in 0 .. Columns |-> IF c \in tree THEN slack[c] ELSE slack[c] - delta]
           /\ column' = next
           /\ phase' = IF columnRow[next] = 0 THEN "augment" ELSE "grow"
    /\ UNCHANGED <<weights, banned, untried, best, alternative, row, columnRow>>

Augment ==
    /\ phase = "augment"
    /\ columnRow' = [columnRow EXCEPT ![column] = columnRow[previous[column]]]
    /\ column' = previous[column]
    /\ phase' = IF previous[column] = 0 THEN "rows" ELSE "augment"
    /\ UNCHANGED <<weights, banned, untried, best, alternative, row, rowPotential,
                   columnPotential, previous, minimum, used>>

\* The edges of an assignment that exist.
SelectedPairs ==
    {e \in (1 .. Rows) \X (1 .. SourceColumns) :
        columnRow[e[2]] = e[1] /\ banned # e /\ weights[e[1]][e[2]] > 0}

TotalWeight(pairs) == MapThenSumSet(LAMBDA e : weights[e[1]][e[2]], pairs)

\* The call without the next selected edge, or the end of the search for one.
Continue(remaining) ==
    \/ /\ remaining = {}
       /\ phase' = "unique"
       /\ untried' = {}
       /\ UNCHANGED banned
    \/ \E edge \in remaining :
          /\ \A other \in remaining : edge[1] <= other[1]
          /\ banned' = edge
          /\ untried' = remaining \ {edge}
          /\ phase' = "call"

FirstCallEnds ==
    /\ phase = "rows" /\ row = Rows /\ banned = NoEdge
    /\ best' = [total |-> TotalWeight(SelectedPairs), pairs |-> SelectedPairs]
    /\ Continue(SelectedPairs)
    /\ UNCHANGED <<weights, alternative, loopVars>>

AlternativeEnds ==
    /\ phase = "rows" /\ row = Rows /\ banned # NoEdge
    /\ alternative' = TotalWeight(SelectedPairs)
    /\ \/ /\ alternative' = best.total
          /\ phase' = "ambiguous"
          /\ UNCHANGED <<banned, untried>>
       \/ /\ alternative' # best.total
          /\ Continue(untried)
    /\ UNCHANGED <<weights, best, loopVars>>

Next == Call \/ NextRow \/ Grow \/ Augment \/ FirstCallEnds \/ AlternativeEnds

Spec == Init /\ [][Next]_vars /\ WF_vars(Next)

(***************************************************************************)
(* Properties.                                                             *)
(***************************************************************************)
Edges == {e \in (1 .. Rows) \X (1 .. SourceColumns) : weights[e[1]][e[2]] > 0}

OneToOne(pairs) == \A p, q \in pairs : p # q => p[1] # q[1] /\ p[2] # q[2]

Heaviest(edges) ==
    LET total == [pairs \in {m \in SUBSET edges : OneToOne(m)} |-> TotalWeight(pairs)]
    IN  {pairs \in DOMAIN total : \A other \in DOMAIN total : total[other] <= total[pairs]}

\* The potentials prove the assignment optimal: between two rows no reduced cost of a
\* row already placed is negative, and the placed pairs have reduced cost zero.
PotentialsAreFeasible ==
    phase = "rows" =>
        \A r \in 1 .. row, c \in 1 .. Columns :
            /\ rowPotential[r] + columnPotential[c] <= Cost(r, c)
            /\ columnRow[c] = r => rowPotential[r] + columnPotential[c] = Cost(r, c)

\* optimal_assignment returns a heaviest one-to-one selection of the edges it may use,
\* and the component is called ambiguous exactly when there is another one.
SelectionIsOptimal ==
    /\ PotentialsAreFeasible
    /\ phase = "rows" /\ row = Rows => SelectedPairs \in Heaviest(Edges \ {banned})
    /\ phase = "unique" => Heaviest(Edges) = {best.pairs}
    /\ phase = "ambiguous" => Cardinality(Heaviest(Edges)) > 1
=============================================================================
