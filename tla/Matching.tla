------------------------------- MODULE Matching -------------------------------
(***************************************************************************)
(* The pure matcher of sporos-matcher: PureMatcher::evaluate and every     *)
(* function it calls, over abstract names.                                 *)
(*                                                                         *)
(* A path is a nonempty sequence of components [name, ext]; a name is a    *)
(* sequence of the marks of module Release.  Which of several best         *)
(* assignments the Hungarian algorithm returns is the business of module   *)
(* Assignment; here an optimal assignment is any one of greatest weight.   *)
(***************************************************************************)
EXTENDS Release, SequencesExt

CONSTANTS
    Batches,       \* sets [candidates, releases, sources, policies] to combine into requests
    NoExtension    \* a component without a dot

VARIABLES
    request,       \* the MatchRequest
    decision       \* its MatchDecision, <<>> before the call

vars == <<request, decision>>

(***************************************************************************)
(* Paths and the role of a file.                                           *)
(***************************************************************************)
Basename(path) == Last(path)

ParentBasename(path) == path[Len(path) - 1]

Extension(path) == Basename(path).ext

Stem(component) == component.name

IgnoringCase(text, spelled) == spelled # NoExtension /\ spelled.text = text

IsNamed(component, text) ==
    /\ component.ext = NoExtension
    /\ Len(component.name) = 1
    /\ component.name[1].mark = "word"
    /\ IgnoringCase(text, component.name[1])

IsDiscFolder(component) == component.name = <<Disc>> /\ component.ext = NoExtension

PrimaryPath(path, policy) ==
    \/ \E i \in 1 .. Len(path) - 1 : IsDiscFolder(path[i])
    \/ \E text \in policy.primaryExtensions : IgnoringCase(text, Extension(path))

Optional(path, policy) ==
    \/ IsNamed([Basename(path) EXCEPT !.ext = NoExtension], "sample")
    \/ \E text \in policy.optionalExtensions : IgnoringCase(text, Extension(path))
    \/ \E i \in 1 .. Len(path), text \in policy.optionalComponents : IsNamed(path[i], text)

Required(file, policy) == ~file.padding /\ ~Optional(file.path, policy)

Primary(file, policy) == Required(file, policy) /\ PrimaryPath(file.path, policy)

Nfc(component) ==
    [component EXCEPT !.name =
        [i \in DOMAIN component.name |->
            IF component.name[i].mark = "word" /\ component.name[i].spelling = "decomposed"
            THEN Word(component.name[i].text, "lower")
            ELSE component.name[i]]]

\* Texts that stand for an absolute, empty, dotted or foreign component.
UnsafePath(path) ==
    \E i \in 1 .. Len(path) : \E text \in {"", ".", ".."} : IsNamed(path[i], text)

\* The reason a manifest is refused, "" when it is not.
ValidateManifest(manifest) ==
    LET files == manifest.files
        composed(i) == [k \in DOMAIN files[i].path |-> Nfc(files[i].path[k])]
    IN  IF files = <<>> \/ manifest.pieceLength = 0 THEN "unsupported_torrent"
        ELSE IF \/ \E i \in 1 .. Len(files) : UnsafePath(files[i].path)
                \/ \E i, j \in 1 .. Len(files) : i < j /\
                      (files[i].ordinal = files[j].ordinal \/ composed(i) = composed(j))
                \/ \E i, j \in 1 .. Len(files) : i # j /\ IsStrictPrefix(composed(i), composed(j))
        THEN "unsafe_torrent_path"
        ELSE ""

(***************************************************************************)
(* How well one source file stands for one candidate file: 0 for no edge.  *)
(***************************************************************************)
ScoreIf(condition, score) == IF condition THEN score ELSE 0

\* Faulty variant: a file name's episode only adds to the score.
EdgeScoreAcrossEpisodes(candidate, source, policy, seasonMode) ==
    IF \/ candidate.size # source.size
       \/ Primary(candidate, policy) # PrimaryPath(source.path, policy)
       \/ Extension(candidate.path) # Extension(source.path)
    THEN 0
    ELSE 1 + ScoreIf(candidate.path = source.path, 1000000)

NamesScore(candidate, source, primary, sameEpisode) ==
    LET sameParent ==
            /\ Len(candidate) > 1
            /\ Len(source) > 1
            /\ NormalizeTitle(ParentBasename(candidate).name)
                 = NormalizeTitle(ParentBasename(source).name)
    IN  1 + ScoreIf(candidate = source, 1000000)
          + ScoreIf(Basename(candidate) = Basename(source), 100000)
          + ScoreIf(sameEpisode, 10000)
          + ScoreIf(primary /\ Extension(candidate) = Extension(source), 1000)
          + ScoreIf(NormalizeTitle(Stem(Basename(candidate)))
                      = NormalizeTitle(Stem(Basename(source))), 100)
          + ScoreIf(sameParent, 10)

\* keys and sourceKeys are the episodes the two file names stand for.
KeyedScore(candidate, source, primary, keys, sourceKeys, seasonMode) ==
    LET sameEpisode == keys \cap sourceKeys # {}
    IN  IF \/ ~primary /\ Extension(candidate) # Extension(source)
           \/ keys # {} /\ sourceKeys # {} /\ ~sameEpisode
           \/ seasonMode /\ primary /\ ~sameEpisode
        THEN 0
        ELSE NamesScore(candidate, source, primary, sameEpisode)

EdgeScore(candidate, source, policy, seasonMode) ==
    IF candidate.size # source.size \/ Primary(candidate, policy) # PrimaryPath(source.path, policy)
    THEN 0
    ELSE KeyedScore(candidate.path, source.path, Primary(candidate, policy),
                    EpisodeKeys(Basename(candidate.path).name),
                    EpisodeKeys(Basename(source.path).name), seasonMode)

Bucket(size, path, primary) ==
    [size |-> size, primary |-> primary,
     extension |-> IF primary \/ Extension(path) = NoExtension THEN "" ELSE Extension(path).text]

(***************************************************************************)
(* Assignment of candidate files (a sequence) to source files (a sequence  *)
(* of [id, file]): a set of edges <<candidate index, source index>>.       *)
(***************************************************************************)
Scores(candidates, sources, policy, seasonMode) ==
    [e \in (1 .. Len(candidates)) \X (1 .. Len(sources)) |->
        LET c == candidates[e[1]]
            s == sources[e[2]].file
        IN  IF Bucket(c.size, c.path, Primary(c, policy))
                 = Bucket(s.size, s.path, PrimaryPath(s.path, policy))
            THEN EdgeScore(c, s, policy, seasonMode)
            ELSE 0]

\* The candidates that a search along the edges reaches from one of them.
ComponentCandidates(edges, start) ==
    LET reached[n \in 0 .. Cardinality(edges)] ==
          IF n = 0 THEN {start}
          ELSE LET known == reached[n - 1]
                   columns == {e[2] : e \in {e \in edges : e[1] \in known}}
               IN  known \cup {e[1] : e \in {e \in edges : e[2] \in columns}}
    IN  reached[Cardinality(edges)]

ComponentsInOrder(edges) ==
    SetToSortSeq({{e \in edges : e[1] \in ComponentCandidates(edges, d[1])} : d \in edges},
                 LAMBDA a, b : Min({e[1] : e \in a}) < Min({e[1] : e \in b}))

OneToOne(pairs) == \A p, q \in pairs : p # q => p[1] # q[1] /\ p[2] # q[2]

SumOver(set, weight(_)) == MapThenSumSet(weight, set)

\* Faulty variant: a required file weighs as much as the bytes, not more.
UnitsWithoutMargin(candidates, edges, score, policy) ==
    LET scoreUnit == SumOver(edges, LAMBDA e : score[e]) + 1
        primaryBytes == SumOver({i \in DOMAIN candidates : Primary(candidates[i], policy)},
                                LAMBDA i : candidates[i].size)
    IN  [score |-> scoreUnit, required |-> primaryBytes * scoreUnit]

\* What one point of each criterion weighs: required files before primary bytes
\* before the score.
Units(candidates, edges, score, policy) ==
    LET scoreUnit == SumOver(edges, LAMBDA e : score[e]) + 1
        primaryBytes == SumOver({i \in DOMAIN candidates : Primary(candidates[i], policy)},
                                LAMBDA i : candidates[i].size)
    IN  [score |-> scoreUnit, required |-> (primaryBytes + 1) * scoreUnit]

EdgeWeight(file, score, units, policy) ==
    score + ScoreIf(Primary(file, policy), file.size * units.score)
          + ScoreIf(Required(file, policy), units.required)

Matchings(edges) == {pairs \in SUBSET edges : OneToOne(pairs)}

Total(pairs, weight) == SumOver(pairs, LAMBDA e : weight[e])

OptimalAssignment(edges, weight) ==
    LET total == [pairs \in Matchings(edges) |-> Total(pairs, weight)]
    IN  CHOOSE best \in DOMAIN total : \A other \in DOMAIN total : total[other] <= total[best]

Assigned(verdict, pairs) == [verdict |-> verdict, pairs |-> pairs]

Operations(part) ==
    LET rows == Cardinality({e[1] : e \in part})
        columns == Cardinality({e[2] : e \in part})
    IN  (Min({rows, columns}) + 1) * rows * rows * (rows + columns)

\* Removing any edge of the optimum must lose weight.
UniquelyAssigned(part, best, weight) ==
    IF \E edge \in best : Total(OptimalAssignment(part \ {edge}, weight), weight) = Total(best, weight)
    THEN Assigned("ambiguous", {})
    ELSE Assigned("assigned", best)

\* What the loop over the components makes of the k-th one.
ComponentVerdict(parts, k, weight, policy) ==
    LET files == Cardinality({e[1] : e \in parts[k]}) + Cardinality({e[2] : e \in parts[k]})
    IN  IF \/ files > policy.maxComponentFiles
           \/ files > policy.maxFiles
           \/ SumOver(1 .. k, LAMBDA i : Operations(parts[i])) > policy.maxOperations
        THEN Assigned("budget", {})
        ELSE UniquelyAssigned(parts[k], OptimalAssignment(parts[k], weight), weight)

\* The first component that cannot be assigned stops the loop.
UpToFailure(verdicts) ==
    LET stopped == {k \in DOMAIN verdicts : verdicts[k].verdict # "assigned"}
    IN  IF stopped # {} THEN verdicts[Min(stopped)]
        ELSE Assigned("assigned", UNION {verdicts[k].pairs : k \in DOMAIN verdicts})

AssignComponents(parts, weight, policy) ==
    UpToFailure([k \in DOMAIN parts |-> ComponentVerdict(parts, k, weight, policy)])

EdgeWeights(candidates, edges, score, units, policy) ==
    [e \in edges |-> EdgeWeight(candidates[e[1]], score[e], units, policy)]

PositiveEdges(score) == {e \in DOMAIN score : score[e] > 0}

AssignScored(candidates, edges, score, policy) ==
    IF Cardinality(edges) > policy.maxEdges THEN Assigned("budget", {})
    ELSE AssignComponents(
            ComponentsInOrder(edges),
            EdgeWeights(candidates, edges, score, Units(candidates, edges, score, policy), policy),
            policy)

AssignEdges(candidates, score, policy) ==
    AssignScored(candidates, PositiveEdges(score), score, policy)

AssignWith(candidates, sources, policy, seasonMode) ==
    IF Len(candidates) + Len(sources) > policy.maxFiles THEN Assigned("budget", {})
    ELSE AssignEdges(candidates, Scores(candidates, sources, policy, seasonMode), policy)

(***************************************************************************)
(* Identity of the releases.                                               *)
(***************************************************************************)
Titles(release) == {release.title} \cup ToSet(release.alternates)

BothKnownAndDiffer(a, b) == a # None /\ b # None /\ a # b

\* An Arr identity is [entity, others]: entity stands for the kind, instance and entity
\* number that must agree, others for the identifiers of other databases.  The checks in the order the code makes them; the first that fails is the reason.
Conflicts(candidate, source, seasonMode) ==
    LET bothArr == candidate.arr # None /\ source.arr # None
        sameArr == bothArr /\ candidate.arr.entity = source.arr.entity
        fromEpisode == seasonMode /\ candidate.kind = "season_pack" /\ source.kind = "episode"
    IN  << <<"series_conflict", bothArr /\ ~sameArr>>,
           <<"media_type_conflict", /\ "unknown_video" \notin {candidate.kind, source.kind}
                                    /\ candidate.kind # source.kind
                                    /\ ~fromEpisode>>,
           <<"title_conflict", ~sameArr /\ Titles(candidate) \cap Titles(source) = {}>>,
           <<"year_conflict", BothKnownAndDiffer(candidate.year, source.year)>>,
           <<"season_conflict", BothKnownAndDiffer(candidate.season, source.season)>>,
           <<"episode_conflict", /\ ~seasonMode
                                 /\ candidate.kind = "episode"
                                 /\ source.kind = "episode"
                                 /\ <<candidate.episode, candidate.episodeEnd>>
                                      # <<source.episode, source.episodeEnd>> >>,
           <<"date_conflict", BothKnownAndDiffer(candidate.airDate, source.airDate)>>,
           <<"episode_conflict", BothKnownAndDiffer(candidate.absolute, source.absolute)>> >>

Compatible(candidate, source, seasonMode) ==
    LET checks == Conflicts(candidate, source, seasonMode)
        failed == {k \in DOMAIN checks : checks[k][2]}
    IN  IF failed = {} THEN "" ELSE checks[Min(failed)][1]

(***************************************************************************)
(* Decisions.                                                              *)
(***************************************************************************)
CandidateFiles(manifest) ==
    SortSeq(SelectSeq(manifest.files, LAMBDA f : ~f.padding), LAMBDA f, g : f.ordinal < g.ordinal)

FileBytes(files) == SumOver({<<f.ordinal, f.size>> : f \in files}, LAMBDA p : p[2])

RequiredFiles(req) == {f \in Range(req.candidate.files) : Required(f, req.policy)}

RequiredBytes(req) == FileBytes(RequiredFiles(req))

Undecided(outcome, reason, missing) ==
    [outcome |-> outcome, mode |-> "none", reason |-> reason, sourceIds |-> {},
     mappings |-> {}, missing |-> missing, ratio |-> 0, recheck |-> FALSE,
     primaryBytes |-> 0, exactPaths |-> 0, qbitSources |-> 0]

Rejection(reason) == Undecided("rejected", reason, 0)

NoMatch(reason, req) == Undecided("no_match", reason, RequiredBytes(req))

RatioFromBytes(present, total) == IF total = 0 THEN 0 ELSE (present * 1000000) \div total

BuildMappings(candidates, sources, pairs) ==
    {[ordinal |-> candidates[p[1]].ordinal, source |-> sources[p[2]].id,
      file |-> sources[p[2]].file, path |-> candidates[p[1]].path] : p \in pairs}

MappedFiles(req, mappings) ==
    {f \in Range(req.candidate.files) : \E map \in mappings : map.ordinal = f.ordinal}

MappedPrimary(req, mappings) ==
    {f \in MappedFiles(req, mappings) : Primary(f, req.policy)}

Decision(req, mode, mappings) ==
    LET mapped == FileBytes(MappedFiles(req, mappings) \cap RequiredFiles(req))
        total == RequiredBytes(req)
        ids == {map.source : map \in mappings}
    IN  [outcome |-> "match", mode |-> mode, reason |-> mode, sourceIds |-> ids,
         mappings |-> mappings, missing |-> total - mapped,
         ratio |-> RatioFromBytes(mapped, total), recheck |-> TRUE,
         primaryBytes |-> FileBytes(MappedPrimary(req, mappings)),
         exactPaths |-> Cardinality({map \in mappings : map.path = map.file.path}),
         qbitSources |->
            Cardinality({id \in ids : \E s \in Range(req.sources) : s.id = id /\ s.kind = "qbit"})]

ModeRank(mode) ==
    CASE mode = "strict" -> 4 [] mode = "flexible" -> 3 [] mode = "partial" -> 2
      [] mode = "season" -> 1

Quality(d) ==
    <<ModeRank(d.mode), d.primaryBytes, d.exactPaths, -Cardinality(d.sourceIds), d.qbitSources,
      Cardinality(d.mappings)>>

\* Tuples compare by their first difference.
Better(p, q) == \E i \in DOMAIN p : p[i] > q[i] /\ \A k \in 1 .. i - 1 : p[k] = q[k]

\* choices is the set of decisions reached; two equal best ones with different
\* mappings are refused.
Choose(choices) ==
    LET best == {d \in choices : ~\E other \in choices : Better(Quality(other), Quality(d))}
    IN  IF Cardinality({d.mappings : d \in best}) > 1 THEN Rejection("ambiguous_file_mapping")
        ELSE CHOOSE d \in best : TRUE

FileFailureReason(req, candidates, sources) ==
    IF \E i \in 1 .. Len(candidates), j \in 1 .. Len(sources) :
          /\ Required(candidates[i], req.policy)
          /\ Basename(candidates[i].path) = Basename(sources[j].file.path)
          /\ candidates[i].size # sources[j].file.size
    THEN "file_size_conflict"
    ELSE "no_primary_video_overlap"

ReasonPriority ==
    <<"matcher_budget_exceeded", "series_conflict", "media_type_conflict", "season_conflict",
      "episode_conflict", "date_conflict", "year_conflict", "title_conflict",
      "file_size_conflict", "no_primary_video_overlap">>

BestReason(reasons) ==
    LET ranks == {k \in DOMAIN ReasonPriority : ReasonPriority[k] \in reasons}
    IN  IF ranks = {} THEN "no_plausible_source" ELSE ReasonPriority[Min(ranks)]

FilesOf(source) == [i \in DOMAIN source.files |-> [id |-> source.id, file |-> source.files[i]]]

\* The best mode the policy allows for a source's mappings, "none" if there is none.
ModeFor(req, required, mappings) ==
    LET all == required \subseteq MappedFiles(req, mappings)
        exact == \A f \in required :
                    \E map \in mappings : map.ordinal = f.ordinal /\ map.path = map.file.path
    IN  IF all /\ exact THEN "strict"
        ELSE IF all /\ req.policy.allowFlexible THEN "flexible"
        ELSE IF MappedPrimary(req, mappings) # {} /\ req.policy.allowPartial THEN "partial"
        ELSE "none"

Unmatched(reason) == [verdict |-> "no_match", reason |-> reason]

Decided(req, mode, mappings, failure) ==
    IF mode = "none" THEN Unmatched(failure)
    ELSE [verdict |-> "decision", decision |-> Decision(req, mode, mappings)]

\* What an assignment that was not found makes of its source or season.
Unassigned(verdict) ==
    IF verdict = "budget" THEN Unmatched("matcher_budget_exceeded") ELSE [verdict |-> "ambiguous"]

JudgeSource(req, candidates, files, assignment) ==
    LET mappings == BuildMappings(candidates, files, assignment.pairs)
        required == {f \in Range(candidates) : Required(f, req.policy)}
    IN  IF assignment.verdict # "assigned" THEN Unassigned(assignment.verdict)
        ELSE Decided(req, ModeFor(req, required, mappings), mappings,
                     FileFailureReason(req, candidates, files))

\* One source, whole: [verdict |-> decision | ambiguous | no_match, ...].
EvaluateSource(req, source) ==
    LET candidates == CandidateFiles(req.candidate)
    IN  JudgeSource(req, candidates, FilesOf(source),
                    AssignWith(candidates, FilesOf(source), req.policy, FALSE))

JudgeSeason(req, candidates, files, assignment) ==
    LET mappings == BuildMappings(candidates, files, assignment.pairs)
    IN  IF assignment.verdict # "assigned" THEN Unassigned(assignment.verdict)
        ELSE Decided(req, IF MappedPrimary(req, mappings) = {} THEN "none" ELSE "season", mappings,
                     "no_primary_video_overlap")

EvaluateFiles(req, candidates, files) ==
    IF files = <<>> THEN Unmatched("no_primary_video_overlap")
    ELSE JudgeSeason(req, candidates, files, AssignWith(candidates, files, req.policy, TRUE))

\* The files of every compatible episode of the season together.
EvaluateSeason(req, sources) ==
    LET episodes == SelectSeq(sources, LAMBDA s :
                        /\ Compatible(req.release, s.release, TRUE) = ""
                        /\ s.release.kind = "episode"
                        /\ s.release.season = req.release.season)
    IN  EvaluateFiles(req, CandidateFiles(req.candidate),
                      FlattenSeq([k \in DOMAIN episodes |-> FilesOf(episodes[k])]))

AlreadyPresent(req) ==
    \E s \in Range(req.sources) : s.hash # None /\ s.hash = req.candidate.hash

Available(req) == SelectSeq(req.sources, LAMBDA s : s.available)

InputBudgetExceeded(req) ==
    SumOver(DOMAIN Available(req), LAMBDA k : Len(Available(req)[k].files))
      + Len(CandidateFiles(req.candidate)) > req.policy.maxFiles

SourcesById(req) == SortSeq(Available(req), LAMBDA s, t : s.id < t.id)

EvaluateAlone(req, source, conflict) ==
    IF conflict = "" THEN EvaluateSource(req, source) ELSE Unmatched(conflict)

\* What evaluate learns of each source it looks at, and of the season as a whole.
Evaluations(req) ==
    {EvaluateAlone(req, s, Compatible(req.release, s.release, FALSE)) :
        s \in Range(SourcesById(req))}
    \cup IF req.policy.allowSeason /\ req.release.kind = "season_pack"
         THEN {EvaluateSeason(req, SourcesById(req))}
         ELSE {}

\* Any ambiguous source refuses the candidate, whatever the others say.
Conclude(req, evaluations) ==
    LET choices == {e.decision : e \in {e \in evaluations : e.verdict = "decision"}}
        reasons == {e.reason : e \in {e \in evaluations : e.verdict = "no_match"}}
    IN  IF \E e \in evaluations : e.verdict = "ambiguous" THEN Rejection("ambiguous_file_mapping")
        ELSE IF choices # {} THEN Choose(choices)
        ELSE NoMatch(BestReason(reasons), req)

Evaluate(req) ==
    IF ValidateManifest(req.candidate) # "" THEN Rejection(ValidateManifest(req.candidate))
    ELSE IF AlreadyPresent(req)
    THEN Undecided("already_present", "already_present", RequiredBytes(req))
    ELSE IF InputBudgetExceeded(req) THEN Rejection("matcher_budget_exceeded")
    ELSE Conclude(req, Evaluations(req))

Init ==
    /\ \E batch \in Batches :
          \E candidate \in batch.candidates, release \in batch.releases,
             sources \in batch.sources, policy \in batch.policies :
             request = [candidate |-> candidate, release |-> release, sources |-> sources,
                        policy |-> policy]
    /\ decision = <<>>

Decide ==
    /\ decision = <<>>
    /\ decision' = Evaluate(request)
    /\ UNCHANGED request

Spec == Init /\ [][Decide]_vars

(***************************************************************************)
(* Properties.                                                             *)
(***************************************************************************)
\* What the documentation promises of a mapping: required files first, then primary
\* bytes, then how well the names agree.
Rank(pairs, candidates, score, policy) ==
    <<Cardinality({p \in pairs : Required(candidates[p[1]], policy)}),
      SumOver({p \in pairs : Primary(candidates[p[1]], policy)}, LAMBDA p : candidates[p[1]].size),
      Total(pairs, score)>>

BestOf(rank) ==
    {best \in DOMAIN rank : ~\E other \in DOMAIN rank : Better(rank[other], rank[best])}

BestPairs(candidates, score, policy) ==
    BestOf([pairs \in Matchings(PositiveEdges(score)) |-> Rank(pairs, candidates, score, policy)])

Unique(assignment, best) ==
    /\ assignment.verdict = "assigned" => best = {assignment.pairs}
    /\ assignment.verdict = "ambiguous" => Cardinality(best) > 1

\* assign_with solves each connected component by one weight per edge.  Together that is
\* the best one-to-one mapping of the whole source by the three criteria in order, and a
\* source is refused as ambiguous exactly when two mappings are equally good.
AssignmentIsUniqueBest ==
    decision # <<>> =>
        \A source \in Range(request.sources) :
            LET candidates == CandidateFiles(request.candidate)
            IN  Unique(AssignWith(candidates, FilesOf(source), request.policy, FALSE),
                       BestPairs(candidates,
                                 Scores(candidates, FilesOf(source), request.policy, FALSE),
                                 request.policy))

\* A match links every mapped file to a file of equal size that stands for the same
\* episode, no two to the same file, from sources whose identity agrees; a strict or
\* flexible one leaves nothing required out; and it says so in missing_bytes.
MatchIsHonest ==
    decision # <<>> /\ decision.outcome = "match" =>
        LET fileOf(map) == CHOOSE f \in Range(request.candidate.files) : f.ordinal = map.ordinal
            sourceOf(map) == CHOOSE s \in Range(request.sources) : s.id = map.source
        IN  /\ \A map, other \in decision.mappings : map # other =>
                  /\ map.ordinal # other.ordinal
                  /\ <<map.source, map.file>> # <<other.source, other.file>>
            /\ \A map \in decision.mappings :
                  /\ ~fileOf(map).padding
                  /\ fileOf(map).size = map.file.size
                  /\ sourceOf(map).available
                  /\ Compatible(request.release, sourceOf(map).release, decision.mode = "season") = ""
                  /\ LET keys == EpisodeKeys(Basename(map.path).name)
                         stored == EpisodeKeys(Basename(map.file.path).name)
                     IN  keys = {} \/ stored = {} \/ keys \cap stored # {}
            /\ decision.mode # "season" => Cardinality(decision.sourceIds) <= 1
            /\ decision.mode \in {"strict", "flexible"} =>
                  /\ decision.missing = 0
                  /\ RequiredFiles(request) \subseteq MappedFiles(request, decision.mappings)
            /\ decision.missing
                 = FileBytes(RequiredFiles(request) \ MappedFiles(request, decision.mappings))

\* The choice between sources: no other source alone would have been at least as good.
\* Equal-best mappings of different sources are refused instead.
ChosenIsStrictlyBest ==
    decision # <<>> /\ decision.outcome = "match" =>
        \A e \in {EvaluateSource(request, source) :
                    source \in {source \in Range(SourcesById(request)) :
                                  Compatible(request.release, source.release, FALSE) = ""}} :
            e.verdict = "decision" /\ e.decision.mappings # decision.mappings
                => Better(Quality(decision), Quality(e.decision))

\* A match that evaluate decides on is both: honest about what it links, and the best.
DecisionIsSound == MatchIsHonest /\ ChosenIsStrictlyBest
=============================================================================
