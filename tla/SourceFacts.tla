------------------------------ MODULE SourceFacts ------------------------------
(***************************************************************************)
(* The stored sources a candidate is compared with: rows written by the    *)
(* qBittorrent projection and by data scans, the title and identifier      *)
(* facts kept beside them, the advisory Arr enrichment that rewrites a     *)
(* row's release after network calls, and the two queries that select      *)
(* sources (candidate_sources and preflight_source).                       *)
(***************************************************************************)
EXTENDS Matching

CONSTANTS
    QbitSources, DataSources,   \* source identities (numbers, in id order)
    Searched,                   \* torrents that searches run for: only these are enriched
    Reports,                    \* source -> what qBittorrent or a scan may say of it:
                                \* [name, size, complete, label], no label for a directory
    ArrInstances,               \* sequence of [kind, answers]: what each instance may know
    Filters,                    \* [includeCategories, excludeCategories, includeTags,
                                \* excludeTags, excludeManaged]
    Candidates, Announced,      \* releases and sizes that may be asked about
    AllowSeason,                \* allow_season_from_episodes
    TolerancePercent,           \* size_tolerance
    MaxAlternates,              \* MAX_ALTERNATE_TITLES
    MaxSources,                 \* MAX_PLAUSIBLE_SOURCES
    MaxRows                     \* MAX_PLAUSIBLE_ROWS

VARIABLES
    stored,     \* source -> sporos_qbit_torrent or sporos_data_source row, None if absent
    facts,      \* source -> sporos_source_title and sporos_source_external_id
    cache,      \* <<source, instance>> -> sporos_arr_enrichment_cache, None if absent
    enriching   \* source -> enrich_source in flight, None if there is none

factVars == <<stored, facts, cache, enriching>>

Sources == QbitSources \cup DataSources

NoFacts == [titles |-> {}, external |-> {}]

\* A cached "no history" that has not expired.
Negative == [entity |-> None, others |-> {}, titles |-> <<>>]

ExternalIds(release) ==
    IF release.arr = None THEN {}
    ELSE {<<"arr", release.arr.entity>>} \cup {<<"other", id>> : id \in release.arr.others}

\* The titles a source is indexed and a candidate is looked up by.
Capped(release) ==
    [release EXCEPT !.alternates = SubSeq(@, 1, IF Len(@) < MaxAlternates THEN Len(@) ELSE MaxAlternates)]

IndexedTitles(release) == Titles(Capped(release))

\* Faulty variant: alternate titles are not indexed.
ReplacePrimaryTitle(release) == [titles |-> {release.title}, external |-> ExternalIds(release)]

\* source_facts::replace, in the transaction that writes the release.
Replace(release) == [titles |-> IndexedTitles(release), external |-> ExternalIds(release)]

FactsInit ==
    /\ stored = [s \in Sources |-> None]
    /\ facts = [s \in Sources |-> NoFacts]
    /\ cache = [k \in Searched \X DOMAIN ArrInstances |-> None]
    /\ enriching = [s \in Searched |-> None]

\* project_torrent writes the parsed name and the columns taken from it, whatever an
\* enrichment had added; persist_release does the same for a directory.
Project(s, report) ==
    LET release == ParseRelease(report.name)
    IN  /\ stored' = [stored EXCEPT ![s] =
                     [available |-> TRUE, complete |-> report.complete, release |-> release,
                      columns |-> release, size |-> report.size, label |-> report.label]]
        /\ facts' = [facts EXCEPT ![s] = Replace(release)]
        /\ UNCHANGED <<cache, enriching>>

\* An absent torrent, or a source a finished scan did not see.
Disappear(s) ==
    /\ stored[s] # None /\ stored[s].available
    /\ stored' = [stored EXCEPT ![s].available = FALSE]
    /\ UNCHANGED <<facts, cache, enriching>>

Relevant(instance, kind) ==
    \/ kind = "unknown_video"
    \/ instance.kind = IF kind \in {"movie", "disc"} THEN "radarr" ELSE "sonarr"

\* enrich_source reads the release ...
StartEnrich(s) ==
    /\ enriching[s] = None
    /\ stored[s] # None /\ stored[s].available
    /\ enriching' = [enriching EXCEPT ![s] =
         [release |-> stored[s].release, selected |-> None,
          todo |-> SelectSeq([k \in DOMAIN ArrInstances |-> k],
                             LAMBDA k : Relevant(ArrInstances[k], stored[s].release.kind))]]
    /\ UNCHANGED <<stored, facts, cache>>

\* ... asks each relevant instance or its cache, keeping the first identity ...
Learned(s, identity) ==
    enriching' = [enriching EXCEPT
        ![s].todo = Tail(@),
        ![s].selected = IF @ = None /\ identity.entity # None THEN identity ELSE @]

AskInstance(s) ==
    /\ enriching[s] # None /\ enriching[s].todo # <<>>
    /\ LET k == Head(enriching[s].todo)
       IN  \/ cache[s, k] # None /\ Learned(s, cache[s, k]) /\ UNCHANGED cache
           \/ /\ cache[s, k] = None
              /\ \E answer \in ArrInstances[k].answers \cup {Negative} :
                    Learned(s, answer) /\ cache' = [cache EXCEPT ![s, k] = answer]
           \/ cache[s, k] = None /\ Learned(s, Negative) /\ UNCHANGED cache    \* the call failed
    /\ UNCHANGED <<stored, facts>>

\* ... and writes the release it read, with what it learned, over the stored one.
Enriched(release, identity) ==
    [release EXCEPT !.alternates = @ \o SelectSeq(identity.titles, LAMBDA t : t \notin Titles(release)),
                    !.arr = [entity |-> identity.entity, others |-> identity.others]]

ApplyEnrichment(s) ==
    /\ enriching[s] # None /\ enriching[s].todo = <<>>
    /\ IF enriching[s].selected = None THEN UNCHANGED <<stored, facts>>
       ELSE LET release == Enriched(enriching[s].release, enriching[s].selected)
            IN  /\ stored' = [stored EXCEPT ![s].release = release]
                /\ facts' = [facts EXCEPT ![s] = Replace(release)]
    /\ enriching' = [enriching EXCEPT ![s] = None]
    /\ UNCHANGED cache

NegativeExpires(s, k) ==
    /\ cache[s, k] = Negative
    /\ cache' = [cache EXCEPT ![s, k] = None]
    /\ UNCHANGED <<stored, facts, enriching>>

FactsNext ==
    \/ \E s \in Sources : Disappear(s) \/ \E report \in Reports[s] : Project(s, report)
    \/ \E s \in Searched : StartEnrich(s) \/ AskInstance(s) \/ ApplyEnrichment(s)
    \/ \E s \in Searched, k \in DOMAIN ArrInstances : NegativeExpires(s, k)

(***************************************************************************)
(* The queries.                                                            *)
(***************************************************************************)
PassesFilters(label) ==
    /\ Filters.includeCategories = {} \/ label.category \in Filters.includeCategories
    /\ label.category \notin Filters.excludeCategories
    /\ Filters.includeTags = {} \/ label.tags \cap Filters.includeTags # {}
    /\ label.tags \cap Filters.excludeTags = {}
    /\ ~(Filters.excludeManaged /\ "sporos" \in label.tags)

Selectable(s) ==
    /\ stored[s] # None /\ stored[s].available
    /\ s \in QbitSources => PassesFilters(stored[s].label)

\* push_source_reduction: a shared title or a shared external identifier.
Reduced(release) ==
    {s \in Sources : /\ Selectable(s)
                     /\ \/ facts[s].titles \cap IndexedTitles(release) # {}
                        \/ facts[s].external \cap ExternalIds(release) # {}}

\* Complete torrents first, then the others, then data sources, up to the limit.
CandidateSources(release) ==
    LET rank(s) == IF s \in DataSources THEN 3 ELSE IF stored[s].complete THEN 1 ELSE 2
        before(s) == {t \in Reduced(release) : rank(t) < rank(s) \/ (rank(t) = rank(s) /\ t < s)}
    IN  {s \in Reduced(release) : Cardinality(before(s)) < MaxSources}

Agree(a, b) == a = None \/ b = None \/ a = b

KindsLike(kind) ==
    CASE kind \in {"movie", "disc"} -> {"movie", "disc", "unknown_video"}
      [] kind = "season_pack" ->
           {"season_pack", "unknown_video"} \cup IF AllowSeason THEN {"episode"} ELSE {}
      [] kind \in {"episode", "date_episode", "absolute_episode"} -> {kind, "unknown_video"}

\* push_identity, on the columns.
QbitIdentity(release, columns) ==
    \/ release.kind = "unknown_video"
    \/ /\ columns.kind \in KindsLike(release.kind)
       /\ release.kind \in {"movie", "disc"} => Agree(columns.year, release.year)
       /\ release.kind \in {"episode", "season_pack"} => Agree(columns.season, release.season)
       /\ release.kind = "episode" => Agree(columns.episode, release.episode)
       /\ release.kind = "date_episode" => Agree(columns.airDate, release.airDate)
       /\ release.kind = "absolute_episode" => Agree(columns.absolute, release.absolute)

PlausibleIdentity(release, source) ==
    /\ \/ "unknown_video" \in {release.kind, source.kind}
       \/ release.kind = source.kind
       \/ AllowSeason /\ release.kind = "season_pack" /\ source.kind = "episode"
    /\ Agree(release.year, source.year)
    /\ Agree(release.season, source.season)
    /\ release.kind = "season_pack" \/ Agree(release.episode, source.episode)
    /\ Agree(release.absolute, source.absolute)
    /\ Agree(release.airDate, source.airDate)

\* An announced size of 0 is not compared.
InWindow(announced, size) ==
    LET delta == (announced * TolerancePercent + 99) \div 100
    IN  announced > 0 => announced - delta <= size /\ size <= announced + delta

SameTitle(release, announced) ==
    {s \in Sources : /\ Selectable(s)
                     /\ stored[s].columns.title = release.title
                     /\ InWindow(announced, stored[s].size)}

PreflightSource(release, announced) ==
    LET titled == SameTitle(release, announced)
        qbit == {s \in titled \cap QbitSources : QbitIdentity(release, stored[s].columns)}
        data == {s \in titled \cap DataSources :
                    Cardinality({t \in titled \cap DataSources : t < s}) < MaxRows}
    IN  IF \E s \in qbit : stored[s].complete THEN "complete"
        ELSE IF qbit # {} THEN "downloading"
        ELSE IF \E s \in data : PlausibleIdentity(release, stored[s].release) THEN "complete"
        ELSE "none"

(***************************************************************************)
(* Properties.                                                             *)
(***************************************************************************)
\* The matcher would compare the files of the two.
Comparable(release, source) ==
    \/ Compatible(release, source, FALSE) = ""
    \/ /\ AllowSeason
       /\ release.kind = "season_pack"
       /\ source.kind = "episode"
       /\ Compatible(release, source, TRUE) = ""

CompleteTorrents == {s \in QbitSources : stored[s] # None /\ stored[s].complete}

\* The reduction by facts loses no source the matcher could use: whatever projections,
\* scans and enrichments have interleaved, a selectable source whose stored release is
\* compatible with the candidate's, by the titles that are indexed, is among the rows
\* candidate_sources reads.  It is left out only for MAX_PLAUSIBLE_SOURCES others, a complete
\* torrent only for complete torrents, and a torrent only for torrents.
SelectionKeepsMatches ==
    \A release \in Candidates, s \in Sources :
        LET returned == CandidateSources(release)
        IN  /\ Selectable(s)
            /\ Comparable(Capped(release), Capped(stored[s].release))
            /\ s \notin returned
            => /\ Cardinality(returned) = MaxSources
               /\ s \in QbitSources => returned \subseteq QbitSources
               /\ s \in CompleteTorrents => returned \subseteq CompleteTorrents

\* What the last projection and the last enrichment say of a source together.  An enrichment
\* that was under way during a rename writes the former name back into the release, the
\* columns keep the new one.
Described(s) ==
    [stored[s].columns EXCEPT !.alternates = stored[s].release.alternates, !.arr = stored[s].release.arr]

\* The SQL identity of the preflight check is never narrower than the matcher's: it answers
\* "none" (404 to autobrr) only when no source with the announced title and size could have
\* matched under the name it was last projected with.  MAX_PLAUSIBLE_ROWS cuts the directories
\* before their identities are compared: one that could match is missed only behind that many
\* directories of the same title and size.
PreflightKeepsMatches ==
    \A release \in Candidates, announced \in Announced :
        LET titled == SameTitle(release, announced)
        IN  PreflightSource(release, announced) = "none" =>
              \A s \in titled :
                  Comparable(release, Described(s)) =>
                      s \in DataSources /\ Cardinality({t \in titled \ QbitSources : t < s}) >= MaxRows

\* Neither the evaluation's query nor the preflight's loses a source that could match, but for
\* their limits.
QueriesKeepMatches == SelectionKeepsMatches /\ PreflightKeepsMatches
=============================================================================
