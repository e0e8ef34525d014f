----------------------------- MODULE MCMatchInputs -----------------------------
(* Inputs for the matcher: small manifests over a palette of files, and the  *)
(* identities of releases against each other.                                *)
EXTENDS Release, SequencesExt

CONSTANT NoExtension

W(text) == Word(text, "lower")
Ext(text) == [text |-> text, spelling |-> "lower"]
Leaf(name, extension) == [name |-> name, ext |-> Ext(extension)]
Folder(name) == [name |-> name, ext |-> NoExtension]
Show(mark) == <<W("show"), mark>>

Pack == ParseRelease(Show(Season(1)))

\* One episode spelled twice, in a folder and in another size, the next episode, both
\* in one file, two required files of no episode, one in a disc folder and an optional one.
Palette ==
    { [path |-> <<Leaf(Show(Episode(1, 1, None)), "mkv")>>, size |-> 1],
      [path |-> <<Leaf(<<Word("show", "upper"), Episode(1, 1, None)>>, "mkv")>>, size |-> 1],
      [path |-> <<Folder(<<W("show")>>), Leaf(Show(Episode(1, 1, None)), "mkv")>>, size |-> 2],
      [path |-> <<Leaf(Show(Episode(1, 2, None)), "mkv")>>, size |-> 1],
      [path |-> <<Leaf(Show(Episode(1, 1, 2)), "mkv")>>, size |-> 1],
      [path |-> <<Leaf(<<W("extra")>>, "bin")>>, size |-> 2],
      [path |-> <<Leaf(<<W("other")>>, "bin")>>, size |-> 2],
      [path |-> <<Folder(<<Disc>>), Leaf(<<W("extra")>>, "bin")>>, size |-> 2],
      [path |-> <<Folder(<<W("sample")>>), Leaf(<<W("extra")>>, "bin")>>, size |-> 2] }

\* Single files of the episodes.
EpisodeFiles == {{f} : f \in {f \in Palette : EpisodeKeys(Last(f.path).name) # {} /\ f.size = 1}}

FileSets(most) == UNION {kSubset(k, Palette) : k \in 1 .. most}

CandidateOf(files) ==
    LET ordered == SetToSeq(files)
    IN  [files |-> [i \in DOMAIN ordered |->
                      [ordinal |-> i, path |-> ordered[i].path, size |-> ordered[i].size,
                       padding |-> FALSE]],
         pieceLength |-> 1, hash |-> None]

SourceOf(id, kind, release, files) ==
    [id |-> id, kind |-> kind, release |-> release, files |-> SetToSeq(files), hash |-> None,
     available |-> TRUE]

MatchPolicy ==
    [allowFlexible |-> TRUE, allowPartial |-> TRUE, allowSeason |-> TRUE,
     primaryExtensions |-> {"mkv"}, optionalExtensions |-> {"nfo"},
     optionalComponents |-> {"sample"},
     maxFiles |-> 9, maxEdges |-> 9, maxComponentFiles |-> 9, maxOperations |-> 1000]

MatchPolicies ==
    { MatchPolicy, [MatchPolicy EXCEPT !.allowFlexible = FALSE], [MatchPolicy EXCEPT !.allowPartial = FALSE],
      [MatchPolicy EXCEPT !.maxFiles = 3], [MatchPolicy EXCEPT !.maxEdges = 1],
      [MatchPolicy EXCEPT !.maxComponentFiles = 2], [MatchPolicy EXCEPT !.maxOperations = 3] }

ReleaseNames ==
    { Show(Season(1)), Show(Episode(1, 1, None)), Show(Episode(1, 2, None)),
      Show(Episode(2, 1, None)), Show(Episode(1, 1, 2)), Show(AirDate(1)), Show(AirDate(2)),
      Show(Absolute(1)), Show(Absolute(2)), Show(Year(2000)), Show(Year(2001)), Show(Disc),
      <<W("show"), Technical("1080p")>>, <<Word("show", "upper")>>, <<W("film"), Year(2000)>> }

\* The names alone, and two of them as an Arr instance knows them.
Identities ==
    {ParseRelease(name) : name \in ReleaseNames} \cup
    {[ParseRelease(name) EXCEPT !.alternates = <<NormalizeTitle(<<W("show")>>)>>,
                                !.arr = [entity |-> e, others |-> {}]] :
        name \in {Show(Episode(1, 1, None)), <<W("film"), Year(2000)>>}, e \in {1, 2}}

OneFile == { [path |-> <<Leaf(Show(Episode(1, 1, None)), "mkv")>>, size |-> 1] }

\* Manifests the matcher refuses, one with a padding file, and a torrent already there.
OddManifests ==
    LET file(ordinal, path) ==
            [ordinal |-> ordinal, path |-> path, size |-> 1, padding |-> ordinal = 9]
        leaf == Leaf(<<W("show")>>, "mkv")
        inFolder(text) == <<Folder(<<W(text)>>), leaf>>
        manifest(files) == [files |-> files, pieceLength |-> 1, hash |-> 1]
    IN  { manifest(<<>>), [manifest(<<file(1, <<leaf>>)>>) EXCEPT !.pieceLength = 0],
          manifest(<<file(1, <<leaf>>), file(1, inFolder("a"))>>),
          manifest(<<file(1, <<leaf>>), file(2, <<Leaf(<<Word("show", "decomposed")>>, "mkv")>>)>>),
          manifest(<<file(1, inFolder(".."))>>),
          manifest(<<file(1, <<Folder(<<W("a")>>)>>), file(2, inFolder("a"))>>),
          manifest(<<file(1, <<leaf>>), file(2, <<Leaf(<<W("show")>>, "nfo")>>),
                     file(9, inFolder("pad"))>>) }

Batch(candidates, releases, sources, policies) ==
    [candidates |-> candidates, releases |-> releases, sources |-> sources, policies |-> policies]

MCBatches ==
    { \* every three files against every two
      Batch({CandidateOf(c) : c \in FileSets(3)}, {Pack},
            {<<SourceOf(1, "qbit", Pack, s)>> : s \in FileSets(2)}, {MatchPolicy}),
      \* two sources under every policy
      Batch({CandidateOf(c) : c \in FileSets(2)}, {Pack},
            {<<SourceOf(2, "data", Pack, s), SourceOf(1, "qbit", Pack, t)>> :
                s \in EpisodeFiles, t \in EpisodeFiles}, MatchPolicies),
      \* two sources of one kind
      Batch({CandidateOf(c) : c \in FileSets(2)}, {Pack},
            {<<SourceOf(2, "data", Pack, s), SourceOf(1, "data", Pack, t)>> :
                s \in EpisodeFiles, t \in EpisodeFiles}, {MatchPolicy}),
      \* every identity against every other
      Batch({CandidateOf(OneFile)}, Identities,
            {<<SourceOf(1, "data", s, OneFile)>> : s \in Identities}, {MatchPolicy}),
      \* episodes for a season, one of them unavailable or of another season
      Batch({CandidateOf(c) : c \in FileSets(2)}, {Pack},
            {<<SourceOf(1, "qbit", ParseRelease(Show(Episode(1, 1, None))), s),
               [SourceOf(2, "data", ParseRelease(Show(Episode(1, 2, None))), t)
                  EXCEPT !.available = a],
               SourceOf(3, "data", r, OneFile)>> :
                s \in EpisodeFiles, t \in EpisodeFiles, a \in BOOLEAN,
                r \in {Pack, ParseRelease(Show(Episode(2, 1, None)))}}, {MatchPolicy}),
      Batch(OddManifests, {Pack},
            {<<[SourceOf(1, "qbit", Pack, OneFile) EXCEPT !.hash = h]>> : h \in {1, None}},
            {MatchPolicy}) }

(* Names and identities for the stored sources: a torrent that searches run for, one that  *)
(* none runs for, and two directories.                                                     *)
MCNames == { Show(Season(1)), Show(Episode(1, 1, None)), <<W("film"), Year(2000)>> }

MCArrInstances ==
    << [kind |-> "sonarr",
        answers |-> { [entity |-> 1, others |-> {7}, titles |-> <<NormalizeTitle(<<W("alias")>>), NormalizeTitle(<<W("second")>>)>>] }] >>

MCFilters ==
    [includeCategories |-> {"tv", "private"}, excludeCategories |-> {"private"},
     includeTags |-> {"seed", "sporos"}, excludeTags |-> {"hidden"}, excludeManaged |-> TRUE]

MCLabel == [category |-> "tv", tags |-> {"seed"}]

\* One label for each filter that rejects it.
MCRejected ==
    { [category |-> "other", tags |-> {"seed"}], [category |-> "private", tags |-> {"seed"}],
      [category |-> "tv", tags |-> {}], [category |-> "tv", tags |-> {"seed", "hidden"}],
      [category |-> "tv", tags |-> {"sporos"}] }

MCReports ==
    LET report(name, size, complete, label) ==
            [name |-> name, size |-> size, complete |-> complete, label |-> label]
        episode == Show(Episode(1, 1, None))
    IN  << {report(name, 10, complete, MCLabel) : name \in MCNames, complete \in BOOLEAN}
             \cup {report(episode, 10, TRUE, label) : label \in MCRejected}
             \cup {report(episode, 12, TRUE, MCLabel)},
           {report(episode, 10, complete, MCLabel) : complete \in BOOLEAN},
           {report(name, 10, TRUE, None) : name \in {Show(Season(1)), Show(Episode(1, 2, None))}},
           {report(episode, 10, TRUE, None)} >>

MCCandidates ==
    {ParseRelease(name) : name \in MCNames \cup {<<W("alias"), Episode(1, 1, None)>>, <<W("second"), Episode(1, 1, None)>>, <<W("show")>>}}
    \cup {[ParseRelease(<<W("renamed"), Episode(1, 1, None)>>) EXCEPT
             !.arr = [entity |-> 1, others |-> {}]]}
=============================================================================
