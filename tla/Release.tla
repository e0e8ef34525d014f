------------------------------- MODULE Release -------------------------------
(***************************************************************************)
(* Release names: parse_release and episode_keys of sporos-matcher.        *)
(*                                                                         *)
(* A name is the sequence of the marks the scanners of release.rs look     *)
(* for: words, episode, season, date and absolute marks, years, disc and   *)
(* technical words.  What the scanners do to bytes to find a mark is left  *)
(* out; which mark decides, and what becomes of the rest, is kept.         *)
(***************************************************************************)
EXTENDS Integers, Sequences, FiniteSets, FiniteSetsExt

CONSTANT None    \* an absent Option

\* A word is a text in one of its spellings: letter case and separators ("upper",
\* "lower") and the Unicode form ("decomposed", which nfc() turns into "lower").
Word(text, spelling) == [mark |-> "word", text |-> text, spelling |-> spelling]

Episode(season, first, last) ==
    [mark |-> "episode", season |-> season, first |-> first, last |-> last]

Season(season) == [mark |-> "season", season |-> season]

AirDate(day) == [mark |-> "date", day |-> day]

Absolute(number) == [mark |-> "absolute", number |-> number]

Year(year) == [mark |-> "year", year |-> year]

Disc == [mark |-> "disc"]

Technical(text) == [mark |-> "technical", text |-> text]

Marked(name, mark) == {i \in 1 .. Len(name) : name[i].mark = mark}

Has(name, mark) == Marked(name, mark) # {}

At(name, mark) == Min(Marked(name, mark))

\* find_episode, find_season, find_date, find_absolute_episode, is_disc and
\* find_year are tried in this order; the first that finds something decides.
KindOf(name) ==
    CASE Has(name, "episode") -> "episode"
      [] ~Has(name, "episode") /\ Has(name, "season") -> "season_pack"
      [] ~Has(name, "episode") /\ ~Has(name, "season") ->
           IF Has(name, "date") THEN "date_episode"
           ELSE IF Has(name, "absolute") THEN "absolute_episode"
           ELSE IF Has(name, "disc") THEN "disc"
           ELSE IF Has(name, "year") THEN "movie"
           ELSE "unknown_video"

DecidingMark ==
    [episode |-> "episode", season_pack |-> "season", date_episode |-> "date",
     absolute_episode |-> "absolute", movie |-> "year"]

\* The title is what stands before the deciding mark: all of the name for a disc,
\* the part before the technical suffix for an unknown video.
TitleEnd(name, kind) ==
    IF kind \in DOMAIN DecidingMark THEN At(name, DecidingMark[kind]) - 1
    ELSE IF kind = "unknown_video" /\ Has(name, "technical")
    THEN At(name, "technical") - 1
    ELSE Len(name)

\* normalize_title: canonical composition, lower case and one space between words,
\* so that names which differ only in the spelling of their words become equal.
NormalizeTitle(name) ==
    [i \in DOMAIN name |->
        IF name[i].mark = "word" THEN [mark |-> "word", text |-> name[i].text] ELSE name[i]]

Descriptor(kind, title) ==
    [kind |-> kind, title |-> title, alternates |-> <<>>, year |-> None, season |-> None,
     episode |-> None, episodeEnd |-> None, absolute |-> None, airDate |-> None,
     arr |-> None]

\* What the deciding mark adds to the descriptor.
WithMark(base, mark) ==
    CASE base.kind = "episode" ->
           [base EXCEPT !.season = mark.season, !.episode = mark.first, !.episodeEnd = mark.last]
      [] base.kind = "season_pack" -> [base EXCEPT !.season = mark.season]
      [] base.kind = "date_episode" -> [base EXCEPT !.airDate = mark.day]
      [] base.kind = "absolute_episode" -> [base EXCEPT !.absolute = mark.number]
      [] base.kind = "movie" -> [base EXCEPT !.year = mark.year]

ParseAs(kind, name) ==
    LET base == Descriptor(kind, NormalizeTitle(SubSeq(name, 1, TitleEnd(name, kind))))
    IN  IF kind \in DOMAIN DecidingMark
        THEN WithMark(base, name[At(name, DecidingMark[kind])])
        ELSE base

ParseRelease(name) == ParseAs(KindOf(name), name)

\* The episodes that a release stands for; a range that runs backwards is empty.
KeysOf(release) ==
    LET last == IF release.episodeEnd = None THEN release.episode ELSE release.episodeEnd
    IN CASE release.kind = "episode" ->
              {<<"season", release.season, e>> : e \in release.episode .. last}
         [] release.kind = "date_episode" -> {<<"date", release.airDate, 0>>}
         [] release.kind = "absolute_episode" -> {<<"absolute", release.absolute, 0>>}
         [] OTHER -> {}

EpisodeKeys(name) == KeysOf(ParseRelease(name))
=============================================================================
