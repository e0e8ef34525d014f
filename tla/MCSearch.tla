------------------------------ MODULE MCSearch ------------------------------
(* A search of an indexer, the first for a film, others for episodes; and backfills of *)
(* three torrents.                                                                     *)
EXTENDS Searches

MCIndexerOf == [a \in Attempts |-> CHOOSE i \in Indexers : TRUE]

MCSourceOf ==
    LET first == CHOOSE a \in Attempts : TRUE
    IN  [a \in Attempts |->
           IF a = first THEN [title |-> "film", year |-> 2000, size |-> 40, kind |-> "movie", external |-> {"imdbid"}]
           ELSE [title |-> "show", year |-> None, size |-> 40, kind |-> "episode", external |-> {}]]

MCResource ==
    [id |-> CHOOSE i \in Indexers : TRUE, enable |-> TRUE, protocol |-> "torrent", supportsSearch |-> TRUE,
     redirect |-> FALSE, tags |-> {1}, disabledTill |-> FALSE,
     supported |-> {[field |-> "movie", name |-> "imdbid"], [field |-> "tvsearch", name |-> "q"]}]

MCTags == {[id |-> 1, label |-> "use"], [id |-> 2, label |-> "skip"]}

MCCatalogues ==
    { [tags |-> MCTags, resources |-> {MCResource}],
      [tags |-> MCTags, resources |-> {}],
      [tags |-> MCTags, resources |-> {[MCResource EXCEPT !.tags = {1, 2}]}],
      [tags |-> MCTags, resources |-> {[MCResource EXCEPT !.supported = {[field |-> "tvsearch", name |-> "q"]}]}],
      [tags |-> {[id |-> 1, label |-> "use"]}, resources |-> {MCResource}] }

MCTagPolicy == [include |-> {"use"}, exclude |-> {"skip"}, proxyOnly |-> TRUE]

\* A release of the film, and one of another year.
MCResults == { [title |-> "film", year |-> 2000, size |-> 2], [title |-> "film", year |-> 1999, size |-> 2] }

-----------------------------------------------------------------------------
\* Three torrents in pages of two: the first page selects one of a full page.
Labels(hash, category, tags, managed) ==
    [hash |-> hash, category |-> category, tags |-> tags, managed |-> managed]

MCLabelsOf ==
    << Labels("h1", "film", {}, FALSE), Labels("h2", "film", {"cross"}, TRUE),
       Labels("h3", "series", {"old"}, FALSE) >>

Everything == [hashes |-> {}, includeCategories |-> {}, excludeCategories |-> {},
               includeTags |-> {}, excludeTags |-> {}, indexers |-> {}]

MCSelections ==
    { Everything,
      [Everything EXCEPT !.includeCategories = {"film"}, !.excludeTags = {"cross"}],
      [Everything EXCEPT !.hashes = {"h1", "h3"}, !.indexers = {"i1"}] }

MCCompletedOf == [c \in Completions |-> 3]

ASSUME BackfillBounds == Produce!Bounds(MaxId)
=============================================================================
