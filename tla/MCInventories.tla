--------------------------- MODULE MCInventories ---------------------------
(* Two torrents, and a data root that is scanned.                                      *)
EXTENDS Inventories, TLC

\* A root with a file, a directory with a disc and a directory of releases.
MCKindOf ==
    <<1>> :> "video" @@
    <<2>> :> "directory" @@ <<2, 1>> :> "disc" @@ <<2, 1, 1>> :> "video" @@ <<2, 2>> :> "other" @@
    <<3>> :> "directory" @@ <<3, 1>> :> "video" @@ <<3, 2>> :> "link"

MCInitialDisks == { DOMAIN MCKindOf \ {<<2, 2>>} }

ASSUME ScanBounds == Scanning!Bounds(MaxName)
=============================================================================
