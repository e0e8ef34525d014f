------------------------- MODULE MCPieceIntegrity -------------------------
(* Every layout of up to three files of up to three bytes.                 *)
EXTENDS PieceIntegrity

CONSTANTS MaxFiles, MaxSize

MCManifests ==
    UNION {[sizes : [1 .. n -> 0 .. MaxSize], mapped : SUBSET (1 .. n), v2 : BOOLEAN] :
              n \in 0 .. MaxFiles}

Policy(mode, maxMissing, minRatio, combine) ==
    [mode |-> mode, maxMissing |-> maxMissing, minRatio |-> minRatio, combine |-> combine]

MCPolicies ==
    {Policy("never", -1, -1, "and"), Policy("always", -1, -1, "and"),
     Policy("complete_only", -1, -1, "and"),
     Policy("threshold", 1, -1, "and"), Policy("threshold", 1, -1, "or"),
     Policy("threshold", 0, 500000, "and"), Policy("threshold", 0, 500000, "or")}
=============================================================================
