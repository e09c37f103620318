------------------------------ MODULE MCStartup ------------------------------
EXTENDS Startup

\* Two files, the second of two statements as 0004_host_inventory.sql, shipped
\* by the second release; a node and a service on it.
MCStatements == <<1, 2>>
MCReleases == {1, 2}
MCSeeds == <<"RPSG01", "OBLN01">>
MCHostOf == [a \in {"RPSG01", "OBLN01"} |-> IF a = "OBLN01" THEN "RPSG01" ELSE None]
=============================================================================
