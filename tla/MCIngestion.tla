---------------------------- MODULE MCIngestion ----------------------------
(***************************************************************************)
(* Small instances of Ingestion: the bodies collectors submit.             *)
(***************************************************************************)
EXTENDS Ingestion

CONSTANTS c1, c2, m1

Update(c, state, backfill) ==
    [owner |-> c, kind |-> "mission_update", valid |-> TRUE,
     mission |-> m1, state |-> state, backfill |-> backfill]

Other(c, kind, valid) ==
    [owner |-> c, kind |-> kind, valid |-> valid,
     mission |-> m1, state |-> "Created", backfill |-> FALSE]

\* A reporter of one mission (normal entry, a step, a privileged jump) that
\* reports the host's inventory as well.
ReporterBodies ==
    {Update(c1, "Created", FALSE), Update(c1, "Queued", FALSE),
     Update(c1, "Completed", TRUE), Other(c1, "host_inventory", TRUE)}

\* Two collectors that report the same mission, one of them privileged.
RacingBodies ==
    {Update(c1, "Created", FALSE), Update(c1, "Queued", FALSE),
     Update(c2, "Created", FALSE), Update(c2, "Completed", TRUE)}

\* Every kind of event, well formed or not, legal or not, in its own name or in another:
\* accepted, refused for good, or failing at any of its storage calls.
MixedBodies ==
    {Update(c1, "Created", FALSE), Update(c1, "Running", TRUE),
     Update(c1, "Review", FALSE), Update(c1, "Bogus", TRUE),
     Other(c1, "host_inventory", TRUE), Other(None, "host_inventory", TRUE),
     Other(c1, "heartbeat", TRUE), Other(c1, "heartbeat", FALSE),
     Other(c1, "generic", FALSE)}
=============================================================================
