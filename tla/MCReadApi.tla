------------------------------ MODULE MCReadApi ------------------------------
EXTENDS ReadApi

CONSTANTS c1, c2, k1, k2

\* An agent, the backend service and the node they run on.
MCRegistry == << [id |-> "A001", type |-> "agent",  host |-> "RPSG01"],
                 [id |-> "OBLN01", type |-> "service", host |-> "RPSG01"],
                 [id |-> "RPSG01", type |-> "node", host |-> None] >>

Temperature(t) == [s \in {"temperature_c"} |-> t]
Warm == [s \in Signals |-> IF s = "temperature_c" THEN 1 ELSE 0]
Containers == << [status |-> "running", exit |-> 0, restarts |-> 1],
                 [status |-> "exited", exit |-> 1, restarts |-> 0] >>
Report(collector, type, payload) ==
    [collector |-> collector, type |-> type, payload |-> payload]

MCReports == {
    Report("RPSG01", "heartbeat", 0),
    Report("RPSG01", "system_metrics", Warm),
    Report("RPSG01", "system_metrics", Temperature(2)),
    Report("RPSG01", "docker_status", DockerPayload(TRUE, Containers, TRUE)),
    Report("RPSG01", "host_inventory", None),
    Report("RPSG01", "asset_offline", None)}

Threshold(n) == [s \in Signals |-> n]
MCWarningAt  == Threshold(1)
MCCriticalAt == Threshold(2)
Mission(id, state) == [id |-> id, state |-> state]
MCMissionLists == {<<Mission("M001", "Running"), Mission("M002", "Completed")>>}

Get_(route, of, key) ==
    [route |-> route, of |-> of, key |-> key, declared |-> None, chunks |-> <<>>,
     json |-> TRUE]
Post(declared, chunks) ==
    [route |-> "ingest", of |-> None, key |-> k1, declared |-> declared, chunks |-> chunks,
     json |-> TRUE]
Anonymous(post) == [post EXCEPT !.key = None]
Garbled(post) == [post EXCEPT !.json = FALSE]

MCRequests ==
    {Get_("monitor", None, None), Get_("health", None, None), Get_("metrics", None, None),
     Get_("asset", "RPSG01", k1), Get_("asset", "X", k1),
     Get_("fleet", None, k1), Get_("missions", None, k2), Get_("missions", None, None),
     Get_("mission", "M001", k1), Get_("mission", "M009", k1),
     Get_("docker", "RPSG01", k1), Get_("inventory", "RPSG01", k1),
     Get_("events", "RPSG01", k1), Get_("events", None, k2)}
    \cup {Post(2, <<1, 1>>), Post(3, <<3>>), Post(-1, <<1>>),
          Post(None, <<1, 1>>), Post(None, <<1, 1, 1>>), Post(None, <<3>>),
          Anonymous(Post(2, <<2>>)), Garbled(Post(2, <<2>>)), Garbled(Post(None, <<3>>)),
          Garbled(Anonymous(Post(2, <<2>>)))}

Entry(collector, key) == [collector |-> collector, key |-> key]
Config(keys) ==
    [keys |-> keys, logLevelKnown |-> TRUE, heartbeatInterval |-> 1, offlineTimeout |-> 3]

MCConfigs ==
    {Config(<<Entry(c1, k1), Entry(c2, k2), Entry(c1, k1)>>),
     Config(<<Entry(c1, k1), Entry(c2, k2), Entry(c2, k1)>>),
     Config(<<>>), Config(<<Entry(None, k1)>>), Config(<<Entry(c1, Blank)>>),
     Config(<<Entry(c1, Placeholder)>>),
     [Config(<<Entry(c1, k1)>>) EXCEPT !.offlineTimeout = 1],
     [Config(<<Entry(c1, k1)>>) EXCEPT !.logLevelKnown = FALSE]}
=============================================================================
