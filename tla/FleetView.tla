------------------------------ MODULE FleetView ------------------------------
(***************************************************************************)
(* What the read models make of an asset: connectivity and health          *)
(* (backend/app/services/registry.py and health.py), the header of the     *)
(* docker section of the monitor page (services/monitor.py) and the docker *)
(* telemetry it renders                                                    *)
(* (collectors/.../host_pi/docker_stats.py).  Pure operators.              *)
(***************************************************************************)
EXTENDS Integers, Sequences, FiniteSets

CONSTANTS
    None,
    OfflineTimeout,      \* an older heartbeat means offline
    WarningAge,          \* offline_timeout * health_heartbeat_warning_ratio
    FailuresWarning,     \* health_collector_failures_warning
    WarningAt, CriticalAt  \* [Signals -> thresholds]

\* The measurements of a system_metrics payload; one that is missing or is not
\* a number is not in the payload's domain.
Signals == {"temperature_c", "disk used_percent", "memory used_percent"}

ASSUME ViewAssumption ==
    /\ OfflineTimeout \in Nat \ {0} /\ WarningAge \in Nat /\ WarningAge <= OfflineTimeout
    /\ FailuresWarning \in Nat \ {0}
    /\ WarningAt \in [Signals -> Nat] /\ CriticalAt \in [Signals -> Nat]

\* A heartbeat is [timestamp, failures], failures None if not reported.
Age(heartbeat, now) == now - heartbeat.timestamp

Connectivity(heartbeat, now) ==
    IF heartbeat = None THEN "unknown"
    ELSE IF Age(heartbeat, now) > OfflineTimeout THEN "offline" ELSE "online"

Stale(heartbeat, now) == Age(heartbeat, now) > WarningAge
Failing(heartbeat) == heartbeat.failures # None /\ heartbeat.failures >= FailuresWarning

\* Mutant of Over: a signal that is missing counts against the asset.
OverOrMissing(metrics, threshold) ==
    {s \in Signals : metrics = None \/ s \notin DOMAIN metrics \/ metrics[s] >= threshold[s]}

\* The signals at or over their threshold; metrics is None or a function on the
\* signals reported.  A missing signal is not judged.
Over(metrics, threshold) ==
    IF metrics = None THEN {} ELSE {s \in DOMAIN metrics : metrics[s] >= threshold[s]}

\* compute_health
Health(heartbeat, metrics, now) ==
    LET connectivity == Connectivity(heartbeat, now)
    IN  CASE connectivity = "offline" -> "Offline"
          [] connectivity = "unknown" -> "Unknown"
          [] connectivity = "online" ->
                IF Over(metrics, CriticalAt) # {} THEN "Critical"
                ELSE IF \/ Stale(heartbeat, now) \/ Failing(heartbeat)
                        \/ Over(metrics, WarningAt) # {} THEN "Warning"
                ELSE "Healthy"

Severity(health) ==
    CASE health = "Unknown" -> 0 [] health = "Healthy"  -> 1 [] health = "Warning" -> 2
      [] health = "Critical" -> 3 [] health = "Offline" -> 4

(* Docker *)

\* A container is [status, exit, restarts]; sum of the restarts by recursion over
\* the sequence.
Restarts(containers) ==
    LET upTo[i \in 0..Len(containers)] ==
            IF i = 0 THEN 0 ELSE upTo[i - 1] + containers[i].restarts
    IN  upTo[Len(containers)]

Running(containers) == {i \in DOMAIN containers : containers[i].status = "running"}
Failed(containers) ==
    {i \in DOMAIN containers :
        containers[i].status \in {"exited", "dead"} /\ containers[i].exit # 0}

\* collect: a stopped daemon is telemetry; the counts are fields of the payload.
\* If docker inspect fails for the ids docker ps listed, there are no containers.
DockerPayload(daemon, containers, inspected) ==
    LET found == IF inspected THEN containers ELSE <<>>
    IN  IF ~ daemon THEN [daemon_running |-> FALSE]
        ELSE [daemon_running      |-> TRUE,
              containers_total    |-> Len(found),
              containers_running  |-> Cardinality(Running(found)),
              containers_failed   |-> Cardinality(Failed(found)),
              restart_count_total |-> Restarts(found),
              containers          |-> found]

\* dict.get with a default.
Get(dict, field, default) == IF field \in DOMAIN dict THEN dict[field] ELSE default

\* The header of the docker section: it takes the counts from a "summary".
DockerHeader(payload) ==
    LET summary == Get(payload, "summary", <<>>)
    IN  [daemon  |-> Get(payload, "daemon_running", None),
         running |-> Get(summary, "containers_running", 0),
         total   |-> Get(summary, "containers_total", 0),
         failed  |-> Get(summary, "containers_failed", 0)]
=============================================================================
