-------------------------- MODULE MCServiceProcess --------------------------
(* Instances of ServiceProcess for TLC.                                    *)
EXTENDS ServiceProcess, TLC

CONSTANTS p1, p2

TwoPods == {p1, p2}

\* A rolling update: p2 has one migration more than p1.
RollingUpdate == [p \in TwoPods |-> IF p = p1 THEN 1 ELSE 2]

\* The chart's ConfigMap, with each broker.
Chart == [name |-> TRUE, storage |-> "postgres", url |-> "postgres", migrations |-> TRUE,
          events |-> "kafka", address |-> TRUE, redis |-> TRUE, bad |-> {}]
JetStream == [Chart EXCEPT !.events = "jetstream"]

\* docker-compose without a broker or a database, and settings that are refused.
Local == [Chart EXCEPT !.storage = "memory", !.address = FALSE, !.redis = FALSE]
Refused ==
    {[Chart EXCEPT !.bad = {s}] : s \in {"telemetry", "metrics", "profiler", "topic", "listen"}}
        \cup {[JetStream EXCEPT !.bad = {"topic"}]}
Misconfigured ==
    Refused \cup {[Chart EXCEPT !.name = FALSE], [Chart EXCEPT !.url = "none"],
                  [Chart EXCEPT !.url = "postgresql"], [Chart EXCEPT !.events = "other"]}

SomeEnvs == {Chart, JetStream, Local} \cup Misconfigured
=============================================================================
