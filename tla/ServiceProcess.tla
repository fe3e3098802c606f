--------------------------- MODULE ServiceProcess ---------------------------
(***************************************************************************)
(* The life of the pods of one service: main() acquires one resource after *)
(* the other, migrates the database, and serves until SIGTERM; then it     *)
(* drains for 15 s and the deferred functions release what was acquired,   *)
(* last one first.  Every failure before that is os.Exit(1), which runs no *)
(* deferred function, and the kubelet starts the container again.  The     *)
(* pods share the database and the topic; a pod may run an older image.    *)
(***************************************************************************)
EXTENDS Naturals, Sequences, FiniteSets

CONSTANTS
    Pods,
    Boots,       \* the boot sequences to consider, one per kind of service
    Envs,        \* the ConfigMaps to consider
    Known,       \* [Pods -> the number of migrations in the pod's image]
    Nil,
    MaxOutages,  \* how often a dependency goes down (a bound)
    MaxStops     \* how often a pod is signalled or killed (a bound)

Dependencies == {"postgres", "redis", "broker"}
Resources    == {"telemetry", "profiler", "pool", "redis", "publisher"}

\* What an environment says.  bad: the set-up calls whose settings are refused.
Env == [name : BOOLEAN, storage : {"memory", "postgres"},
        url : {"none", "postgres", "postgresql"}, migrations : BOOLEAN,
        events : {"kafka", "jetstream", "other"}, address : BOOLEAN, redis : BOOLEAN,
        bad : SUBSET {"telemetry", "metrics", "profiler", "topic", "listen"}]

ASSUME EnvAssumption == Envs \subseteq Env
ASSUME KnownAssumption == Known \in [Pods -> Nat \ {0}] /\ Nil \notin Pods
ASSUME BoundAssumption == MaxOutages \in Nat /\ MaxStops \in Nat

----------------------------------------------------------------------------
(* What each main() does, in its order.  "publisher" is buildPublisher with *)
(* its no-op; "broker" is the publisher ingestion cannot do without.        *)

Details == <<"config", "telemetry", "metrics", "profiler", "pool", "migrate", "publisher", "listen">>
Ratings == <<"config", "telemetry", "metrics", "profiler", "pool", "migrate", "publisher", "listen">>
Reviews == <<"config", "telemetry", "metrics", "profiler", "pool", "migrate", "publisher", "listen">>
Notification == <<"config", "telemetry", "metrics", "profiler", "pool", "migrate", "listen">>
DLQueue == <<"config", "telemetry", "metrics", "profiler", "metrics", "pool", "migrate", "listen">>
Productpage == <<"config", "telemetry", "metrics", "profiler", "redis", "listen">>
Ingestion == <<"config", "telemetry", "metrics", "profiler", "broker", "listen">>

Services == {Details, Ratings, Reviews, Notification, DLQueue, Productpage, Ingestion}

ASSUME BootsAssumption == Boots \subseteq Services

VARIABLES
    boot, env,       \* what the pods run, and their configuration: never change
    version, dirty,  \* schema_migrations of the database
    lock,            \* who holds golang-migrate's advisory lock
    topic,           \* whether the topic or stream exists
    up,              \* the dependencies that can be reached
    pc,              \* [Pods -> where the process is]
    at,              \* [Pods -> the step of boot it is at]
    open,            \* [Pods -> the resources whose release is deferred]
    req,             \* [Pods -> where its request is]
    late,            \* [Pods -> whether the drain ran out of time]
    outages, stops   \* the bounds' counters

image    == <<boot, env>>
database == <<version, dirty, lock>>
process  == <<pc, at, open, late>>
world    == <<topic, up, outages, stops>>
vars     == <<image, database, process, req, world>>

Phases   == {"down", "boot", "lock", "migrate", "apply", "serve", "drain", "close"}
Requests == {"none", "accepted", "query", "redis", "publish"}

Has(s) == \E i \in 1..Len(boot) : boot[i] = s

\* Which of its resources the service has under this configuration.
Pooled    == Has("pool") /\ env.storage = "postgres"
Cached    == Has("redis") /\ env.redis
Publishes == Has("broker") \/ (Has("publisher") /\ (env.events = "jetstream" \/ env.address))
Migrates  == Pooled /\ env.migrations
Wired     == (IF Pooled THEN {"pool"} ELSE {}) \cup (IF Cached THEN {"redis"} ELSE {})
                \cup (IF Publishes THEN {"publisher"} ELSE {})

Init ==
    /\ boot \in Boots /\ env \in Envs
    /\ version = 0 /\ dirty = FALSE /\ lock = Nil /\ topic = FALSE
    /\ up = Dependencies /\ outages = 0 /\ stops = 0
    /\ pc = [p \in Pods |-> "down"] /\ at = [p \in Pods |-> 1]
    /\ open = [p \in Pods |-> {}] /\ late = [p \in Pods |-> FALSE]
    /\ req = [p \in Pods |-> "none"]

----------------------------------------------------------------------------
(* Boot.                                                                   *)

At(p, s) == pc[p] = "boot" /\ boot[at[p]] = s

\* The process is gone, with its request and its database session.
Gone(p) ==
    /\ pc' = [pc EXCEPT ![p] = "down"]
    /\ at' = [at EXCEPT ![p] = 1]
    /\ open' = [open EXCEPT ![p] = {}]
    /\ late' = [late EXCEPT ![p] = FALSE]
    /\ req' = [req EXCEPT ![p] = "none"]
    /\ lock' = IF lock = p THEN Nil ELSE lock

\* os.Exit(1).
Exit(p) == Gone(p) /\ UNCHANGED <<image, version, dirty, world>>

\* The next statement of main, with the release of rs deferred.
Proceed(p, rs) ==
    /\ pc' = [pc EXCEPT ![p] = "boot"]
    /\ at' = [at EXCEPT ![p] = at[p] + 1]
    /\ open' = [open EXCEPT ![p] = open[p] \cup rs]
    /\ UNCHANGED <<image, late, req>>

\* The kubelet starts the container.
Start(p) ==
    /\ pc[p] = "down"
    /\ pc' = [pc EXCEPT ![p] = "boot"]
    /\ UNCHANGED <<image, database, at, open, late, req, world>>

Load(p) ==
    /\ At(p, "config")
    /\ IF env.name /\ (env.storage = "postgres" => env.url # "none")
       THEN Proceed(p, {}) /\ UNCHANGED <<database, world>>
       ELSE Exit(p)

SetupTelemetry(p) ==
    /\ At(p, "telemetry")
    /\ IF "telemetry" \in env.bad THEN Exit(p)
       ELSE Proceed(p, {"telemetry"}) /\ UNCHANGED <<database, world>>

SetupMetrics(p) ==
    /\ At(p, "metrics")
    /\ IF "metrics" \in env.bad THEN Exit(p)
       ELSE Proceed(p, {}) /\ UNCHANGED <<database, world>>

StartProfiler(p) ==
    /\ At(p, "profiler")
    /\ IF "profiler" \in env.bad THEN Exit(p)
       ELSE Proceed(p, {"profiler"}) /\ UNCHANGED <<database, world>>

\* The pool is pinged, and closed again when the database does not answer.
NewPool(p) ==
    /\ At(p, "pool")
    /\ IF ~Pooled THEN Proceed(p, {}) /\ UNCHANGED <<database, world>>
       ELSE IF "postgres" \in up THEN Proceed(p, {"pool"}) /\ UNCHANGED <<database, world>>
       ELSE Exit(p)

\* "postgresql://" has 13 characters and is compared with the first 14: only
\* "postgres://" becomes the scheme the migrate driver is registered for.
ConvertToPgxURL(url) == IF url = "postgres" THEN "pgx5" ELSE url

\* NewWithSourceInstance opens a connection of its own; Up then waits for the lock.
RunMigrations(p) ==
    /\ At(p, "migrate")
    /\ IF ~Migrates THEN Proceed(p, {}) /\ UNCHANGED <<database, world>>
       ELSE IF ConvertToPgxURL(env.url) = "pgx5" /\ "postgres" \in up
       THEN /\ pc' = [pc EXCEPT ![p] = "lock"]
            /\ UNCHANGED <<image, database, at, open, late, req, world>>
       ELSE Exit(p)

\* pg_advisory_lock.
Lock(p) ==
    /\ pc[p] = "lock" /\ lock = Nil /\ "postgres" \in up
    /\ lock' = p
    /\ pc' = [pc EXCEPT ![p] = "migrate"]
    /\ UNCHANGED <<image, version, dirty, at, open, late, req, world>>

\* 15 s without the lock, which only a migration that is being applied takes,
\* or the connection breaks.
LockFails(p) ==
    /\ pc[p] = "lock"
    /\ "postgres" \in up => (lock # Nil /\ pc[lock] = "apply")
    /\ Exit(p)

\* Mutant: ErrNoChange is an error too.
UpErrNoChange(p) ==
    /\ pc[p] = "migrate"
    /\ IF dirty \/ version >= Known[p] \/ "postgres" \notin up THEN Exit(p)
       ELSE /\ version' = version + 1 /\ dirty' = TRUE
            /\ pc' = [pc EXCEPT ![p] = "apply"]
            /\ UNCHANGED <<image, lock, at, open, late, req, world>>

\* Mutant: main logs what RunMigrations returns and goes on.
UpErrorLogged(p) ==
    /\ pc[p] = "migrate"
    /\ IF dirty \/ version >= Known[p] \/ "postgres" \notin up
       THEN Proceed(p, {}) /\ lock' = Nil /\ UNCHANGED <<version, dirty, world>>
       ELSE /\ version' = version + 1 /\ dirty' = TRUE
            /\ pc' = [pc EXCEPT ![p] = "apply"]
            /\ UNCHANGED <<image, lock, at, open, late, req, world>>

\* Up: a dirty version, or one this image has no file for, is an error; none
\* left to apply is not (ErrNoChange); else the next one is marked dirty.
Up(p) ==
    /\ pc[p] = "migrate"
    /\ IF dirty \/ version > Known[p] \/ "postgres" \notin up THEN Exit(p)
       ELSE IF version = Known[p]
       THEN Proceed(p, {}) /\ lock' = Nil /\ UNCHANGED <<version, dirty, world>>
       ELSE /\ version' = version + 1 /\ dirty' = TRUE
            /\ pc' = [pc EXCEPT ![p] = "apply"]
            /\ UNCHANGED <<image, lock, at, open, late, req, world>>

\* The file is executed and the mark removed, or the connection breaks in between.
Apply(p) ==
    /\ pc[p] = "apply"
    /\ IF "postgres" \notin up THEN Exit(p)
       ELSE /\ dirty' = FALSE
            /\ pc' = [pc EXCEPT ![p] = "migrate"]
            /\ UNCHANGED <<image, version, lock, at, open, late, req, world>>

\* kafkapub: a topic that exists will do, and so will a refusal without a
\* message; any other refusal ends the process.
EnsureTopic(p) ==
    \/ "topic" \notin env.bad /\ topic' = TRUE /\ Proceed(p, {"publisher"})
    \/ "topic" \in env.bad /\ topic' = topic /\ Proceed(p, {"publisher"})
    \/ "topic" \in env.bad /\ Exit(p)

\* natspub: a stream whose name is in use will do; any refusal ends the process.
EnsureStream(p) ==
    IF "topic" \in env.bad THEN Exit(p) ELSE topic' = TRUE /\ Proceed(p, {"publisher"})

\* NewProducer of either package needs its broker, and one that takes the login
\* and the topic.
NewProducer(p) ==
    IF "broker" \notin up THEN Exit(p)
    ELSE /\ IF env.events = "jetstream" THEN EnsureStream(p) ELSE EnsureTopic(p)
         /\ UNCHANGED <<database, up, outages, stops>>

\* buildPublisher: without brokers the Kafka publisher is a no-op.
BuildPublisher(p) ==
    /\ At(p, "publisher")
    /\ IF env.events = "kafka" /\ ~env.address
       THEN Proceed(p, {}) /\ UNCHANGED <<database, world>>
       ELSE IF env.events # "other" /\ env.address THEN NewProducer(p) ELSE Exit(p)

\* ingestion "must be wired to a real broker".
BuildBroker(p) ==
    /\ At(p, "broker")
    /\ IF env.events # "other" /\ env.address THEN NewProducer(p) ELSE Exit(p)

\* Redis is optional, but when it is configured it must answer the ping.
PingRedis(p) ==
    /\ At(p, "redis")
    /\ IF ~Cached THEN Proceed(p, {}) /\ UNCHANGED <<database, world>>
       ELSE IF "redis" \in up THEN Proceed(p, {"redis"}) /\ UNCHANGED <<database, world>>
       ELSE Exit(p)

\* Mutant: main goes on while the servers run.
ListenProceeds(p) ==
    /\ At(p, "listen")
    /\ pc' = [pc EXCEPT ![p] = "serve"] /\ at' = [at EXCEPT ![p] = at[p] + 1]
    /\ UNCHANGED <<image, database, open, late, req, world>>

\* server.Run starts both servers and from here on catches SIGTERM.
Listen(p) ==
    /\ At(p, "listen")
    /\ pc' = [pc EXCEPT ![p] = "serve"]
    /\ UNCHANGED <<image, database, at, open, late, req, world>>

\* A server that cannot listen ends the process, without a drain.
ListenFails(p) == pc[p] = "serve" /\ "listen" \in env.bad /\ Exit(p)

----------------------------------------------------------------------------
(* Requests, one at a time: a handler of the service queries, then publishes. *)

Goes(p, where) ==
    /\ req' = [req EXCEPT ![p] = where]
    /\ UNCHANGED <<image, database, process, world>>

\* With nothing wired the handler answers at once.
Accept(p) ==
    /\ pc[p] = "serve" /\ req[p] = "none"
    /\ Goes(p, IF Wired = {} THEN "none" ELSE "accepted")

\* A connection is taken from the pool; a closed pool refuses.
Acquire(p) ==
    /\ req[p] = "accepted"
    /\ IF ~Pooled THEN Goes(p, IF Cached THEN "redis" ELSE "publish")
       ELSE Goes(p, IF "pool" \in open[p] THEN "query" ELSE "none")

\* The answer of the database, or an error.  Neither need come: the context of
\* a request has no deadline, and a shutdown does not cancel it.
Query(p) ==
    /\ req[p] = "query"
    /\ \/ Publishes /\ "postgres" \in up /\ Goes(p, "publish")
       \/ Goes(p, "none")

\* The pending store fails open.
Reconcile(p) == req[p] = "redis" /\ Goes(p, "none")

\* ProduceSync retries while the broker is away, PublishMsg gives up after a
\* while, and a closed client refuses.
Publish(p) ==
    /\ req[p] = "publish"
    /\ "broker" \in up \/ "publisher" \notin open[p] \/ env.events = "jetstream"
    /\ Goes(p, "none")

Handle(p) == Acquire(p) \/ Query(p) \/ Reconcile(p) \/ Publish(p)

----------------------------------------------------------------------------
(* Shutdown.                                                               *)

Moves(p, where) ==
    /\ pc' = [pc EXCEPT ![p] = where]
    /\ UNCHANGED <<image, database, at, open, req, world>>

\* SIGTERM while the servers run.
Signal(p) ==
    /\ pc[p] = "serve" /\ stops < MaxStops
    /\ pc' = [pc EXCEPT ![p] = "drain"] /\ stops' = stops + 1
    /\ UNCHANGED <<image, database, at, open, late, req, topic, up, outages>>

\* Mutant: Run returns when the signal comes.
DrainedAtOnce(p) == pc[p] = "drain" /\ Moves(p, "close") /\ UNCHANGED late

\* Shutdown returns when the handlers have answered.
Drained(p) == pc[p] = "drain" /\ req[p] = "none" /\ Moves(p, "close") /\ UNCHANGED late

\* Mutant: Shutdown without a deadline.
DrainWaits(p) == Drained(p)

\* The 15 s are over; the error is logged.
DrainExpires(p) ==
    /\ pc[p] = "drain" /\ req[p] # "none"
    /\ Moves(p, "close")
    /\ late' = [late EXCEPT ![p] = TRUE]

Rank == [telemetry |-> 1, profiler |-> 2, pool |-> 3, redis |-> 4, publisher |-> 5]

\* Deferred functions, the last one first.  pool.Close waits for the
\* connections that are in use.
Release(p) ==
    /\ pc[p] = "close"
    /\ \E r \in open[p] :
         /\ \A q \in open[p] : Rank[q] <= Rank[r]
         /\ r = "pool" => req[p] # "query"
         /\ open' = [open EXCEPT ![p] = open[p] \ {r}]
    /\ UNCHANGED <<image, database, pc, at, late, req, world>>

\* main returns; a handler that still runs is cut off.
Return(p) == pc[p] = "close" /\ open[p] = {} /\ Exit(p)

----------------------------------------------------------------------------
(* The world: outages, and processes that die where they are.  Before      *)
(* server.Run has set up its handler a SIGTERM is such a death.            *)

Outage(d) ==
    /\ d \in up /\ outages < MaxOutages
    /\ up' = up \ {d} /\ outages' = outages + 1
    /\ UNCHANGED <<image, database, process, req, topic, stops>>

Recovery(d) ==
    /\ d \notin up
    /\ up' = up \cup {d}
    /\ UNCHANGED <<image, database, process, req, topic, outages, stops>>

Kill(p) ==
    /\ pc[p] # "down" /\ stops < MaxStops
    /\ stops' = stops + 1
    /\ Gone(p)
    /\ UNCHANGED <<image, version, dirty, topic, up, outages>>

----------------------------------------------------------------------------
Boot(p) ==
    \/ Start(p) \/ Load(p) \/ SetupTelemetry(p) \/ SetupMetrics(p) \/ StartProfiler(p)
    \/ NewPool(p) \/ RunMigrations(p) \/ LockFails(p) \/ Up(p) \/ Apply(p)
    \/ BuildPublisher(p) \/ BuildBroker(p) \/ PingRedis(p) \/ Listen(p) \/ ListenFails(p)

Shutdown(p) == Drained(p) \/ DrainExpires(p) \/ Release(p) \/ Return(p)

Next ==
    \/ \E p \in Pods : Boot(p) \/ Lock(p) \/ Shutdown(p) \/ Accept(p) \/ Handle(p) \/ Signal(p) \/ Kill(p)
    \/ \E d \in Dependencies : Outage(d) \/ Recovery(d)

Spec == Init /\ [][Next]_vars

\* The kubelet restarts what stopped, processes go on, and handlers too but for
\* the database, which may never answer; the queue of an advisory lock is first
\* come, first served.
Fairness ==
    \A p \in Pods :
        /\ WF_vars(Boot(p)) /\ SF_vars(Lock(p)) /\ WF_vars(Shutdown(p))
        /\ WF_vars(Acquire(p) \/ Reconcile(p) \/ Publish(p))

FairSpec == Spec /\ Fairness

----------------------------------------------------------------------------
(* Properties.                                                             *)

TypeOK ==
    /\ boot \in Boots /\ env \in Envs
    /\ version \in Nat /\ dirty \in BOOLEAN /\ lock \in Pods \cup {Nil}
    /\ topic \in BOOLEAN /\ up \subseteq Dependencies
    /\ pc \in [Pods -> Phases] /\ at \in [Pods -> 1..8]
    /\ open \in [Pods -> SUBSET Resources] /\ late \in [Pods -> BOOLEAN]
    /\ req \in [Pods -> Requests]
    /\ outages \in 0..MaxOutages /\ stops \in 0..MaxStops

\* A pod that runs migrations serves on a schema that has all of its own
\* completed, whoever applied them, and whatever crashed on the way; only a
\* migration its image does not know can be half applied under it.
ServesMigrated ==
    \A p \in Pods : Migrates /\ pc[p] \in {"serve", "drain", "close"}
        => version >= Known[p] /\ (dirty => version > Known[p])

\* server.Run: "Both servers shut down gracefully".  What a handler needs is
\* open as long as the drain has not run out of time, and the pool is open
\* under a running query even then.
InUseIsOpen ==
    \A p \in Pods : /\ req[p] # "none" /\ ~late[p] => Wired \subseteq open[p]
                    /\ req[p] = "query" => "pool" \in open[p]

\* No query of the pod waits for ever.
Answered(p) == []<>(req[p] # "query")

\* A pod that was told to stop does so by itself, also while the broker keeps
\* its handlers waiting: the kubelet does not have to kill it.  It takes a
\* database that answers, for pool.Close waits for the query of a handler.
Stops == \A p \in Pods : Answered(p) => (pc[p] = "drain" ~> pc[p] = "down")

\* The ping of database.HealthCheck.
HealthCheck == "postgres" \in up

\* ReadinessHandler runs the checks main has wired.
Ready(p) == pc[p] = "serve" /\ (Pooled => HealthCheck)

\* The configuration is one the service can run with.
Configured ==
    /\ env.name /\ env.bad = {}
    /\ Migrates => env.url = "postgres"
    /\ env.storage = "postgres" => env.url # "none"
    /\ Has("publisher") \/ Has("broker") => env.events # "other"
    /\ Publishes => env.address

Healthy(p) ==
    /\ up = Dependencies
    /\ Migrates => ~dirty /\ version <= Known[p]

\* Crash loops end: once its dependencies are back, with a schema that is not
\* half migrated and not newer than the image, and settings nothing refuses, a
\* pod becomes ready and stays so, in whatever order they are started.
Recovers ==
    Configured => \A p \in Pods : <>[]Healthy(p) /\ Answered(p) => <>[]Ready(p)

\* Stops without its condition, as a shutdown with a deadline of 15 s has it.
\* It does not hold: a query without an answer keeps main in pool.Close.
StopsAlways == \A p \in Pods : pc[p] = "drain" ~> pc[p] = "down"
=============================================================================
