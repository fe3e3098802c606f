------------------------ MODULE ServiceProcessProofs ------------------------
(***************************************************************************)
(* Theorems about ServiceProcess, for every set of pods and configurations,*)
(* every mix of images and any number of outages, signals and kills.       *)
(***************************************************************************)
EXTENDS ServiceProcess, TLAPS

\* What the seven boot sequences have in common: they end with "listen", and
\* who opens a pool runs the migrations after it.
LEMMA BootShape ==
    ASSUME NEW b \in Services
    PROVE  /\ Len(b) \in 1..8 /\ DOMAIN b = 1..Len(b)
           /\ \A i \in 1..Len(b) : b[i] = "listen" <=> i = Len(b)
           /\ (\E i \in 1..Len(b) : b[i] = "pool") => \E i \in 1..Len(b) : b[i] = "migrate"
  <1>1. CASE b = Details
    BY <1>1 DEF Details
  <1>2. CASE b = Notification
    BY <1>2 DEF Notification
  <1>3. CASE b = DLQueue
    BY <1>3 DEF DLQueue
  <1>4. CASE b = Productpage
    BY <1>4 DEF Productpage
  <1>5. CASE b = Ingestion
    BY <1>5 DEF Ingestion
  <1> QED
    BY <1>1, <1>2, <1>3, <1>4, <1>5 DEF Services, Details, Ratings, Reviews

----------------------------------------------------------------------------
(* The invariant, pod by pod.                                              *)

\* Pod p has made the step s of its boot.
After(p, s) == \E i \in 1..Len(boot) : i < at[p] /\ boot[i] = s

\* Where the pod is in its boot, by its phase.
Placed(p) ==
    /\ at[p] \in 1..Len(boot)
    /\ pc[p] \in {"serve", "drain", "close"} => at[p] = Len(boot)
    /\ pc[p] \in {"lock", "migrate", "apply"} => boot[at[p]] = "migrate"

\* Who has passed the migration has its own migrations, complete.
SchemaDone(p) ==
    Migrates /\ After(p, "migrate") => version >= Known[p] /\ (dirty => version > Known[p])

\* Until it closes, a pod has what its boot has acquired.
Acquired(p) ==
    pc[p] # "close" =>
        /\ Pooled /\ After(p, "pool") => "pool" \in open[p]
        /\ Cached /\ After(p, "redis") => "redis" \in open[p]
        /\ Publishes /\ (After(p, "publisher") \/ After(p, "broker")) => "publisher" \in open[p]

\* A request runs in a pod that serves or stops, and keeps its connection.
InService(p) ==
    /\ req[p] # "none" => pc[p] \in {"serve", "drain", "close"}
    /\ pc[p] = "close" /\ ~late[p] => req[p] = "none"
    /\ req[p] = "query" => "pool" \in open[p]

PodOK(p) == Placed(p) /\ SchemaDone(p) /\ Acquired(p) /\ InService(p)

PInv == TypeOK /\ \A p \in Pods : PodOK(p)

\* The boot sequence of the pods is one of a service.
LEMMA Shape ==
    ASSUME TypeOK
    PROVE  /\ boot \in Services /\ Len(boot) \in 1..8
           /\ \A i \in 1..Len(boot) : boot[i] = "listen" <=> i = Len(boot)
           /\ Has("pool") => Has("migrate")
  BY BootShape, BootsAssumption DEF TypeOK, Has

\* A pod that has made every step has what is wired, and a schema.
LEMMA Complete ==
    ASSUME TypeOK, NEW p \in Pods, at[p] = Len(boot), NEW s, Has(s), s # "listen"
    PROVE  After(p, s)
  <1>1. PICK i \in 1..Len(boot) : boot[i] = s
    BY DEF Has
  <1>2. i # Len(boot)
    BY <1>1, Shape
  <1> QED
    BY <1>1, <1>2, Shape DEF After

\* The pods that do not move, when the schema does not go back.
LEMMA OthersOK ==
    ASSUME PInv, NEW p \in Pods, NEW q \in Pods \ {p}, UNCHANGED image,
           pc'[q] = pc[q], at'[q] = at[q], open'[q] = open[q], late'[q] = late[q],
           req'[q] = req[q],
           SchemaDone(q) => SchemaDone(q)'
    PROVE  PodOK(q)'
  BY DEF PInv, PodOK, Placed, Acquired, InService, After, image, Pooled, Cached, Publishes, Has

\* A process that is gone has nothing to answer for.
LEMMA GoneOK ==
    ASSUME PInv, NEW p \in Pods, Gone(p), UNCHANGED <<image, version, dirty>>,
           topic' = topic, up' = up, outages' \in 0..MaxOutages, stops' \in 0..MaxStops
    PROVE  PInv'
  <1>1. TypeOK'
    BY Shape DEF PInv, TypeOK, Gone, image, Phases, Requests
  <1>2. PodOK(p)'
    <2>1. at'[p] = 1 /\ pc'[p] = "down" /\ req'[p] = "none" /\ boot' = boot
      BY DEF Gone, PInv, TypeOK, image
    <2>2. Len(boot) \in 1..8
      BY Shape DEF PInv
    <2>3. \A s : ~After(p, s)'
      BY <2>1, <2>2 DEF After
    <2>4. Placed(p)'
      <3>1. PICK n \in 1..8 : n = Len(boot)
        BY <2>2
      <3>2. 1 \in 1..n
        BY <3>1
      <3>3. (at[p] \in 1..Len(boot))'
        BY <2>1, <3>1, <3>2
      <3> QED
        BY <2>1, <3>3 DEF Placed
    <2>5. SchemaDone(p)' /\ Acquired(p)'
      BY <2>3 DEF SchemaDone, Acquired
    <2>6. InService(p)'
      BY <2>1 DEF InService
    <2> QED
      BY <2>4, <2>5, <2>6 DEF PodOK
  <1>3. ASSUME NEW q \in Pods \ {p} PROVE PodOK(q)'
    BY <1>3, OthersOK DEF Gone, PInv, TypeOK, SchemaDone, After, image, Migrates, Pooled, Has
  <1> QED
    BY <1>1, <1>2, <1>3 DEF PInv

\* os.Exit(1) keeps the invariant.
LEMMA ExitOK ==
    ASSUME PInv, NEW p \in Pods, Exit(p)
    PROVE  PInv'
  BY GoneOK DEF Exit, world, PInv, TypeOK

\* The next statement of main, if the one before did what it is there for.
LEMMA ProceedOK ==
    ASSUME PInv, NEW p \in Pods, NEW rs \in SUBSET Resources, Proceed(p, rs),
           pc[p] \in {"boot", "migrate"}, boot[at[p]] # "listen",
           UNCHANGED <<version, dirty, up, outages, stops>>,
           topic' \in BOOLEAN, lock' \in Pods \cup {Nil},
           Migrates /\ boot[at[p]] = "migrate" => version >= Known[p] /\ ~dirty,
           Pooled /\ boot[at[p]] = "pool" => "pool" \in rs,
           Cached /\ boot[at[p]] = "redis" => "redis" \in rs,
           Publishes /\ boot[at[p]] \in {"publisher", "broker"} => "publisher" \in rs
    PROVE  PInv'
  <1>1. /\ pc'[p] = "boot" /\ at'[p] = at[p] + 1 /\ open'[p] = open[p] \cup rs
        /\ UNCHANGED <<boot, env, late, req>>
    BY DEF Proceed, PInv, TypeOK, image
  <1>2. at[p] \in 1..Len(boot) /\ at[p] # Len(boot) /\ Len(boot) \in 1..8
    BY Shape DEF PInv, PodOK, Placed
  <1>3. at'[p] \in 1..Len(boot) /\ at'[p] \in 1..8
    <2>1. at'[p] = at[p] + 1
      BY <1>1
    <2>2. PICK n \in 1..8 : n = Len(boot)
      BY <1>2
    <2>3. at[p] \in 1..n /\ at[p] # n
      BY <1>2, <2>2
    <2>4. at[p] + 1 \in 1..n /\ at[p] + 1 \in 1..8
      BY <2>3
    <2> QED
      BY <2>1, <2>2, <2>4
  <1>4. TypeOK'
    BY <1>1, <1>3 DEF PInv, TypeOK, Proceed, Phases, image
  <1>5. \A s : After(p, s)' => After(p, s) \/ boot[at[p]] = s
    BY <1>1, <1>2 DEF After
  <1>6. PodOK(p)
    BY DEF PInv
  <1>7. Placed(p)'
    BY <1>1, <1>3 DEF Placed
  <1>8. SchemaDone(p)'
    BY <1>1, <1>5, <1>6 DEF PodOK, SchemaDone, Migrates, Pooled, Has
  <1>9. Acquired(p)'
    BY <1>1, <1>5, <1>6 DEF PodOK, Acquired, Pooled, Cached, Publishes, Has
  <1>10. InService(p)'
    BY <1>1, <1>6 DEF PodOK, InService
  <1>11. ASSUME NEW q \in Pods \ {p} PROVE PodOK(q)'
    <2>1. SchemaDone(q) => SchemaDone(q)'
      BY <1>1 DEF Proceed, PInv, TypeOK, SchemaDone, After, Migrates, Pooled, Has
    <2> QED
      BY <1>1, <2>1, OthersOK DEF Proceed, PInv, TypeOK
  <1> QED
    BY <1>4, <1>7, <1>8, <1>9, <1>10, <1>11 DEF PInv, PodOK

----------------------------------------------------------------------------
(* Every step keeps the invariant.                                         *)

\* A step of pod p alone that moves neither the boot nor the schema.
LEMMA StayOK ==
    ASSUME PInv, NEW p \in Pods, TypeOK', UNCHANGED <<image, at, version, dirty>>,
           \A q \in Pods \ {p} : /\ pc'[q] = pc[q] /\ open'[q] = open[q]
                                 /\ late'[q] = late[q] /\ req'[q] = req[q],
           Placed(p)', Acquired(p)', InService(p)'
    PROVE  PInv'
  <1>1. \A q \in Pods : SchemaDone(q) => SchemaDone(q)'
    BY DEF SchemaDone, After, Migrates, Pooled, Has, image
  <1>2. PodOK(p)'
    BY <1>1 DEF PInv, PodOK
  <1>3. ASSUME NEW q \in Pods \ {p} PROVE PodOK(q)'
    BY <1>1, OthersOK
  <1> QED
    BY <1>2, <1>3 DEF PInv

\* A step that only moves the process from one phase to another in which it
\* owes the same.
LEMMA PhaseOK ==
    ASSUME PInv, NEW p \in Pods, NEW phase \in Phases, pc' = [pc EXCEPT ![p] = phase],
           UNCHANGED <<image, version, dirty, at, open, late, req, world>>,
           lock' \in Pods \cup {Nil}, Placed(p)', pc[p] # "close",
           phase \notin {"serve", "drain"} => phase # "close" /\ req[p] = "none"
    PROVE  PInv'
  <1>1. TypeOK'
    BY DEF PInv, TypeOK, image, world
  <1>2. pc'[p] = phase /\ PodOK(p)
    BY DEF PInv, TypeOK
  <1>3. Acquired(p)'
    BY <1>2 DEF PodOK, Acquired, After, Pooled, Cached, Publishes, Has, image
  <1>4. InService(p)'
    BY <1>2 DEF PodOK, InService
  <1> QED
    BY <1>1, <1>3, <1>4, StayOK DEF PInv, TypeOK

\* A step of a request, within a pod that serves or stops.
LEMMA GoesOK ==
    ASSUME PInv, NEW p \in Pods, NEW where \in Requests, Goes(p, where),
           where = "query" => "pool" \in open[p],
           where # "none" => pc[p] = "serve" \/ req[p] # "none"
    PROVE  PInv'
  <1>1. TypeOK'
    BY DEF PInv, TypeOK, Goes, image, database, process, world
  <1>2. PodOK(p) /\ req'[p] = where
    BY DEF PInv, TypeOK, Goes
  <1>3. UNCHANGED <<image, at, version, dirty, pc, open, late>>
    BY DEF Goes, database, process
  <1>4. Placed(p)' /\ Acquired(p)'
    BY <1>2, <1>3 DEF PodOK, Placed, Acquired, After, Pooled, Cached, Publishes, Has, image
  <1>5. InService(p)'
    BY <1>2, <1>3 DEF PodOK, InService
  <1> QED
    BY <1>1, <1>3, <1>4, <1>5, StayOK DEF Goes, PInv, TypeOK

\* The set-up calls before anything is acquired or after: each goes on or exits.
LEMMA SetUpOK ==
    ASSUME PInv, NEW p \in Pods,
           Load(p) \/ SetupTelemetry(p) \/ SetupMetrics(p) \/ StartProfiler(p)
           \/ NewPool(p) \/ PingRedis(p)
    PROVE  PInv'
  <1> USE DEF At, database, world, Resources
  <1>0. Nil \notin Pods /\ lock \in Pods \cup {Nil} /\ topic \in BOOLEAN
    BY KnownAssumption DEF PInv, TypeOK
  <1>1. CASE Load(p)
    BY <1>0, <1>1, ExitOK, ProceedOK DEF Load
  <1>2. CASE SetupTelemetry(p)
    BY <1>0, <1>2, ExitOK, ProceedOK DEF SetupTelemetry
  <1>3. CASE SetupMetrics(p)
    BY <1>0, <1>3, ExitOK, ProceedOK DEF SetupMetrics
  <1>4. CASE StartProfiler(p)
    BY <1>0, <1>4, ExitOK, ProceedOK DEF StartProfiler
  <1>5. CASE NewPool(p)
    BY <1>0, <1>5, ExitOK, ProceedOK DEF NewPool
  <1>6. CASE PingRedis(p)
    BY <1>0, <1>6, ExitOK, ProceedOK DEF PingRedis
  <1> QED
    BY <1>1, <1>2, <1>3, <1>4, <1>5, <1>6

\* The publishers of both brokers, and the no-op.
LEMMA PublisherOK ==
    ASSUME PInv, NEW p \in Pods, BuildPublisher(p) \/ BuildBroker(p)
    PROVE  PInv'
  <1> USE DEF At, database, world, Resources
  <1>0. /\ lock \in Pods \cup {Nil} /\ topic \in BOOLEAN
        /\ pc[p] = "boot" /\ boot[at[p]] \in {"publisher", "broker"}
    BY DEF PInv, TypeOK, BuildPublisher, BuildBroker
  <1>1. CASE NewProducer(p)
    <2>1. CASE "broker" \notin up
      BY <1>1, <2>1, ExitOK DEF NewProducer
    <2>2. CASE "broker" \in up /\ ~Exit(p)
      <3>1. Proceed(p, {"publisher"}) /\ topic' \in BOOLEAN
            /\ UNCHANGED <<database, up, outages, stops>>
        BY <1>0, <1>1, <2>2 DEF NewProducer, EnsureStream, EnsureTopic
      <3> QED
        BY <1>0, <3>1, ProceedOK
    <2>3. CASE Exit(p)
      BY <2>3, ExitOK
    <2> QED
      BY <2>1, <2>2, <2>3
  <1>2. CASE Exit(p)
    BY <1>2, ExitOK
  <1>3. CASE boot[at[p]] = "publisher" /\ env.events = "kafka" /\ ~env.address
             /\ Proceed(p, {}) /\ UNCHANGED <<database, world>>
    <2>1. ~Has("broker")
      <3>1. at[p] \in 1..Len(boot) /\ boot \in Services
        BY Shape DEF PInv, PodOK, Placed
      <3> QED
        BY <1>3, <3>1 DEF Has, Services, Details, Ratings, Reviews, Notification, DLQueue,
                          Productpage, Ingestion
    <2>2. ~Publishes
      BY <1>3, <2>1 DEF Publishes
    <2> QED
      BY <1>0, <1>3, <2>2, ProceedOK
  <1> QED
    BY <1>1, <1>2, <1>3 DEF BuildPublisher, BuildBroker

\* The migration: the lock, the files one by one, and what breaks in between.
LEMMA MigrationOK ==
    ASSUME PInv, NEW p \in Pods,
           RunMigrations(p) \/ Lock(p) \/ LockFails(p) \/ Up(p) \/ Apply(p)
    PROVE  PInv'
  <1> USE DEF At, database, world, Phases
  <1>0. /\ lock \in Pods \cup {Nil} /\ topic \in BOOLEAN /\ TypeOK /\ PodOK(p)
        /\ version \in Nat /\ Known \in [Pods -> Nat \ {0}]
    BY KnownAssumption DEF PInv, TypeOK
  <1>1. CASE RunMigrations(p)
    <2>1. CASE ~Migrates /\ Proceed(p, {}) /\ UNCHANGED <<database, world>>
      BY <1>0, <1>1, <2>1, ProceedOK DEF RunMigrations
    <2>2. CASE Exit(p)
      BY <2>2, ExitOK
    <2>3. CASE /\ pc' = [pc EXCEPT ![p] = "lock"]
               /\ UNCHANGED <<image, database, at, open, late, req, world>>
      <3>1. Placed(p)' /\ req[p] = "none"
        BY <1>0, <1>1, <2>3 DEF RunMigrations, PodOK, Placed, InService, TypeOK, image
      <3> QED
        BY <1>0, <1>1, <2>3, <3>1, PhaseOK DEF RunMigrations
    <2> QED
      BY <1>1, <2>1, <2>2, <2>3 DEF RunMigrations
  <1>2. CASE Lock(p)
    <2>1. Placed(p)' /\ req[p] = "none"
      BY <1>0, <1>2 DEF Lock, PodOK, Placed, InService, TypeOK, image
    <2> QED
      BY <1>0, <1>2, <2>1, PhaseOK DEF Lock
  <1>3. CASE LockFails(p)
    BY <1>3, ExitOK DEF LockFails
  <1>4. CASE Up(p)
    <2>1. CASE Exit(p)
      BY <2>1, ExitOK
    <2>2. CASE ~dirty /\ version = Known[p] /\ Proceed(p, {}) /\ lock' = Nil
               /\ UNCHANGED <<version, dirty, world>>
      BY <1>0, <1>4, <2>2, ProceedOK DEF Up, PodOK, Placed
    <2>3. CASE /\ ~dirty /\ version < Known[p] /\ version' = version + 1 /\ dirty' = TRUE
               /\ pc' = [pc EXCEPT ![p] = "apply"]
               /\ UNCHANGED <<image, lock, at, open, late, req, world>>
      <3>1. TypeOK'
        BY <1>0, <2>3 DEF TypeOK, image
      <3>2. \A q \in Pods : SchemaDone(q)'
        BY <1>0, <2>3 DEF PInv, PodOK, SchemaDone, After, Migrates, Pooled, Has, image
      <3>3. Placed(p)' /\ Acquired(p)' /\ InService(p)'
        BY <1>0, <1>4, <2>3 DEF Up, TypeOK, PodOK, Placed, Acquired, InService, After, Pooled,
                                Cached, Publishes, Has, image
      <3>4. ASSUME NEW q \in Pods \ {p} PROVE PodOK(q)'
        BY <1>0, <2>3, <3>2, OthersOK DEF TypeOK
      <3> QED
        BY <3>1, <3>2, <3>3, <3>4 DEF PInv, PodOK
    <2>4. version > Known[p] \/ version = Known[p] \/ version < Known[p]
      BY <1>0
    <2>5. dirty \/ version > Known[p] \/ "postgres" \notin up => Exit(p)
      BY <1>4 DEF Up
    <2>6. ASSUME ~dirty, version = Known[p], "postgres" \in up, ~(version > Known[p])
          PROVE  Proceed(p, {}) /\ lock' = Nil /\ UNCHANGED <<version, dirty, world>>
      BY <1>4, <2>6 DEF Up
    <2>7. ASSUME ~dirty, version < Known[p], "postgres" \in up
          PROVE  /\ version' = version + 1 /\ dirty' = TRUE
                 /\ pc' = [pc EXCEPT ![p] = "apply"]
                 /\ UNCHANGED <<image, lock, at, open, late, req, world>>
      BY <1>0, <1>4, <2>7 DEF Up
    <2> QED
      BY <2>1, <2>2, <2>3, <2>4, <2>5, <2>6, <2>7
  <1>5. CASE Apply(p)
    <2>1. CASE Exit(p)
      BY <2>1, ExitOK
    <2>2. CASE /\ dirty' = FALSE /\ pc' = [pc EXCEPT ![p] = "migrate"]
               /\ UNCHANGED <<image, version, lock, at, open, late, req, world>>
      <3>1. TypeOK'
        BY <1>0, <2>2 DEF TypeOK, image
      <3>2. \A q \in Pods : SchemaDone(q)'
        BY <2>2 DEF PInv, PodOK, SchemaDone, After, Migrates, Pooled, Has, image
      <3>3. Placed(p)' /\ Acquired(p)' /\ InService(p)'
        BY <1>0, <1>5, <2>2 DEF Apply, TypeOK, PodOK, Placed, Acquired, InService, After, Pooled,
                                Cached, Publishes, Has, image
      <3>4. ASSUME NEW q \in Pods \ {p} PROVE PodOK(q)'
        BY <1>0, <2>2, <3>2, OthersOK DEF TypeOK
      <3> QED
        BY <3>1, <3>2, <3>3, <3>4 DEF PInv, PodOK
    <2> QED
      BY <1>5, <2>1, <2>2 DEF Apply
  <1> QED
    BY <1>1, <1>2, <1>3, <1>4, <1>5

\* The servers start, or cannot listen.
LEMMA ListenOK ==
    ASSUME PInv, NEW p \in Pods, Listen(p) \/ ListenFails(p) \/ Start(p)
    PROVE  PInv'
  <1> USE DEF At, database, Phases
  <1>0. TypeOK /\ PodOK(p) /\ lock \in Pods \cup {Nil}
    BY DEF PInv, TypeOK
  <1>1. CASE Listen(p)
    <2>1. at[p] = Len(boot)
      BY <1>0, <1>1, Shape DEF Listen, PodOK, Placed
    <2>2. Placed(p)'
      BY <1>0, <1>1, <2>1 DEF Listen, PodOK, Placed, TypeOK, image
    <2> QED
      BY <1>0, <1>1, <2>2, PhaseOK DEF Listen
  <1>2. CASE ListenFails(p)
    BY <1>2, ExitOK DEF ListenFails
  <1>3. CASE Start(p)
    <2>1. Placed(p)' /\ req[p] = "none"
      BY <1>0, <1>3 DEF Start, PodOK, Placed, InService, TypeOK, image
    <2> QED
      BY <1>0, <1>3, <2>1, PhaseOK DEF Start
  <1> QED
    BY <1>1, <1>2, <1>3

\* The steps of a request.
LEMMA HandleOK ==
    ASSUME PInv, NEW p \in Pods, Accept(p) \/ Handle(p)
    PROVE  PInv'
  <1> USE DEF Requests
  <1>1. CASE Accept(p)
    BY <1>1, GoesOK DEF Accept
  <1>2. CASE Acquire(p)
    BY <1>2, GoesOK DEF Acquire
  <1>3. CASE Query(p)
    BY <1>3, GoesOK DEF Query
  <1>4. CASE Reconcile(p)
    BY <1>4, GoesOK DEF Reconcile
  <1>5. CASE Publish(p)
    BY <1>5, GoesOK DEF Publish
  <1> QED
    BY <1>1, <1>2, <1>3, <1>4, <1>5 DEF Handle

\* Signal, drain, and the release of what was acquired.
LEMMA ShutdownOK ==
    ASSUME PInv, NEW p \in Pods, Signal(p) \/ Shutdown(p)
    PROVE  PInv'
  <1> USE DEF Phases, Moves, database
  <1>0. TypeOK /\ PodOK(p)
    BY DEF PInv
  <1>1. CASE Signal(p)
    <2>1. TypeOK'
      BY <1>0, <1>1, BoundAssumption DEF Signal, TypeOK, image
    <2>2. Placed(p)' /\ Acquired(p)' /\ InService(p)'
      BY <1>0, <1>1 DEF Signal, TypeOK, PodOK, Placed, Acquired, InService, After, Pooled,
                        Cached, Publishes, Has, image
    <2> QED
      BY <1>0, <1>1, <2>1, <2>2, StayOK DEF Signal, TypeOK
  <1>2. CASE Drained(p) \/ DrainExpires(p)
    <2>1. TypeOK'
      BY <1>0, <1>2 DEF Drained, DrainExpires, TypeOK, image, world
    <2>2. Placed(p)' /\ Acquired(p)'
      BY <1>0, <1>2 DEF Drained, DrainExpires, TypeOK, PodOK, Placed, Acquired, image
    <2>3. InService(p)'
      BY <1>0, <1>2 DEF Drained, DrainExpires, TypeOK, PodOK, InService
    <2> QED
      BY <1>0, <1>2, <2>1, <2>2, <2>3, StayOK DEF Drained, DrainExpires, TypeOK
  <1>3. CASE Release(p)
    <2>1. TypeOK'
      BY <1>0, <1>3 DEF Release, TypeOK, image, world
    <2>2. Placed(p)' /\ Acquired(p)' /\ InService(p)'
      BY <1>0, <1>3 DEF Release, TypeOK, PodOK, Placed, Acquired, InService, image
    <2> QED
      BY <1>0, <1>3, <2>1, <2>2, StayOK DEF Release, TypeOK
  <1>4. CASE Return(p)
    BY <1>4, ExitOK DEF Return
  <1> QED
    BY <1>1, <1>2, <1>3, <1>4 DEF Shutdown

\* The world: outages come and go, and any process may die.
LEMMA WorldOK ==
    ASSUME PInv,
           (\E d \in Dependencies : Outage(d) \/ Recovery(d)) \/ \E p \in Pods : Kill(p)
    PROVE  PInv'
  <1>1. ASSUME NEW d \in Dependencies, Outage(d) \/ Recovery(d) PROVE PInv'
    <2>1. TypeOK'
      BY <1>1, BoundAssumption DEF Outage, Recovery, PInv, TypeOK, image, database, process
    <2>2. \A p \in Pods : PodOK(p)'
      BY <1>1 DEF Outage, Recovery, PInv, PodOK, Placed, SchemaDone, Acquired, InService, After,
                  Migrates, Pooled, Cached, Publishes, Has, image, database, process
    <2> QED
      BY <2>1, <2>2 DEF PInv
  <1>2. ASSUME NEW p \in Pods, Kill(p) PROVE PInv'
    BY <1>2, GoneOK, BoundAssumption DEF Kill, PInv, TypeOK
  <1> QED
    BY <1>1, <1>2

\* PInv is an invariant of the pods of a service.
THEOREM SafetyInvariant == Spec => []PInv
  <1>1. Init => PInv
    <2>1. ASSUME Init PROVE TypeOK
      <3>1. /\ boot \in Boots /\ env \in Envs /\ version \in Nat /\ dirty \in BOOLEAN
            /\ lock \in Pods \cup {Nil} /\ topic \in BOOLEAN /\ up \subseteq Dependencies
        BY <2>1 DEF Init
      <3>2. outages \in 0..MaxOutages /\ stops \in 0..MaxStops
        BY <2>1, BoundAssumption DEF Init
      <3>3. pc \in [Pods -> Phases] /\ at \in [Pods -> 1..8] /\ req \in [Pods -> Requests]
        BY <2>1 DEF Init, Phases, Requests
      <3>4. open \in [Pods -> SUBSET Resources] /\ late \in [Pods -> BOOLEAN]
        BY <2>1 DEF Init
      <3> QED
        BY <3>1, <3>2, <3>3, <3>4 DEF TypeOK
    <2>2. ASSUME Init, NEW p \in Pods PROVE PodOK(p)
      <3>1. PICK n \in 1..8 : n = Len(boot)
        BY <2>1, <2>2, Shape
      <3>2. 1 \in 1..n /\ \A s : ~After(p, s)
        BY <2>2, <3>1 DEF Init, After
      <3> QED
        BY <2>2, <3>1, <3>2 DEF Init, PodOK, Placed, SchemaDone, Acquired, InService
    <2> QED
      BY <2>1, <2>2 DEF PInv
  <1>2. PInv /\ [Next]_vars => PInv'
    <2>1. ASSUME PInv, UNCHANGED vars PROVE PInv'
      BY <2>1 DEF vars, image, database, process, world, PInv, TypeOK, PodOK, Placed, SchemaDone,
                  Acquired, InService, After, Migrates, Pooled, Cached, Publishes, Has
    <2>2. ASSUME PInv, NEW p \in Pods, Boot(p) PROVE PInv'
      BY <2>2, SetUpOK, PublisherOK, MigrationOK, ListenOK DEF Boot
    <2> QED
      BY <2>1, <2>2, MigrationOK, HandleOK, ShutdownOK, WorldOK DEF Next
  <1> QED
    BY <1>1, <1>2, PTL DEF Spec

----------------------------------------------------------------------------
\* Every variable of the pods keeps its type.
THEOREM TypeCorrect == Spec => []TypeOK
  <1>1. PInv => TypeOK
    BY DEF PInv
  <1> QED
    BY <1>1, SafetyInvariant, PTL

\* A pod that serves has every migration of its own image, completed, whoever
\* applied them and whoever died on the way.
THEOREM SchemaBeforeService == Spec => []ServesMigrated
  <1>1. PInv => ServesMigrated
    <2>1. ASSUME PInv, NEW p \in Pods, Migrates, pc[p] \in {"serve", "drain", "close"}
          PROVE  After(p, "migrate")
      BY <2>1, Shape, Complete DEF PInv, PodOK, Placed, Migrates, Pooled
    <2> QED
      BY <2>1 DEF PInv, PodOK, SchemaDone, ServesMigrated
  <1> QED
    BY <1>1, SafetyInvariant, PTL

\* What a handler needs is open until the drain has run out of time, and the
\* pool is open under a query even then.
THEOREM NothingClosedInUse == Spec => []InUseIsOpen
  <1>1. PInv => InUseIsOpen
    <2> SUFFICES ASSUME PInv, NEW p \in Pods, req[p] # "none", ~late[p]
                 PROVE  Wired \subseteq open[p]
      BY DEF PInv, PodOK, InService, InUseIsOpen
    <2>1. PodOK(p) /\ TypeOK /\ pc[p] # "close" /\ at[p] = Len(boot)
      BY DEF PInv, PodOK, InService, Placed
    <2>2. /\ Pooled => After(p, "pool")
          /\ Cached => After(p, "redis")
          /\ Publishes => After(p, "publisher") \/ After(p, "broker")
      BY <2>1, Complete DEF Pooled, Cached, Publishes
    <2> QED
      BY <2>1, <2>2 DEF PodOK, Acquired, Wired
  <1> QED
    BY <1>1, SafetyInvariant, PTL
=============================================================================
