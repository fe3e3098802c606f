------------------------------ MODULE DLQueue ------------------------------
(***************************************************************************)
(* The dlqueue service: the dead-letter events it stores and the HTTP      *)
(* requests that work on them at the same time.                            *)
(*                                                                         *)
(* Every handler is a read-modify-write: it reads a row into a local copy, *)
(* runs a domain transition on the copy (dlq_event.go) and writes the      *)
(* whole copy back, with no version check and no transaction around the    *)
(* two calls (dlq_service.go).  ReplayEvent also POSTs the payload to the  *)
(* event source between the read and the write.  Each of these calls is a  *)
(* step here, so the requests interleave where they do in the program.     *)
(***************************************************************************)
EXTENDS Naturals, Sequences

CONSTANTS
    Keys,         \* natural keys (sensor_name, failed_trigger, payload_hash)
    Ids,          \* row identifiers, the uuids NewDLQEvent draws
    Procs,        \* requests the server handles at the same time
    Thresholds,   \* values MAX_RETRIES has had when rows were created
    Backend,      \* STORAGE_BACKEND: "postgres" or "memory"
    Faults,       \* TRUE: calls may fail, answers get lost, pods crash
    MaxArrivals,  \* bound: failures of one natural key delivered to ingest
    MaxPosts,     \* bound: replay POSTs of one natural key that arrive
    BatchLimit,   \* bound: ids in one batch request, its "limit" field
    Nil           \* no row, no copy, no key

Statuses == {"pending", "replayed", "resolved", "poisoned"}

\* A stored event, and the copy a handler works on.  The timestamps
\* LastReplayedAt and ResolvedAt are modelled by whether they are set.
Row == [id : Ids, key : Keys, status : Statuses, retry : Nat, max : Nat \ {0},
        replayedAt : BOOLEAN, resolvedAt : BOOLEAN]

ByIdOps == {"replay", "resolve", "reset"}

Request == [pc   : {"idle", "list", "find", "post", "save", "update"},
            op   : {"none", "ingest"} \cup ByIdOps,
            key  : Keys \cup {Nil},
            ev   : Row \cup {Nil},
            todo : Seq(Ids)]

ASSUME ThresholdsAssumption == Thresholds \subseteq Nat \ {0}
ASSUME BoundsAssumption == MaxArrivals \in Nat /\ MaxPosts \in Nat /\ BatchLimit \in Nat
ASSUME BackendAssumption == Backend \in {"postgres", "memory"} /\ Faults \in BOOLEAN
ASSUME NilAssumption ==
    /\ Nil \notin Row /\ Nil \notin Keys
    /\ Nil \notin [key : Keys, status : Statuses, retry : Nat, max : Nat]

VARIABLES
    rows,      \* the dlq_events table, or the map of the memory backend
    req,       \* the request each server goroutine is handling
    arrivals,  \* how often the DLQ sensor has delivered a failure of the key
    posts,     \* how many replay POSTs of the key the event source received
    acked,     \* keys with a failure the service has answered 201
    owed       \* keys whose last failure answered 201 no POST has followed

vars == <<rows, req, arrivals, posts, acked, owed>>

----------------------------------------------------------------------------
(* The domain transitions, on a copy of the row (dlq_event.go).            *)

\* Mutants: the retry limit is not set, the first failure counts as a retry.
NewDLQEventNoLimit(i, k, m) ==
    [id |-> i, key |-> k, status |-> "pending", retry |-> 0, max |-> 0,
     replayedAt |-> FALSE, resolvedAt |-> FALSE]

NewDLQEventCounted(i, k, m) ==
    [id |-> i, key |-> k, status |-> "pending", retry |-> 1, max |-> m,
     replayedAt |-> FALSE, resolvedAt |-> FALSE]

NewDLQEvent(i, k, m) ==
    [id |-> i, key |-> k, status |-> "pending", retry |-> 0, max |-> m,
     replayedAt |-> FALSE, resolvedAt |-> FALSE]

\* Mutants: poisoned one failure late, not pending again below the limit.
ReIngestLate(e) ==
    [e EXCEPT !.retry  = e.retry + 1,
              !.status = IF e.retry + 1 > e.max THEN "poisoned" ELSE "pending"]

ReIngestKeepsStatus(e) ==
    [e EXCEPT !.retry  = e.retry + 1,
              !.status = IF e.retry + 1 >= e.max THEN "poisoned" ELSE e.status]

ReIngest(e) ==
    [e EXCEPT !.retry  = e.retry + 1,
              !.status = IF e.retry + 1 >= e.max THEN "poisoned" ELSE "pending"]

Replay(e) == [e EXCEPT !.status = "replayed", !.replayedAt = TRUE]

Resolve(e) == [e EXCEPT !.status = "resolved", !.resolvedAt = TRUE]

ResetPoison(e) == [e EXCEPT !.status = "pending", !.retry = 0]

\* Mutant: a poisoned event may be resolved without a reset.
AcceptsPoisoned(op, e) ==
    \/ op = "replay"  /\ e.status = "pending"
    \/ op = "resolve" /\ e.status # "resolved"
    \/ op = "reset"   /\ e.status = "poisoned"

\* The state each operation on one row accepts; it answers an error in others.
Accepts(op, e) ==
    \/ op = "replay"  /\ e.status = "pending"
    \/ op = "resolve" /\ e.status \in {"pending", "replayed"}
    \/ op = "reset"   /\ e.status = "poisoned"

Apply(op, e) ==
    CASE op = "replay"  -> Replay(e)
      [] op = "resolve" -> Resolve(e)
      [] op = "reset"   -> ResetPoison(e)

----------------------------------------------------------------------------
Stored == {i \in Ids : rows[i] # Nil}

WithKey(k) == {i \in Stored : rows[i].key = k}

\* uuid.NewString: an id no row and no event under construction has.
FreshIds == {i \in Ids \ Stored :
                \A q \in Procs : req[q].ev # Nil => req[q].ev.id # i}

\* Mutant: a table without ux_dlq_events_natural_key.
CanInsertNoIndex(e) == rows[e.id] = Nil

\* The primary key and, in postgres only, the unique index on the natural key.
CanInsert(e) == Backend = "postgres" => WithKey(e.key) = {}

Idle == [pc |-> "idle", op |-> "none", key |-> Nil, ev |-> Nil, todo |-> <<>>]

Begin(p, r) == req[p].pc = "idle" /\ req' = [req EXCEPT ![p] = r]

\* The request is answered, or dies: it leaves nothing behind but its writes.
End(p) == req' = [req EXCEPT ![p] = Idle]

Goto(p, pc, e) == req' = [req EXCEPT ![p].pc = pc, ![p].ev = e]

\* One row is done: a batch goes on with its next id, any other request ends.
NextRow(p) ==
    IF Len(req[p].todo) > 1
    THEN req' = [req EXCEPT ![p].pc = "find", ![p].ev = Nil, ![p].todo = Tail(@)]
    ELSE End(p)

At(p, pc) == req[p].pc = pc

Init ==
    /\ rows = [i \in Ids |-> Nil]
    /\ req = [p \in Procs |-> Idle]
    /\ arrivals = [k \in Keys |-> 0]
    /\ posts = [k \in Keys |-> 0]
    /\ acked = {}
    /\ owed = {}

----------------------------------------------------------------------------
(* POST /v1/events: the DLQ sensor delivers a failure, at least once.      *)

BeginIngest(p, k) ==
    /\ arrivals[k] < MaxArrivals
    /\ Begin(p, [Idle EXCEPT !.pc = "find", !.op = "ingest", !.key = k])
    /\ arrivals' = [arrivals EXCEPT ![k] = @ + 1]
    /\ UNCHANGED <<rows, posts, acked, owed>>

\* The answer 201: the sensor will not deliver this failure again.
Created(k) == acked' = acked \cup {k} /\ owed' = owed \cup {k}

IngestFindsResolved(p) ==
    /\ At(p, "find") /\ req[p].op = "ingest"
    /\ \E i \in WithKey(req[p].key) : rows[i].status = "resolved"
    /\ Created(req[p].key)
    /\ End(p)
    /\ UNCHANGED <<rows, arrivals, posts>>

IngestFindsRow(p) ==
    /\ At(p, "find") /\ req[p].op = "ingest"
    /\ \E i \in WithKey(req[p].key) :
          /\ rows[i].status # "resolved"
          /\ Goto(p, "update", ReIngest(rows[i]))
    /\ UNCHANGED <<rows, arrivals, posts, acked, owed>>

\* Mutant: 201 is answered before the insert.
IngestAnswersEarly(p) ==
    /\ At(p, "find") /\ req[p].op = "ingest"
    /\ WithKey(req[p].key) = {}
    /\ Created(req[p].key)
    /\ \E i \in FreshIds, m \in Thresholds :
          Goto(p, "save", NewDLQEvent(i, req[p].key, m))
    /\ UNCHANGED <<rows, arrivals, posts>>

IngestFindsNothing(p) ==
    /\ At(p, "find") /\ req[p].op = "ingest"
    /\ WithKey(req[p].key) = {}
    /\ \E i \in FreshIds, m \in Thresholds :
          Goto(p, "save", NewDLQEvent(i, req[p].key, m))
    /\ UNCHANGED <<rows, arrivals, posts, acked, owed>>

Save(p) ==
    /\ At(p, "save") /\ CanInsert(req[p].ev)
    /\ rows' = [rows EXCEPT ![req[p].ev.id] = req[p].ev]
    /\ Created(req[p].key)
    /\ End(p)
    /\ UNCHANGED <<arrivals, posts>>

\* Another ingest of the same key was faster: unique violation, answer 500.
SaveConflict(p) ==
    /\ At(p, "save") /\ ~CanInsert(req[p].ev)
    /\ End(p)
    /\ UNCHANGED <<rows, arrivals, posts, acked, owed>>

----------------------------------------------------------------------------
(* POST /v1/events/{id}/replay, /resolve, /reset and the batches of them.  *)

BeginById(p, op, i) ==
    /\ Begin(p, [Idle EXCEPT !.pc = "find", !.op = op, !.todo = <<i>>])
    /\ UNCHANGED <<rows, arrivals, posts, acked, owed>>

BeginBatchResolve(p, ids) ==
    /\ Begin(p, [Idle EXCEPT !.pc = "find", !.op = "resolve", !.todo = ids])
    /\ UNCHANGED <<rows, arrivals, posts, acked, owed>>

BeginBatchReplay(p) ==
    /\ Begin(p, [Idle EXCEPT !.pc = "list", !.op = "replay"])
    /\ UNCHANGED <<rows, arrivals, posts, acked, owed>>

\* Pages List may return for a filter that matches the ids in found: all of
\* them or as many as the limit admits, in some order (created_at is abstracted).
Pages(found) ==
    {s \in UNION {[1 .. n -> found] : n \in 0 .. BatchLimit} :
        /\ \A a, b \in DOMAIN s : s[a] = s[b] => a = b
        /\ Len(s) < BatchLimit => \A i \in found : \E a \in DOMAIN s : s[a] = i}

\* The filter is a status, or none; an empty page ends the batch at once.
ListRows(p) ==
    /\ At(p, "list")
    /\ \E want \in {Statuses} \cup {{s} : s \in Statuses} :
         \E page \in Pages({i \in Stored : rows[i].status \in want}) :
            IF page = <<>> THEN End(p)
            ELSE req' = [req EXCEPT ![p].pc = "find", ![p].todo = page]
    /\ UNCHANGED <<rows, arrivals, posts, acked, owed>>

\* Mutant: the row is written as replayed and posted by nobody.
FindWritesFirst(p) ==
    /\ At(p, "find") /\ req[p].op \in ByIdOps
    /\ LET e == rows[Head(req[p].todo)] IN
         /\ e # Nil
         /\ Accepts(req[p].op, e)
         /\ Goto(p, "update", Apply(req[p].op, e))
    /\ UNCHANGED <<rows, arrivals, posts, acked, owed>>

\* FindByID and the transition on the copy; replay posts it before the write.
FindById(p) ==
    /\ At(p, "find") /\ req[p].op \in ByIdOps
    /\ LET e == rows[Head(req[p].todo)] IN
         /\ e # Nil
         /\ Accepts(req[p].op, e)
         /\ Goto(p, IF req[p].op = "replay" THEN "post" ELSE "update",
                 Apply(req[p].op, e))
    /\ UNCHANGED <<rows, arrivals, posts, acked, owed>>

\* 404 or 409, and the end of a batch: no row, or no transition from its state.
FindRefused(p) ==
    /\ At(p, "find") /\ req[p].op \in ByIdOps
    /\ LET e == rows[Head(req[p].todo)] IN ~(e # Nil /\ Accepts(req[p].op, e))
    /\ End(p)
    /\ UNCHANGED <<rows, arrivals, posts, acked, owed>>

Delivered(k) ==
    /\ posts[k] < MaxPosts
    /\ posts' = [posts EXCEPT ![k] = @ + 1]
    /\ owed' = owed \ {k}

Post(p) ==
    /\ At(p, "post")
    /\ Delivered(req[p].ev.key)
    /\ Goto(p, "update", req[p].ev)
    /\ UNCHANGED <<rows, arrivals, acked>>

\* The event source is down or answers an error: nothing is written.
PostRefused(p) ==
    /\ At(p, "post")
    /\ End(p)
    /\ UNCHANGED <<rows, arrivals, posts, acked, owed>>

\* UPDATE ... WHERE id: the copy replaces the row, whatever the row is by now.
\* Its ErrNotFound cannot happen: no row is deleted while a request is alive.
Update(p) ==
    /\ At(p, "update")
    /\ rows' = [rows EXCEPT ![req[p].ev.id] = req[p].ev]
    /\ IF req[p].op = "ingest"
       THEN Created(req[p].key) /\ End(p)
       ELSE NextRow(p) /\ UNCHANGED <<acked, owed>>
    /\ UNCHANGED <<arrivals, posts>>

----------------------------------------------------------------------------
(* Failures.                                                               *)

\* The pod crashes, the client goes away or a query fails.  The memory backend
\* does not look at the request's context and shares its process: see Restart.
Abandon(p) ==
    /\ Faults /\ Backend = "postgres" /\ ~At(p, "idle")
    /\ End(p)
    /\ UNCHANGED <<rows, arrivals, posts, acked, owed>>

\* The database applied the write, the handler or its caller sees an error.
WriteUnacked(p) ==
    /\ Faults /\ Backend = "postgres"
    /\ At(p, "update") \/ (At(p, "save") /\ CanInsert(req[p].ev))
    /\ rows' = [rows EXCEPT ![req[p].ev.id] = req[p].ev]
    /\ End(p)
    /\ UNCHANGED <<arrivals, posts, acked, owed>>

\* The event source took the payload, the 30 s timeout hides its answer.
PostUnacked(p) ==
    /\ Faults /\ At(p, "post")
    /\ Delivered(req[p].ev.key)
    /\ End(p)
    /\ UNCHANGED <<rows, arrivals, acked>>

\* The process goes with every request it has; the memory backend also loses
\* its map.
Restart ==
    /\ Faults
    /\ rows' = IF Backend = "memory" THEN [i \in Ids |-> Nil] ELSE rows
    /\ req' = [p \in Procs |-> Idle]
    /\ UNCHANGED <<arrivals, posts, acked, owed>>

----------------------------------------------------------------------------
\* A step of the handler of a request that has begun.
Step(p) ==
    \/ IngestFindsResolved(p) \/ IngestFindsRow(p) \/ IngestFindsNothing(p)
    \/ Save(p) \/ SaveConflict(p) \/ ListRows(p)
    \/ FindById(p) \/ FindRefused(p)
    \/ Post(p) \/ PostRefused(p) \/ Update(p)

Fault(p) == Abandon(p) \/ WriteUnacked(p) \/ PostUnacked(p)

Arrive(p) ==
    \/ \E k \in Keys : BeginIngest(p, k)
    \/ \E op \in ByIdOps, i \in Ids : BeginById(p, op, i)
    \/ BeginBatchReplay(p)
    \/ \E n \in 1 .. BatchLimit : \E ids \in [1 .. n -> Ids] : BeginBatchResolve(p, ids)

Next == Restart \/ \E p \in Procs : Arrive(p) \/ Step(p) \/ Fault(p)

Spec == Init /\ [][Next]_vars

----------------------------------------------------------------------------
(* Properties.                                                             *)

\* Every variable keeps its type.
TypeOK ==
    /\ rows \in [Ids -> Row \cup {Nil}]
    /\ req \in [Procs -> Request]
    /\ arrivals \in [Keys -> Nat]
    /\ posts \in [Keys -> Nat]
    /\ acked \subseteq Keys
    /\ owed \subseteq Keys

\* What dlq_event.go keeps between the fields of an event: poisoned exactly
\* when the retries are used up, resolved_at exactly when resolved, and no
\* replayed event without its last_replayed_at.
Consistent(e) ==
    /\ e.status = "poisoned" <=> e.retry >= e.max
    /\ e.status = "resolved" <=> e.resolvedAt
    /\ e.status = "replayed" => e.replayedAt

\* Stale whole-row writes never mix two versions of a row: however requests
\* overlap, every stored event is one that some legal history produces.
RowsConsistent == \A i \in Stored : rows[i].id = i /\ Consistent(rows[i])

\* The dedup of IngestEvent: one row per natural key.  The handler's lookup and
\* insert are two calls, so it rests on the unique index of postgres.
NaturalKeyUnique ==
    \A i, j \in Stored : rows[i].key = rows[j].key => i = j

\* A row carries last_replayed_at only if its payload really reached the event
\* source: ReplayEvent writes after the POST succeeded, never before.
ReplayedWasDelivered ==
    \A i \in Stored : rows[i].replayedAt => posts[rows[i].key] > 0

\* A failure answered 201 is never lost: the sensor will not send it again.
AckedIsStored == \A k \in acked : WithKey(k) # {}

\* No delivery is counted twice, and the first one of an event is no retry: an
\* event is poisoned only after max_retries deliveries more.  Lost updates may
\* undercount them.  It is deliveries that count: a failure that is redelivered
\* because its 201 was lost counts once more, as if a replay had failed.
RetryNeverOvercounts ==
    \A i \in Stored : rows[i].retry < arrivals[rows[i].key]

\* What a handler holds between its calls is still good when it writes: it
\* replaces a row that exists and has its key, inserts under an id nobody has,
\* and never carries a last_replayed_at whose POST has not arrived.
CopySound(p) ==
    LET r == req[p] IN
    /\ r.op = "ingest" => r.key \in Keys
    /\ r.op \in ByIdOps /\ r.pc \in {"find", "post", "update"} => r.todo # <<>>
    /\ r.pc \in {"post", "save", "update"} => r.ev # Nil /\ Consistent(r.ev)
    /\ r.pc \in {"save", "update"} /\ r.op = "ingest" => r.ev.key = r.key
    /\ r.pc = "save" => r.op = "ingest" /\ rows[r.ev.id] = Nil
    /\ r.pc \in {"post", "update"} => /\ rows[r.ev.id] # Nil
                                      /\ rows[r.ev.id].key = r.ev.key
    /\ r.pc \in {"save", "update"} => (r.ev.replayedAt => posts[r.ev.key] > 0)

CopiesSound ==
    /\ \A p \in Procs : CopySound(p)
    /\ \A p, q \in Procs : p # q /\ At(p, "save") /\ At(q, "save")
                            => req[p].ev.id # req[q].ev.id

\* A failure answered 201 stays visible until its payload is posted again: its
\* row is not shown as replayed on the strength of an older POST.
FailureNotForgotten ==
    \A i \in Stored : rows[i].key \in owed => rows[i].status # "replayed"

\* The ticket a row stands for; its timestamps are not part of the lifecycle.
Ticket(e) ==
    IF e = Nil THEN Nil
    ELSE [key |-> e.key, status |-> e.status, retry |-> e.retry, max |-> e.max]

Lifecycle == INSTANCE DLQLifecycle
                WITH tickets <- [i \in Ids |-> Ticket(rows[i])], None <- Nil

\* The handlers together implement the state machine of dlq_event.go: every
\* write of a row is one of its transitions.
FollowsLifecycle == Lifecycle!Spec
=============================================================================
