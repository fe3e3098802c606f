----------------------------- MODULE Ingestion ------------------------------
(***************************************************************************)
(* The ingestion service: a poll loop and POST /v1/ingestion/trigger start *)
(* scrape cycles over one status guarded by a mutex, inside the server of  *)
(* pkg/server, which drains the API before the process exits.              *)
(*                                                                         *)
(* A cycle runs its queries in turn and publishes every valid book found.  *)
(* A failed query or publication is counted and the cycle goes on.         *)
(***************************************************************************)
EXTENDS Naturals, FiniteSets

CONSTANTS
    Books,        \* the books of Open Library that Validate accepts
    Triggers,     \* API requests handled at the same time
    Poll,         \* the poll loop
    Defaults,     \* the number of SEARCH_QUERIES
    MaxQueries,   \* bound: queries in the body of one trigger
    Nil           \* no result yet

Cycles == Triggers \cup {Poll}

Result == [found : Nat, published : Nat, errors : Nat]

Cycle == [pc      : {"idle", "begin", "search"},
          live    : BOOLEAN,       \* FALSE once its context is cancelled
          queries : Nat,           \* queries still to run
          books   : SUBSET Books,  \* books of this query still to publish
          result  : Result]

ASSUME CycleAssumption == Poll \notin Triggers /\ IsFiniteSet(Books)
ASSUME QueriesAssumption == Defaults \in Nat /\ MaxQueries \in Nat

VARIABLES
    state,    \* status.State, "idle" or "running"
    last,     \* status.LastResult
    cycle,    \* what the poll loop and each request are doing
    tick,     \* the ticker's channel, which holds one tick
    server    \* "serving", "draining", "closing" or "exited"

status == <<state, last>>
vars == <<status, cycle, tick, server>>

Nothing == [found |-> 0, published |-> 0, errors |-> 0]

Idle == [pc |-> "idle", live |-> TRUE, queries |-> 0, books |-> {}, result |-> Nothing]

At(c, pc) == cycle[c].pc = pc /\ server # "exited"

Scraping(c) == cycle[c].pc = "search"

End(c) == cycle' = [cycle EXCEPT ![c] = Idle]

\* Mutant: the defaults are forgotten.
AsGiven(n) == n

\* len(queries) == 0: the defaults.
OrDefaults(n) == IF n = 0 THEN Defaults ELSE n

Call(c, n, live) ==
    cycle' = [cycle EXCEPT ![c] = [pc |-> "begin", live |-> live, queries |-> OrDefaults(n),
                                   books |-> {}, result |-> Nothing]]

Advance(c, queries, books, result) ==
    cycle' = [cycle EXCEPT ![c] = [pc |-> "search", live |-> cycle[c].live,
                                   queries |-> queries, books |-> books, result |-> result]]

\* The result with one more error.
PlusError(r) == [found |-> r.found, published |-> r.published, errors |-> r.errors + 1]

Init ==
    /\ state = "idle" /\ last = Nil
    /\ cycle = [c \in Cycles |-> Idle]
    /\ tick = FALSE
    /\ server = "serving"

----------------------------------------------------------------------------
(* Where cycles come from.                                                 *)

\* The ticker drops a tick when the last one has not been taken.
Tick ==
    /\ server # "exited" /\ ~tick
    /\ tick' = TRUE
    /\ UNCHANGED <<status, cycle, server>>

\* The poll loop takes a tick, also with its context cancelled: select chooses
\* between two channels that are ready.
PollTick ==
    /\ At(Poll, "idle") /\ tick
    /\ tick' = FALSE
    /\ Call(Poll, 0, server # "closing")
    /\ UNCHANGED <<status, server>>

Trigger(c, n) ==
    /\ At(c, "idle") /\ server = "serving"
    /\ Call(c, n, TRUE)
    /\ UNCHANGED <<status, tick, server>>

\* The client gives up: its context is cancelled, the cycle is not.
Disconnect(c) ==
    /\ cycle[c].pc # "idle" /\ cycle[c].live /\ server # "exited"
    /\ cycle' = [cycle EXCEPT ![c].live = FALSE]
    /\ UNCHANGED <<status, tick, server>>

----------------------------------------------------------------------------
(* TriggerScrape.                                                          *)

\* Mutant: the state is set without looking at it.
EnterUnchecked(c) ==
    /\ At(c, "begin") /\ cycle[c].queries > 0
    /\ state' = "running"
    /\ Advance(c, cycle[c].queries, {}, Nothing)
    /\ UNCHANGED <<last, tick, server>>

Enter(c) ==
    /\ At(c, "begin") /\ cycle[c].queries > 0
    /\ state = "idle"
    /\ state' = "running"
    /\ Advance(c, cycle[c].queries, {}, Nothing)
    /\ UNCHANGED <<last, tick, server>>

\* No queries, or a cycle is running: an error, 409 to a client.
Refused(c) ==
    /\ At(c, "begin")
    /\ cycle[c].queries = 0 \/ state = "running"
    /\ End(c)
    /\ UNCHANGED <<status, tick, server>>

\* The books of the last query are published, there is another query to run.
NextQuery(c) == At(c, "search") /\ cycle[c].books = {} /\ cycle[c].queries > 0

SearchBooks(c, found) ==
    /\ NextQuery(c) /\ cycle[c].live
    /\ Advance(c, cycle[c].queries - 1, found,
               [found     |-> cycle[c].result.found + Cardinality(found),
                published |-> cycle[c].result.published,
                errors    |-> cycle[c].result.errors])
    /\ UNCHANGED <<status, tick, server>>

\* Mutants: a failed query is tried again; one query more than there are.
SearchRetried(c) ==
    /\ NextQuery(c)
    /\ UNCHANGED vars

SearchOneMore(c) ==
    /\ At(c, "search") /\ cycle[c].books = {}
    /\ Advance(c, cycle[c].queries - 1, {}, PlusError(cycle[c].result))
    /\ UNCHANGED <<status, tick, server>>

SearchFails(c) ==
    /\ NextQuery(c)
    /\ Advance(c, cycle[c].queries - 1, {}, PlusError(cycle[c].result))
    /\ UNCHANGED <<status, tick, server>>

PublishBookAdded(c, b) ==
    /\ At(c, "search") /\ b \in cycle[c].books /\ cycle[c].live
    /\ Advance(c, cycle[c].queries, cycle[c].books \ {b},
               [found     |-> cycle[c].result.found,
                published |-> cycle[c].result.published + 1,
                errors    |-> cycle[c].result.errors])
    /\ UNCHANGED <<status, tick, server>>

\* Mutant: a book that could not be published is skipped without a count.
PublishFailsUncounted(c, b) ==
    /\ At(c, "search") /\ b \in cycle[c].books
    /\ Advance(c, cycle[c].queries, cycle[c].books \ {b}, cycle[c].result)
    /\ UNCHANGED <<status, tick, server>>

\* An error is counted also when the broker has the event after all.
PublishFails(c, b) ==
    /\ At(c, "search") /\ b \in cycle[c].books
    /\ Advance(c, cycle[c].queries, cycle[c].books \ {b}, PlusError(cycle[c].result))
    /\ UNCHANGED <<status, tick, server>>

\* Mutant: a cycle whose context was cancelled returns at once.
FinishIfLive(c) ==
    /\ At(c, "search") /\ cycle[c].books = {} /\ cycle[c].queries = 0
    /\ IF cycle[c].live
       THEN state' = "idle" /\ last' = cycle[c].result
       ELSE UNCHANGED status
    /\ End(c)
    /\ UNCHANGED <<tick, server>>

\* The status is written in one critical section, then the caller is answered.
Finish(c) ==
    /\ At(c, "search") /\ cycle[c].books = {} /\ cycle[c].queries = 0
    /\ state' = "idle"
    /\ last' = cycle[c].result
    /\ End(c)
    /\ UNCHANGED <<tick, server>>

----------------------------------------------------------------------------
(* server.Run and main.                                                    *)

\* SIGTERM: the API stops accepting and waits for the requests it has.
Signal ==
    /\ server = "serving"
    /\ server' = "draining"
    /\ UNCHANGED <<status, cycle, tick>>

\* pollCancel, which does not wait for the loop.
PollCancel ==
    /\ server' = "closing"
    /\ cycle' = [cycle EXCEPT ![Poll].live = cycle[Poll].pc = "idle"]

\* Mutant: the drain waits for every cycle, without a deadline.
DrainedWhenIdle ==
    /\ server = "draining" /\ \A c \in Cycles : At(c, "idle")
    /\ PollCancel
    /\ UNCHANGED <<status, tick>>

\* Both servers are down: the requests are answered or the 15 seconds are over.
Drained ==
    /\ server = "draining"
    /\ PollCancel
    /\ UNCHANGED <<status, tick>>

\* A server cannot listen: Run returns without a drain.
ListenFails ==
    /\ server = "serving"
    /\ PollCancel
    /\ UNCHANGED <<status, tick>>

\* main returns: every goroutine is gone, with what it was doing.
Exit ==
    /\ server = "closing"
    /\ server' = "exited"
    /\ UNCHANGED <<status, cycle, tick>>

\* The next pod: status and ticker begin again, as in Init.
Restart ==
    /\ server = "exited"
    /\ state' = "idle" /\ last' = Nil
    /\ cycle' = [c \in Cycles |-> Idle]
    /\ tick' = FALSE
    /\ server' = "serving"

----------------------------------------------------------------------------
Step(c) ==
    \/ Enter(c) \/ Refused(c) \/ SearchFails(c) \/ Finish(c)
    \/ \E found \in SUBSET Books : SearchBooks(c, found)
    \/ \E b \in Books : PublishBookAdded(c, b) \/ PublishFails(c, b)

Next ==
    \/ Tick \/ PollTick \/ Signal \/ Drained \/ ListenFails \/ Exit \/ Restart
    \/ \E c \in Triggers : Disconnect(c) \/ \E n \in 0..MaxQueries : Trigger(c, n)
    \/ \E c \in Cycles : Step(c)

Spec == Init /\ [][Next]_vars

\* Goroutines run, the client of Open Library has a timeout, the drain has a
\* deadline, and the deployment starts a new pod.  A publication has no deadline
\* of its own: that it ends is an assumption about the broker.
Fairness ==
    /\ \A c \in Cycles : WF_vars(Step(c))
    /\ WF_vars(PollTick) /\ WF_vars(Drained) /\ WF_vars(Exit) /\ WF_vars(Restart)

FairSpec == Spec /\ Fairness

----------------------------------------------------------------------------
(* Properties.                                                             *)

\* Every variable keeps its type.
TypeOK ==
    /\ state \in {"idle", "running"}
    /\ last \in Result \cup {Nil}
    /\ cycle \in [Cycles -> Cycle]
    /\ tick \in BOOLEAN
    /\ server \in {"serving", "draining", "closing", "exited"}

\* The status is "running" exactly while a cycle is, and there is never more than
\* one: a tick and triggers do not overlap, and no way out of a cycle, however
\* much of it fails or is cancelled, leaves the service refusing for ever.
StateIsTrue ==
    /\ state = "running" <=> \E c \in Cycles : Scraping(c)
    /\ \A c, d \in Cycles : Scraping(c) /\ Scraping(d) => c = d

\* Every book found is published, an error or still to come.
Counted(r, books) ==
    /\ r.published + Cardinality(books) <= r.found
    /\ r.found <= r.published + r.errors + Cardinality(books)

\* Whatever fails or is cancelled on the way, what GET /status and the answer of
\* a trigger report adds up: no book is lost between found, published and errors.
CountsAddUp ==
    /\ last # Nil => Counted(last, {})
    /\ \A c \in Cycles : Counted(cycle[c].result, cycle[c].books)

\* A cycle ends, also one whose client is gone or that the shutdown cuts.
ScrapeEnds == \A c \in Cycles : Scraping(c) ~> ~Scraping(c)

\* Each tick finds a cycle running or starts one, unless the process ends.
TickScrapes == tick ~> (state = "running" \/ server = "exited")

\* A signal ends the process, whatever its requests and its poll loop do.
SignalStops == server = "draining" ~> server = "exited"
=============================================================================
