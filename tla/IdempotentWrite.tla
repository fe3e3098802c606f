-------------------------- MODULE IdempotentWrite --------------------------
(***************************************************************************)
(* The write side of reviews, ratings and details: SubmitReview,           *)
(* SubmitRating and AddDetail follow one pattern, and DeleteReview joins   *)
(* it in reviews.  A sensor delivers each submission at least once, so     *)
(* several handlers may work on the same idempotency key.                  *)
(*                                                                         *)
(* The handler draws a fresh id, records the key, saves the row if the key *)
(* was new, publishes the event in either case and answers.  The record,   *)
(* the save and the publication are three calls in three systems with no   *)
(* transaction around them.                                                *)
(***************************************************************************)
EXTENDS Naturals

CONSTANTS
    Keys,          \* idempotency keys of the submissions
    Ids,           \* uuids of reviews, ratings or details
    Procs,         \* requests handled at the same time
    Backend,       \* STORAGE_BACKEND: "postgres" or "memory"
    Faults,        \* TRUE: calls may fail, answers get lost, pods crash
    Deletable,     \* TRUE for reviews, the only service with a delete
    MaxDeliveries, \* bound: deliveries of one submission
    Nil            \* no key, no id

Entry == [id : Ids, key : Keys]

Request == [pc  : {"idle", "check", "save", "publish", "delete", "announce"},
            key : Keys \cup {Nil},
            id  : Ids \cup {Nil}]

ASSUME BackendAssumption == Backend \in {"postgres", "memory"} /\ Faults \in BOOLEAN
ASSUME DeletableAssumption == Deletable \in BOOLEAN
ASSUME BoundAssumption == MaxDeliveries \in Nat
ASSUME NilAssumption == Nil \notin Keys /\ Nil \notin Ids

VARIABLES
    processed,   \* the processed_events table: the keys recorded
    rows,        \* the reviews, ratings or details table
    saved,       \* every row inserted since the store exists, deleted ones too
    published,   \* the ...-submitted or book-added events on the bus
    deletions,   \* the ids of the review-deleted events on the bus
    req,         \* the request each server goroutine is handling
    deliveries,  \* how often the sensor has delivered a submission
    acked        \* submissions answered 201 or 200

vars == <<processed, rows, saved, published, deletions, req, deliveries, acked>>
store == <<processed, rows, saved>>
bus == <<published, deletions>>

Idle == [pc |-> "idle", key |-> Nil, id |-> Nil]

At(p, pc) == req[p].pc = pc

Begin(p, r) == req[p].pc = "idle" /\ req' = [req EXCEPT ![p] = r]

Goto(p, pc) == req' = [req EXCEPT ![p].pc = pc]

End(p) == req' = [req EXCEPT ![p] = Idle]

\* uuid.New: an id no row, event or request has had.
FreshIds ==
    {i \in Ids : /\ \A r \in saved \cup published : r.id # i
                 /\ i \notin deletions
                 /\ \A q \in Procs : req[q].id # i}

MyEntry(p) == [id |-> req[p].id, key |-> req[p].key]

Init ==
    /\ processed = {} /\ rows = {} /\ saved = {}
    /\ published = {} /\ deletions = {}
    /\ req = [p \in Procs |-> Idle]
    /\ deliveries = [k \in Keys |-> 0]
    /\ acked = {}

----------------------------------------------------------------------------
(* POST /v1/reviews, /v1/ratings, /v1/details.                             *)

\* The body is valid; an invalid one is answered 400 before the key is touched.
\* A retry, a redelivery by the bus or a replay from the DLQ looks the same.
BeginSubmit(p, k) ==
    /\ deliveries[k] < MaxDeliveries
    /\ deliveries' = [deliveries EXCEPT ![k] = @ + 1]
    /\ \E i \in FreshIds : Begin(p, [pc |-> "check", key |-> k, id |-> i])
    /\ UNCHANGED <<store, bus, acked>>

\* Mutants: the key is looked up but not recorded; a known key is answered at
\* once, without the event; the body is validated after the key is recorded.
CheckOnly(p) ==
    /\ At(p, "check")
    /\ Goto(p, IF req[p].key \in processed THEN "publish" ELSE "save")
    /\ UNCHANGED <<store, bus, deliveries, acked>>

CheckAnswersDuplicate(p) ==
    /\ At(p, "check")
    /\ processed' = processed \cup {req[p].key}
    /\ IF req[p].key \in processed
       THEN End(p) /\ acked' = acked \cup {req[p].key}
       ELSE Goto(p, "save") /\ UNCHANGED acked
    /\ UNCHANGED <<rows, saved, bus, deliveries>>

CheckThenValidate(p) ==
    /\ At(p, "check")
    /\ processed' = processed \cup {req[p].key}
    /\ \/ Goto(p, IF req[p].key \in processed THEN "publish" ELSE "save")
       \/ End(p)
    /\ UNCHANGED <<rows, saved, bus, deliveries, acked>>

\* One atomic call: the mutex of the memory store, ON CONFLICT in postgres.
CheckAndRecord(p) ==
    /\ At(p, "check")
    /\ processed' = processed \cup {req[p].key}
    /\ Goto(p, IF req[p].key \in processed THEN "publish" ELSE "save")
    /\ UNCHANGED <<rows, saved, bus, deliveries, acked>>

Insert(e) == rows' = rows \cup {e} /\ saved' = saved \cup {e}

Save(p) ==
    /\ At(p, "save")
    /\ Insert(MyEntry(p))
    /\ Goto(p, "publish")
    /\ UNCHANGED <<processed, bus, deliveries, acked>>

\* Published under the id of this request, whether or not its row was saved,
\* then answered 201 Created or 200 already processed.
Publish(p) ==
    /\ At(p, "publish")
    /\ published' = published \cup {MyEntry(p)}
    /\ acked' = acked \cup {req[p].key}
    /\ End(p)
    /\ UNCHANGED <<store, deletions, deliveries>>

\* Mutant: the key is given up when the event cannot be published.
PublishFailsForgets(p) ==
    /\ At(p, "publish") \/ At(p, "announce")
    /\ processed' = processed \ {req[p].key}
    /\ End(p)
    /\ UNCHANGED <<rows, saved, bus, deliveries, acked>>

\* The broker is down: the answer is 400 and the sensor retries.
PublishFails(p) ==
    /\ At(p, "publish") \/ At(p, "announce")
    /\ End(p)
    /\ UNCHANGED <<store, bus, deliveries, acked>>

----------------------------------------------------------------------------
(* DeleteReview.                                                           *)

\* A client deletes an id it has seen in a response or an event.
BeginDelete(p, i) ==
    /\ Deletable
    /\ \E r \in saved \cup published : r.id = i
    /\ Begin(p, [pc |-> "delete", key |-> Nil, id |-> i])
    /\ UNCHANGED <<store, bus, deliveries, acked>>

\* Mutant: the delete gives up the key of the review.
DeleteForgets(p) ==
    /\ At(p, "delete")
    /\ rows' = {r \in rows : r.id # req[p].id}
    /\ processed' = {k \in processed :
                        \A r \in rows : r.id = req[p].id => r.key # k}
    /\ Goto(p, "announce")
    /\ UNCHANGED <<saved, bus, deliveries, acked>>

\* Deleting a row that is not there is no error.
Delete(p) ==
    /\ At(p, "delete")
    /\ rows' = {r \in rows : r.id # req[p].id}
    /\ Goto(p, "announce")
    /\ UNCHANGED <<processed, saved, bus, deliveries, acked>>

\* Mutant: the event is built from the request after it was reset.
AnnounceLate(p) ==
    /\ At(p, "announce")
    /\ End(p)
    /\ deletions' = deletions \cup {req'[p].id}
    /\ UNCHANGED <<store, published, deliveries, acked>>

Announce(p) ==
    /\ At(p, "announce")
    /\ deletions' = deletions \cup {req[p].id}
    /\ End(p)
    /\ UNCHANGED <<store, published, deliveries, acked>>

----------------------------------------------------------------------------
(* Failures.                                                               *)

\* The pod crashes, the caller gives up or a query fails.
Abandon(p) ==
    /\ Faults /\ Backend = "postgres" /\ ~At(p, "idle")
    /\ End(p)
    /\ UNCHANGED <<store, bus, deliveries, acked>>

\* The database applied the call, the handler sees an error.
CheckUnacked(p) ==
    /\ Faults /\ Backend = "postgres" /\ At(p, "check")
    /\ processed' = processed \cup {req[p].key}
    /\ End(p)
    /\ UNCHANGED <<rows, saved, bus, deliveries, acked>>

SaveUnacked(p) ==
    /\ Faults /\ Backend = "postgres" /\ At(p, "save")
    /\ Insert(MyEntry(p))
    /\ End(p)
    /\ UNCHANGED <<processed, bus, deliveries, acked>>

\* The broker has the event, the handler or its caller sees an error.
PublishUnacked(p) ==
    /\ Faults /\ At(p, "publish")
    /\ published' = published \cup {MyEntry(p)}
    /\ End(p)
    /\ UNCHANGED <<store, deletions, deliveries, acked>>

\* The process dies with all its requests.  The memory backend loses its rows
\* and its keys with it, both at once.
Restart ==
    /\ Faults
    /\ req' = [p \in Procs |-> Idle]
    /\ IF Backend = "memory"
       THEN processed' = {} /\ rows' = {} /\ saved' = {}
       ELSE UNCHANGED store
    /\ UNCHANGED <<bus, deliveries, acked>>

----------------------------------------------------------------------------
Step(p) ==
    \/ CheckAndRecord(p) \/ Save(p) \/ Publish(p) \/ PublishFails(p)
    \/ Delete(p) \/ Announce(p)

Fault(p) == Abandon(p) \/ CheckUnacked(p) \/ SaveUnacked(p) \/ PublishUnacked(p)

Arrive(p) ==
    \/ \E k \in Keys : BeginSubmit(p, k)
    \/ \E i \in Ids : BeginDelete(p, i)

Next == Restart \/ \E p \in Procs : Arrive(p) \/ Step(p) \/ Fault(p)

Spec == Init /\ [][Next]_vars

\* Every handler runs to its end: its calls have deadlines.
Fairness == \A p \in Procs : WF_vars(Step(p))

FairSpec == Spec /\ Fairness

----------------------------------------------------------------------------
(* Properties.                                                             *)

\* Every variable keeps its type.
TypeOK ==
    /\ processed \subseteq Keys
    /\ rows \subseteq Entry /\ saved \subseteq Entry /\ published \subseteq Entry
    /\ deletions \subseteq Ids
    /\ req \in [Procs -> Request]
    /\ deliveries \in [Keys -> Nat]
    /\ acked \subseteq Keys

\* Idempotency: however often and however concurrently a submission is
\* delivered, at most one row is ever inserted for its key.
AtMostOneSave == \A a, b \in saved : a.key = b.key => a = b

\* What a handler about to save relies on: its key is recorded, it is the only
\* one that saves for the key, and nobody has saved for it before.
SaversOwnTheirKey ==
    \A p \in Procs : At(p, "save") =>
        /\ req[p].key \in processed
        /\ \A q \in Procs : At(q, "save") /\ req[q].key = req[p].key => q = p
        /\ \A r \in saved : r.key # req[p].key

\* "Always publishes (even on idempotency dedup) for retry safety": when a
\* submission has been answered, an event with its key is on the bus, also if
\* the attempt that saved the row crashed before it could publish.
AckedWasPublished == \A k \in acked : \E e \in published : e.key = k

\* A submission replayed after its review was deleted does not bring it back.
DeletedStaysGone ==
    \A r \in saved : r.id \in deletions => \A x \in rows : x.key # r.key

\* Without faults every submission answered with success gets its row, also
\* when the answer was "already processed" and the row was still being saved.
AckedIsEventuallySaved ==
    \A k \in Keys : k \in acked ~> \E r \in saved : r.key = k

\* A submission is answered with success only if its row is there or a handler
\* is about to save it: a recorded key stands for a write that was done.
AckedMeansSaved ==
    \A k \in acked :
        \/ \E r \in saved : r.key = k
        \/ \E p \in Procs : At(p, "save") /\ req[p].key = k
=============================================================================
