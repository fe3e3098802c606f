---------------------------- MODULE Notification ----------------------------
(***************************************************************************)
(* The notification service, Dispatch behind POST /v1/notifications.  The  *)
(* consumer sensor turns each event on the bus into a request and delivers *)
(* it at least once.  Dispatch records the key of the request, validates   *)
(* it, sends the notification and saves it with the outcome of the send.   *)
(*                                                                         *)
(* The write services validate before they record; here it is the other    *)
(* way round.  A key that is known ends the request with 200, whatever     *)
(* became of the request that recorded it.                                 *)
(***************************************************************************)
EXTENDS Naturals

CONSTANTS
    Events,     \* what the sensor delivers: events, or a client's requests
    Keys,       \* idempotency keys, as idempotency.Resolve returns them
    KeyOf,      \* the key of each event
    Valid,      \* the events that NewNotification accepts
    Procs,      \* requests handled at the same time
    Backend,    \* STORAGE_BACKEND: "postgres" or "memory"
    Faults,     \* TRUE: calls may fail, answers get lost, pods crash
    Nil         \* no event

Status == {"queued", "sent", "failed"}

Note == [event : Events, status : Status]

Request == [pc     : {"idle", "check", "send", "save"},
            event  : Events \cup {Nil},
            status : Status]

ASSUME KeyAssumption == KeyOf \in [Events -> Keys]
ASSUME EventAssumption == Valid \subseteq Events /\ Nil \notin Events
ASSUME BackendAssumption == Backend \in {"postgres", "memory"} /\ Faults \in BOOLEAN

VARIABLES
    bus,        \* the events published so far
    recorded,   \* the processed_events table
    notes,      \* the notifications table
    sends,      \* how often the dispatcher has sent a notification with a key
    req,        \* the request each server goroutine is handling
    acked       \* events answered 201 or 200

handling == <<recorded, notes, sends, req, acked>>
vars == <<bus, handling>>

Idle == [pc |-> "idle", event |-> Nil, status |-> "queued"]

At(p, pc) == req[p].pc = pc

MyKey(p) == KeyOf[req[p].event]

MyNote(p) == [event |-> req[p].event, status |-> req[p].status]

Goto(p, pc) == req' = [req EXCEPT ![p].pc = pc]

\* On to the save, with the outcome of the send.
Mark(p, status) ==
    req' = [req EXCEPT ![p] = [pc |-> "save", event |-> req[p].event, status |-> status]]

End(p) == req' = [req EXCEPT ![p] = Idle]

Init ==
    /\ bus = {}
    /\ recorded = {} /\ notes = {} /\ acked = {}
    /\ sends = [k \in Keys |-> 0]
    /\ req = [p \in Procs |-> Idle]

----------------------------------------------------------------------------
(* Dispatch.                                                               *)

\* The trigger fires, or fires again: the sensor retries until it sees a
\* success, and after a fault the bus may redeliver what was answered.
Deliver(p, e) ==
    /\ At(p, "idle")
    /\ e \in bus
    /\ ~(e \in acked /\ ~Faults)
    /\ req' = [req EXCEPT ![p] = [pc |-> "check", event |-> e, status |-> "queued"]]
    /\ UNCHANGED <<recorded, notes, sends, acked>>

\* Mutant: the key is looked up but not recorded.
CheckOnly(p) ==
    /\ At(p, "check") /\ MyKey(p) \notin recorded
    /\ IF req[p].event \in Valid THEN Goto(p, "send") ELSE End(p)
    /\ UNCHANGED <<recorded, notes, sends, acked>>

\* A new key is recorded; an invalid request is answered 400 after that.
Accept(p) ==
    /\ At(p, "check") /\ MyKey(p) \notin recorded
    /\ recorded' = recorded \cup {MyKey(p)}
    /\ IF req[p].event \in Valid THEN Goto(p, "send") ELSE End(p)
    /\ UNCHANGED <<notes, sends, acked>>

\* Mutant: the key is put where the event belongs.
SkipByKey(p) ==
    /\ At(p, "check") /\ MyKey(p) \in recorded
    /\ acked' = acked \cup {MyKey(p)}
    /\ End(p)
    /\ UNCHANGED <<recorded, notes, sends>>

\* ErrAlreadyProcessed: answered 200, nothing is sent.
SkipDuplicate(p) ==
    /\ At(p, "check") /\ MyKey(p) \in recorded
    /\ acked' = acked \cup {req[p].event}
    /\ End(p)
    /\ UNCHANGED <<recorded, notes, sends>>

\* Mutant: marked as sent before the dispatcher is called.
MarkedEarly(p) ==
    /\ At(p, "send")
    /\ Mark(p, "sent")
    /\ sends' \in {sends, [sends EXCEPT ![MyKey(p)] = @ + 1]}
    /\ UNCHANGED <<recorded, notes, acked>>

Send(p) ==
    /\ At(p, "send")
    /\ sends' = [sends EXCEPT ![MyKey(p)] = @ + 1]
    /\ Mark(p, "sent")
    /\ UNCHANGED <<recorded, notes, acked>>

\* The dispatcher returns an error: the notification is kept as failed.
SendFails(p) ==
    /\ Faults /\ At(p, "send")
    /\ Mark(p, "failed")
    /\ UNCHANGED <<recorded, notes, sends, acked>>

\* Answered 201, also for a failed send.
Save(p) ==
    /\ At(p, "save")
    /\ notes' = notes \cup {MyNote(p)}
    /\ acked' = acked \cup {req[p].event}
    /\ End(p)
    /\ UNCHANGED <<recorded, sends>>

----------------------------------------------------------------------------
(* Failures.                                                               *)

\* The pod crashes, the caller gives up or a query fails.
Abandon(p) ==
    /\ Faults /\ ~At(p, "idle")
    /\ End(p)
    /\ UNCHANGED <<recorded, notes, sends, acked>>

\* The database applied the call, the handler sees an error.
CheckUnacked(p) ==
    /\ Faults /\ Backend = "postgres" /\ At(p, "check")
    /\ recorded' = recorded \cup {MyKey(p)}
    /\ End(p)
    /\ UNCHANGED <<notes, sends, acked>>

SaveUnacked(p) ==
    /\ Faults /\ At(p, "save")
    /\ notes' = notes \cup {MyNote(p)}
    /\ End(p)
    /\ UNCHANGED <<recorded, sends, acked>>

\* The dispatcher delivered and reports an error.
SendUnacked(p) ==
    /\ Faults /\ At(p, "send")
    /\ sends' = [sends EXCEPT ![MyKey(p)] = @ + 1]
    /\ Mark(p, "failed")
    /\ UNCHANGED <<recorded, notes, acked>>

\* The process dies; the memory backend loses its keys and its notifications.
Restart ==
    /\ Faults
    /\ req' = [p \in Procs |-> Idle]
    /\ IF Backend = "memory"
       THEN recorded' = {} /\ notes' = {}
       ELSE UNCHANGED <<recorded, notes>>
    /\ UNCHANGED <<sends, acked>>

----------------------------------------------------------------------------
Step(p) == Accept(p) \/ SkipDuplicate(p) \/ Send(p) \/ Save(p)

Fault(p) ==
    SendFails(p) \/ Abandon(p) \/ CheckUnacked(p) \/ SaveUnacked(p) \/ SendUnacked(p)

\* Everything the service and its sensor do; the bus belongs to the producers.
Handle ==
    \/ Restart
    \/ \E p \in Procs : Step(p) \/ Fault(p) \/ \E e \in Events : Deliver(p, e)

Publish(e) == bus' = bus \cup {e} /\ UNCHANGED handling

Next ==
    \/ Handle /\ UNCHANGED bus
    \/ \E e \in Events \ bus : Publish(e)

Spec == Init /\ [][Next]_vars

----------------------------------------------------------------------------
(* Properties.                                                             *)

\* Every variable keeps its type.
TypeOK ==
    /\ bus \subseteq Events
    /\ recorded \subseteq Keys
    /\ notes \subseteq Note
    /\ sends \in [Keys -> Nat]
    /\ req \in [Procs -> Request]
    /\ acked \subseteq Events

\* However often and however concurrently the sensor delivers, and wherever a
\* handler dies, at most one notification goes out for a key (dispatch skipped:
\* already processed).
SentOnce == \A k \in Keys : sends[k] <= 1

\* What a handler about to send relies on: nobody else sends for its key or
\* has done so, and the key is recorded so that nobody will.
SendersOwnTheirKey ==
    \A p \in Procs : At(p, "send") =>
        /\ MyKey(p) \in recorded
        /\ sends[MyKey(p)] = 0
        /\ \A q \in Procs : ~At(q, "idle") /\ ~At(q, "check") /\ MyKey(q) = MyKey(p) => q = p

\* The stored status is the outcome of the send that belongs to it: "sent" only
\* if the notification did go out, never "queued", and one outcome per key.
StatusIsTrue ==
    /\ \A n \in notes : n.status # "queued"
    /\ \A n \in notes : n.status = "sent" => sends[KeyOf[n.event]] = 1
    /\ \A m, n \in notes : KeyOf[m.event] = KeyOf[n.event] => m = n
=============================================================================
