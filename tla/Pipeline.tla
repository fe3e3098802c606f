------------------------------- MODULE Pipeline -------------------------------
(***************************************************************************)
(* The dead-letter loop: the sensor of a write service, whose dlqTrigger   *)
(* hands over what it gave up, the dlqueue (DLQueue), which stores it, and *)
(* the replay POST that brings the payload back to the event source.       *)
(* DLQueue takes any failure at any time; here only what has come round.   *)
(*                                                                         *)
(* A natural key is a payload: whose submission it is and which of its     *)
(* texts.  original_payload is JSONB, which keeps what the text says and   *)
(* not its key order, so that what a replay posts is another text with     *)
(* another hash.                                                           *)
(***************************************************************************)
EXTENDS DLQueue

CONSTANTS
    Subs,    \* submissions that were accepted by the event source
    Valid    \* those the write service does not answer with 400

Sent    == 0   \* the text productpage wrote
Jsonb   == 1   \* the text JSONB gives back
MaxText == 2   \* bound: texts of one submission, with one only a mutant makes

ASSUME KeysAssumption ==
    Valid \subseteq Subs /\ Keys = [sub : Subs, text : Sent .. MaxText]

VARIABLES
    waiting,  \* payloads the sensor still has to deliver to the write service
    failed,   \* payloads the dlqTrigger still has to deliver to the dlqueue
    recorded, \* submissions whose key the write service has in processed_events
    saved     \* submissions the write service has stored

sensor   == <<waiting, failed, recorded, saved>>
pipeline == <<vars, sensor>>

\* Mutant: a string is encoded once more.
Encoded(k) == [k EXCEPT !.text = IF k.text < MaxText THEN k.text + 1 ELSE MaxText]

\* The sensor forwards the body as a string, whose bytes are hashed and stored.
MarshalPayload(k) == k

\* The payload of a row as it is read back, and posted.
ReadBack(k) == IF Backend = "postgres" /\ k.text = Sent THEN [k EXCEPT !.text = Jsonb] ELSE k

PipelineInit ==
    /\ Init
    /\ waiting = [sub : Subs, text : {Sent}]
    /\ failed = {} /\ recorded = {} /\ saved = {}

----------------------------------------------------------------------------
(* The sensor of the write service.                                        *)

\* The service answers with success: it has recorded the key and stored the
\* submission, or it knows the key and stores nothing.
TriggerSucceeds(k) ==
    /\ k \in waiting /\ k.sub \in Valid
    /\ waiting' = waiting \ {k}
    /\ recorded' = recorded \cup {k.sub}
    /\ saved' = IF k.sub \in recorded THEN saved ELSE saved \cup {k.sub}
    /\ UNCHANGED <<vars, failed>>

\* An attempt that fails half-way, to be retried or given up: the key is
\* recorded and nothing stored, or all is done and only the answer is missing.
AttemptFails(k) ==
    /\ Faults /\ k \in waiting /\ k.sub \in Valid \ recorded
    /\ recorded' = recorded \cup {k.sub}
    /\ saved' \in {saved, saved \cup {k.sub}}
    /\ UNCHANGED <<vars, waiting, failed>>

\* Mutant: a sensor without a dlqTrigger (sensor.dlq.enabled is false).
TriggerDrops(k) ==
    /\ k \in waiting
    /\ waiting' = waiting \ {k}
    /\ UNCHANGED <<vars, failed, recorded, saved>>

\* The retries are exhausted: the service is down, or refuses the payload.
TriggerFails(k) ==
    /\ k \in waiting
    /\ waiting' = waiting \ {k} /\ failed' = failed \cup {k}
    /\ UNCHANGED <<vars, recorded, saved>>

\* The dlqTrigger is delivered at least once, until the dlqueue answers 201.
DeliverFailure(p, k) == k \in failed /\ BeginIngest(p, MarshalPayload(k)) /\ UNCHANGED sensor

----------------------------------------------------------------------------
(* The dlqueue, with what its answers and its POSTs do to the sensor.      *)

Operate(p) ==
    /\ \/ \E op \in ByIdOps, i \in Ids : BeginById(p, op, i)
       \/ BeginBatchReplay(p)
       \/ \E n \in 1 .. BatchLimit : \E ids \in [1 .. n -> Ids] : BeginBatchResolve(p, ids)
    /\ UNCHANGED sensor

Ingested(p) ==
    /\ IngestFindsResolved(p) \/ Save(p) \/ (req[p].op = "ingest" /\ Update(p))
    /\ failed' = {k \in failed : MarshalPayload(k) # req[p].key}
    /\ UNCHANGED <<waiting, recorded, saved>>

Replayed(p) ==
    /\ Post(p) \/ PostUnacked(p)
    /\ waiting' = waiting \cup {ReadBack(req[p].ev.key)}
    /\ UNCHANGED <<failed, recorded, saved>>

Silent(p) ==
    /\ \/ IngestFindsRow(p) \/ IngestFindsNothing(p) \/ SaveConflict(p) \/ ListRows(p)
       \/ FindById(p) \/ FindRefused(p) \/ PostRefused(p)
       \/ (req[p].op # "ingest" /\ Update(p))
       \/ Abandon(p) \/ WriteUnacked(p)
    /\ UNCHANGED sensor

PipelineNext ==
    \/ \E k \in Keys : TriggerSucceeds(k) \/ AttemptFails(k) \/ TriggerFails(k)
    \/ \E p \in Procs : \/ \E k \in Keys : DeliverFailure(p, k)
                        \/ Operate(p) \/ Ingested(p) \/ Replayed(p) \/ Silent(p)
    \/ Restart /\ UNCHANGED sensor

PipelineSpec == PipelineInit /\ [][PipelineNext]_pipeline

----------------------------------------------------------------------------
(* Properties.                                                             *)

RowsOf(s) == {i \in Stored : rows[i].key.sub = s}

\* On its way to the write service or to the dlqueue, or an event an operator
\* can still act on, or has resolved.
OnItsWay(s) ==
    \/ \E k \in waiting \cup failed : k.sub = s
    \/ \E i \in RowsOf(s) : rows[i].status # "replayed"

\* A submission the write service has not stored is on its way, also when its
\* replay failed under another key: its events do not all read replayed.  The
\* one exception is a burnt key, which an attempt recorded before it failed:
\* later deliveries of the submission are answered with success.
NothingLost == \A s \in Subs \ saved : OnItsWay(s) \/ s \in recorded

\* "Replays are safe" without the exception.  It holds without faults; with
\* them a burnt key breaks it.
ReplaysStore == \A s \in Subs \ saved : OnItsWay(s)

\* A failed replay comes back under another natural key, but only once: the
\* text of JSONB comes back as it is.  So a submission has at most two natural
\* keys, and the second one only after a POST of the event with the first.
TwoKeysAtMost ==
    \A k \in waiting \cup failed \cup {rows[i].key : i \in Stored} :
        k.text # Sent =>
            /\ k.text = Jsonb
            /\ \E i \in WithKey([k EXCEPT !.text = Sent]) : posts[rows[i].key] > 0

\* Design of the dlqueue service: a failure that comes back after a replay is
\* matched by "hash(original_payload)" and counted on its event.  Then a
\* submission has one event.  It does not hold on postgres: TwoKeysAtMost says
\* what is left of it.
MatchedOnReturn ==
    \A i, j \in Stored : rows[i].key.sub = rows[j].key.sub => i = j
=============================================================================
