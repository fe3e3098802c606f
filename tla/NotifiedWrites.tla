--------------------------- MODULE NotifiedWrites ---------------------------
(***************************************************************************)
(* The path of a submission to its notification: a write service           *)
(* (IdempotentWrite) publishes, the consumer sensor delivers what is on    *)
(* the bus to the notification service (Notification).                     *)
(*                                                                         *)
(* The sensor builds the request from the event: subject from the payload, *)
(* body, recipient and channel constant for the type of the event, and no  *)
(* idempotency_key.  So the key of a notification is the type of its event *)
(* and the subject, and the key of the submission does not enter it.       *)
(***************************************************************************)
EXTENDS IdempotentWrite

CONSTANTS
    Products,     \* the products the submissions are about
    ProductOf,    \* the product of each submission
    Senders       \* requests the notification service handles at the same time

ASSUME ProductAssumption == ProductOf \in [Keys -> Products]

VARIABLES recorded, notes, sends, nreq, nacked

Submitted(e) == [type |-> "submitted", id |-> e.id, key |-> e.key]
Deleted(i) == [type |-> "deleted", id |-> i, key |-> Nil]

\* The events both producers put on the topic, told apart by ce_type.
Topic == {Submitted(e) : e \in published} \cup {Deleted(i) : i \in deletions}

Events == {Submitted(e) : e \in Entry} \cup {Deleted(i) : i \in Ids}

\* Mutant: the subject of every event is taken from body.product_id.
SubjectIsProduct(e) == IF e.type = "submitted" THEN ProductOf[e.key] ELSE Nil

\* dataKey of the subject: body.product_id, or body.review_id.
Subject(e) == IF e.type = "submitted" THEN ProductOf[e.key] ELSE e.id

\* Mutant: the subject is left out of the key.
KeyWithoutSubject == [e \in Events |-> <<e.type, e.type>>]

\* NaturalKey(recipient, channel, subject, body): two constants and these two.
NotificationKey == [e \in Events |-> <<e.type, Subject(e)>>]

NotificationKeys == {NotificationKey[e] : e \in Events}

N == INSTANCE Notification WITH
        Keys <- NotificationKeys, KeyOf <- NotificationKey,
        Valid <- Events, Procs <- Senders,
        bus <- Topic, req <- nreq, acked <- nacked

notification == <<recorded, notes, sends, nreq, nacked>>
system == <<vars, notification>>

SystemInit == Init /\ N!Init

SystemNext ==
    \/ Next /\ UNCHANGED notification
    \/ N!Handle /\ UNCHANGED vars

\* The sensor goes on delivering what has not been answered with success.
SystemFairness ==
    /\ Fairness
    /\ \A p \in Senders : WF_system(N!Step(p) /\ UNCHANGED vars)
    /\ WF_system(\E p \in Senders, e \in Events : N!Deliver(p, e) /\ UNCHANGED vars)

SystemSpec == SystemInit /\ [][SystemNext]_system /\ SystemFairness

----------------------------------------------------------------------------
(* Properties.                                                             *)

\* A notification of the type of event e and about its subject.
SameSubject(e, f) == f.type = e.type /\ Subject(f) = Subject(e)

\* A delivery that was answered with success has its notification stored, or a
\* request is sending it: of the same type and about the same product or review,
\* also if it was taken for a duplicate.  Which submission of a product that is
\* is left open, and has to be: the sensor passes nothing that tells them apart.
AnsweredIsNotified ==
    \A e \in nacked :
        \/ \E n \in notes : SameSubject(e, n.event)
        \/ \E p \in Senders : nreq[p].pc \in {"send", "save"} /\ SameSubject(e, nreq[p].event)

Noted(type, subject) == \E n \in notes : n.event.type = type /\ Subject(n.event) = subject

\* A product with a submission that was answered with success is notified in
\* the end, once for all its submissions, and each deleted review on its own.
ProductIsNotified ==
    /\ \A k \in Keys : k \in acked ~> Noted("submitted", ProductOf[k])
    /\ \A i \in Ids : i \in deletions ~> Noted("deleted", i)

\* "A notification fires if and only if the corresponding write succeeded": the
\* write a notification speaks of is there in the end, also if a duplicate has
\* published the event while the first delivery was still saving.
NotifiedIsSaved ==
    \A k \in Keys : (\E n \in notes : n.event.key = k) ~> \E r \in saved : r.key = k

----------------------------------------------------------------------------
(* What the same sentence also says, and the system does not give.         *)

\* Every submission whose event was answered with success was notified itself.
\* The second one about a product is not: its notification has the natural key
\* of the first.
EachWriteNotified ==
    \A e \in nacked : e.type = "submitted" =>
        \/ \E n \in notes : n.event.key = e.key
        \/ \E p \in Senders : nreq[p].pc \in {"send", "save"} /\ nreq[p].event.key = e.key
=============================================================================
