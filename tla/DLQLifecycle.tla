---------------------------- MODULE DLQLifecycle ----------------------------
(***************************************************************************)
(* What the dlqueue service promises of each dead-letter event, with no    *)
(* requests, copies or failures: the state machine of dlq_event.go, each   *)
(* transition one atomic step on one ticket.  DLQueue implements it as     *)
(* long as requests do not overlap.                                        *)
(***************************************************************************)
EXTENDS Naturals

CONSTANTS Keys, Ids, Thresholds, None

VARIABLE tickets   \* [Ids -> None or the key, status and retries of an event]

Open(i) == tickets[i] # None

Move(i, status, retry) ==
    tickets' = [tickets EXCEPT
        ![i] = [key |-> @.key, status |-> status, retry |-> retry, max |-> @.max]]

Init == tickets = [i \in Ids |-> None]

\* The first failure of a business event opens the only ticket of its key.
FirstFailure(i, k, m) ==
    /\ ~Open(i)
    /\ \A j \in Ids : Open(j) => tickets[j].key # k
    /\ tickets' = [tickets EXCEPT
            ![i] = [key |-> k, status |-> "pending", retry |-> 0, max |-> m]]

\* It fails again: one retry more, and poisoned when none is left.
FailedAgain(i) ==
    /\ Open(i) /\ tickets[i].status # "resolved"
    /\ LET n == tickets[i].retry + 1 IN
         Move(i, IF n < tickets[i].max THEN "pending" ELSE "poisoned", n)

Replayed(i) ==
    /\ Open(i) /\ tickets[i].status = "pending"
    /\ Move(i, "replayed", tickets[i].retry)

Resolved(i) ==
    /\ Open(i) /\ tickets[i].status \in {"pending", "replayed"}
    /\ Move(i, "resolved", tickets[i].retry)

Reset(i) ==
    /\ Open(i) /\ tickets[i].status = "poisoned"
    /\ Move(i, "pending", 0)

Next == \E i \in Ids :
    \/ \E k \in Keys, m \in Thresholds : FirstFailure(i, k, m)
    \/ FailedAgain(i) \/ Replayed(i) \/ Resolved(i) \/ Reset(i)

Spec == Init /\ [][Next]_tickets
=============================================================================
