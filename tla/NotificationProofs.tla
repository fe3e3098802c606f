------------------------- MODULE NotificationProofs -------------------------
(***************************************************************************)
(* Theorems about Notification, for every set of events, keys and          *)
(* requests, with and without faults: types on both backends, and on       *)
(* postgres that a notification goes out at most once and that what is     *)
(* stored about it is true.                                                *)
(***************************************************************************)
EXTENDS Notification, TLAPS

\* A request that is being handled has an event; a send follows a validation.
ReqShape == \A p \in Procs : ~At(p, "idle") => req[p].event \in Events

TInv == TypeOK /\ ReqShape

\* A handler past the check is sending or saving.
Past(p) == req[p].pc \in {"send", "save"}

\* The shape of req after each kind of move.
LEMMA GotoShape ==
    ASSUME TInv, NEW p \in Procs, NEW pc, Goto(p, pc)
    PROVE  /\ \A q \in Procs \ {p} : req'[q] = req[q]
           /\ req'[p].pc = pc /\ req'[p].event = req[p].event
           /\ req'[p].status = req[p].status
           /\ pc \in {"send"} => req' \in [Procs -> Request]
  BY DEF Goto, TInv, TypeOK, Request

LEMMA MarkShape ==
    ASSUME TInv, NEW p \in Procs, NEW status \in Status, Mark(p, status)
    PROVE  /\ \A q \in Procs \ {p} : req'[q] = req[q]
           /\ req'[p].pc = "save" /\ req'[p].event = req[p].event
           /\ req'[p].status = status
           /\ req' \in [Procs -> Request]
  BY DEF Mark, TInv, TypeOK, Request

LEMMA EndShape ==
    ASSUME TInv, NEW p \in Procs, End(p)
    PROVE  /\ \A q \in Procs \ {p} : req'[q] = req[q]
           /\ req'[p].pc = "idle" /\ req' \in [Procs -> Request]
  BY DEF End, Idle, TInv, TypeOK, Request, Status

\* The key and the row of a request at work.
LEMMA RequestTypes ==
    ASSUME TInv, NEW p \in Procs, ~At(p, "idle")
    PROVE  /\ req[p].event \in Events /\ MyKey(p) \in Keys
           /\ MyNote(p) \in Note /\ MyNote(p).event = req[p].event
           /\ MyNote(p).status = req[p].status
           /\ sends[MyKey(p)] \in Nat
  BY KeyAssumption DEF TInv, TypeOK, ReqShape, Request, MyKey, MyNote, Note

\* What each step keeps of the types.
LEMMA NextTyped ==
    ASSUME TInv, [Next]_vars
    PROVE  TInv'
  <1> USE DEF At
  <1>1. CASE UNCHANGED vars
    BY <1>1 DEF vars, handling, TInv, TypeOK, ReqShape
  <1>2. ASSUME NEW e \in Events, Publish(e) PROVE TInv'
    BY <1>2 DEF Publish, handling, TInv, TypeOK, ReqShape
  <1>3. CASE Restart /\ UNCHANGED bus
    BY <1>3 DEF Restart, Idle, TInv, TypeOK, ReqShape, Request, Status
  <1>4. ASSUME NEW p \in Procs, NEW e \in Events, Deliver(p, e), UNCHANGED bus
        PROVE  TInv'
    BY <1>4 DEF Deliver, TInv, TypeOK, ReqShape, Request, Status
  <1>5. ASSUME NEW p \in Procs, Accept(p), UNCHANGED bus PROVE TInv'
    <2>1. CASE Goto(p, "send")
      BY <1>5, <2>1, GotoShape, RequestTypes DEF Accept, TInv, TypeOK, ReqShape
    <2>2. CASE End(p)
      BY <1>5, <2>2, EndShape, RequestTypes DEF Accept, TInv, TypeOK, ReqShape
    <2> QED
      BY <1>5, <2>1, <2>2 DEF Accept
  <1>6. ASSUME NEW p \in Procs, SkipDuplicate(p), UNCHANGED bus PROVE TInv'
    BY <1>6, EndShape, RequestTypes DEF SkipDuplicate, TInv, TypeOK, ReqShape
  <1>7. ASSUME NEW p \in Procs, Send(p) \/ SendUnacked(p), UNCHANGED bus PROVE TInv'
    <2>1. sends' = [sends EXCEPT ![MyKey(p)] = @ + 1] /\ ~At(p, "idle")
      BY <1>7 DEF Send, SendUnacked
    <2>2. sends' \in [Keys -> Nat]
      BY <2>1, RequestTypes DEF TInv, TypeOK
    <2>3. Mark(p, "sent") \/ Mark(p, "failed")
      BY <1>7 DEF Send, SendUnacked
    <2> QED
      BY <1>7, <2>1, <2>2, <2>3, MarkShape
         DEF Send, SendUnacked, TInv, TypeOK, ReqShape, Status
  <1>8. ASSUME NEW p \in Procs, SendFails(p), UNCHANGED bus PROVE TInv'
    BY <1>8, MarkShape DEF SendFails, TInv, TypeOK, ReqShape, Status
  <1>9. ASSUME NEW p \in Procs, Save(p) \/ SaveUnacked(p), UNCHANGED bus PROVE TInv'
    BY <1>9, EndShape, RequestTypes DEF Save, SaveUnacked, TInv, TypeOK, ReqShape
  <1>10. ASSUME NEW p \in Procs, Abandon(p) \/ CheckUnacked(p), UNCHANGED bus PROVE TInv'
    BY <1>10, EndShape, RequestTypes DEF Abandon, CheckUnacked, TInv, TypeOK, ReqShape
  <1> QED
    BY <1>1, <1>2, <1>3, <1>4, <1>5, <1>6, <1>7, <1>8, <1>9, <1>10
       DEF Next, Handle, Step, Fault

\* The initial state is typed.
LEMMA InitTyped == Init => TInv
  BY DEF Init, Idle, At, TInv, TypeOK, ReqShape, Request, Status

\* TypeOK is an invariant of the notification service.
THEOREM TypeCorrect == Spec => []TypeOK
  <1>1. TInv => TypeOK
    BY DEF TInv
  <1> QED
    BY <1>1, InitTyped, NextTyped, PTL DEF Spec

----------------------------------------------------------------------------
(* Sending once.  The invariant says who owns a recorded key: one handler  *)
(* past the check, and nothing is stored before it has finished.           *)

\* A key nobody has recorded has no send and no notification.
UnrecordedIsUnused ==
    \A k \in Keys \ recorded :
        sends[k] = 0 /\ \A n \in notes : KeyOf[n.event] # k

\* A handler past the check owns its key.
PastOwnsItsKey ==
    \A p \in Procs : Past(p) =>
        /\ MyKey(p) \in recorded
        /\ \A n \in notes : KeyOf[n.event] # MyKey(p)
        /\ \A q \in Procs : Past(q) /\ MyKey(q) = MyKey(p) => q = p

\* A handler about to send is the first to; one about to save has the outcome.
OutcomeIsTrue ==
    \A p \in Procs :
        /\ At(p, "send") => sends[MyKey(p)] = 0
        /\ At(p, "save") => /\ req[p].status # "queued"
                            /\ req[p].status = "sent" => sends[MyKey(p)] = 1

SInv ==
    TInv /\ SentOnce /\ StatusIsTrue
         /\ UnrecordedIsUnused /\ PastOwnsItsKey /\ OutcomeIsTrue

\* What the other requests own stays theirs when p ends or begins: nothing they
\* rely on is taken back.
LEMMA OthersKeep ==
    ASSUME SInv, NEW p \in Procs, \A q \in Procs \ {p} : req'[q] = req[q], ~Past(p)',
           UNCHANGED sends, notes' = notes, recorded \subseteq recorded'
    PROVE  PastOwnsItsKey' /\ OutcomeIsTrue'
  BY DEF SInv, PastOwnsItsKey, OutcomeIsTrue, Past, At, MyKey

\* On postgres the inductive invariant is kept by every step.
LEMMA NextSafe ==
    ASSUME SInv, [Next]_vars, Backend = "postgres"
    PROVE  SInv'
  <1> USE DEF At
  <1>t. TInv /\ TInv'
    BY NextTyped DEF SInv
  <1>1. CASE UNCHANGED vars
    BY <1>1, <1>t DEF vars, handling, SInv, SentOnce, StatusIsTrue, UnrecordedIsUnused,
       PastOwnsItsKey, OutcomeIsTrue, Past, MyKey
  <1>2. ASSUME NEW e \in Events, Publish(e) PROVE SInv'
    BY <1>2, <1>t DEF Publish, handling, SInv, SentOnce, StatusIsTrue, UnrecordedIsUnused,
       PastOwnsItsKey, OutcomeIsTrue, Past, MyKey
  <1>3. CASE Restart /\ UNCHANGED bus
    <2>1. /\ recorded' = recorded /\ notes' = notes /\ sends' = sends
          /\ \A p \in Procs : req'[p].pc = "idle"
      BY <1>3 DEF Restart, Idle
    <2> QED
      BY <2>1, <1>t DEF SInv, SentOnce, StatusIsTrue, UnrecordedIsUnused,
         PastOwnsItsKey, OutcomeIsTrue, Past, MyKey
  \* Requests that begin, end without a note, or are known duplicates.
  <1>4. ASSUME NEW p \in Procs, \A q \in Procs \ {p} : req'[q] = req[q], ~Past(p)',
               UNCHANGED sends, notes' = notes,
               recorded' = recorded \/ recorded' = recorded \cup {MyKey(p)}
        PROVE  SInv'
    <2>1. PastOwnsItsKey' /\ OutcomeIsTrue'
      BY <1>4, OthersKeep
    <2> QED
      BY <1>4, <2>1, <1>t DEF SInv, SentOnce, StatusIsTrue, UnrecordedIsUnused
  <1>5. ASSUME NEW p \in Procs, NEW e \in Events, Deliver(p, e), UNCHANGED bus
        PROVE  SInv'
    <2>1. (\A q \in Procs \ {p} : req'[q] = req[q]) /\ ~Past(p)'
      BY <1>5, <1>t DEF Deliver, Past, TInv, TypeOK
    <2> QED
      BY <1>4, <1>5, <2>1 DEF Deliver
  <1>6. ASSUME NEW p \in Procs, Accept(p), UNCHANGED bus PROVE SInv'
    <2>1. CASE Goto(p, "send")
      <3>1. /\ MyKey(p) \in Keys \ recorded /\ recorded' = recorded \cup {MyKey(p)}
            /\ notes' = notes /\ sends' = sends
        BY <1>6, <1>t, RequestTypes DEF Accept
      <3>2. sends[MyKey(p)] = 0 /\ \A n \in notes : KeyOf[n.event] # MyKey(p)
        BY <3>1 DEF SInv, UnrecordedIsUnused
      <3>3. /\ req'[p].pc = "send" /\ MyKey(p)' = MyKey(p)
            /\ \A q \in Procs \ {p} : req'[q] = req[q]
        BY <2>1, <1>t, GotoShape DEF MyKey
      <3>4. \A q \in Procs \ {p} : Past(q) => MyKey(q) # MyKey(p)
        BY <3>1 DEF SInv, PastOwnsItsKey
      <3>5. \A q \in Procs \ {p} : Past(q)' = Past(q) /\ MyKey(q)' = MyKey(q)
        BY <3>3 DEF Past, MyKey
      <3>6. PastOwnsItsKey'
        BY <3>1, <3>2, <3>3, <3>4, <3>5 DEF SInv, PastOwnsItsKey, Past
      <3>7. OutcomeIsTrue'
        BY <3>1, <3>2, <3>3, <3>5 DEF SInv, OutcomeIsTrue
      <3> QED
        BY <3>1, <3>6, <3>7, <1>t DEF SInv, SentOnce, StatusIsTrue, UnrecordedIsUnused
    <2>2. CASE End(p)
      BY <1>4, <1>6, <2>2, <1>t, EndShape DEF Accept, Past
    <2> QED
      BY <1>6, <2>1, <2>2 DEF Accept
  <1>7. ASSUME NEW p \in Procs, SkipDuplicate(p) \/ Abandon(p) \/ CheckUnacked(p),
               UNCHANGED bus
        PROVE  SInv'
    BY <1>4, <1>7, <1>t, EndShape DEF SkipDuplicate, Abandon, CheckUnacked, Past
  \* The send: p marks its request, other requests have other keys.
  <1>8. ASSUME NEW p \in Procs, NEW status \in {"sent", "failed"}, Mark(p, status),
               At(p, "send"), UNCHANGED <<bus, recorded, notes>>,
               \/ sends' = [sends EXCEPT ![MyKey(p)] = @ + 1]
               \/ sends' = sends /\ status = "failed"
        PROVE  SInv'
    <2>1. /\ \A q \in Procs \ {p} : req'[q] = req[q]
          /\ req'[p].pc = "save" /\ req'[p].status = status /\ MyKey(p)' = MyKey(p)
      BY <1>8, <1>t, MarkShape DEF Status, MyKey
    <2>2. /\ MyKey(p) \in Keys /\ MyKey(p) \in recorded /\ sends[MyKey(p)] = 0
          /\ \A n \in notes : KeyOf[n.event] # MyKey(p)
          /\ \A q \in Procs \ {p} : Past(q) => MyKey(q) # MyKey(p)
      BY <1>8, <1>t, RequestTypes DEF SInv, PastOwnsItsKey, OutcomeIsTrue, Past
    <2>3. /\ sends'[MyKey(p)] \in {0, 1} /\ (status = "sent" => sends'[MyKey(p)] = 1)
          /\ \A k \in Keys \ {MyKey(p)} : sends'[k] = sends[k]
      BY <1>8, <2>2, <1>t DEF TInv, TypeOK
    <2>4. \A q \in Procs \ {p} : Past(q)' = Past(q) /\ MyKey(q)' = MyKey(q)
      BY <2>1 DEF Past, MyKey
    <2>5. PastOwnsItsKey'
      BY <1>8, <2>1, <2>2, <2>4 DEF SInv, PastOwnsItsKey, Past
    <2>6. OutcomeIsTrue'
      <3>1. ASSUME NEW q \in Procs \ {p}, Past(q)
            PROVE  sends'[MyKey(q)] = sends[MyKey(q)]
        <4>1. MyKey(q) \in Keys
          BY <3>1, <1>t, RequestTypes DEF Past
        <4> QED
          BY <3>1, <4>1, <2>2, <2>3
      <3>2. ASSUME NEW q \in Procs \ {p}
            PROVE  /\ req'[q].pc = "send" => sends'[MyKey(q)'] = 0
                   /\ req'[q].pc = "save" =>
                        /\ req'[q].status # "queued"
                        /\ req'[q].status = "sent" => sends'[MyKey(q)'] = 1
        BY <3>1, <2>1, <2>4 DEF SInv, OutcomeIsTrue, Past
      <3>3. req'[p].status # "queued" /\ (req'[p].status = "sent" => sends'[MyKey(p)'] = 1)
        BY <2>1, <2>3
      <3> QED
        BY <3>2, <3>3, <2>1 DEF OutcomeIsTrue
    <2>7. SentOnce' /\ UnrecordedIsUnused'
      BY <1>8, <2>2, <2>3 DEF SInv, SentOnce, UnrecordedIsUnused
    <2>8. StatusIsTrue'
      <3>1. \A n \in notes : KeyOf[n.event] \in Keys
        BY <1>t, KeyAssumption DEF TInv, TypeOK, Note
      <3> QED
        BY <1>8, <2>2, <2>3, <3>1 DEF SInv, StatusIsTrue
    <2> QED
      BY <2>5, <2>6, <2>7, <2>8, <1>t DEF SInv
  <1>9. ASSUME NEW p \in Procs, Send(p) \/ SendFails(p) \/ SendUnacked(p), UNCHANGED bus
        PROVE  SInv'
    BY <1>8, <1>9 DEF Send, SendFails, SendUnacked
  \* The save: p gives its key up, and the notification takes it.
  <1>10. ASSUME NEW p \in Procs, Save(p) \/ SaveUnacked(p), UNCHANGED bus PROVE SInv'
    <2>1. /\ At(p, "save") /\ notes' = notes \cup {MyNote(p)}
          /\ recorded' = recorded /\ sends' = sends /\ End(p)
      BY <1>10 DEF Save, SaveUnacked
    <2>2. (\A q \in Procs \ {p} : req'[q] = req[q]) /\ req'[p].pc = "idle"
      BY <2>1, <1>t, EndShape
    <2>3. KeyOf[MyNote(p).event] = MyKey(p) /\ MyNote(p).status = req[p].status
      BY DEF MyNote, MyKey
    <2>4. /\ MyKey(p) \in recorded
          /\ \A n \in notes : KeyOf[n.event] # MyKey(p)
          /\ \A q \in Procs \ {p} : Past(q) => MyKey(q) # MyKey(p)
      BY <2>1 DEF SInv, PastOwnsItsKey, Past
    <2>5. \A q \in Procs \ {p} : Past(q)' = Past(q) /\ MyKey(q)' = MyKey(q)
      BY <2>2 DEF Past, MyKey
    <2>6. PastOwnsItsKey'
      BY <2>1, <2>2, <2>3, <2>4, <2>5 DEF SInv, PastOwnsItsKey, Past
    <2>7. OutcomeIsTrue'
      BY <2>1, <2>2, <2>5 DEF SInv, OutcomeIsTrue
    <2>8. StatusIsTrue'
      <3>1. req[p].status # "queued" /\ (req[p].status = "sent" => sends[MyKey(p)] = 1)
        BY <2>1 DEF SInv, OutcomeIsTrue
      <3> QED
        BY <2>1, <2>3, <2>4, <3>1 DEF SInv, StatusIsTrue
    <2>9. SentOnce' /\ UnrecordedIsUnused'
      BY <2>1, <2>3, <2>4 DEF SInv, SentOnce, UnrecordedIsUnused
    <2> QED
      BY <2>6, <2>7, <2>8, <2>9, <1>t DEF SInv
  <1> QED
    BY <1>1, <1>2, <1>3, <1>5, <1>6, <1>7, <1>9, <1>10
       DEF Next, Handle, Step, Fault

\* The initial state satisfies the inductive invariant.
LEMMA InitSafe == Init => SInv
  BY InitTyped DEF Init, Idle, At, SInv, SentOnce, StatusIsTrue, UnrecordedIsUnused,
     PastOwnsItsKey, OutcomeIsTrue, Past

\* The inductive invariant of the notification service.
THEOREM SafetyInvariant == ASSUME Backend = "postgres" PROVE Spec => []SInv
  BY InitSafe, NextSafe, PTL DEF Spec

\* At most one notification goes out for a key, for any number of deliveries,
\* handlers and crashes.
THEOREM NeverSentTwice == ASSUME Backend = "postgres" PROVE Spec => []SentOnce
  <1>1. SInv => SentOnce
    BY DEF SInv
  <1> QED
    BY <1>1, SafetyInvariant, PTL

\* A stored notification has the status its send earned, and is the only one of
\* its key.
THEOREM StoredStatusIsTrue == ASSUME Backend = "postgres" PROVE Spec => []StatusIsTrue
  <1>1. SInv => StatusIsTrue
    BY DEF SInv
  <1> QED
    BY <1>1, SafetyInvariant, PTL

\* A handler about to send is the only one past the check for its key.
THEOREM SendersAreAlone == ASSUME Backend = "postgres" PROVE Spec => []SendersOwnTheirKey
  <1>1. SInv => SendersOwnTheirKey
    BY DEF SInv, TInv, TypeOK, Request, PastOwnsItsKey, OutcomeIsTrue, SendersOwnTheirKey,
       Past, At
  <1> QED
    BY <1>1, SafetyInvariant, PTL
=============================================================================
