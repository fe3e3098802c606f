----------------------- MODULE IdempotentWriteProofs -----------------------
(***************************************************************************)
(* Theorems about IdempotentWrite, for every set of submissions, ids and   *)
(* requests, both backends, with and without faults; and, in the last      *)
(* section, about NotifiedWrites, which extends it.                        *)
(***************************************************************************)
EXTENDS NotifiedWrites, TLAPS

\* Requests that submit have a key and an id, requests that delete an id.
ReqShape ==
    \A p \in Procs :
        /\ req[p].pc \in {"check", "save", "publish"} =>
               req[p].key \in Keys /\ req[p].id \in Ids
        /\ req[p].pc \in {"delete", "announce"} => req[p].id \in Ids

TInv == TypeOK /\ ReqShape

\* Other requests stay as they are when p moves on, and p changes only its pc.
LEMMA GotoShape ==
    ASSUME TInv, NEW p \in Procs, NEW pc, Goto(p, pc)
    PROVE  /\ \A q \in Procs \ {p} : req'[q] = req[q]
           /\ req'[p].pc = pc /\ req'[p].key = req[p].key /\ req'[p].id = req[p].id
           /\ pc \in {"save", "publish", "announce"} => req' \in [Procs -> Request]
  BY DEF Goto, TInv, TypeOK, Request

\* A request that ends is idle; the others stay as they are.
LEMMA EndShape ==
    ASSUME TInv, NEW p \in Procs, End(p)
    PROVE  /\ \A q \in Procs \ {p} : req'[q] = req[q]
           /\ req'[p].pc = "idle"
           /\ req' \in [Procs -> Request]
  BY DEF End, Idle, TInv, TypeOK, Request

\* A request that begins is what it begins with; the others stay as they are.
LEMMA BeginShape ==
    ASSUME TInv, NEW p \in Procs, NEW r \in Request, Begin(p, r)
    PROVE  /\ \A q \in Procs \ {p} : req'[q] = req[q]
           /\ req'[p] = r
           /\ req' \in [Procs -> Request]
  BY DEF Begin, TInv, TypeOK

\* The row and the event of a submission are entries.
LEMMA EntryType ==
    ASSUME TInv, NEW p \in Procs, req[p].pc \in {"check", "save", "publish"}
    PROVE  MyEntry(p) \in Entry /\ MyEntry(p).id = req[p].id /\ MyEntry(p).key = req[p].key
  BY DEF TInv, ReqShape, MyEntry, Entry

\* What each step keeps of the types.
LEMMA NextTyped ==
    ASSUME TInv, [Next]_vars
    PROVE  TInv'
  <1> USE DEF At, store, bus
  <1>1. CASE UNCHANGED vars
    BY <1>1 DEF vars, TInv, TypeOK, ReqShape
  <1>2. CASE Restart
    BY <1>2 DEF Restart, Idle, TInv, TypeOK, ReqShape, Request
  <1>3. ASSUME NEW p \in Procs, NEW k \in Keys, BeginSubmit(p, k) PROVE TInv'
    <2>1. PICK i \in FreshIds : Begin(p, [pc |-> "check", key |-> k, id |-> i])
      BY <1>3 DEF BeginSubmit
    <2>2. i \in Ids /\ [pc |-> "check", key |-> k, id |-> i] \in Request
      BY DEF FreshIds, Request
    <2> QED
      BY <1>3, <2>1, <2>2, BeginShape DEF BeginSubmit, TInv, TypeOK, ReqShape
  <1>4. ASSUME NEW p \in Procs, NEW i \in Ids, BeginDelete(p, i) PROVE TInv'
    <2>1. [pc |-> "delete", key |-> Nil, id |-> i] \in Request
      BY DEF Request
    <2> QED
      BY <1>4, <2>1, BeginShape DEF BeginDelete, TInv, TypeOK, ReqShape
  <1>5. ASSUME NEW p \in Procs, CheckAndRecord(p) PROVE TInv'
    <2>1. Goto(p, "save") \/ Goto(p, "publish")
      BY <1>5 DEF CheckAndRecord
    <2> QED
      BY <1>5, <2>1, GotoShape DEF CheckAndRecord, TInv, TypeOK, ReqShape
  <1>6. ASSUME NEW p \in Procs, Save(p) PROVE TInv'
    BY <1>6, GotoShape, EntryType DEF Save, Insert, TInv, TypeOK, ReqShape
  <1>7. ASSUME NEW p \in Procs, Publish(p) PROVE TInv'
    BY <1>7, EndShape, EntryType DEF Publish, TInv, TypeOK, ReqShape
  <1>8. ASSUME NEW p \in Procs, PublishFails(p) PROVE TInv'
    BY <1>8, EndShape DEF PublishFails, TInv, TypeOK, ReqShape
  <1>9. ASSUME NEW p \in Procs, Delete(p) PROVE TInv'
    BY <1>9, GotoShape DEF Delete, TInv, TypeOK, ReqShape
  <1>10. ASSUME NEW p \in Procs, Announce(p) PROVE TInv'
    BY <1>10, EndShape DEF Announce, TInv, TypeOK, ReqShape
  <1>11. ASSUME NEW p \in Procs, Fault(p) PROVE TInv'
    <2>1. CASE Abandon(p)
      BY <2>1, EndShape DEF Abandon, TInv, TypeOK, ReqShape
    <2>2. CASE CheckUnacked(p)
      BY <2>2, EndShape DEF CheckUnacked, TInv, TypeOK, ReqShape
    <2>3. CASE SaveUnacked(p)
      BY <2>3, EndShape, EntryType DEF SaveUnacked, Insert, TInv, TypeOK, ReqShape
    <2>4. CASE PublishUnacked(p)
      BY <2>4, EndShape, EntryType DEF PublishUnacked, TInv, TypeOK, ReqShape
    <2> QED
      BY <1>11, <2>1, <2>2, <2>3, <2>4 DEF Fault
  <1> QED
    BY <1>1, <1>2, <1>3, <1>4, <1>5, <1>6, <1>7, <1>8, <1>9, <1>10, <1>11
       DEF Next, Arrive, Step

\* The initial state is typed.
LEMMA InitTyped == Init => TInv
  BY DEF Init, Idle, TInv, TypeOK, ReqShape, Request

\* TypeOK is an invariant of the write services.
THEOREM TypeCorrect == Spec => []TypeOK
  <1>1. TInv => TypeOK
    BY DEF TInv
  <1> QED
    BY <1>1, InitTyped, NextTyped, PTL DEF Spec

----------------------------------------------------------------------------
(* Idempotency.  The invariant says who owns what: a key at "save" belongs *)
(* to one handler, and so does the id a handler has drawn.                 *)

\* An id drawn for a submission is nobody else's until it is saved.
IdsFresh ==
    \A p \in Procs : req[p].pc \in {"check", "save"} =>
        /\ \A r \in saved \cup published : r.id # req[p].id
        /\ req[p].id \notin deletions
        /\ \A q \in Procs \ {p} : req[q].id # req[p].id

\* A delete that is about to be announced has removed the row of its key.
DeletesDone ==
    \A p \in Procs : req[p].pc = "announce" =>
        \A r \in saved : r.id = req[p].id => \A x \in rows : x.key # r.key

StoreInv ==
    /\ rows \subseteq saved
    /\ \A r \in saved : r.key \in processed
    /\ AtMostOneSave
    /\ DeletedStaysGone

SInv ==
    /\ TInv
    /\ StoreInv
    /\ SaversOwnTheirKey
    /\ AckedWasPublished
    /\ IdsFresh
    /\ DeletesDone

\* Ending a request, with or without an answer, gives up its key and its id.
LEMMA EndSafe ==
    ASSUME SInv, TInv', NEW p \in Procs, End(p),
           UNCHANGED <<rows, saved, deletions>>,
           processed' \in {processed, processed \cup {req[p].key}},
           published' \in {published, published \cup {MyEntry(p)}},
           published' # published => req[p].pc = "publish",
           acked' = acked \/ (acked' = acked \cup {req[p].key} /\ MyEntry(p) \in published')
    PROVE  SInv'
  <1> USE DEF At
  <1>1. /\ \A q \in Procs \ {p} : req'[q] = req[q]
        /\ req'[p].pc = "idle" /\ req'[p].id = Nil
    BY DEF SInv, TInv, TypeOK, End, Idle
  <1>2. StoreInv'
    BY DEF SInv, StoreInv, AtMostOneSave, DeletedStaysGone
  <1>3. SaversOwnTheirKey'
    BY <1>1 DEF SInv, SaversOwnTheirKey
  <1>4. AckedWasPublished'
    BY DEF SInv, AckedWasPublished, MyEntry
  <1>5. IdsFresh'
    <2> SUFFICES ASSUME NEW q \in Procs, req'[q].pc \in {"check", "save"}
                 PROVE  /\ \A r \in saved' \cup published' : r.id # req'[q].id
                        /\ req'[q].id \notin deletions'
                        /\ \A o \in Procs \ {q} : req'[o].id # req'[q].id
      BY DEF IdsFresh
    <2>1. q # p /\ req'[q] = req[q] /\ req[q].id # Nil
      BY <1>1, NilAssumption DEF SInv, TInv, ReqShape
    <2>2. \A r \in published' : r.id # req[q].id
      BY <2>1 DEF SInv, IdsFresh, MyEntry
    <2> QED
      BY <1>1, <2>1, <2>2 DEF SInv, IdsFresh
  <1>6. DeletesDone'
    BY <1>1 DEF SInv, DeletesDone
  <1> QED
    BY <1>2, <1>3, <1>4, <1>5, <1>6 DEF SInv

\* A request that begins has a fresh id, or one that has been seen.
LEMMA ArriveSafe ==
    ASSUME SInv, TInv', NEW p \in Procs, Arrive(p)
    PROVE  SInv'
  <1> USE DEF At, store, bus
  <1>1. UNCHANGED <<store, bus, acked>>
    BY DEF Arrive, BeginSubmit, BeginDelete
  <1>2. /\ \A q \in Procs \ {p} : req'[q] = req[q]
        /\ req'[p].pc \in {"check", "delete"}
        /\ req'[p].pc = "check" => req'[p].id \in FreshIds
        /\ req'[p].pc = "delete" => \E r \in saved \cup published : r.id = req'[p].id
    <2>1. CASE \E k \in Keys : BeginSubmit(p, k)
      BY <2>1 DEF BeginSubmit, Begin, SInv, TInv, TypeOK
    <2>2. CASE \E i \in Ids : BeginDelete(p, i)
      BY <2>2 DEF BeginDelete, Begin, SInv, TInv, TypeOK
    <2> QED
      BY <2>1, <2>2 DEF Arrive
  <1>3. StoreInv' /\ AckedWasPublished'
    BY <1>1 DEF SInv, StoreInv, AtMostOneSave, DeletedStaysGone, AckedWasPublished
  <1>4. SaversOwnTheirKey' /\ DeletesDone'
    BY <1>1, <1>2 DEF SInv, SaversOwnTheirKey, DeletesDone
  <1>5. IdsFresh'
    BY <1>1, <1>2 DEF SInv, IdsFresh, FreshIds
  <1> QED
    BY <1>3, <1>4, <1>5 DEF SInv

\* Only the handler that found the key new goes on to save.
LEMMA CheckSafe ==
    ASSUME SInv, TInv', NEW p \in Procs, CheckAndRecord(p)
    PROVE  SInv'
  <1> USE DEF At, store, bus
  <1>1. /\ \A q \in Procs \ {p} : req'[q] = req[q]
        /\ req'[p].pc = (IF req[p].key \in processed THEN "publish" ELSE "save")
        /\ req'[p].key = req[p].key /\ req'[p].id = req[p].id
    BY GotoShape DEF CheckAndRecord, SInv
  <1>2. req[p].pc = "check" /\ processed' = processed \cup {req[p].key}
        /\ UNCHANGED <<rows, saved, bus, acked>>
    BY DEF CheckAndRecord
  <1>3. StoreInv' /\ AckedWasPublished'
    BY <1>2 DEF SInv, StoreInv, AtMostOneSave, DeletedStaysGone, AckedWasPublished
  <1>4. SaversOwnTheirKey'
    BY <1>1, <1>2 DEF SInv, StoreInv, SaversOwnTheirKey
  <1>5. IdsFresh' /\ DeletesDone'
    BY <1>1, <1>2 DEF SInv, IdsFresh, DeletesDone
  <1> QED
    BY <1>3, <1>4, <1>5 DEF SInv

\* Inserting the row of a key somebody owns: it is the only one, and it is not
\* the row of a review that is being or has been deleted.
LEMMA InsertSafe ==
    ASSUME SInv, TInv', NEW p \in Procs, req[p].pc = "save",
           Insert(MyEntry(p)), UNCHANGED <<processed, bus, acked>>,
           \A q \in Procs \ {p} : req'[q] = req[q],
           req'[p].pc \in {"idle", "publish"}, req'[p].id \in {req[p].id, Nil}
    PROVE  SInv'
  <1> USE DEF At, bus
  <1> DEFINE e == MyEntry(p)
  <1>1. e \in Entry /\ e.id = req[p].id /\ e.key = req[p].key
    BY EntryType DEF SInv
  <1>2. /\ e.key \in processed
        /\ \A r \in saved : r.key # e.key
        /\ \A q \in Procs \ {p} : ~(req[q].pc = "save" /\ req[q].key = e.key)
    BY <1>1 DEF SInv, SaversOwnTheirKey
  <1>3. /\ \A r \in saved \cup published : r.id # e.id
        /\ e.id \notin deletions
        /\ \A q \in Procs \ {p} : req[q].id # e.id
    BY <1>1 DEF SInv, IdsFresh
  <1>4. rows' = rows \cup {e} /\ saved' = saved \cup {e} /\ rows \subseteq saved
    BY DEF Insert, SInv, StoreInv
  <1> HIDE DEF e
  <1>5. StoreInv'
    BY <1>2, <1>3, <1>4 DEF SInv, StoreInv, AtMostOneSave, DeletedStaysGone
  <1>6. SaversOwnTheirKey'
    BY <1>2, <1>4 DEF SInv, SaversOwnTheirKey
  <1>7. AckedWasPublished'
    BY DEF SInv, AckedWasPublished
  <1>8. IdsFresh'
    <2> SUFFICES ASSUME NEW q \in Procs, req'[q].pc \in {"check", "save"}
                 PROVE  /\ \A r \in saved' \cup published' : r.id # req'[q].id
                        /\ req'[q].id \notin deletions'
                        /\ \A o \in Procs \ {q} : req'[o].id # req'[q].id
      BY DEF IdsFresh
    <2>1. q # p /\ req'[q] = req[q] /\ req[q].id # Nil
      BY NilAssumption DEF SInv, TInv, ReqShape
    <2> QED
      BY <1>3, <1>4, <2>1 DEF SInv, IdsFresh
  <1>9. DeletesDone'
    BY <1>2, <1>3, <1>4 DEF SInv, DeletesDone
  <1> QED
    BY <1>5, <1>6, <1>7, <1>8, <1>9 DEF SInv

\* Deleting a row empties its key, which nobody will save for again.
LEMMA DeleteSafe ==
    ASSUME SInv, TInv', NEW p \in Procs, Delete(p)
    PROVE  SInv'
  <1> USE DEF At, bus
  <1>1. /\ \A q \in Procs \ {p} : req'[q] = req[q]
        /\ req'[p].pc = "announce" /\ req'[p].id = req[p].id
    BY GotoShape DEF Delete, SInv
  <1>2. /\ rows' = {r \in rows : r.id # req[p].id} /\ rows' \subseteq rows
        /\ UNCHANGED <<processed, saved, bus, acked>> /\ req[p].pc = "delete"
    BY DEF Delete
  <1>3. StoreInv' /\ AckedWasPublished'
    BY <1>2 DEF SInv, StoreInv, AtMostOneSave, DeletedStaysGone, AckedWasPublished
  <1>4. SaversOwnTheirKey' /\ IdsFresh'
    BY <1>1, <1>2 DEF SInv, SaversOwnTheirKey, IdsFresh
  <1>5. \A r \in saved : r.id = req[p].id => \A x \in rows' : x.key # r.key
    BY <1>2 DEF SInv, StoreInv, AtMostOneSave
  <1>6. DeletesDone'
    BY <1>1, <1>2, <1>5 DEF SInv, DeletesDone
  <1> QED
    BY <1>3, <1>4, <1>6 DEF SInv

\* Announcing a delete that is done.
LEMMA AnnounceSafe ==
    ASSUME SInv, TInv', NEW p \in Procs, Announce(p)
    PROVE  SInv'
  <1> USE DEF At, store
  <1>1. /\ \A q \in Procs \ {p} : req'[q] = req[q]
        /\ req'[p].pc = "idle" /\ req'[p].id = Nil
    BY DEF Announce, SInv, TInv, TypeOK, End, Idle
  <1>2. /\ deletions' = deletions \cup {req[p].id} /\ req[p].pc = "announce"
        /\ UNCHANGED <<store, published, acked>>
    BY DEF Announce
  <1>3. StoreInv'
    BY <1>2 DEF SInv, StoreInv, AtMostOneSave, DeletedStaysGone, DeletesDone
  <1>4. SaversOwnTheirKey' /\ AckedWasPublished' /\ DeletesDone'
    BY <1>1, <1>2 DEF SInv, SaversOwnTheirKey, AckedWasPublished, DeletesDone
  <1>5. IdsFresh'
    <2> SUFFICES ASSUME NEW q \in Procs, req'[q].pc \in {"check", "save"}
                 PROVE  /\ \A r \in saved' \cup published' : r.id # req'[q].id
                        /\ req'[q].id \notin deletions'
                        /\ \A o \in Procs \ {q} : req'[o].id # req'[q].id
      BY DEF IdsFresh
    <2>1. q # p /\ req'[q] = req[q] /\ req[q].id # Nil
      BY <1>1, NilAssumption DEF SInv, TInv, ReqShape
    <2> QED
      BY <1>1, <1>2, <2>1 DEF SInv, IdsFresh
  <1> QED
    BY <1>3, <1>4, <1>5 DEF SInv

\* A process starts again with no requests, on memory with no rows and keys.
LEMMA RestartSafe ==
    ASSUME SInv, TInv', Restart
    PROVE  SInv'
  <1> USE DEF At, bus
  <1>1. \A p \in Procs : req'[p].pc = "idle"
    BY DEF Restart, Idle
  <1>2. StoreInv' /\ AckedWasPublished'
    BY DEF Restart, store, SInv, StoreInv, AtMostOneSave, DeletedStaysGone, AckedWasPublished
  <1>3. SaversOwnTheirKey' /\ IdsFresh' /\ DeletesDone'
    BY <1>1 DEF SaversOwnTheirKey, IdsFresh, DeletesDone
  <1> QED
    BY <1>2, <1>3 DEF SInv

\* SInv is an invariant of the write services.
THEOREM SafetyInvariant == Spec => []SInv
  <1> USE DEF At, store, bus
  <1>1. Init => SInv
    BY InitTyped DEF Init, Idle, SInv, StoreInv, AtMostOneSave, DeletedStaysGone,
       SaversOwnTheirKey, AckedWasPublished, IdsFresh, DeletesDone
  <1>2. ASSUME SInv, [Next]_vars PROVE SInv'
    <2>1. TInv'
      BY <1>2, NextTyped DEF SInv
    <2>2. CASE UNCHANGED vars
      BY <1>2, <2>1, <2>2 DEF vars, SInv, StoreInv, AtMostOneSave, DeletedStaysGone,
         SaversOwnTheirKey, AckedWasPublished, IdsFresh, DeletesDone
    <2>3. CASE Restart
      BY <1>2, <2>1, <2>3, RestartSafe
    <2>4. ASSUME NEW p \in Procs, Arrive(p) PROVE SInv'
      BY <1>2, <2>1, <2>4, ArriveSafe
    <2>5. ASSUME NEW p \in Procs, Step(p) PROVE SInv'
      <3>1. CASE CheckAndRecord(p)
        BY <1>2, <2>1, <3>1, CheckSafe
      <3>2. CASE Save(p)
        BY <1>2, <2>1, <3>2, InsertSafe, GotoShape DEF Save, SInv
      <3>3. CASE Publish(p)
        BY <1>2, <2>1, <3>3, EndSafe DEF Publish
      <3>4. CASE PublishFails(p)
        BY <1>2, <2>1, <3>4, EndSafe DEF PublishFails
      <3>5. CASE Delete(p)
        BY <1>2, <2>1, <3>5, DeleteSafe
      <3>6. CASE Announce(p)
        BY <1>2, <2>1, <3>6, AnnounceSafe
      <3> QED
        BY <2>5, <3>1, <3>2, <3>3, <3>4, <3>5, <3>6 DEF Step
    <2>6. ASSUME NEW p \in Procs, Fault(p) PROVE SInv'
      <3>1. CASE Abandon(p)
        BY <1>2, <2>1, <3>1, EndSafe DEF Abandon
      <3>2. CASE CheckUnacked(p)
        BY <1>2, <2>1, <3>2, EndSafe DEF CheckUnacked
      <3>3. CASE SaveUnacked(p)
        <4>1. End(p) /\ req[p].pc = "save" /\ Insert(MyEntry(p))
              /\ UNCHANGED <<processed, bus, acked>>
          BY <3>3 DEF SaveUnacked
        <4>2. /\ \A q \in Procs \ {p} : req'[q] = req[q]
              /\ req'[p].pc = "idle" /\ req'[p].id = Nil
          BY <1>2, <4>1 DEF SInv, TInv, TypeOK, End, Idle
        <4> QED
          BY <1>2, <2>1, <4>1, <4>2, InsertSafe
      <3>4. CASE PublishUnacked(p)
        BY <1>2, <2>1, <3>4, EndSafe DEF PublishUnacked
      <3> QED
        BY <2>6, <3>1, <3>2, <3>3, <3>4 DEF Fault
    <2> QED
      BY <1>2, <2>2, <2>3, <2>4, <2>5, <2>6 DEF Next
  <1> QED
    BY <1>1, <1>2, PTL DEF Spec

\* However often and however concurrently a submission is delivered, at most
\* one row is inserted for it.
THEOREM Idempotent == Spec => []AtMostOneSave
  <1>1. SInv => AtMostOneSave
    BY DEF SInv, StoreInv
  <1> QED
    BY <1>1, SafetyInvariant, PTL

\* A submission answered with success has an event on the bus.
THEOREM AnsweredIsPublished == Spec => []AckedWasPublished
  <1>1. SInv => AckedWasPublished
    BY DEF SInv
  <1> QED
    BY <1>1, SafetyInvariant, PTL

\* No replay of a submission brings a deleted review back.
THEOREM NoResurrection == Spec => []DeletedStaysGone
  <1>1. SInv => DeletedStaysGone
    BY DEF SInv, StoreInv
  <1> QED
    BY <1>1, SafetyInvariant, PTL

----------------------------------------------------------------------------
(* What an answer stands for when nothing fails.                           *)

\* The row of the key is there or a handler is about to save it.
Stands(k) ==
    \/ \E r \in saved : r.key = k
    \/ \E p \in Procs : At(p, "save") /\ req[p].key = k

\* A key is recorded for a write, and answered or published only when recorded.
RInv ==
    /\ TInv
    /\ \A k \in processed : Stands(k)
    /\ acked \subseteq processed
    /\ \A p \in Procs : At(p, "save") \/ At(p, "publish") => req[p].key \in processed

\* While p moves on, a key stands as long as it does not rest on p, or p saves.
LEMMA StandsOn ==
    ASSUME TInv, NEW p \in Procs, \A q \in Procs \ {p} : req'[q] = req[q],
           saved \subseteq saved',
           At(p, "save") => \E r \in saved' : r.key = req[p].key,
           NEW k, Stands(k)
    PROVE  Stands(k)'
  <1>1. CASE \E r \in saved : r.key = k
    BY <1>1 DEF Stands
  <1>2. ASSUME NEW q \in Procs, At(q, "save"), req[q].key = k PROVE Stands(k)'
    <2>1. CASE q = p
      BY <1>2, <2>1 DEF Stands
    <2>2. CASE q # p
      BY <1>2, <2>2 DEF Stands, At
    <2> QED
      BY <2>1, <2>2
  <1> QED
    BY <1>1, <1>2 DEF Stands

\* A request that arrives or ends, and is not at "save", takes nothing along.
LEMMA OtherKeeps ==
    ASSUME RInv, TInv', NEW p \in Procs, ~At(p, "save"), req'[p].pc \notin {"save", "publish"},
           \A q \in Procs \ {p} : req'[q] = req[q], UNCHANGED <<processed, saved>>,
           acked' \in {acked, acked \cup {req[p].key}}, acked' \subseteq processed
    PROVE  RInv'
  <1>1. \A k \in processed : Stands(k)'
    BY StandsOn DEF RInv
  <1> QED
    BY <1>1 DEF RInv, At

\* "If the key has already been processed, the service skips the write": as
\* long as no call fails half way and no pod dies, an answer means a row, also
\* the answer to a duplicate.  (With faults the key is burnt.)
THEOREM AnswerMeansSaved == ASSUME Faults = FALSE PROVE Spec => []AckedMeansSaved
  <1>1. Init => RInv
    BY InitTyped DEF Init, Idle, RInv, At
  <1>2. ASSUME RInv, [Next]_vars PROVE RInv'
    <2>1. TInv /\ TInv'
      BY <1>2, NextTyped DEF RInv
    <2>2. CASE UNCHANGED vars
      BY <1>2, <2>1, <2>2 DEF vars, RInv, Stands, At
    <2>3. ASSUME NEW p \in Procs, Arrive(p) PROVE RInv'
      <3>1. /\ req[p].pc = "idle" /\ UNCHANGED <<processed, saved, acked>>
            /\ \E r \in [pc : {"check", "delete"}, key : Keys \cup {Nil}, id : Ids] :
                  req' = [req EXCEPT ![p] = r]
        BY <2>3 DEF Arrive, BeginSubmit, BeginDelete, Begin, FreshIds, store
      <3>2. /\ req'[p].pc \notin {"save", "publish"}
            /\ \A q \in Procs \ {p} : req'[q] = req[q]
        BY <2>1, <3>1 DEF TInv, TypeOK
      <3> QED
        BY <1>2, <2>1, <3>1, <3>2, OtherKeeps DEF At, RInv
    <2>4. ASSUME NEW p \in Procs, Step(p) PROVE RInv'
      <3>1. CASE CheckAndRecord(p)
        <4>1. /\ At(p, "check") /\ processed' = processed \cup {req[p].key}
              /\ Goto(p, IF req[p].key \in processed THEN "publish" ELSE "save")
              /\ UNCHANGED <<saved, acked>>
          BY <3>1 DEF CheckAndRecord
        <4>2. /\ \A q \in Procs \ {p} : req'[q] = req[q]
              /\ req'[p].pc = (IF req[p].key \in processed THEN "publish" ELSE "save")
              /\ req'[p].key = req[p].key
          BY <2>1, <4>1, GotoShape
        <4>3. \A k \in processed : Stands(k)'
          BY <1>2, <2>1, <4>1, <4>2, StandsOn DEF RInv, At
        <4>4. Stands(req[p].key)'
          BY <4>2, <4>3 DEF Stands, At
        <4> QED
          BY <1>2, <2>1, <4>1, <4>2, <4>3, <4>4 DEF RInv, At
      <3>2. CASE Save(p)
        <4>1. /\ At(p, "save") /\ saved' = saved \cup {MyEntry(p)} /\ MyEntry(p).key = req[p].key
              /\ Goto(p, "publish") /\ UNCHANGED <<processed, acked>>
          BY <3>2 DEF Save, Insert, MyEntry
        <4>2. /\ \A q \in Procs \ {p} : req'[q] = req[q]
              /\ req'[p].pc = "publish" /\ req'[p].key = req[p].key
          BY <2>1, <4>1, GotoShape
        <4>3. \A k \in processed : Stands(k)'
          BY <1>2, <2>1, <4>1, <4>2, StandsOn DEF RInv
        <4>4. req[p].key \in processed
          BY <1>2, <4>1 DEF RInv
        <4> QED
          BY <1>2, <2>1, <4>1, <4>2, <4>3, <4>4 DEF RInv, At
      <3>3. CASE Publish(p) \/ PublishFails(p) \/ Announce(p)
        <4>1. /\ req[p].pc \in {"publish", "announce"} /\ End(p)
              /\ UNCHANGED <<processed, saved>>
              /\ acked' = acked \/ (req[p].pc = "publish" /\ acked' = acked \cup {req[p].key})
          BY <3>3 DEF Publish, PublishFails, Announce, At, store
        <4>2. \A q \in Procs \ {p} : req'[q] = req[q]
          BY <2>1, <4>1, EndShape
        <4>3. req'[p].pc = "idle"
          BY <2>1, <4>1, EndShape
        <4> QED
          BY <1>2, <2>1, <4>1, <4>2, <4>3, OtherKeeps DEF RInv, At
      <3>4. CASE Delete(p)
        <4>1. /\ req[p].pc = "delete" /\ Goto(p, "announce")
              /\ UNCHANGED <<processed, saved, acked>>
          BY <3>4 DEF Delete, At
        <4>2. /\ \A q \in Procs \ {p} : req'[q] = req[q]
              /\ req'[p].pc = "announce"
          BY <2>1, <4>1, GotoShape
        <4> QED
          BY <1>2, <2>1, <4>1, <4>2, OtherKeeps DEF RInv, At
      <3> QED
        BY <2>4, <3>1, <3>2, <3>3, <3>4 DEF Step
    <2>5. ~Restart /\ \A p \in Procs : Fault(p) => FALSE
      BY DEF Restart, Fault, Abandon, CheckUnacked, SaveUnacked, PublishUnacked
    <2> QED
      BY <1>2, <2>2, <2>3, <2>4, <2>5 DEF Next
  <1>3. RInv => AckedMeansSaved
    BY DEF RInv, Stands, AckedMeansSaved
  <1> QED
    BY <1>1, <1>2, <1>3, PTL DEF Spec

----------------------------------------------------------------------------
(* Notified writes, without faults.                                        *)

\* A notification with the key is stored, or on its way past the record.
Underway(q) == nreq[q].pc \in {"send", "save"}

Covered(k) ==
    \/ \E n \in notes : NotificationKey[n.event] = k
    \/ \E q \in Senders : Underway(q) /\ NotificationKey[nreq[q].event] = k

NType ==
    /\ recorded \subseteq NotificationKeys /\ nacked \subseteq Events
    /\ nreq \in [Senders -> N!Request] /\ notes \subseteq N!Note
    /\ \A q \in Senders : nreq[q].pc # "idle" => nreq[q].event \in Events

\* A recorded key is covered, and whoever relies on a key has it recorded.
NInv ==
    /\ NType
    /\ \A k \in recorded : Covered(k)
    /\ \A e \in nacked : NotificationKey[e] \in recorded
    /\ \A q \in Senders : Underway(q) => NotificationKey[nreq[q].event] \in recorded

\* The notification service starts with nothing recorded.
LEMMA NotifyInit == N!Init => NInv
  BY DEF N!Init, N!Idle, NInv, NType, Underway, N!Request, N!Status

\* While q moves on, a key stays covered that does not rest on q, or that q
\* still stands for.
LEMMA CoveredStays ==
    ASSUME NType, NEW q \in Senders, \A o \in Senders \ {q} : nreq'[o] = nreq[o],
           notes \subseteq notes',
           Underway(q) => \/ Underway(q)' /\ nreq'[q].event = nreq[q].event
                          \/ \E n \in notes' : n.event = nreq[q].event,
           NEW k, Covered(k)
    PROVE  Covered(k)'
  <1>1. CASE \E n \in notes : NotificationKey[n.event] = k
    BY <1>1 DEF Covered
  <1>2. ASSUME NEW o \in Senders, Underway(o), NotificationKey[nreq[o].event] = k
        PROVE  Covered(k)'
    <2>1. CASE o = q
      BY <1>2, <2>1 DEF Covered
    <2>2. CASE o # q
      BY <1>2, <2>2 DEF Covered, Underway
    <2> QED
      BY <2>1, <2>2
  <1> QED
    BY <1>1, <1>2 DEF Covered

\* A step of the notification service keeps the invariant.
LEMMA NotifyStep ==
    ASSUME NInv, Faults = FALSE, NEW q \in Senders,
           N!Step(q) \/ \E e \in Events : N!Deliver(q, e)
    PROVE  NInv'
  <1> USE DEF N!At
  <1>1. \A e \in Events : NotificationKey[e] \in NotificationKeys
    BY DEF NotificationKeys
  <1>2. ASSUME NEW e \in Events, N!Deliver(q, e) PROVE NInv'
    <2>1. /\ nreq[q].pc = "idle" /\ UNCHANGED <<recorded, notes, nacked>>
          /\ nreq' = [nreq EXCEPT ![q] = [pc |-> "check", event |-> e, status |-> "queued"]]
      BY <1>2 DEF N!Deliver
    <2>2. /\ nreq'[q].pc = "check" /\ nreq'[q].event = e
          /\ \A o \in Senders \ {q} : nreq'[o] = nreq[o]
      BY <2>1 DEF NInv, NType
    <2>3. NType'
      BY <2>1, <2>2 DEF NInv, NType, N!Request, N!Status
    <2>4. \A k \in recorded : Covered(k)'
      BY <2>1, <2>2, CoveredStays DEF NInv, Underway
    <2> QED
      BY <2>1, <2>2, <2>3, <2>4 DEF NInv, Underway
  <1>3. CASE N!Accept(q)
    <2>1. /\ nreq[q].pc = "check" /\ nreq[q].event \in Events
          /\ recorded' = recorded \cup {NotificationKey[nreq[q].event]}
          /\ UNCHANGED <<notes, nacked>> /\ nreq' = [nreq EXCEPT ![q].pc = "send"]
      BY <1>3 DEF N!Accept, N!Goto, N!MyKey, NInv, NType
    <2>2. /\ nreq'[q].pc = "send" /\ nreq'[q].event = nreq[q].event
          /\ \A o \in Senders \ {q} : nreq'[o] = nreq[o]
      BY <2>1 DEF NInv, NType, N!Request
    <2>3. NType'
      BY <1>1, <2>1, <2>2 DEF NInv, NType, N!Request
    <2>4. \A k \in recorded : Covered(k)'
      BY <2>1, <2>2, CoveredStays DEF NInv, Underway
    <2>5. Underway(q)' /\ Covered(NotificationKey[nreq[q].event])'
      BY <2>2 DEF Underway, Covered
    <2> QED
      BY <2>1, <2>2, <2>3, <2>4, <2>5 DEF NInv, Underway
  <1>4. CASE N!SkipDuplicate(q)
    <2>1. /\ nreq[q].pc = "check" /\ nreq[q].event \in Events
          /\ NotificationKey[nreq[q].event] \in recorded
          /\ nacked' = nacked \cup {nreq[q].event}
          /\ UNCHANGED <<recorded, notes>> /\ nreq' = [nreq EXCEPT ![q] = N!Idle]
      BY <1>4 DEF N!SkipDuplicate, N!End, N!MyKey, NInv, NType
    <2>2. /\ nreq'[q].pc = "idle" /\ \A o \in Senders \ {q} : nreq'[o] = nreq[o]
      BY <2>1 DEF NInv, NType, N!Idle
    <2>3. NType'
      BY <2>1, <2>2 DEF NInv, NType, N!Request, N!Idle, N!Status
    <2>4. \A k \in recorded : Covered(k)'
      BY <2>1, <2>2, CoveredStays DEF NInv, Underway
    <2> QED
      BY <2>1, <2>2, <2>3, <2>4 DEF NInv, Underway
  <1>5. CASE N!Send(q)
    <2>1. /\ nreq[q].pc = "send" /\ UNCHANGED <<recorded, notes, nacked>>
          /\ nreq' = [nreq EXCEPT ![q] = [pc |-> "save", event |-> nreq[q].event, status |-> "sent"]]
      BY <1>5 DEF N!Send, N!Mark
    <2>2. /\ nreq'[q].pc = "save" /\ nreq'[q].event = nreq[q].event
          /\ \A o \in Senders \ {q} : nreq'[o] = nreq[o]
      BY <2>1 DEF NInv, NType
    <2>3. NType'
      BY <2>1, <2>2 DEF NInv, NType, N!Request, N!Status
    <2>4. \A k \in recorded : Covered(k)'
      BY <2>1, <2>2, CoveredStays DEF NInv, Underway
    <2> QED
      BY <2>1, <2>2, <2>3, <2>4 DEF NInv, Underway
  <1>6. CASE N!Save(q)
    <2>1. /\ nreq[q].pc = "save" /\ nreq[q].event \in Events
          /\ notes' = notes \cup {N!MyNote(q)} /\ N!MyNote(q).event = nreq[q].event
          /\ N!MyNote(q) \in N!Note
          /\ nacked' = nacked \cup {nreq[q].event}
          /\ UNCHANGED recorded /\ nreq' = [nreq EXCEPT ![q] = N!Idle]
      BY <1>6 DEF N!Save, N!End, N!MyNote, NInv, NType, N!Note, N!Request
    <2>2. /\ nreq'[q].pc = "idle" /\ \A o \in Senders \ {q} : nreq'[o] = nreq[o]
      BY <2>1 DEF NInv, NType, N!Idle
    <2>3. NType'
      BY <2>1, <2>2 DEF NInv, NType, N!Request, N!Idle, N!Status
    <2>4. \A k \in recorded : Covered(k)'
      BY <2>1, <2>2, CoveredStays DEF NInv, Underway
    <2> QED
      BY <2>1, <2>2, <2>3, <2>4 DEF NInv, Underway
  <1> QED
    BY <1>2, <1>3, <1>4, <1>5, <1>6 DEF N!Step

\* While nothing fails, a delivery that was answered with success has its
\* notification stored or being sent, of the same type and about the same
\* subject, whatever the submissions are about.
THEOREM AnsweredAreNotified ==
    ASSUME Faults = FALSE
    PROVE  SystemSpec => []AnsweredIsNotified
  <1>1. NInv /\ [SystemNext]_system => NInv'
    <2> SUFFICES ASSUME NInv, [SystemNext]_system PROVE NInv'
      OBVIOUS
    <2>1. CASE UNCHANGED notification
      BY <2>1 DEF notification, NInv, NType, Covered, Underway
    <2>2. CASE N!Handle
      BY <2>2, NotifyStep DEF N!Handle, N!Restart, N!Fault, N!SendFails, N!Abandon,
         N!CheckUnacked, N!SaveUnacked, N!SendUnacked
    <2> QED
      BY <2>1, <2>2 DEF SystemNext, system
  <1>2. NInv => AnsweredIsNotified
    <2> SUFFICES ASSUME NInv, NEW e \in nacked
                 PROVE  \/ \E n \in notes : SameSubject(e, n.event)
                        \/ \E q \in Senders : nreq[q].pc \in {"send", "save"}
                                              /\ SameSubject(e, nreq[q].event)
      BY DEF AnsweredIsNotified
    <2>1. ASSUME NEW f \in Events, NotificationKey[f] = NotificationKey[e]
          PROVE  SameSubject(e, f)
      <3>1. e \in Events
        BY DEF NInv, NType
      <3>2. /\ NotificationKey[e] = <<e.type, Subject(e)>>
            /\ NotificationKey[f] = <<f.type, Subject(f)>>
        BY <3>1 DEF NotificationKey
      <3> QED
        BY <2>1, <3>2 DEF SameSubject
    <2>2. Covered(NotificationKey[e])
      BY DEF NInv
    <2>3. /\ \A n \in notes : n.event \in Events
          /\ \A q \in Senders : Underway(q) => nreq[q].event \in Events
      BY DEF NInv, NType, N!Note, Underway
    <2> QED
      BY <2>1, <2>2, <2>3 DEF Covered, Underway
  <1> QED
    BY <1>1, <1>2, NotifyInit, PTL DEF SystemSpec, SystemInit

----------------------------------------------------------------------------
(* The two services that NotifiedWrites joins.                             *)

\* A step of a write service puts at most one event on the topic.
LEMMA TopicGrows ==
    ASSUME TInv, Next
    PROVE  Topic' = Topic \/ \E e \in Events : Topic' = Topic \cup {e}
  <1>1. CASE UNCHANGED <<published, deletions>>
    BY <1>1 DEF Topic
  <1>2. ASSUME NEW p \in Procs, req[p].pc = "publish", published' = published \cup {MyEntry(p)},
               deletions' = deletions
        PROVE  \E e \in Events : Topic' = Topic \cup {e}
    <2> PICK m : m = MyEntry(p)
      OBVIOUS
    <2>1. m \in Entry
      BY <1>2, EntryType
    <2>2. Topic' = Topic \cup {Submitted(m)} /\ Submitted(m) \in Events
      BY <1>2, <2>1 DEF Topic, Events
    <2> QED
      BY <2>2
  <1>3. ASSUME NEW p \in Procs, req[p].pc = "announce", published' = published,
               deletions' = deletions \cup {req[p].id}
        PROVE  \E e \in Events : Topic' = Topic \cup {e}
    <2> PICK i : i = req[p].id
      OBVIOUS
    <2>1. i \in Ids
      BY <1>3 DEF TInv, ReqShape
    <2>2. Topic' = Topic \cup {Deleted(i)} /\ Deleted(i) \in Events
      BY <1>3, <2>1 DEF Topic, Events
    <2> QED
      BY <2>2
  <1>4. \/ UNCHANGED <<published, deletions>>
        \/ \E p \in Procs : \/ /\ req[p].pc = "publish" /\ deletions' = deletions
                               /\ published' = published \cup {MyEntry(p)}
                            \/ /\ req[p].pc = "announce" /\ published' = published
                               /\ deletions' = deletions \cup {req[p].id}
    BY DEF Next, Restart, Arrive, BeginSubmit, BeginDelete, Step, CheckAndRecord, Save, Publish,
       PublishFails, Delete, Announce, Fault, Abandon, CheckUnacked, SaveUnacked,
       PublishUnacked, At, bus
  <1> QED
    BY <1>1, <1>2, <1>3, <1>4

\* Joined by the sensor, the write service behaves as the write service alone:
\* nothing that notification does reaches back.
THEOREM WritesUnaffected == SystemSpec => Spec
  <1>1. [SystemNext]_system => [Next]_vars
    BY DEF SystemNext, system
  <1> QED
    BY <1>1, PTL DEF SystemSpec, SystemInit, Spec

\* And notification behaves as Notification, whose bus is the topic: what is
\* proved of it for any events holds for the events of the write service.
THEOREM NotificationImplemented == SystemSpec => N!Spec
  <1>1. SystemInit => N!Init /\ TInv
    BY InitTyped DEF SystemInit
  <1>2. TInv /\ [SystemNext]_system => TInv'
    BY NextTyped DEF SystemNext, system
  <1>3. ASSUME TInv, [SystemNext]_system PROVE [N!Next]_(N!vars)
    <2>1. CASE Next /\ UNCHANGED notification
      <3>1. UNCHANGED N!handling
        BY <2>1 DEF notification, N!handling
      <3>2. CASE Topic' = Topic
        BY <3>1, <3>2 DEF N!vars, N!handling
      <3>3. ASSUME NEW e \in Events, Topic' = Topic \cup {e}, e \notin Topic PROVE N!Next
        BY <3>1, <3>3 DEF N!Next, N!Publish
      <3> QED
        BY <1>3, <2>1, <3>2, <3>3, TopicGrows
    <2>2. CASE N!Handle /\ UNCHANGED vars
      <3>1. UNCHANGED Topic
        BY <2>2 DEF vars, Topic
      <3> QED
        BY <2>2, <3>1 DEF N!Next
    <2>3. CASE UNCHANGED system
      BY <2>3 DEF system, vars, notification, N!vars, N!handling, Topic
    <2> QED
      BY <1>3, <2>1, <2>2, <2>3 DEF SystemNext
  <1> QED
    BY <1>1, <1>2, <1>3, PTL DEF SystemSpec, N!Spec
=============================================================================
