--------------------------- MODULE DLQueueProofs ---------------------------
(***************************************************************************)
(* Theorems about DLQueue, for every set of keys, ids, requests and        *)
(* thresholds, both backends, with and without faults.                     *)
(***************************************************************************)
EXTENDS DLQueue, SequenceTheorems, FiniteSetTheorems, TLAPS

\* Functions from an initial segment of the naturals are sequences.
LEMMA BoundedSeq ==
    ASSUME NEW S, NEW n \in Nat, NEW s \in [1 .. n -> S]
    PROVE  s \in Seq(S) /\ Len(s) = n /\ DOMAIN s = 1 .. n
  OBVIOUS

\* A page List returns is a sequence of row ids.
LEMMA PageType ==
    ASSUME NEW found \in SUBSET Ids, NEW page \in Pages(found)
    PROVE  page \in Seq(Ids)
  <1>1. PICK n \in 0 .. BatchLimit : page \in [1 .. n -> found]
    BY DEF Pages
  <1>2. n \in Nat
    BY BoundsAssumption, <1>1
  <1> QED
    BY <1>1, <1>2, BoundedSeq

\* Re-ingesting an event keeps its type, its id, its key and its replay mark.
LEMMA ReIngestType ==
    ASSUME NEW e \in Row
    PROVE  /\ ReIngest(e) \in Row
           /\ ReIngest(e).id = e.id /\ ReIngest(e).key = e.key
           /\ ReIngest(e).replayedAt = e.replayedAt
  <1>1. \A n \in Nat, s \in Statuses :
            [e EXCEPT !.retry = n, !.status = s] \in Row
    BY DEF Row
  <1>2. e.retry + 1 \in Nat
    BY DEF Row
  <1>3. (IF e.retry + 1 >= e.max THEN "poisoned" ELSE "pending") \in Statuses
    BY DEF Statuses
  <1>4. ReIngest(e) \in Row
    BY <1>1, <1>2, <1>3 DEF ReIngest
  <1> QED
    BY <1>4 DEF Row, ReIngest

\* The operations by id keep the type, the id and the key of the event; only
\* a replay sets its replay mark.
LEMMA ApplyType ==
    ASSUME NEW e \in Row, NEW op \in ByIdOps
    PROVE  /\ Apply(op, e) \in Row
           /\ Apply(op, e).id = e.id /\ Apply(op, e).key = e.key
           /\ op # "replay" => Apply(op, e).replayedAt = e.replayedAt
  <1>1. CASE op = "replay"
    BY <1>1 DEF Apply, Replay, Row, Statuses
  <1>2. CASE op = "resolve"
    BY <1>2 DEF Apply, Resolve, Row, Statuses
  <1>3. CASE op = "reset"
    BY <1>3 DEF Apply, ResetPoison, Row, Statuses
  <1> QED
    BY <1>1, <1>2, <1>3 DEF ByIdOps

\* A failure that comes back leaves a consistent event consistent, unless the
\* event was resolved.
LEMMA ReIngestConsistent ==
    ASSUME NEW e \in Row, Consistent(e), e.status # "resolved"
    PROVE  Consistent(ReIngest(e))
  BY DEF Row, Statuses, ReIngest, Consistent

\* An operation that accepts a consistent event leaves it consistent.
LEMMA ApplyConsistent ==
    ASSUME NEW e \in Row, NEW op \in ByIdOps, Consistent(e), Accepts(op, e)
    PROVE  Consistent(Apply(op, e))
  <1>1. CASE op = "replay"
    BY <1>1 DEF Apply, Replay, Row, Statuses, Accepts, Consistent
  <1>2. CASE op = "resolve"
    BY <1>2 DEF Apply, Resolve, Row, Statuses, Accepts, Consistent
  <1>3. CASE op = "reset"
    <2>1. e.max \in Nat /\ e.max > 0 /\ ~e.resolvedAt
      BY <1>3 DEF Row, Consistent, Accepts
    <2>2. /\ ResetPoison(e).max = e.max /\ ResetPoison(e).retry = 0
          /\ ResetPoison(e).status = "pending"
          /\ ResetPoison(e).resolvedAt = e.resolvedAt
      BY DEF Row, ResetPoison
    <2>3. Apply(op, e) = ResetPoison(e)
      BY <1>3 DEF Apply
    <2> QED
      BY <2>1, <2>2, <2>3 DEF Consistent
  <1> QED
    BY <1>1, <1>2, <1>3 DEF ByIdOps

\* A new event is a row that is pending and never replayed.
LEMMA NewEventType ==
    ASSUME NEW i \in Ids, NEW k \in Keys, NEW m \in Thresholds
    PROVE  /\ NewDLQEvent(i, k, m) \in Row
           /\ NewDLQEvent(i, k, m).id = i /\ NewDLQEvent(i, k, m).key = k
           /\ ~NewDLQEvent(i, k, m).replayedAt
           /\ Consistent(NewDLQEvent(i, k, m))
  BY ThresholdsAssumption DEF Row, Statuses, NewDLQEvent, Consistent

\* The request record without work, and with a list of rows to work on.
LEMMA IdleType ==
    /\ Idle \in Request
    /\ Idle.pc = "idle" /\ Idle.op = "none" /\ Idle.todo = <<>> /\ Idle.ev = Nil
  BY DEF Idle, Request

\* The records the handlers start with are requests.
LEMMA BeginType ==
    /\ \A k \in Keys :
          [Idle EXCEPT !.pc = "find", !.op = "ingest", !.key = k] \in Request
    /\ \A op \in ByIdOps, s \in Seq(Ids) :
          [Idle EXCEPT !.pc = "find", !.op = op, !.todo = s] \in Request
    /\ [Idle EXCEPT !.pc = "list", !.op = "replay"] \in Request
  BY IdleType DEF Idle, Request, ByIdOps

----------------------------------------------------------------------------
(* Type correctness.  A handler calls Head on its list and reads fields of *)
(* its copy, so the types need to know where these exist.                  *)

ReqTyped(r) ==
    /\ r.op = "ingest" => r.key \in Keys
    /\ r.op \in ByIdOps /\ r.pc \in {"find", "post", "update"} => r.todo # <<>>
    /\ r.pc \in {"post", "save", "update"} => r.ev # Nil
    /\ r.pc = "save" => r.op = "ingest"
    /\ r.pc \in {"list", "post"} => r.op = "replay"

TInv == TypeOK /\ \A p \in Procs : ReqTyped(req[p])

\* Writing one request of the right kind keeps all requests typed.
LEMMA ReqUpdate ==
    ASSUME TInv, NEW p \in Procs, NEW r \in Request, ReqTyped(r),
           req' = [req EXCEPT ![p] = r]
    PROVE  req' \in [Procs -> Request] /\ \A q \in Procs : ReqTyped(req'[q])
  BY DEF TInv, TypeOK

\* A request that ends is idle, which asks nothing of its fields.
LEMMA EndTyped ==
    ASSUME TInv, NEW p \in Procs, End(p)
    PROVE  req' \in [Procs -> Request] /\ \A q \in Procs : ReqTyped(req'[q])
  <1>1. ReqTyped(Idle)
    BY IdleType DEF ReqTyped, ByIdOps
  <1> QED
    BY <1>1, IdleType, ReqUpdate DEF End

\* Requests that begin are typed.
LEMMA ArriveTyped ==
    ASSUME TInv, NEW p \in Procs, Arrive(p)
    PROVE  TInv'
  <1> USE DEF Begin
  <1>1. ASSUME NEW k \in Keys, BeginIngest(p, k) PROVE TInv'
    <2> DEFINE r == [Idle EXCEPT !.pc = "find", !.op = "ingest", !.key = k]
    <2>1. r \in Request /\ ReqTyped(r)
      BY BeginType DEF Idle, ReqTyped, ByIdOps
    <2>2. req' = [req EXCEPT ![p] = r]
      BY <1>1 DEF BeginIngest
    <2>3. req' \in [Procs -> Request] /\ \A q \in Procs : ReqTyped(req'[q])
      BY <2>1, <2>2, ReqUpdate
    <2> QED
      BY <1>1, <2>3 DEF BeginIngest, TInv, TypeOK
  <1>2. ASSUME NEW op \in ByIdOps, NEW s \in Seq(Ids), s # <<>>,
               req' = [req EXCEPT ![p] = [Idle EXCEPT !.pc = "find", !.op = op, !.todo = s]],
               UNCHANGED <<rows, arrivals, posts, acked, owed>>
        PROVE TInv'
    <2> DEFINE r == [Idle EXCEPT !.pc = "find", !.op = op, !.todo = s]
    <2>1. r \in Request
      BY BeginType
    <2>2. ReqTyped(r)
      BY <1>2 DEF Idle, ReqTyped, ByIdOps
    <2>3. req' \in [Procs -> Request] /\ \A q \in Procs : ReqTyped(req'[q])
      BY <1>2, <2>1, <2>2, ReqUpdate
    <2> QED
      BY <1>2, <2>3 DEF TInv, TypeOK
  <1>3. ASSUME NEW op \in ByIdOps, NEW i \in Ids, BeginById(p, op, i) PROVE TInv'
    <2>1. <<i>> \in Seq(Ids) /\ <<i>> # <<>>
      OBVIOUS
    <2> QED
      BY <1>2, <1>3, <2>1 DEF BeginById
  <1>4. CASE BeginBatchReplay(p)
    <2> DEFINE r == [Idle EXCEPT !.pc = "list", !.op = "replay"]
    <2>1. r \in Request /\ ReqTyped(r)
      BY BeginType DEF Idle, ReqTyped, ByIdOps
    <2>2. req' \in [Procs -> Request] /\ \A q \in Procs : ReqTyped(req'[q])
      BY <1>4, <2>1, ReqUpdate DEF BeginBatchReplay
    <2> QED
      BY <1>4, <2>2 DEF BeginBatchReplay, TInv, TypeOK
  <1>5. ASSUME NEW n \in 1 .. BatchLimit, NEW ids \in [1 .. n -> Ids],
               BeginBatchResolve(p, ids)
        PROVE TInv'
    <2>1. ids \in Seq(Ids) /\ ids # <<>>
      BY BoundsAssumption, BoundedSeq
    <2> QED
      BY <1>2, <1>5, <2>1 DEF BeginBatchResolve, ByIdOps
  <1> QED
    BY <1>1, <1>3, <1>4, <1>5 DEF Arrive

\* A request that moves on with a copy of a row is typed.
LEMMA GotoTyped ==
    ASSUME TInv, NEW p \in Procs, NEW e \in Row,
           NEW pc \in {"post", "save", "update"}, Goto(p, pc, e),
           pc = "save" => req[p].op = "ingest", pc = "post" => req[p].op = "replay",
           req[p].op \in ByIdOps => req[p].todo # <<>>
    PROVE  req' \in [Procs -> Request] /\ \A q \in Procs : ReqTyped(req'[q])
  <1> DEFINE r == [[req[p] EXCEPT !.pc = pc] EXCEPT !.ev = e]
  <1>1. req[p] \in Request /\ ReqTyped(req[p])
    BY DEF TInv, TypeOK
  <1>2. r \in Request
    BY <1>1 DEF Request
  <1>3. r.op = req[p].op /\ r.key = req[p].key /\ r.todo = req[p].todo
        /\ r.ev = e /\ r.pc = pc
    BY <1>1 DEF Request
  <1>4. ReqTyped(r)
    BY <1>1, <1>3, NilAssumption DEF ReqTyped
  <1>5. req' = [req EXCEPT ![p] = r]
    BY DEF Goto, TInv, TypeOK
  <1> QED
    BY <1>2, <1>4, <1>5, ReqUpdate

\* A request that turns to the rows of a list is typed.
LEMMA NextTyped ==
    ASSUME TInv, NEW p \in Procs, NEW s \in Seq(Ids), s # <<>>,
           NEW e \in Row \cup {Nil}, req[p].op # "ingest",
           req' = [req EXCEPT ![p] = [req[p] EXCEPT !.pc = "find", !.ev = e, !.todo = s]]
    PROVE  req' \in [Procs -> Request] /\ \A q \in Procs : ReqTyped(req'[q])
  <1> DEFINE r == [req[p] EXCEPT !.pc = "find", !.ev = e, !.todo = s]
  <1>1. req[p] \in Request
    BY DEF TInv, TypeOK
  <1>2. r \in Request /\ r.pc = "find" /\ r.todo = s /\ r.op = req[p].op
    BY <1>1 DEF Request
  <1>3. ReqTyped(r)
    BY <1>2 DEF ReqTyped
  <1> QED
    BY <1>2, <1>3, ReqUpdate

\* The next row of a batch, or the end of it.
LEMMA NextRowTyped ==
    ASSUME TInv, NEW p \in Procs, NextRow(p), req[p].op # "ingest"
    PROVE  req' \in [Procs -> Request] /\ \A q \in Procs : ReqTyped(req'[q])
  <1>1. CASE Len(req[p].todo) > 1
    <2> DEFINE s == req[p].todo
    <2>1. s \in Seq(Ids)
      BY DEF TInv, TypeOK, Request
    <2> HIDE DEF s
    <2>2. Len(s) > 1 /\ s # <<>>
      BY <1>1, <2>1 DEF s
    <2>3. Tail(s) \in Seq(Ids) /\ Len(Tail(s)) = Len(s) - 1
      BY <2>1, <2>2, HeadTailProperties
    <2>4. Len(Tail(s)) # 0
      <3>1. \A n, m \in Int : n > 1 /\ m = n - 1 => m # 0
        OBVIOUS
      <3>2. Len(s) \in Int /\ Len(Tail(s)) \in Int
        BY <2>1, <2>3, LenProperties
      <3> QED
        BY <2>2, <2>3, <3>1, <3>2, Zenon
    <2>5. Tail(s) # <<>>
      BY <2>3, <2>4, EmptySeq
    <2>6. req' = [req EXCEPT ![p] = [req[p] EXCEPT
                    !.pc = "find", !.ev = Nil, !.todo = Tail(s)]]
      BY <1>1 DEF NextRow, TInv, TypeOK, Request, s
    <2> QED
      BY <2>3, <2>5, <2>6, NextTyped
  <1>2. CASE ~(Len(req[p].todo) > 1)
    BY <1>2, EndTyped DEF NextRow
  <1> QED
    BY <1>1, <1>2

\* The steps of the handlers keep the types.
LEMMA StepTyped ==
    ASSUME TInv, NEW p \in Procs, Step(p)
    PROVE  TInv'
  <1> USE DEF At
  <1>0. req[p] \in Request /\ ReqTyped(req[p])
    BY DEF TInv, TypeOK
  <1>1. CASE IngestFindsResolved(p)
    BY <1>0, <1>1, EndTyped DEF IngestFindsResolved, Created, ReqTyped, TInv, TypeOK
  <1>2. CASE IngestFindsRow(p)
    <2>1. PICK i \in WithKey(req[p].key) : Goto(p, "update", ReIngest(rows[i]))
      BY <1>2 DEF IngestFindsRow
    <2>2. ReIngest(rows[i]) \in Row
      BY ReIngestType DEF WithKey, Stored, TInv, TypeOK
    <2>3. req' \in [Procs -> Request] /\ \A q \in Procs : ReqTyped(req'[q])
      BY <1>2, <2>1, <2>2, GotoTyped DEF IngestFindsRow, ByIdOps
    <2> QED
      BY <1>2, <2>3 DEF IngestFindsRow, TInv, TypeOK
  <1>3. CASE IngestFindsNothing(p)
    <2>1. PICK i \in FreshIds, m \in Thresholds :
              Goto(p, "save", NewDLQEvent(i, req[p].key, m))
      BY <1>3 DEF IngestFindsNothing
    <2>2. i \in Ids /\ req[p].key \in Keys /\ req[p].op = "ingest"
      BY <1>0, <1>3 DEF IngestFindsNothing, FreshIds, ReqTyped
    <2>3. NewDLQEvent(i, req[p].key, m) \in Row
      BY <2>2, NewEventType
    <2>4. req' \in [Procs -> Request] /\ \A q \in Procs : ReqTyped(req'[q])
      BY <2>1, <2>2, <2>3, GotoTyped DEF ByIdOps
    <2> QED
      BY <1>3, <2>4 DEF IngestFindsNothing, TInv, TypeOK
  <1>4. CASE Save(p)
    <2>1. req[p].ev \in Row /\ req[p].key \in Keys
      BY <1>0, <1>4 DEF Save, ReqTyped, Request
    <2>2. req' \in [Procs -> Request] /\ \A q \in Procs : ReqTyped(req'[q])
      BY <1>4, EndTyped DEF Save
    <2> QED
      BY <1>4, <2>1, <2>2 DEF Save, Created, TInv, TypeOK
  <1>5. CASE SaveConflict(p)
    BY <1>5, EndTyped DEF SaveConflict, TInv, TypeOK
  <1>6. CASE ListRows(p)
    <2>1. PICK want \in {Statuses} \cup {{s} : s \in Statuses} :
          \E page \in Pages({i \in Stored : rows[i].status \in want}) :
            IF page = <<>> THEN End(p)
            ELSE req' = [req EXCEPT ![p].pc = "find", ![p].todo = page]
      BY <1>6 DEF ListRows
    <2>2. PICK page \in Pages({i \in Stored : rows[i].status \in want}) :
            IF page = <<>> THEN End(p)
            ELSE req' = [req EXCEPT ![p].pc = "find", ![p].todo = page]
      BY <2>1
    <2>3. page \in Seq(Ids)
      <3>1. {i \in Stored : rows[i].status \in want} \in SUBSET Ids
        BY DEF Stored
      <3> QED
        BY <2>2, <3>1, PageType
    <2>4. req[p].op # "ingest"
      BY <1>0, <1>6 DEF ListRows, ReqTyped
    <2>5. CASE page = <<>>
      BY <1>6, <2>2, <2>5, EndTyped DEF ListRows, TInv, TypeOK
    <2>6. CASE page # <<>>
      <3>1. req' = [req EXCEPT ![p] = [req[p] EXCEPT
                      !.pc = "find", !.ev = req[p].ev, !.todo = page]]
        BY <1>0, <2>2, <2>6 DEF TInv, TypeOK, Request
      <3>2. req[p].ev \in Row \cup {Nil}
        BY <1>0 DEF Request
      <3>3. req' \in [Procs -> Request] /\ \A q \in Procs : ReqTyped(req'[q])
        BY <2>3, <2>4, <2>6, <3>1, <3>2, NextTyped
      <3> QED
        BY <1>6, <3>3 DEF ListRows, TInv, TypeOK
    <2> QED
      BY <2>5, <2>6
  <1>7. CASE FindById(p)
    <2> DEFINE e == rows[Head(req[p].todo)]
               pc == IF req[p].op = "replay" THEN "post" ELSE "update"
    <2>1. req[p].todo \in Seq(Ids) /\ req[p].todo # <<>> /\ req[p].op \in ByIdOps
      BY <1>0, <1>7 DEF FindById, ReqTyped, Request
    <2>2. Head(req[p].todo) \in Ids
      BY <2>1
    <2>3. e # Nil /\ Goto(p, pc, Apply(req[p].op, e))
      BY <1>7 DEF FindById
    <2>4. e \in Row
      BY <2>2, <2>3 DEF TInv, TypeOK
    <2> HIDE DEF e
    <2>5. Apply(req[p].op, e) \in Row
      BY <2>1, <2>4, ApplyType
    <2>6. /\ pc \in {"post", "save", "update"} /\ pc # "save"
          /\ pc = "post" => req[p].op = "replay"
      OBVIOUS
    <2>7. req' \in [Procs -> Request] /\ \A q \in Procs : ReqTyped(req'[q])
      BY <2>1, <2>3, <2>5, <2>6, GotoTyped
    <2> QED
      BY <1>7, <2>7 DEF FindById, TInv, TypeOK
  <1>8. CASE FindRefused(p)
    BY <1>8, EndTyped DEF FindRefused, TInv, TypeOK
  <1>9. CASE Post(p)
    <2>1. req[p].ev \in Row
      BY <1>0, <1>9 DEF Post, ReqTyped, Request
    <2>2. req[p].op \in ByIdOps => req[p].todo # <<>>
      BY <1>0, <1>9 DEF Post, ReqTyped
    <2>3. req' \in [Procs -> Request] /\ \A q \in Procs : ReqTyped(req'[q])
      BY <1>9, <2>1, <2>2, GotoTyped DEF Post
    <2> QED
      BY <1>9, <2>1, <2>3 DEF Post, Delivered, TInv, TypeOK, Row
  <1>10. CASE PostRefused(p)
    BY <1>10, EndTyped DEF PostRefused, TInv, TypeOK
  <1>11. CASE Update(p)
    <2>1. req[p].ev \in Row
      BY <1>0, <1>11 DEF Update, ReqTyped, Request
    <2>2. rows' \in [Ids -> Row \cup {Nil}]
      BY <1>11, <2>1 DEF Update, TInv, TypeOK
    <2>3. CASE req[p].op = "ingest"
      BY <1>0, <1>11, <2>2, <2>3, EndTyped DEF Update, Created, ReqTyped, TInv, TypeOK
    <2>4. CASE req[p].op # "ingest"
      BY <1>11, <2>2, <2>4, NextRowTyped DEF Update, TInv, TypeOK
    <2> QED
      BY <2>3, <2>4
  <1> QED
    BY <1>1, <1>2, <1>3, <1>4, <1>5, <1>6, <1>7, <1>8, <1>9, <1>10, <1>11 DEF Step

\* Failures keep the types.
LEMMA FaultTyped ==
    ASSUME TInv, NEW p \in Procs, Fault(p)
    PROVE  TInv'
  <1> USE DEF At
  <1>0. req[p] \in Request /\ ReqTyped(req[p])
    BY DEF TInv, TypeOK
  <1>1. CASE Abandon(p)
    BY <1>1, EndTyped DEF Abandon, TInv, TypeOK
  <1>2. CASE WriteUnacked(p)
    <2>1. req[p].ev \in Row
      BY <1>0, <1>2 DEF WriteUnacked, ReqTyped, Request
    <2> QED
      BY <1>2, <2>1, EndTyped DEF WriteUnacked, TInv, TypeOK
  <1>3. CASE PostUnacked(p)
    <2>1. req[p].ev \in Row
      BY <1>0, <1>3 DEF PostUnacked, ReqTyped, Request
    <2> QED
      BY <1>3, <2>1, EndTyped DEF PostUnacked, Delivered, TInv, TypeOK, Row
  <1> QED
    BY <1>1, <1>2, <1>3 DEF Fault

\* A restart begins again with typed values.
LEMMA RestartTyped ==
    ASSUME TInv, Restart
    PROVE  TInv'
  <1>1. ReqTyped(Idle)
    BY IdleType DEF ReqTyped, ByIdOps
  <1>2. rows' \in [Ids -> Row \cup {Nil}]
    BY DEF Restart, TInv, TypeOK
  <1> QED
    BY <1>1, <1>2, IdleType DEF Restart, TInv, TypeOK

\* TypeOK is an invariant of dlqueue.
THEOREM TypeCorrect == Spec => []TypeOK
  <1>1. Init => TInv
    <2>1. ReqTyped(Idle)
      BY IdleType DEF ReqTyped, ByIdOps
    <2> QED
      BY <2>1, IdleType DEF Init, TInv, TypeOK
  <1>2. TInv /\ [Next]_vars => TInv'
    <2>1. ASSUME TInv, UNCHANGED vars PROVE TInv'
      BY <2>1 DEF vars, TInv, TypeOK
    <2> QED
      BY <2>1, ArriveTyped, StepTyped, FaultTyped, RestartTyped DEF Next
  <1>3. TInv => TypeOK
    BY DEF TInv
  <1> QED
    BY <1>1, <1>2, <1>3, PTL DEF Spec

----------------------------------------------------------------------------
(* The safety invariant.  CopiesSound ties the copies the handlers hold to *)
(* the rows they will overwrite; it is what makes the rest inductive.      *)

SInv ==
    /\ TInv
    /\ RowsConsistent
    /\ CopiesSound
    /\ ReplayedWasDelivered
    /\ Backend = "postgres" => NaturalKeyUnique /\ AckedIsStored

\* The other requests, when request p is the only one that moved.
OthersKept(p) == \A q \in Procs \ {p} : req'[q] = req[q]

\* The copies of the other requests stay sound when no row disappears or
\* changes its key, no insert is preempted and no POST is taken back.
LEMMA OthersSound ==
    ASSUME SInv, NEW p \in Procs, OthersKept(p),
           \A i \in Ids : rows[i] # Nil => rows'[i] # Nil /\ rows'[i].key = rows[i].key,
           \A k \in Keys : posts[k] > 0 => posts'[k] > 0,
           \A q \in Procs \ {p} : req[q].pc = "save" => rows'[req[q].ev.id] = Nil
    PROVE  \A q \in Procs \ {p} : CopySound(q)'
  <1> SUFFICES ASSUME NEW q \in Procs \ {p} PROVE CopySound(q)'
    OBVIOUS
  <1>1. req'[q] = req[q] /\ CopySound(q)
    BY DEF OthersKept, SInv, CopiesSound
  <1>2. req[q].pc \in {"post", "save", "update"} =>
            req[q].ev \in Row /\ req[q].ev.id \in Ids /\ req[q].ev.key \in Keys
    BY DEF SInv, TInv, TypeOK, ReqTyped, Request, Row
  <1> QED
    BY <1>1, <1>2 DEF CopySound

\* A step that only gives request p a sound copy keeps the invariant.
LEMMA CopyingSafe ==
    ASSUME SInv, TInv', NEW p \in Procs, OthersKept(p), CopySound(p)',
           UNCHANGED rows, \A k \in Keys : posts[k] > 0 => posts'[k] > 0,
           acked' \subseteq acked \cup {k \in Keys : WithKey(k) # {}},
           \A q \in Procs \ {p} : req'[p].pc = "save" /\ req[q].pc = "save"
                                    => req'[p].ev.id # req[q].ev.id
    PROVE  SInv'
  <1>1. \A q \in Procs \ {p} : CopySound(q)'
    <2>1. \A q \in Procs : req[q].pc = "save" => rows[req[q].ev.id] = Nil
      BY DEF SInv, CopiesSound, CopySound
    <2> QED
      BY <2>1, OthersSound
  <1>2. CopiesSound'
    <2>1. \A q \in Procs : CopySound(q)'
      BY <1>1
    <2>2. ASSUME NEW q \in Procs, NEW r \in Procs, q # r,
                 req'[q].pc = "save", req'[r].pc = "save"
          PROVE  req'[q].ev.id # req'[r].ev.id
      <3>1. CASE q = p
        BY <2>2, <3>1 DEF OthersKept
      <3>2. CASE r = p
        BY <2>2, <3>2 DEF OthersKept
      <3>3. CASE q # p /\ r # p
        BY <2>2, <3>3 DEF OthersKept, SInv, CopiesSound, At
      <3> QED
        BY <3>1, <3>2, <3>3
    <2> QED
      BY <2>1, <2>2 DEF CopiesSound, At
  <1>3. RowsConsistent' /\ ReplayedWasDelivered'
    BY DEF SInv, TInv, TypeOK, Row, RowsConsistent, ReplayedWasDelivered, Stored
  <1>4. Backend = "postgres" => NaturalKeyUnique' /\ AckedIsStored'
    BY DEF SInv, NaturalKeyUnique, AckedIsStored, WithKey, Stored
  <1> QED
    BY <1>2, <1>3, <1>4 DEF SInv

\* A step after which request p holds no copy needs only the types.
LEMMA QuietSafe ==
    ASSUME SInv, TInv', NEW p \in Procs, OthersKept(p),
           UNCHANGED <<rows, posts, acked>>, req'[p].pc \in {"idle", "list", "find"}
    PROVE  SInv'
  <1>1. ReqTyped(req'[p])
    BY DEF TInv
  <1>2. CopySound(p)'
    BY <1>1 DEF CopySound, ReqTyped
  <1> QED
    BY <1>2, CopyingSafe

\* Writing a sound copy keeps the invariant.
LEMMA WritingSafe ==
    ASSUME SInv, TInv', NEW p \in Procs, OthersKept(p),
           req[p].pc = "update" \/ (req[p].pc = "save" /\ CanInsert(req[p].ev)),
           rows' = [rows EXCEPT ![req[p].ev.id] = req[p].ev],
           UNCHANGED posts, acked' \subseteq acked \cup {req[p].ev.key},
           req'[p].pc \in {"idle", "find"}
    PROVE  SInv'
  <1> DEFINE e == req[p].ev
  <1>1. e \in Row /\ e # Nil /\ e.id \in Ids /\ e.key \in Keys
    BY DEF SInv, TInv, TypeOK, ReqTyped, Request, Row
  <1>2. /\ CopySound(p)
        /\ Consistent(e)
        /\ e.replayedAt => posts[e.key] > 0
        /\ req[p].pc = "save" => rows[e.id] = Nil
        /\ req[p].pc = "update" => rows[e.id] # Nil /\ rows[e.id].key = e.key
    BY DEF SInv, CopiesSound, CopySound
  <1>3. /\ rows'[e.id] = e
        /\ \A i \in Ids \ {e.id} : rows'[i] = rows[i]
    BY <1>1 DEF SInv, TInv, TypeOK
  <1> HIDE DEF e
  <1>4. \A i \in Ids : rows[i] # Nil => rows'[i] # Nil /\ rows'[i].key = rows[i].key
    BY <1>1, <1>2, <1>3
  <1>5. \A q \in Procs \ {p} : req[q].pc = "save" => rows'[req[q].ev.id] = Nil
    <2> SUFFICES ASSUME NEW q \in Procs \ {p}, req[q].pc = "save"
                 PROVE  rows'[req[q].ev.id] = Nil
      OBVIOUS
    <2>1. rows[req[q].ev.id] = Nil /\ req[q].ev.id \in Ids
      BY DEF SInv, CopiesSound, CopySound, TInv, TypeOK, ReqTyped, Request, Row
    <2>2. req[p].pc = "save" => req[q].ev.id # e.id
      BY DEF SInv, CopiesSound, At, e
    <2> QED
      BY <1>2, <1>3, <2>1, <2>2
  <1>6. CopiesSound'
    <2>1. \A q \in Procs \ {p} : CopySound(q)'
      BY <1>4, <1>5, OthersSound
    <2>2. CopySound(p)'
      <3>1. ReqTyped(req'[p])
        BY DEF TInv
      <3> QED
        BY <3>1 DEF CopySound, ReqTyped
    <2>3. ASSUME NEW q \in Procs, NEW r \in Procs, q # r,
                 req'[q].pc = "save", req'[r].pc = "save"
          PROVE  req'[q].ev.id # req'[r].ev.id
      BY <2>3 DEF OthersKept, SInv, CopiesSound, At
    <2> QED
      BY <2>1, <2>2, <2>3 DEF CopiesSound, At
  <1>7. RowsConsistent'
    BY <1>2, <1>3 DEF SInv, RowsConsistent, Stored
  <1>8. ReplayedWasDelivered'
    BY <1>2, <1>3 DEF SInv, ReplayedWasDelivered, Stored
  <1>9. ASSUME Backend = "postgres" PROVE NaturalKeyUnique'
    <2>1. CASE req[p].pc = "update"
      BY <1>2, <1>3, <1>9, <2>1 DEF SInv, NaturalKeyUnique, Stored
    <2>2. CASE req[p].pc = "save"
      <3>1. \A i \in Ids : rows[i] # Nil => rows[i].key # e.key
        BY <1>9, <2>2 DEF CanInsert, WithKey, Stored, e
      <3> QED
        BY <1>3, <1>9, <3>1 DEF SInv, NaturalKeyUnique, Stored
    <2> QED
      BY <2>1, <2>2
  <1>10. ASSUME Backend = "postgres" PROVE AckedIsStored'
    <2> SUFFICES ASSUME NEW k \in acked' PROVE \E i \in Ids : rows'[i] # Nil /\ rows'[i].key = k
      BY DEF AckedIsStored, WithKey, Stored
    <2>1. CASE k = e.key
      BY <1>1, <1>3, <2>1
    <2>2. CASE k \in acked
      BY <1>4, <1>10, <2>2 DEF SInv, AckedIsStored, WithKey, Stored
    <2> QED
      BY <2>1, <2>2 DEF e
  <1> QED
    BY <1>6, <1>7, <1>8, <1>9, <1>10 DEF SInv

\* A request that begins holds no copy yet.
LEMMA ArriveSafe ==
    ASSUME SInv, TInv', NEW p \in Procs, Arrive(p)
    PROVE  SInv'
  <1>1. OthersKept(p) /\ UNCHANGED <<rows, posts, acked>>
    BY DEF Arrive, BeginIngest, BeginById, BeginBatchReplay, BeginBatchResolve,
           Begin, OthersKept, SInv, TInv, TypeOK
  <1>2. req'[p].pc \in {"list", "find"}
    <2> USE DEF Begin, Idle, SInv, TInv, TypeOK
    <2>1. ASSUME NEW k \in Keys, BeginIngest(p, k) PROVE req'[p].pc = "find"
      BY <2>1 DEF BeginIngest
    <2>2. ASSUME NEW op \in ByIdOps, NEW i \in Ids, BeginById(p, op, i)
          PROVE  req'[p].pc = "find"
      BY <2>2 DEF BeginById
    <2>3. CASE BeginBatchReplay(p)
      BY <2>3 DEF BeginBatchReplay
    <2>4. ASSUME NEW s, BeginBatchResolve(p, s) PROVE req'[p].pc = "find"
      BY <2>4 DEF BeginBatchResolve
    <2> QED
      BY <2>1, <2>2, <2>3, <2>4 DEF Arrive
  <1> QED
    BY <1>1, <1>2, QuietSafe

\* Ending a request leaves the others alone.
LEMMA EndKeepsOthers ==
    ASSUME TInv, NEW p \in Procs, End(p)
    PROVE  OthersKept(p) /\ req'[p].pc = "idle"
  BY IdleType DEF End, OthersKept, TInv, TypeOK

\* Moving on with a copy changes two fields of the request.
LEMMA GotoKeeps ==
    ASSUME TInv, NEW p \in Procs, NEW pc, NEW e, Goto(p, pc, e)
    PROVE  /\ OthersKept(p)
           /\ req'[p].pc = pc /\ req'[p].ev = e /\ req'[p].op = req[p].op
           /\ req'[p].key = req[p].key /\ req'[p].todo = req[p].todo
  BY DEF Goto, OthersKept, TInv, TypeOK, Request

\* Going on with a batch, or ending it, leaves the others alone.
LEMMA NextRowKeepsOthers ==
    ASSUME TInv, NEW p \in Procs, NextRow(p)
    PROVE  OthersKept(p) /\ req'[p].pc \in {"idle", "find"}
  <1>1. CASE Len(req[p].todo) > 1
    BY <1>1 DEF NextRow, OthersKept, TInv, TypeOK, Request
  <1>2. CASE ~(Len(req[p].todo) > 1)
    BY <1>2, EndKeepsOthers DEF NextRow
  <1> QED
    BY <1>1, <1>2

\* A POST that arrives is counted.
LEMMA DeliveredCounts ==
    ASSUME TInv, NEW k \in Keys, Delivered(k)
    PROVE  /\ \A j \in Keys : posts[j] > 0 => posts'[j] > 0
           /\ posts'[k] > 0
  BY DEF Delivered, TInv, TypeOK

\* The steps of the handlers keep the safety invariant.
LEMMA StepSafe ==
    ASSUME SInv, TInv', NEW p \in Procs, Step(p)
    PROVE  SInv'
  <1> USE DEF At
  <1>0. TInv /\ req[p] \in Request /\ ReqTyped(req[p]) /\ CopySound(p)
    BY DEF SInv, TInv, TypeOK, CopiesSound
  <1>1. CASE IngestFindsResolved(p)
    <2>1. acked' = acked \cup {req[p].key} /\ WithKey(req[p].key) # {} /\ req[p].key \in Keys
      BY <1>0, <1>1 DEF IngestFindsResolved, Created, ReqTyped
    <2>2. OthersKept(p) /\ req'[p].pc = "idle"
      BY <1>0, <1>1, EndKeepsOthers DEF IngestFindsResolved
    <2>3. CopySound(p)'
      BY <2>2 DEF CopySound, ReqTyped, TInv
    <2>4. UNCHANGED <<rows, posts>>
      BY <1>1 DEF IngestFindsResolved
    <2> QED
      BY <2>1, <2>2, <2>3, <2>4, CopyingSafe
  <1>2. CASE IngestFindsRow(p)
    <2>1. PICK i \in WithKey(req[p].key) :
              rows[i].status # "resolved" /\ Goto(p, "update", ReIngest(rows[i]))
      BY <1>2 DEF IngestFindsRow
    <2> DEFINE e == ReIngest(rows[i])
    <2>2. /\ i \in Ids /\ rows[i] \in Row /\ rows[i].id = i /\ rows[i].key = req[p].key
          /\ Consistent(rows[i])
          /\ rows[i].replayedAt => posts[rows[i].key] > 0
      BY DEF WithKey, Stored, SInv, TInv, TypeOK, RowsConsistent, ReplayedWasDelivered
    <2>3. /\ e \in Row /\ e.id = i /\ e.key = req[p].key /\ Consistent(e)
          /\ e.replayedAt => posts[e.key] > 0
      BY <2>1, <2>2, ReIngestType, ReIngestConsistent
    <2> HIDE DEF e
    <2>4. /\ OthersKept(p) /\ req'[p].pc = "update" /\ req'[p].ev = e
          /\ req'[p].op = "ingest" /\ req'[p].key = req[p].key
      BY <1>0, <1>2, <2>1, GotoKeeps DEF IngestFindsRow, e
    <2>5. UNCHANGED <<rows, posts, acked>> /\ rows[i] # Nil
      BY <1>2 DEF IngestFindsRow, WithKey, Stored
    <2>6. CopySound(p)'
      BY <1>0, <1>2, <2>2, <2>3, <2>4, <2>5, NilAssumption
         DEF CopySound, IngestFindsRow, ReqTyped, ByIdOps
    <2> QED
      BY <2>4, <2>5, <2>6, CopyingSafe
  <1>3. CASE IngestFindsNothing(p)
    <2>1. PICK i \in FreshIds, m \in Thresholds :
              Goto(p, "save", NewDLQEvent(i, req[p].key, m))
      BY <1>3 DEF IngestFindsNothing
    <2> DEFINE e == NewDLQEvent(i, req[p].key, m)
    <2>2. i \in Ids /\ rows[i] = Nil /\ req[p].key \in Keys /\ req[p].op = "ingest"
      BY <1>0, <1>3 DEF IngestFindsNothing, FreshIds, ReqTyped, Stored
    <2>3. e \in Row /\ e.id = i /\ e.key = req[p].key /\ ~e.replayedAt /\ Consistent(e)
      BY <2>2, NewEventType
    <2>4. \A q \in Procs : req[q].ev # Nil => req[q].ev.id # i
      BY DEF FreshIds
    <2> HIDE DEF e
    <2>5. /\ OthersKept(p) /\ req'[p].pc = "save" /\ req'[p].ev = e
          /\ req'[p].op = "ingest" /\ req'[p].key = req[p].key
      BY <1>0, <2>1, <2>2, GotoKeeps DEF e
    <2>6. UNCHANGED <<rows, posts, acked>>
      BY <1>3 DEF IngestFindsNothing
    <2>7. CopySound(p)'
      BY <2>2, <2>3, <2>5, <2>6, NilAssumption DEF CopySound, ByIdOps
    <2>8. \A q \in Procs \ {p} : req[q].pc = "save" => req'[p].ev.id # req[q].ev.id
      BY <2>3, <2>4, <2>5 DEF SInv, TInv, ReqTyped
    <2> QED
      BY <2>5, <2>6, <2>7, <2>8, CopyingSafe
  <1>4. CASE Save(p)
    <2>1. OthersKept(p) /\ req'[p].pc = "idle"
      BY <1>0, <1>4, EndKeepsOthers DEF Save
    <2>2. acked' = acked \cup {req[p].ev.key}
      BY <1>0, <1>4 DEF Save, Created, CopySound, ReqTyped
    <2> QED
      BY <1>4, <2>1, <2>2, WritingSafe DEF Save
  <1>5. CASE SaveConflict(p) \/ FindRefused(p) \/ PostRefused(p)
    BY <1>0, <1>5, EndKeepsOthers, QuietSafe DEF SaveConflict, FindRefused, PostRefused
  <1>6. CASE ListRows(p)
    <2>1. OthersKept(p) /\ req'[p].pc \in {"idle", "find"}
      <3>1. PICK page : IF page = <<>> THEN End(p)
                        ELSE req' = [req EXCEPT ![p].pc = "find", ![p].todo = page]
        BY <1>6 DEF ListRows
      <3>2. CASE page = <<>>
        BY <1>0, <3>1, <3>2, EndKeepsOthers
      <3>3. CASE page # <<>>
        BY <1>0, <3>1, <3>3 DEF OthersKept, TInv, TypeOK, Request
      <3> QED
        BY <3>2, <3>3
    <2> QED
      BY <1>6, <2>1, QuietSafe DEF ListRows
  <1>7. CASE FindById(p)
    <2> DEFINE i == Head(req[p].todo)
               pc == IF req[p].op = "replay" THEN "post" ELSE "update"
               e == Apply(req[p].op, rows[i])
    <2>1. /\ req[p].todo \in Seq(Ids) /\ req[p].todo # <<>> /\ req[p].op \in ByIdOps
          /\ rows[i] # Nil /\ Accepts(req[p].op, rows[i]) /\ Goto(p, pc, e)
          /\ UNCHANGED <<rows, posts, acked>>
      BY <1>0, <1>7 DEF FindById, ReqTyped, Request
    <2>2. i \in Ids
      BY <2>1
    <2> HIDE DEF i
    <2>3. /\ rows[i] \in Row /\ rows[i].id = i /\ Consistent(rows[i])
          /\ rows[i].replayedAt => posts[rows[i].key] > 0
      BY <2>1, <2>2 DEF Stored, SInv, TInv, TypeOK, RowsConsistent, ReplayedWasDelivered
    <2>4. /\ e \in Row /\ e.id = i /\ e.key = rows[i].key /\ Consistent(e)
          /\ req[p].op # "replay" => (e.replayedAt => posts[e.key] > 0)
      BY <2>1, <2>3, ApplyType, ApplyConsistent
    <2> HIDE DEF e
    <2>5. /\ OthersKept(p) /\ req'[p].pc = pc /\ req'[p].ev = e
          /\ req'[p].op = req[p].op /\ req'[p].todo = req[p].todo
      BY <1>0, <2>1, GotoKeeps
    <2>6. CopySound(p)'
      BY <2>1, <2>2, <2>3, <2>4, <2>5, NilAssumption DEF CopySound, ByIdOps
    <2> QED
      BY <2>1, <2>5, <2>6, CopyingSafe
  <1>8. CASE Update(p)
    <2>1. CASE req[p].op = "ingest"
      <3>1. OthersKept(p) /\ req'[p].pc = "idle"
        BY <1>0, <1>8, <2>1, EndKeepsOthers DEF Update
      <3>2. acked' = acked \cup {req[p].ev.key}
        BY <1>0, <1>8, <2>1 DEF Update, Created, CopySound
      <3> QED
        BY <1>8, <3>1, <3>2, WritingSafe DEF Update
    <2>2. CASE req[p].op # "ingest"
      <3>1. OthersKept(p) /\ req'[p].pc \in {"idle", "find"} /\ acked' = acked
        BY <1>0, <1>8, <2>2, NextRowKeepsOthers DEF Update
      <3> QED
        BY <1>8, <3>1, WritingSafe DEF Update
    <2> QED
      BY <2>1, <2>2
  <1>9. CASE Post(p)
    <2>1. /\ req[p].ev \in Row /\ req[p].ev # Nil
          /\ req[p].op = "replay" /\ req[p].pc = "post"
          /\ Goto(p, "update", req[p].ev) /\ UNCHANGED <<rows, acked>>
          /\ Delivered(req[p].ev.key)
      BY <1>0, <1>9 DEF Post, ReqTyped, Request
    <2>2. /\ OthersKept(p) /\ req'[p].pc = "update" /\ req'[p].ev = req[p].ev
          /\ req'[p].op = req[p].op /\ req'[p].key = req[p].key
          /\ req'[p].todo = req[p].todo
      BY <1>0, <2>1, GotoKeeps
    <2>3. /\ \A k \in Keys : posts[k] > 0 => posts'[k] > 0
          /\ posts'[req[p].ev.key] > 0
      BY <1>0, <2>1, DeliveredCounts DEF Row
    <2>4. CopySound(p)'
      BY <1>0, <2>1, <2>2, <2>3 DEF CopySound, ByIdOps
    <2> QED
      BY <2>1, <2>2, <2>3, <2>4, CopyingSafe
  <1> QED
    BY <1>1, <1>2, <1>3, <1>4, <1>5, <1>6, <1>7, <1>8, <1>9 DEF Step

\* Failures keep the safety invariant.
LEMMA FaultSafe ==
    ASSUME SInv, TInv', NEW p \in Procs, Fault(p)
    PROVE  SInv'
  <1> USE DEF At
  <1>0. TInv /\ req[p] \in Request /\ ReqTyped(req[p])
    BY DEF SInv, TInv, TypeOK
  <1>1. CASE Abandon(p)
    BY <1>0, <1>1, EndKeepsOthers, QuietSafe DEF Abandon
  <1>2. CASE WriteUnacked(p)
    BY <1>0, <1>2, EndKeepsOthers, WritingSafe DEF WriteUnacked
  <1>3. CASE PostUnacked(p)
    <2>1. OthersKept(p) /\ req'[p].pc = "idle"
      BY <1>0, <1>3, EndKeepsOthers DEF PostUnacked
    <2>2. req[p].ev \in Row
      BY <1>0, <1>3 DEF PostUnacked, ReqTyped, Request
    <2>3. \A k \in Keys : posts[k] > 0 => posts'[k] > 0
      BY <1>0, <1>3, <2>2, DeliveredCounts DEF PostUnacked, Row
    <2>4. CopySound(p)'
      BY <2>1 DEF CopySound, ReqTyped, TInv
    <2>5. UNCHANGED <<rows, acked>>
      BY <1>3 DEF PostUnacked
    <2> QED
      BY <2>1, <2>3, <2>4, <2>5, CopyingSafe
  <1> QED
    BY <1>1, <1>2, <1>3 DEF Fault

\* A restart ends every request.  The rows stay, or all go with the map of the
\* memory backend; the last conjunct of SInv is about postgres only.
LEMMA RestartSafe ==
    ASSUME SInv, TInv', Restart
    PROVE  SInv'
  <1>1. \A p \in Procs : req'[p].pc = "idle"
    BY IdleType DEF Restart
  <1>2. CopiesSound'
    BY <1>1 DEF CopiesSound, CopySound, At, TInv, ReqTyped
  <1>3. UNCHANGED <<posts, acked>>
    BY DEF Restart
  <1>4. CASE Backend = "memory"
    <2>1. \A i \in Ids : rows'[i] = Nil
      BY <1>4 DEF Restart
    <2> QED
      BY <1>2, <1>4, <2>1 DEF SInv, RowsConsistent, ReplayedWasDelivered, Stored
  <1>5. CASE Backend # "memory"
    <2>1. UNCHANGED rows
      BY <1>5 DEF Restart
    <2> QED
      BY <1>2, <1>3, <2>1 DEF SInv, RowsConsistent, ReplayedWasDelivered, Stored,
                              NaturalKeyUnique, AckedIsStored, WithKey
  <1> QED
    BY <1>4, <1>5

\* The service starts without rows and requests.
LEMMA InitSafe == Init => SInv
  <1>1. ReqTyped(Idle)
    BY IdleType DEF ReqTyped, ByIdOps
  <1>2. Init => TInv
    BY <1>1, IdleType DEF Init, TInv, TypeOK
  <1>3. ASSUME Init PROVE CopiesSound
    BY <1>1, <1>3, IdleType DEF Init, CopiesSound, CopySound, At, ReqTyped
  <1> QED
    BY <1>2, <1>3 DEF Init, SInv, RowsConsistent, ReplayedWasDelivered, Stored,
                      NaturalKeyUnique, AckedIsStored

\* SInv is an invariant of dlqueue.
THEOREM SafetyInvariant == Spec => []SInv
  <1>1. SInv /\ [Next]_vars => SInv'
    <2>1. ASSUME SInv, UNCHANGED vars PROVE SInv'
      BY <2>1 DEF vars, SInv, TInv, TypeOK, RowsConsistent, CopiesSound, CopySound, At,
                  ReplayedWasDelivered, NaturalKeyUnique, AckedIsStored, WithKey, Stored
    <2>2. SInv => TInv
      BY DEF SInv
    <2> QED
      BY <2>1, <2>2, ArriveTyped, StepTyped, FaultTyped, RestartTyped,
         ArriveSafe, StepSafe, FaultSafe, RestartSafe DEF Next
  <1> QED
    BY <1>1, InitSafe, PTL DEF Spec

\* However requests overlap, every stored event is consistent: no interleaving
\* of whole-row writes mixes two versions of it.
THEOREM RowsStayConsistent == Spec => []RowsConsistent
  <1>1. SInv => RowsConsistent
    BY DEF SInv
  <1> QED
    BY <1>1, SafetyInvariant, PTL

\* What a handler holds between its calls is good when it writes.
THEOREM CopiesStaySound == Spec => []CopiesSound
  <1>1. SInv => CopiesSound
    BY DEF SInv
  <1> QED
    BY <1>1, SafetyInvariant, PTL

\* An event with last_replayed_at was posted to its event source.
THEOREM ReplayedImpliesPosted == Spec => []ReplayedWasDelivered
  <1>1. SInv => ReplayedWasDelivered
    BY DEF SInv
  <1> QED
    BY <1>1, SafetyInvariant, PTL

\* With the unique index of postgres there is one event per natural key.
THEOREM OneEventPerKey ==
    ASSUME Backend = "postgres"
    PROVE  Spec => []NaturalKeyUnique
  <1>1. SInv => NaturalKeyUnique
    BY DEF SInv
  <1> QED
    BY <1>1, SafetyInvariant, PTL

\* In postgres a failure the service acknowledged is never lost.
THEOREM AckedFailuresStored ==
    ASSUME Backend = "postgres"
    PROVE  Spec => []AckedIsStored
  <1>1. SInv => AckedIsStored
    BY DEF SInv
  <1> QED
    BY <1>1, SafetyInvariant, PTL

----------------------------------------------------------------------------
(* Counting retries.  RetryNeverOvercounts is not inductive: a delivery is *)
(* counted in arrivals when it begins and in a copy of the row later on.   *)
(* What is inductive leaves room for the deliveries that have not read     *)
(* their row yet, each of which may add one to it.                         *)

\* The deliveries of the key that have begun and not read the table.
Finding(k) == {p \in Procs : At(p, "find") /\ req[p].op = "ingest" /\ req[p].key = k}

\* A retry counter v of the key may still be incremented by all of them.
Room(k, v) == v + Cardinality(Finding(k)) < arrivals[k]

HasRoom(e) == \A k \in Keys, v \in Nat : e.key = k /\ e.retry = v => Room(k, v)

CInv ==
    /\ SInv
    /\ \A k \in Keys : IsFiniteSet(Finding(k)) /\ Cardinality(Finding(k)) <= arrivals[k]
    /\ \A i \in Stored : HasRoom(rows[i])
    /\ \A p \in Procs : req[p].pc \in {"post", "save", "update"}
                            => HasRoom(req[p].ev)

\* When a request is not looking for its row any more, every counter keeps its
\* room, and the request may use the place it had.
LEMMA RoomStays ==
    ASSUME CInv, NEW p \in Procs, OthersKept(p), UNCHANGED arrivals,
           ~(req'[p].pc = "find" /\ req'[p].op = "ingest"), NEW k \in Keys
    PROVE  /\ IsFiniteSet(Finding(k)') /\ Cardinality(Finding(k)') <= arrivals'[k]
           /\ \A v \in Nat : Room(k, v) => Room(k, v)'
           /\ p \in Finding(k) => Room(k, 0)'
           /\ p \in Finding(k) => \A v \in Nat : Room(k, v) => Room(k, v + 1)'
  <1> DEFINE F == Finding(k)
             c == Cardinality(F)
  <1>1. IsFiniteSet(F) /\ c <= arrivals[k] /\ arrivals[k] \in Nat
    BY DEF CInv, SInv, TInv, TypeOK
  <1>2. c \in Nat
    BY <1>1, FS_CardinalityType
  <1>3. F' = F \ {p}
    BY DEF Finding, At, OthersKept
  <1> HIDE DEF F
  <1>4. /\ IsFiniteSet(F') /\ Cardinality(F') \in Nat
        /\ Cardinality(F') = IF p \in F THEN c - 1 ELSE c
    BY <1>1, <1>3, FS_RemoveElement, FS_CardinalityType
  <1>5. c' = Cardinality(F')
    OBVIOUS
  <1>6. \A v \in Nat : Room(k, v) <=> v + c < arrivals[k]
    BY DEF Room, F
  <1>7. \A v \in Nat : Room(k, v)' <=> v + Cardinality(F') < arrivals[k]
    BY DEF Room, F
  <1> HIDE DEF c
  <1>8. \A v \in Nat : Room(k, v + 1)' <=> v + 1 + Cardinality(F') < arrivals[k]
    BY <1>7
  <1>9. Room(k, 0)' <=> Cardinality(F') < arrivals[k]
    BY <1>4, <1>7
  <1>10. \A v \in Nat : Room(k, v) => Room(k, v)'
    BY <1>1, <1>2, <1>4, <1>6, <1>7
  <1>11. p \in F => Room(k, 0)' /\ \A v \in Nat : Room(k, v) => Room(k, v + 1)'
    BY <1>1, <1>2, <1>4, <1>6, <1>8, <1>9
  <1>12. Cardinality(F') <= arrivals'[k]
    BY <1>1, <1>2, <1>4
  <1> QED
    BY <1>4, <1>10, <1>11, <1>12 DEF F

\* A step writes the copy of its request or nothing, and takes up a copy whose
\* counter has room.
LEMMA CountKept ==
    ASSUME CInv, SInv', NEW p \in Procs, OthersKept(p), UNCHANGED arrivals,
           ~(req'[p].pc = "find" /\ req'[p].op = "ingest"),
           \A i \in Ids : rows'[i] # rows[i] /\ rows'[i] # Nil =>
               req[p].pc \in {"save", "update"} /\ rows'[i] = req[p].ev,
           req'[p].pc \in {"post", "save", "update"} =>
               HasRoom(req[p].ev)'
    PROVE  CInv'
  <1>1. \A k \in Keys : \A v \in Nat : Room(k, v) => Room(k, v)'
    BY RoomStays
  <1>2. \A k \in Keys : IsFiniteSet(Finding(k)') /\ Cardinality(Finding(k)') <= arrivals'[k]
    BY RoomStays
  <1>4. ASSUME NEW q \in Procs, req[q].pc \in {"post", "save", "update"}
        PROVE  req[q].ev \in Row /\ HasRoom(req[q].ev)
    BY <1>4 DEF CInv, SInv, TInv, TypeOK, ReqTyped, Request
  <1>5. ASSUME NEW e \in Row, HasRoom(e) PROVE HasRoom(e)'
    BY <1>1, <1>5 DEF HasRoom
  <1>6. ASSUME NEW i \in Ids, rows'[i] # Nil PROVE HasRoom(rows[i])'
    <2>1. CASE rows'[i] = rows[i]
      <3>1. rows[i] \in Row /\ HasRoom(rows[i])
        BY <1>6, <2>1 DEF CInv, SInv, TInv, TypeOK, Stored
      <3> QED
        BY <1>5, <2>1, <3>1 DEF HasRoom
    <2>2. CASE rows'[i] # rows[i]
      <3>1. req[p].pc \in {"save", "update"} /\ rows'[i] = req[p].ev
        BY <1>6, <2>2
      <3> QED
        BY <1>4, <1>5, <3>1 DEF HasRoom
    <2> QED
      BY <2>1, <2>2
  <1>7. ASSUME NEW q \in Procs \ {p}, req'[q].pc \in {"post", "save", "update"}
        PROVE  HasRoom(req[q].ev)'
    <2>1. req'[q] = req[q]
      BY DEF OthersKept
    <2>2. req[q].ev \in Row /\ HasRoom(req[q].ev)
      BY <1>4, <1>7, <2>1
    <2> QED
      BY <1>5, <2>1, <2>2 DEF HasRoom
  <1> QED
    BY <1>2, <1>6, <1>7 DEF CInv, Stored

\* A request that begins makes room for itself: its arrival is counted.
LEMMA ArriveCounts ==
    ASSUME CInv, SInv', NEW p \in Procs, Arrive(p)
    PROVE  CInv'
  <1>0. TInv /\ req[p].pc = "idle"
    <2>1. TInv
      BY DEF CInv, SInv
    <2> QED
      BY <2>1 DEF Arrive, BeginIngest, BeginById, BeginBatchReplay, BeginBatchResolve, Begin
  <1>1. OthersKept(p) /\ UNCHANGED rows
    BY <1>0 DEF Arrive, BeginIngest, BeginById, BeginBatchReplay, BeginBatchResolve,
           Begin, OthersKept, TInv, TypeOK
  <1>2. ASSUME NEW k \in Keys, BeginIngest(p, k) PROVE CInv'
    <2>1. /\ req'[p].pc = "find" /\ req'[p].op = "ingest" /\ req'[p].key = k
          /\ arrivals' = [arrivals EXCEPT ![k] = @ + 1]
      BY <1>0, <1>2, IdleType DEF BeginIngest, Begin, TInv, TypeOK, Request
    <2>2. /\ Finding(k)' = Finding(k) \cup {p} /\ p \notin Finding(k)
          /\ \A j \in Keys \ {k} : Finding(j)' = Finding(j)
      BY <1>0, <1>1, <2>1 DEF Finding, At, OthersKept
    <2>3. /\ IsFiniteSet(Finding(k)')
          /\ Cardinality(Finding(k)') = Cardinality(Finding(k)) + 1
      BY <2>2, FS_AddElement DEF CInv
    <2>4. /\ arrivals[k] \in Nat /\ arrivals'[k] = arrivals[k] + 1
          /\ \A j \in Keys \ {k} : arrivals'[j] = arrivals[j]
      BY <1>0, <2>1 DEF TInv, TypeOK
    <2>5. Cardinality(Finding(k)) \in Nat
      BY FS_CardinalityType DEF CInv
    <2>6. \A j \in Keys : IsFiniteSet(Finding(j)') /\ Cardinality(Finding(j)') <= arrivals'[j]
      <3>1. IsFiniteSet(Finding(k)') /\ Cardinality(Finding(k)') <= arrivals'[k]
        <4>1. Cardinality(Finding(k)) <= arrivals[k]
          BY DEF CInv
        <4> QED
          BY <2>3, <2>4, <2>5, <4>1
      <3>2. \A j \in Keys \ {k} :
                IsFiniteSet(Finding(j)') /\ Cardinality(Finding(j)') <= arrivals'[j]
        BY <2>2, <2>4 DEF CInv
      <3> QED
        BY <3>1, <3>2
    <2>7. \A v \in Nat : Room(k, v) => Room(k, v)'
      BY <2>3, <2>4, <2>5 DEF Room
    <2>8. \A j \in Keys \ {k}, v \in Nat : Room(j, v) => Room(j, v)'
      BY <2>2, <2>4 DEF Room
    <2>9. ASSUME NEW e \in Row, HasRoom(e) PROVE HasRoom(e)'
      BY <2>7, <2>8, <2>9 DEF HasRoom
    <2>10. ASSUME NEW i \in Stored' PROVE HasRoom(rows[i])'
      <3>1. rows[i] \in Row /\ HasRoom(rows[i]) /\ rows'[i] = rows[i]
        BY <1>0, <1>1 DEF CInv, TInv, TypeOK, Stored
      <3> QED
        BY <2>9, <3>1 DEF HasRoom
    <2>11. ASSUME NEW q \in Procs, req'[q].pc \in {"post", "save", "update"}
           PROVE  HasRoom(req[q].ev)'
      <3>1. q # p /\ req'[q] = req[q]
        BY <1>1, <2>1, <2>11 DEF OthersKept
      <3>2. req[q].ev \in Row /\ HasRoom(req[q].ev)
        BY <1>0, <2>11, <3>1 DEF CInv, TInv, TypeOK, ReqTyped, Request
      <3> QED
        BY <2>9, <3>1, <3>2 DEF HasRoom
    <2> QED
      BY <2>6, <2>10, <2>11 DEF CInv
  <1>3. ASSUME UNCHANGED arrivals, req'[p].op # "ingest", req'[p].pc \in {"find", "list"}
        PROVE  CInv'
    BY <1>1, <1>3, CountKept
  <1>4. ASSUME NEW op \in ByIdOps, NEW i \in Ids, BeginById(p, op, i) PROVE CInv'
    BY <1>0, <1>3, <1>4, IdleType DEF BeginById, Begin, ByIdOps, TInv, TypeOK, Request
  <1>5. CASE BeginBatchReplay(p)
    BY <1>0, <1>3, <1>5, IdleType DEF BeginBatchReplay, Begin, TInv, TypeOK, Request
  <1>6. ASSUME NEW s, BeginBatchResolve(p, s) PROVE CInv'
    BY <1>0, <1>3, <1>6, IdleType DEF BeginBatchResolve, Begin, TInv, TypeOK, Request
  <1> QED
    BY <1>2, <1>4, <1>5, <1>6 DEF Arrive

\* The steps of the handlers keep the counts.
LEMMA StepCounts ==
    ASSUME CInv, SInv', NEW p \in Procs, Step(p)
    PROVE  CInv'
  <1> USE DEF At
  <1>0. /\ SInv /\ TInv /\ req[p] \in Request /\ ReqTyped(req[p])
        /\ \A q \in Procs : req[q].pc \in {"post", "save", "update"} => HasRoom(req[q].ev)
        /\ \A i \in Stored : HasRoom(rows[i])
    BY DEF CInv, SInv, TInv, TypeOK
  <1>1. CASE IngestFindsResolved(p) \/ SaveConflict(p) \/ FindRefused(p) \/ PostRefused(p)
    BY <1>0, <1>1, EndKeepsOthers, CountKept
       DEF IngestFindsResolved, SaveConflict, FindRefused, PostRefused
  <1>2. CASE IngestFindsRow(p)
    <2>1. PICK i \in WithKey(req[p].key) : Goto(p, "update", ReIngest(rows[i]))
      BY <1>2 DEF IngestFindsRow
    <2>2. PICK k, v, e : k = req[p].key /\ v = rows[i].retry /\ e = ReIngest(rows[i])
      OBVIOUS
    <2>3. i \in Stored /\ rows[i] \in Row /\ rows[i].key = k /\ k \in Keys /\ v \in Nat
      BY <1>0, <2>2 DEF WithKey, Stored, TInv, TypeOK, Row
    <2>4. e.key = k /\ e.retry = v + 1
      BY <2>2, <2>3 DEF ReIngest, Row
    <2>5. /\ OthersKept(p) /\ req'[p].pc = "update" /\ req'[p].ev = e
          /\ UNCHANGED <<rows, arrivals>>
      BY <1>0, <1>2, <2>1, <2>2, GotoKeeps DEF IngestFindsRow
    <2>6. p \in Finding(k) /\ Room(k, v)
      BY <1>0, <1>2, <2>2, <2>3 DEF Finding, IngestFindsRow, HasRoom
    <2>7. Room(k, v + 1)'
      BY <2>3, <2>5, <2>6, RoomStays
    <2>8. HasRoom(req[p].ev)'
      BY <2>4, <2>5, <2>7 DEF HasRoom
    <2> QED
      BY <2>5, <2>8, CountKept
  <1>3. CASE IngestFindsNothing(p)
    <2>1. PICK i \in FreshIds, m \in Thresholds :
              Goto(p, "save", NewDLQEvent(i, req[p].key, m))
      BY <1>3 DEF IngestFindsNothing
    <2>2. PICK k, e : k = req[p].key /\ e = NewDLQEvent(i, k, m)
      OBVIOUS
    <2>3. k \in Keys /\ e.key = k /\ e.retry = 0
      BY <1>0, <1>3, <2>2 DEF IngestFindsNothing, ReqTyped, NewDLQEvent
    <2>4. /\ OthersKept(p) /\ req'[p].pc = "save" /\ req'[p].ev = e
          /\ UNCHANGED <<rows, arrivals>>
      BY <1>0, <1>3, <2>1, <2>2, GotoKeeps DEF IngestFindsNothing
    <2>5. p \in Finding(k)
      BY <1>3, <2>2 DEF Finding, IngestFindsNothing
    <2>6. Room(k, 0)'
      BY <2>3, <2>4, <2>5, RoomStays
    <2>7. HasRoom(req[p].ev)'
      BY <2>3, <2>4, <2>6 DEF HasRoom
    <2> QED
      BY <2>4, <2>7, CountKept
  <1>4. CASE Save(p)
    <2>1. OthersKept(p) /\ req'[p].pc = "idle"
      BY <1>0, <1>4, EndKeepsOthers DEF Save
    <2> QED
      BY <1>0, <1>4, <2>1, CountKept DEF Save, TInv, TypeOK
  <1>5. CASE ListRows(p)
    <2>1. PICK page : IF page = <<>> THEN End(p)
                      ELSE req' = [req EXCEPT ![p].pc = "find", ![p].todo = page]
      BY <1>5 DEF ListRows
    <2>2. CASE page = <<>>
      BY <1>0, <1>5, <2>1, <2>2, EndKeepsOthers, CountKept DEF ListRows
    <2>3. CASE page # <<>>
      <3>1. /\ OthersKept(p) /\ req'[p].pc = "find" /\ req'[p].op = req[p].op
            /\ UNCHANGED <<rows, arrivals>>
        BY <1>0, <1>5, <2>1, <2>3 DEF ListRows, OthersKept, TInv, TypeOK, Request
      <3>2. req[p].op = "replay"
        BY <1>0, <1>5 DEF ListRows, ReqTyped
      <3> QED
        BY <3>1, <3>2, CountKept
    <2> QED
      BY <2>2, <2>3
  <1>6. CASE FindById(p)
    <2> DEFINE i == Head(req[p].todo)
               pc == IF req[p].op = "replay" THEN "post" ELSE "update"
    <2>1. /\ req[p].todo \in Seq(Ids) /\ req[p].todo # <<>> /\ req[p].op \in ByIdOps
          /\ rows[i] # Nil /\ Goto(p, pc, Apply(req[p].op, rows[i]))
          /\ UNCHANGED <<rows, arrivals>>
      BY <1>0, <1>6 DEF FindById, ReqTyped, Request
    <2>2. PICK r, e : r = rows[i] /\ e = Apply(req[p].op, rows[i])
      OBVIOUS
    <2>3. r \in Row /\ HasRoom(r)
      BY <1>0, <2>1, <2>2 DEF TInv, TypeOK, Stored
    <2>4. e.key = r.key /\ e.retry \in {r.retry, 0} /\ r.key \in Keys /\ r.retry \in Nat
      <3>1. CASE req[p].op = "replay"
        BY <2>2, <2>3, <3>1 DEF Apply, Replay, Row
      <3>2. CASE req[p].op = "resolve"
        BY <2>2, <2>3, <3>2 DEF Apply, Resolve, Row
      <3>3. CASE req[p].op = "reset"
        BY <2>2, <2>3, <3>3 DEF Apply, ResetPoison, Row
      <3> QED
        BY <2>1, <3>1, <3>2, <3>3 DEF ByIdOps
    <2>5. OthersKept(p) /\ req'[p].pc = pc /\ req'[p].ev = e
      BY <1>0, <2>1, <2>2, GotoKeeps
    <2>6. Room(r.key, r.retry)'
      BY <2>1, <2>3, <2>4, <2>5, RoomStays DEF HasRoom
    <2>7. Room(r.key, 0)'
      <3>1. Cardinality(Finding(r.key)') \in Nat /\ arrivals'[r.key] \in Nat
        <4>1. IsFiniteSet(Finding(r.key)')
          BY <2>1, <2>4, <2>5, RoomStays
        <4> QED
          BY <1>0, <2>1, <2>4, <4>1, FS_CardinalityType DEF TInv, TypeOK
      <3> QED
        BY <2>4, <2>6, <3>1 DEF Room
    <2>8. HasRoom(req[p].ev)'
      BY <2>4, <2>5, <2>6, <2>7 DEF HasRoom
    <2> QED
      BY <2>1, <2>5, <2>8, CountKept
  <1>7. CASE Post(p)
    <2>1. PICK e : e = req[p].ev
      OBVIOUS
    <2>2. /\ OthersKept(p) /\ req'[p].pc = "update" /\ req'[p].ev = e
          /\ UNCHANGED <<rows, arrivals>>
      BY <1>0, <1>7, <2>1, GotoKeeps DEF Post
    <2>3. HasRoom(e)
      BY <1>0, <1>7, <2>1 DEF Post
    <2>4. HasRoom(e)'
      BY <2>2, <2>3, RoomStays DEF HasRoom
    <2>5. HasRoom(req[p].ev)'
      BY <2>2, <2>4 DEF HasRoom
    <2> QED
      BY <2>2, <2>5, CountKept
  <1>8. CASE Update(p)
    <2>1. OthersKept(p) /\ req'[p].pc \in {"idle", "find"}
                        /\ ~(req'[p].pc = "find" /\ req'[p].op = "ingest")
      <3>1. CASE req[p].op = "ingest"
        BY <1>0, <1>8, <3>1, EndKeepsOthers DEF Update
      <3>2. CASE req[p].op # "ingest"
        <4>1. req'[p].op \in {"none", req[p].op}
          BY <1>0, <1>8, <3>2, IdleType DEF Update, NextRow, End, TInv, TypeOK, Request
        <4> QED
          BY <1>0, <1>8, <3>2, <4>1, NextRowKeepsOthers DEF Update
      <3> QED
        BY <3>1, <3>2
    <2> QED
      BY <1>0, <1>8, <2>1, CountKept DEF Update, TInv, TypeOK
  <1> QED
    BY <1>1, <1>2, <1>3, <1>4, <1>5, <1>6, <1>7, <1>8 DEF Step

\* Failures keep the counts: a request that dies gives its place back.
LEMMA FaultCounts ==
    ASSUME CInv, SInv', NEW p \in Procs, Fault(p)
    PROVE  CInv'
  <1>1. TInv
    BY DEF CInv, SInv
  <1>2. OthersKept(p) /\ req'[p].pc = "idle" /\ UNCHANGED arrivals
    BY <1>1, EndKeepsOthers DEF Fault, Abandon, WriteUnacked, PostUnacked
  <1>3. \A i \in Ids : rows'[i] # rows[i] /\ rows'[i] # Nil =>
            req[p].pc \in {"save", "update"} /\ rows'[i] = req[p].ev
    BY <1>1 DEF Fault, Abandon, WriteUnacked, PostUnacked, At, TInv, TypeOK
  <1> QED
    BY <1>2, <1>3, CountKept

\* A restart leaves no request, and rows as they were or none.
LEMMA RestartCounts ==
    ASSUME CInv, SInv', Restart
    PROVE  CInv'
  <1>1. \A p \in Procs : req'[p].pc = "idle"
    BY IdleType DEF Restart
  <1>2. \A k \in Keys : Finding(k)' = {}
    BY <1>1 DEF Finding, At
  <1>3. \A k \in Keys : IsFiniteSet(Finding(k)') /\ Cardinality(Finding(k)') = 0
    BY <1>2, FS_EmptySet
  <1>4. arrivals' = arrivals /\ \A k \in Keys : arrivals[k] \in Nat
    BY DEF Restart, CInv, SInv, TInv, TypeOK
  <1>5. \A k \in Keys, v \in Nat : Room(k, v) => Room(k, v)'
    <2> SUFFICES ASSUME NEW k \in Keys, NEW v \in Nat, Room(k, v) PROVE Room(k, v)'
      OBVIOUS
    <2>1. Cardinality(Finding(k)) \in Nat
      BY FS_CardinalityType DEF CInv
    <2> QED
      BY <1>3, <1>4, <2>1 DEF Room
  <1>6. \A i \in Ids : rows'[i] # Nil => rows[i] = rows'[i]
    BY DEF Restart
  <1>7. ASSUME NEW i \in Ids, rows'[i] # Nil PROVE HasRoom(rows[i])'
    <2>1. HasRoom(rows[i])
      BY <1>6, <1>7 DEF CInv, Stored
    <2> QED
      BY <1>5, <1>6, <1>7, <2>1 DEF HasRoom
  <1> QED
    BY <1>1, <1>3, <1>4, <1>7 DEF CInv, Stored

\* CInv is an invariant of dlqueue.
LEMMA Counting == Spec => []CInv
  <1>1. Init => CInv
    <2> SUFFICES ASSUME Init, SInv PROVE CInv
      BY InitSafe
    <2>1. \A p \in Procs : req[p].pc = "idle"
      BY IdleType DEF Init
    <2>2. \A k \in Keys : Finding(k) = {}
      BY <2>1 DEF Finding, At
    <2> QED
      BY <2>1, <2>2, FS_EmptySet DEF Init, CInv, Stored
  <1>2. CInv /\ SInv' /\ [Next]_vars => CInv'
    <2>1. ASSUME CInv, SInv', UNCHANGED vars PROVE CInv'
      <3>1. \A k \in Keys : Finding(k)' = Finding(k)
        BY <2>1 DEF vars, Finding, At
      <3>2. \A k \in Keys, v \in Nat : Room(k, v)' <=> Room(k, v)
        BY <2>1, <3>1 DEF vars, Room
      <3> QED
        BY <2>1, <3>1, <3>2 DEF vars, CInv, HasRoom, Stored
    <2> QED
      BY <2>1, ArriveCounts, StepCounts, FaultCounts, RestartCounts DEF Next
  <1> QED
    BY <1>1, <1>2, SafetyInvariant, PTL DEF Spec

\* No delivery is counted twice, on either backend, with any number of requests
\* and whatever fails: an event is poisoned only after more deliveries of its
\* natural key than its limit says.
THEOREM RetriesAreReal == Spec => []RetryNeverOvercounts
  <1>1. CInv => RetryNeverOvercounts
    <2> SUFFICES ASSUME CInv, NEW i \in Stored PROVE rows[i].retry < arrivals[rows[i].key]
      BY DEF RetryNeverOvercounts
    <2>1. rows[i] \in Row /\ HasRoom(rows[i])
      BY DEF CInv, SInv, TInv, TypeOK, Stored
    <2>2. PICK k, v : k = rows[i].key /\ v = rows[i].retry
      OBVIOUS
    <2>3. k \in Keys /\ v \in Nat /\ Room(k, v)
      BY <2>1, <2>2 DEF HasRoom, Row
    <2>4. Cardinality(Finding(k)) \in Nat /\ arrivals[k] \in Nat
      BY <2>3, FS_CardinalityType DEF CInv, SInv, TInv, TypeOK
    <2> QED
      BY <2>2, <2>3, <2>4 DEF Room
  <1> QED
    BY <1>1, Counting, PTL

----------------------------------------------------------------------------
(* Refinement: requests that do not overlap implement DLQLifecycle and     *)
(* hide no failure that was acknowledged, with every fault of the postgres *)
(* backend.  With two requests both fail: what breaks is CopyCurrent.      *)

\* One request at a time, and no restart that loses the table.
OneAtATime ==
    /\ \A p, q \in Procs : p = q
    /\ ~(Faults /\ Backend = "memory")

\* The copy a handler holds is one transition away from the row as it is now.
CopyCurrent(p) ==
    LET op == req[p].op
        e  == req[p].ev
    IN
    /\ At(p, "update") /\ op = "ingest"
           => rows[e.id].status # "resolved" /\ e = ReIngest(rows[e.id])
    /\ (At(p, "post") \/ At(p, "update")) /\ op \in ByIdOps
           => Accepts(op, rows[e.id]) /\ e = Apply(op, rows[e.id])
    /\ At(p, "save") => /\ WithKey(e.key) = {}
                        /\ \E m \in Thresholds : e = NewDLQEvent(e.id, e.key, m)
    /\ At(p, "update") => op # "none"
    /\ At(p, "update") /\ op = "replay" => e.key \notin owed

QInv ==
    /\ SInv
    /\ \A p \in Procs : CopyCurrent(p)
    /\ NaturalKeyUnique
    /\ FailureNotForgotten

----------------------------------------------------------------------------
(* The mapping of rows to tickets.                                         *)

T == [i \in Ids |-> Ticket(rows[i])]

\* A step is a step of the lifecycle or leaves every ticket alone.
Maps == Lifecycle!Next \/ UNCHANGED T

\* A row is stored exactly when its ticket is open, with the same fields.
LEMMA TicketOf ==
    ASSUME NEW e \in Row \cup {Nil}
    PROVE  /\ Ticket(e) # Nil <=> e # Nil
           /\ e # Nil => /\ Ticket(e).key = e.key /\ Ticket(e).status = e.status
                         /\ Ticket(e).retry = e.retry /\ Ticket(e).max = e.max
                         /\ Ticket(e) = [key |-> e.key, status |-> e.status,
                                         retry |-> e.retry, max |-> e.max]
  BY NilAssumption DEF Ticket, Row

\* Writing a row writes its ticket.
LEMMA TicketWritten ==
    ASSUME TInv, NEW e \in Row, rows' = [rows EXCEPT ![e.id] = e]
    PROVE  T' = [T EXCEPT ![e.id] = Ticket(e)]
  <1>1. e.id \in Ids /\ e # Nil
    BY NilAssumption DEF Row
  <1>2. \A i \in Ids : rows'[i] = IF i = e.id THEN e ELSE rows[i]
    BY <1>1 DEF TInv, TypeOK
  <1>3. \A i \in Ids : Ticket(rows'[i]) = IF i = e.id THEN Ticket(e) ELSE Ticket(rows[i])
    BY <1>2
  <1>4. T' = [i \in Ids |-> Ticket(rows'[i])]
    BY DEF T
  <1>5. T = [i \in Ids |-> Ticket(rows[i])]
    BY DEF T
  <1> HIDE DEF T
  <1> QED
    BY <1>1, <1>3, <1>4, <1>5

\* A new status and counter on an open ticket is a Move of the lifecycle.
LEMMA MoveMapped ==
    ASSUME TInv, NEW e \in Row, NEW r \in Row, rows[e.id] = r, r.id = e.id,
           e.key = r.key, e.max = r.max, rows' = [rows EXCEPT ![e.id] = e]
    PROVE  Lifecycle!Move(e.id, e.status, e.retry)
  <1>1. e.id \in Ids
    BY DEF Row
  <1>2. T' = [T EXCEPT ![e.id] = Ticket(e)]
    BY TicketWritten
  <1>3. T[e.id] = Ticket(r)
    BY <1>1 DEF T
  <1>4. Ticket(e) = [key |-> Ticket(r).key, status |-> e.status,
                     retry |-> e.retry, max |-> Ticket(r).max]
    <2>1. e # Nil /\ r # Nil
      BY NilAssumption
    <2>2. Ticket(e) = [key |-> e.key, status |-> e.status,
                       retry |-> e.retry, max |-> e.max]
      BY <2>1, TicketOf
    <2>3. Ticket(r).key = e.key /\ Ticket(r).max = e.max
      BY <2>1, TicketOf
    <2> QED
      BY <2>2, <2>3
  <1>5. T' = [T EXCEPT ![e.id] = [key |-> T[e.id].key, status |-> e.status,
                                  retry |-> e.retry, max |-> T[e.id].max]]
    BY <1>1, <1>2, <1>3, <1>4
  <1> QED
    BY <1>5 DEF T, Lifecycle!Move

\* Each write of a copy that is current is one transition of the lifecycle.
LEMMA WriteMapped ==
    ASSUME QInv, NEW p \in Procs,
           req[p].pc \in {"save", "update"},
           rows' = [rows EXCEPT ![req[p].ev.id] = req[p].ev]
    PROVE  Lifecycle!Next
  <1> DEFINE e == req[p].ev
             r == rows[e.id]
  <1> USE DEF At
  <1>1. TInv /\ CopyCurrent(p) /\ CopySound(p) /\ ReqTyped(req[p]) /\ req[p] \in Request
    BY DEF QInv, SInv, CopiesSound, TInv, TypeOK
  <1>2. e \in Row /\ e.id \in Ids /\ e.key \in Keys /\ e # Nil
    BY <1>1, NilAssumption DEF ReqTyped, Request, Row
  <1>3. CASE req[p].pc = "save"
    <2>1. PICK m \in Thresholds : e = NewDLQEvent(e.id, e.key, m)
      BY <1>1, <1>3 DEF CopyCurrent
    <2>2. rows[e.id] = Nil /\ \A j \in Ids : rows[j] # Nil => rows[j].key # e.key
      BY <1>1, <1>3 DEF CopyCurrent, CopySound, WithKey, Stored
    <2>3. \A j \in Ids : T[j] = Ticket(rows[j]) /\ rows[j] \in Row \cup {Nil}
      BY <1>1 DEF T, TInv, TypeOK
    <2>4. T[e.id] = Nil
      BY <1>2, <2>2, <2>3, TicketOf
    <2>5. \A j \in Ids : T[j] # Nil => T[j].key # e.key
      BY <2>2, <2>3, TicketOf
    <2>6. e.status = "pending" /\ e.retry = 0 /\ e.max = m
      <3> HIDE DEF e
      <3> QED
        BY <2>1 DEF NewDLQEvent
    <2>7. Ticket(e) = [key |-> e.key, status |-> "pending", retry |-> 0, max |-> m]
      BY <1>2, <2>6, TicketOf
    <2>8. T' = [T EXCEPT ![e.id] = Ticket(e)]
      BY <1>1, <1>2, TicketWritten
    <2>9. Lifecycle!FirstFailure(e.id, e.key, m)
      <3> HIDE DEF e
      <3> QED
        BY <2>4, <2>5, <2>7, <2>8 DEF T, Lifecycle!FirstFailure, Lifecycle!Open
    <2> QED
      BY <1>2, <2>1, <2>9 DEF Lifecycle!Next
  <1>4. CASE req[p].pc = "update"
    <2>1. r \in Row /\ r # Nil /\ r.id = e.id /\ Consistent(r)
      BY <1>1, <1>2, <1>4
         DEF CopySound, TInv, TypeOK, QInv, SInv, RowsConsistent, Stored
    <2>2. /\ T[e.id] # Nil /\ T[e.id].status = r.status /\ T[e.id].retry = r.retry
          /\ T[e.id].max = r.max
      BY <1>2, <2>1, TicketOf DEF T
    <2>3. CASE req[p].op = "ingest"
      <3>1. r.status # "resolved" /\ e = ReIngest(r)
        BY <1>1, <1>4, <2>3 DEF CopyCurrent
      <3> HIDE DEF e, r
      <3>2. /\ e.key = r.key /\ e.max = r.max /\ e.retry = r.retry + 1
            /\ e.status = IF r.retry + 1 >= r.max THEN "poisoned" ELSE "pending"
        BY <2>1, <3>1 DEF ReIngest, Row
      <3>3. e.status = IF r.retry + 1 < r.max THEN "pending" ELSE "poisoned"
        BY <2>1, <3>2 DEF Row
      <3>4. Lifecycle!Move(e.id, e.status, e.retry)
        BY <1>1, <1>2, <2>1, <3>2, MoveMapped DEF e, r
      <3>5. Lifecycle!FailedAgain(e.id)
        BY <2>2, <3>1, <3>2, <3>3, <3>4 DEF T, Lifecycle!FailedAgain, Lifecycle!Open
      <3> QED
        BY <1>2, <3>5 DEF Lifecycle!Next
    <2>4. CASE req[p].op \in ByIdOps
      <3>1. Accepts(req[p].op, r) /\ e = Apply(req[p].op, r)
        BY <1>1, <1>4, <2>4 DEF CopyCurrent
      <3> HIDE DEF e, r
      <3>2. e.key = r.key /\ e.max = r.max
        BY <2>1, <2>4, <3>1 DEF Apply, Replay, Resolve, ResetPoison, Row, ByIdOps
      <3>3. Lifecycle!Move(e.id, e.status, e.retry)
        BY <1>1, <1>2, <2>1, <3>2, MoveMapped DEF e, r
      <3>4. CASE req[p].op = "replay"
        <4>1. e.status = "replayed" /\ e.retry = r.retry /\ r.status = "pending"
          BY <2>1, <3>1, <3>4 DEF Accepts, Apply, Replay, Row
        <4>2. Lifecycle!Replayed(e.id)
          BY <2>2, <3>3, <4>1 DEF T, Lifecycle!Replayed, Lifecycle!Open
        <4> QED
          BY <1>2, <4>2 DEF Lifecycle!Next
      <3>5. CASE req[p].op = "resolve"
        <4>1. /\ e.status = "resolved" /\ e.retry = r.retry
              /\ r.status \in {"pending", "replayed"}
          BY <2>1, <3>1, <3>5 DEF Accepts, Apply, Resolve, Row
        <4>2. Lifecycle!Resolved(e.id)
          BY <2>2, <3>3, <4>1 DEF T, Lifecycle!Resolved, Lifecycle!Open
        <4> QED
          BY <1>2, <4>2 DEF Lifecycle!Next
      <3>6. CASE req[p].op = "reset"
        <4>1. e.status = "pending" /\ e.retry = 0 /\ r.status = "poisoned"
          BY <2>1, <3>1, <3>6 DEF Accepts, Apply, ResetPoison, Row
        <4>2. Lifecycle!Reset(e.id)
          BY <2>2, <3>3, <4>1 DEF T, Lifecycle!Reset, Lifecycle!Open
        <4> QED
          BY <1>2, <4>2 DEF Lifecycle!Next
      <3> QED
        BY <2>4, <3>4, <3>5, <3>6 DEF ByIdOps
    <2>5. req[p].op = "ingest" \/ req[p].op \in ByIdOps
      BY <1>1, <1>4 DEF CopyCurrent, Request
    <2> QED
      BY <2>3, <2>4, <2>5
  <1> QED
    BY <1>3, <1>4

----------------------------------------------------------------------------
(* QInv is inductive when requests do not overlap.                         *)

\* With one request, a step that writes no row keeps the invariant if the copy
\* it leaves is current and it acknowledges no failure of a replayed row.
LEMMA ReadingKeeps ==
    ASSUME QInv, SInv', OneAtATime, NEW p \in Procs, CopyCurrent(p)',
           UNCHANGED rows,
           \A k \in owed' : k \in owed \/ \A i \in WithKey(k) : rows[i].status # "replayed"
    PROVE  QInv' /\ Maps
  <1>1. \A q \in Procs : CopyCurrent(q)'
    BY DEF OneAtATime
  <1>2. NaturalKeyUnique'
    BY DEF QInv, NaturalKeyUnique, Stored
  <1>3. FailureNotForgotten'
    BY DEF QInv, FailureNotForgotten, Stored, WithKey
  <1>4. UNCHANGED T
    BY DEF T
  <1> QED
    BY <1>1, <1>2, <1>3, <1>4 DEF QInv, Maps

\* A request without a copy has nothing that could be stale.
LEMMA NoCopyCurrent ==
    ASSUME NEW p \in Procs, req'[p].pc \in {"idle", "list", "find"}
    PROVE  CopyCurrent(p)'
  BY DEF CopyCurrent, At

\* Writing a current copy keeps the invariant: no other row has its key.
LEMMA WritingKeeps ==
    ASSUME QInv, SInv', OneAtATime, NEW p \in Procs,
           req[p].pc \in {"save", "update"},
           rows' = [rows EXCEPT ![req[p].ev.id] = req[p].ev],
           req'[p].pc \in {"idle", "find"},
           owed' = owed \/ (owed' = owed \cup {req[p].ev.key} /\ req[p].op = "ingest")
    PROVE  QInv' /\ Maps
  <1> DEFINE e == req[p].ev
  <1> USE DEF At
  <1>1. TInv /\ CopyCurrent(p) /\ CopySound(p) /\ ReqTyped(req[p]) /\ req[p] \in Request
    BY DEF QInv, SInv, CopiesSound, TInv, TypeOK
  <1>2. e \in Row /\ e.id \in Ids /\ e.key \in Keys /\ e # Nil
    BY <1>1, NilAssumption DEF ReqTyped, Request, Row
  <1>3. \A q \in Procs : CopyCurrent(q)'
    BY NoCopyCurrent DEF OneAtATime
  <1>4. \A i \in Ids : rows'[i] = IF i = e.id THEN e ELSE rows[i]
    BY <1>1, <1>2 DEF TInv, TypeOK
  <1>5. \A i \in Ids : i # e.id /\ rows[i] # Nil => rows[i].key # e.key
    <2>1. CASE req[p].pc = "save"
      BY <1>1, <2>1 DEF CopyCurrent, WithKey, Stored
    <2>2. CASE req[p].pc = "update"
      <3>1. rows[e.id] # Nil /\ rows[e.id].key = e.key
        BY <1>1, <2>2 DEF CopySound
      <3> QED
        BY <1>2, <3>1 DEF QInv, NaturalKeyUnique, Stored
    <2> QED
      BY <2>1, <2>2
  <1>6. e.status = "replayed" => e.key \notin owed'
    <2>1. CASE req[p].pc = "save"
      <3>1. PICK m \in Thresholds : e = NewDLQEvent(e.id, e.key, m)
        BY <1>1, <2>1 DEF CopyCurrent
      <3> HIDE DEF e
      <3> QED
        BY <3>1 DEF NewDLQEvent
    <2>2. CASE req[p].pc = "update"
      <3>1. rows[e.id] \in Row
        BY <1>1, <1>2, <2>2 DEF CopySound, TInv, TypeOK
      <3>2. CASE req[p].op = "ingest"
        <4>1. e = ReIngest(rows[e.id])
          BY <1>1, <2>2, <3>2 DEF CopyCurrent
        <4> HIDE DEF e
        <4> QED
          BY <3>1, <4>1 DEF ReIngest, Row
      <3>3. CASE req[p].op \in ByIdOps
        <4>1. e = Apply(req[p].op, rows[e.id])
          BY <1>1, <2>2, <3>3 DEF CopyCurrent
        <4>2. owed' = owed
          BY <3>3 DEF ByIdOps
        <4>3. req[p].op = "replay" => e.key \notin owed
          BY <1>1, <2>2 DEF CopyCurrent
        <4> HIDE DEF e
        <4>4. req[p].op # "replay" => e.status # "replayed"
          BY <3>1, <3>3, <4>1 DEF Apply, Resolve, ResetPoison, Row, ByIdOps
        <4> QED
          BY <4>2, <4>3, <4>4
      <3> QED
        BY <1>1, <2>2, <3>2, <3>3 DEF CopyCurrent, Request
    <2> QED
      BY <2>1, <2>2
  <1>7. owed' \subseteq owed \cup {e.key}
    OBVIOUS
  <1>8. Maps
    BY WriteMapped DEF Maps
  <1> HIDE DEF e
  <1>9. NaturalKeyUnique'
    BY <1>2, <1>4, <1>5 DEF QInv, NaturalKeyUnique, Stored
  <1>10. FailureNotForgotten'
    BY <1>2, <1>4, <1>5, <1>6, <1>7 DEF QInv, FailureNotForgotten, Stored
  <1> QED
    BY <1>3, <1>8, <1>9, <1>10 DEF QInv

\* A request that begins has no copy.
LEMMA ArriveKeeps ==
    ASSUME QInv, SInv', OneAtATime, NEW p \in Procs, Arrive(p)
    PROVE  QInv' /\ Maps
  <1>1. UNCHANGED <<rows, owed>>
    BY DEF Arrive, BeginIngest, BeginById, BeginBatchReplay, BeginBatchResolve
  <1>2. req'[p].pc \in {"list", "find"}
    <2> USE DEF Begin, Idle, QInv, SInv, TInv, TypeOK
    <2>1. ASSUME NEW k \in Keys, BeginIngest(p, k) PROVE req'[p].pc = "find"
      BY <2>1 DEF BeginIngest
    <2>2. ASSUME NEW op \in ByIdOps, NEW i \in Ids, BeginById(p, op, i)
          PROVE  req'[p].pc = "find"
      BY <2>2 DEF BeginById
    <2>3. CASE BeginBatchReplay(p)
      BY <2>3 DEF BeginBatchReplay
    <2>4. ASSUME NEW s, BeginBatchResolve(p, s) PROVE req'[p].pc = "find"
      BY <2>4 DEF BeginBatchResolve
    <2> QED
      BY <2>1, <2>2, <2>3, <2>4 DEF Arrive
  <1> QED
    BY <1>1, <1>2, NoCopyCurrent, ReadingKeeps

\* A request that ends without a write has nothing to acknowledge.
LEMMA EndKeeps ==
    ASSUME QInv, SInv', OneAtATime, NEW p \in Procs, End(p),
           UNCHANGED rows, owed' \subseteq owed
    PROVE  QInv' /\ Maps
  <1>1. req'[p].pc = "idle"
    BY EndKeepsOthers DEF QInv, SInv
  <1> QED
    BY <1>1, NoCopyCurrent, ReadingKeeps

\* The steps of a handler that runs alone.
LEMMA StepKeeps ==
    ASSUME QInv, SInv', OneAtATime, NEW p \in Procs, Step(p)
    PROVE  QInv' /\ Maps
  <1> USE DEF At
  <1>0. TInv /\ CopyCurrent(p) /\ CopySound(p) /\ ReqTyped(req[p]) /\ req[p] \in Request
    BY DEF QInv, SInv, CopiesSound, TInv, TypeOK
  <1>1. CASE IngestFindsResolved(p)
    <2>1. req'[p].pc = "idle"
      BY <1>0, <1>1, EndKeepsOthers DEF IngestFindsResolved
    <2>2. \A i \in WithKey(req[p].key) : rows[i].status # "replayed"
      BY <1>1 DEF IngestFindsResolved, QInv, NaturalKeyUnique, WithKey, Stored
    <2>3. owed' = owed \cup {req[p].key} /\ UNCHANGED rows
      BY <1>1 DEF IngestFindsResolved, Created
    <2> QED
      BY <2>1, <2>2, <2>3, NoCopyCurrent, ReadingKeeps
  <1>2. CASE IngestFindsRow(p)
    <2>1. PICK i \in WithKey(req[p].key) :
             rows[i].status # "resolved" /\ Goto(p, "update", ReIngest(rows[i]))
      BY <1>2 DEF IngestFindsRow
    <2>2. rows[i] \in Row /\ rows[i].id = i
      BY <1>0 DEF WithKey, Stored, TInv, TypeOK, QInv, SInv, RowsConsistent
    <2>3. ReIngest(rows[i]).id = i
      BY <2>2, ReIngestType
    <2>4. /\ req'[p].pc = "update" /\ req'[p].op = "ingest"
          /\ req'[p].ev = ReIngest(rows[i]) /\ UNCHANGED <<rows, owed>>
      BY <1>0, <1>2, <2>1, GotoKeeps DEF IngestFindsRow
    <2>5. CopyCurrent(p)'
      BY <2>1, <2>3, <2>4 DEF CopyCurrent, ByIdOps
    <2> QED
      BY <2>4, <2>5, ReadingKeeps
  <1>3. CASE IngestFindsNothing(p)
    <2>1. PICK i \in FreshIds, m \in Thresholds :
             Goto(p, "save", NewDLQEvent(i, req[p].key, m))
      BY <1>3 DEF IngestFindsNothing
    <2>2. /\ NewDLQEvent(i, req[p].key, m).id = i
          /\ NewDLQEvent(i, req[p].key, m).key = req[p].key
      BY DEF NewDLQEvent
    <2>3. /\ req'[p].pc = "save" /\ req'[p].ev = NewDLQEvent(i, req[p].key, m)
          /\ UNCHANGED <<rows, owed>> /\ WithKey(req[p].key) = {}
      BY <1>0, <1>3, <2>1, GotoKeeps DEF IngestFindsNothing
    <2>4. \A j \in Ids : rows'[j] # Nil => rows'[j].key # req'[p].ev.key
      <3>1. \A j \in Ids : rows[j] # Nil => rows[j].key # req[p].key
        BY <2>3 DEF WithKey, Stored
      <3> QED
        BY <2>2, <2>3, <3>1
    <2>5. CopyCurrent(p)'
      BY <2>2, <2>3, <2>4 DEF CopyCurrent, ByIdOps, WithKey, Stored
    <2> QED
      BY <2>3, <2>5, ReadingKeeps
  <1>4. CASE Save(p)
    <2>1. req[p].ev.key = req[p].key /\ req[p].op = "ingest"
      BY <1>0, <1>4 DEF Save, CopySound
    <2>2. req'[p].pc = "idle"
      BY <1>0, <1>4, EndKeepsOthers DEF Save
    <2> QED
      BY <1>4, <2>1, <2>2, WritingKeeps DEF Save, Created
  <1>5. CASE SaveConflict(p)
    BY <1>5, EndKeeps DEF SaveConflict
  <1>6. CASE ListRows(p)
    <2>1. req'[p].pc \in {"idle", "find"}
      BY <1>0, <1>6, EndKeepsOthers DEF ListRows, TInv, TypeOK, Request
    <2> QED
      BY <1>6, <2>1, NoCopyCurrent, ReadingKeeps DEF ListRows
  <1>7. CASE FindById(p)
    <2> DEFINE r == rows[Head(req[p].todo)]
    <2>1. /\ r # Nil /\ Accepts(req[p].op, r) /\ req[p].op \in ByIdOps
          /\ Goto(p, IF req[p].op = "replay" THEN "post" ELSE "update",
                  Apply(req[p].op, r))
          /\ UNCHANGED <<rows, owed>>
      BY <1>7 DEF FindById
    <2>2. Head(req[p].todo) \in Ids
      BY <1>0, <1>7, HeadTailProperties DEF FindById, ReqTyped, Request
    <2>3. r \in Row /\ r.id = Head(req[p].todo)
      BY <1>0, <2>1, <2>2 DEF TInv, TypeOK, QInv, SInv, RowsConsistent, Stored
    <2>4. Apply(req[p].op, r).id = Head(req[p].todo)
      BY <2>1, <2>3, ApplyType
    <2>5. /\ req'[p].pc = (IF req[p].op = "replay" THEN "post" ELSE "update")
          /\ req'[p].op = req[p].op /\ req'[p].ev = Apply(req[p].op, r)
      BY <1>0, <2>1, GotoKeeps
    <2>6. rows'[req'[p].ev.id] = r
      BY <2>1, <2>4, <2>5
    <2> HIDE DEF r
    <2>7. CopyCurrent(p)'
      BY <2>1, <2>5, <2>6 DEF CopyCurrent, ByIdOps
    <2> QED
      BY <2>1, <2>7, ReadingKeeps
  <1>8. CASE FindRefused(p)
    BY <1>8, EndKeeps DEF FindRefused
  <1>9. CASE Post(p)
    <2>1. /\ req'[p].pc = "update" /\ req'[p].op = req[p].op /\ req'[p].ev = req[p].ev
          /\ UNCHANGED rows /\ owed' = owed \ {req[p].ev.key} /\ req[p].op = "replay"
      BY <1>0, <1>9, GotoKeeps DEF Post, Delivered, ReqTyped
    <2>2. CopyCurrent(p)'
      BY <1>0, <1>9, <2>1 DEF Post, CopyCurrent, ByIdOps
    <2> QED
      BY <2>1, <2>2, ReadingKeeps
  <1>10. CASE PostRefused(p)
    BY <1>10, EndKeeps DEF PostRefused
  <1>11. CASE Update(p)
    <2>1. req[p].op = "ingest" => req[p].ev.key = req[p].key
      BY <1>0, <1>11 DEF Update, CopySound
    <2>2. req'[p].pc \in {"idle", "find"}
      BY <1>0, <1>11, EndKeepsOthers, NextRowKeepsOthers DEF Update
    <2>3. /\ req[p].pc = "update"
          /\ rows' = [rows EXCEPT ![req[p].ev.id] = req[p].ev]
          /\ owed' = owed \/ (owed' = owed \cup {req[p].ev.key} /\ req[p].op = "ingest")
      BY <1>11, <2>1 DEF Update, Created
    <2> QED
      BY <2>2, <2>3, WritingKeeps
  <1> QED
    BY <1>1, <1>2, <1>3, <1>4, <1>5, <1>6, <1>7, <1>8, <1>9, <1>10, <1>11 DEF Step

\* The faults of the postgres backend.
LEMMA FaultKeeps ==
    ASSUME QInv, SInv', OneAtATime, NEW p \in Procs, Fault(p)
    PROVE  QInv' /\ Maps
  <1> USE DEF At
  <1>1. CASE Abandon(p)
    BY <1>1, EndKeeps DEF Abandon
  <1>2. CASE WriteUnacked(p)
    <2>1. req'[p].pc = "idle"
      BY <1>2, EndKeepsOthers DEF WriteUnacked, QInv, SInv
    <2> QED
      BY <1>2, <2>1, WritingKeeps DEF WriteUnacked
  <1>3. CASE PostUnacked(p)
    BY <1>3, EndKeeps DEF PostUnacked, Delivered
  <1> QED
    BY <1>1, <1>2, <1>3 DEF Fault

\* QInv is an invariant, and every step maps to one of the lifecycle.
LEMMA Sequential ==
    ASSUME OneAtATime
    PROVE  Spec => [](QInv /\ SInv) /\ [][Maps]_vars
  <1>1. Init /\ SInv => QInv
    BY IdleType DEF Init, QInv, CopyCurrent, At, NaturalKeyUnique,
                    FailureNotForgotten, Stored
  <1>2. ASSUME QInv, SInv', [Next]_vars PROVE QInv' /\ Maps
    <2>1. CASE UNCHANGED vars
      BY <1>2, <2>1 DEF vars, QInv, CopyCurrent, At, NaturalKeyUnique, WithKey,
                        FailureNotForgotten, Stored, Maps, T
    <2>2. CASE Restart
      <3>1. UNCHANGED <<rows, owed>> /\ \A p \in Procs : req'[p].pc = "idle"
        BY <2>2, IdleType DEF Restart, OneAtATime
      <3>2. \A p \in Procs : CopyCurrent(p)'
        BY <3>1 DEF CopyCurrent, At
      <3> QED
        BY <1>2, <3>1, <3>2 DEF QInv, NaturalKeyUnique, FailureNotForgotten, Stored, Maps, T
    <2> QED
      BY <1>2, <2>1, <2>2, ArriveKeeps, StepKeeps, FaultKeeps DEF Next
  <1> QED
    BY <1>1, <1>2, SafetyInvariant, PTL DEF Spec

\* Requests that do not overlap implement the state machine of dlq_event.go:
\* every write of a row is one of its transitions, crashes and lost answers
\* between the calls included.
THEOREM ImplementsLifecycle ==
    ASSUME OneAtATime
    PROVE  Spec => FollowsLifecycle
  <1>1. Init => Lifecycle!Init
    BY DEF Init, Lifecycle!Init, Ticket
  <1>2. ASSUME [Maps]_vars PROVE [Lifecycle!Next]_[i \in Ids |-> Ticket(rows[i])]
    BY <1>2 DEF Maps, vars, T
  <1> QED
    BY <1>1, <1>2, Sequential, PTL DEF Spec, FollowsLifecycle, Lifecycle!Spec

\* Requests that do not overlap hide no failure that was answered 201: its
\* event is not shown as replayed before a later POST.
THEOREM NoFailureForgotten ==
    ASSUME OneAtATime
    PROVE  Spec => []FailureNotForgotten
  <1>1. QInv => FailureNotForgotten
    BY DEF QInv
  <1> QED
    BY <1>1, Sequential, PTL
=============================================================================
