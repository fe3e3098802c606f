--------------------------- MODULE PipelineProofs ---------------------------
(***************************************************************************)
(* Theorems about Pipeline, for every set of submissions, ids and requests,*)
(* and every threshold and bound.                                          *)
(***************************************************************************)
EXTENDS Pipeline, DLQueueProofs

\* The steps of p that are the dlqueue's alone.
Own(p) ==
    \/ \E op \in ByIdOps, i \in Ids : BeginById(p, op, i)
    \/ BeginBatchReplay(p)
    \/ \E n \in 1 .. BatchLimit : \E ids \in [1 .. n -> Ids] : BeginBatchResolve(p, ids)
    \/ Step(p) \/ Fault(p)

\* Every step of the loop is a step of the dlqueue, or none of it.
LEMMA StepsOfTheQueue ==
    ASSUME [PipelineNext]_pipeline
    PROVE  [Next]_vars
  <1>1. CASE \E k \in Keys : TriggerSucceeds(k) \/ AttemptFails(k) \/ TriggerFails(k)
    BY <1>1 DEF TriggerSucceeds, AttemptFails, TriggerFails
  <1>2. ASSUME NEW p \in Procs, NEW k \in Keys, DeliverFailure(p, k) PROVE Next
    BY <1>2 DEF DeliverFailure, MarshalPayload, Next, Arrive
  <1>3. ASSUME NEW p \in Procs, Operate(p) \/ Ingested(p) \/ Replayed(p) \/ Silent(p)
        PROVE  Own(p)
    BY <1>3 DEF Operate, Ingested, Replayed, Silent, Own, Step, Fault
  <1>4. ASSUME NEW p \in Procs, Own(p) PROVE Next
    BY <1>4 DEF Own, Next, Arrive
  <1>5. CASE Restart
    BY <1>5 DEF Next
  <1>6. CASE UNCHANGED pipeline
    BY <1>6 DEF pipeline
  <1> QED
    BY <1>1, <1>2, <1>3, <1>4, <1>5, <1>6 DEF PipelineNext

\* The dlqueue does not notice that its failures come round: whatever holds of
\* DLQueue for every order of them holds in the loop.
THEOREM LoopIsDLQueue == PipelineSpec => Spec
  <1>1. PipelineInit => Init
    BY DEF PipelineInit
  <1> QED
    BY <1>1, StepsOfTheQueue, PTL DEF PipelineSpec, Spec

\* The safety invariant of the dlqueue in the loop.
LEMMA QueueInvariant == PipelineSpec => []SInv
  BY LoopIsDLQueue, SafetyInvariant, PTL

----------------------------------------------------------------------------
(* What a step of one request does to the rows, the requests and the POSTs.*)

\* No row goes or changes its key, and no POST is taken back.
Kept ==
    /\ \A i \in Stored : i \in Stored' /\ rows'[i].key = rows[i].key
    /\ \A k \in Keys : posts[k] > 0 => posts'[k] > 0

\* A row that is new has the key of the failure that request p ingests.
NewRowsOf(p) ==
    \A i \in Stored' : i \in Stored \/ (req[p].op = "ingest" /\ rows'[i].key = req[p].key)

\* Request p ingests nothing but what it ingested before.
SameFailure(p) ==
    /\ OthersKept(p)
    /\ req'[p].op = "ingest" => req[p].op = "ingest" /\ req'[p].key = req[p].key

\* Writing a sound copy keeps the keys of the rows.
LEMMA WriteKeepsKeys ==
    ASSUME SInv, NEW p \in Procs, UNCHANGED posts,
           req[p].pc = "update" \/ req[p].pc = "save",
           rows' = [rows EXCEPT ![req[p].ev.id] = req[p].ev]
    PROVE  Kept /\ NewRowsOf(p)
  <1> DEFINE e == req[p].ev
  <1>1. e \in Row /\ e # Nil /\ e.id \in Ids
    BY DEF SInv, TInv, TypeOK, ReqTyped, Request, Row
  <1>2. CopySound(p) /\ rows \in [Ids -> Row \cup {Nil}]
    BY DEF SInv, TInv, TypeOK, CopiesSound
  <1>3. /\ req[p].pc = "save" => req[p].op = "ingest" /\ rows[e.id] = Nil /\ e.key = req[p].key
        /\ req[p].pc = "update" => rows[e.id] # Nil /\ rows[e.id].key = e.key
    BY <1>2 DEF CopySound
  <1>4. rows'[e.id] = e /\ \A i \in Ids \ {e.id} : rows'[i] = rows[i]
    BY <1>1, <1>2
  <1> QED
    BY <1>1, <1>3, <1>4 DEF Kept, NewRowsOf, Stored

\* A step that leaves the table alone.
LEMMA QuietKeepsKeys ==
    ASSUME NEW p \in Procs, UNCHANGED rows, \A k \in Keys : posts[k] > 0 => posts'[k] > 0
    PROVE  Kept /\ NewRowsOf(p)
  BY DEF Kept, NewRowsOf, Stored

\* A request that ends, or goes on with its next row, ingests nothing else.
LEMMA EndSameFailure ==
    ASSUME TInv, NEW p \in Procs, End(p) \/ NextRow(p)
    PROVE  SameFailure(p)
  <1>1. CASE End(p)
    BY <1>1, IdleType, EndKeepsOthers DEF SameFailure, End, TInv, TypeOK
  <1>2. CASE NextRow(p) /\ Len(req[p].todo) > 1
    <2>1. req'[p].op = req[p].op /\ req'[p].key = req[p].key
      BY <1>2 DEF NextRow, TInv, TypeOK, Request
    <2> QED
      BY <1>2, <2>1, NextRowKeepsOthers DEF SameFailure
  <1>3. CASE NextRow(p) /\ ~(Len(req[p].todo) > 1)
    BY <1>3, <1>1 DEF NextRow
  <1> QED
    BY <1>1, <1>2, <1>3

\* A request that goes on with a copy.
LEMMA GotoSameFailure ==
    ASSUME TInv, NEW p \in Procs, NEW pc, NEW e, Goto(p, pc, e)
    PROVE  SameFailure(p)
  BY GotoKeeps DEF SameFailure

\* Whatever the dlqueue does in a request, it makes up no failure.
LEMMA OwnKeeps ==
    ASSUME SInv, NEW p \in Procs, Own(p)
    PROVE  Kept /\ NewRowsOf(p) /\ SameFailure(p)
  <1> USE DEF At
  <1>0. TInv /\ req \in [Procs -> Request] /\ ReqTyped(req[p])
    BY DEF SInv, TInv, TypeOK
  <1>1. ASSUME NEW op \in ByIdOps, NEW i \in Ids, BeginById(p, op, i)
        PROVE  Kept /\ NewRowsOf(p) /\ SameFailure(p)
    <2>1. OthersKept(p) /\ req'[p].op = op
      BY <1>0, <1>1, IdleType DEF BeginById, Begin, OthersKept, Idle
    <2> QED
      BY <1>1, <2>1, QuietKeepsKeys DEF BeginById, SameFailure, ByIdOps
  <1>2. CASE BeginBatchReplay(p)
    <2>1. OthersKept(p) /\ req'[p].op = "replay"
      BY <1>0, <1>2, IdleType DEF BeginBatchReplay, Begin, OthersKept, Idle
    <2> QED
      BY <1>2, <2>1, QuietKeepsKeys DEF BeginBatchReplay, SameFailure
  <1>3. ASSUME NEW ids, BeginBatchResolve(p, ids)
        PROVE  Kept /\ NewRowsOf(p) /\ SameFailure(p)
    <2>1. OthersKept(p) /\ req'[p].op = "resolve"
      BY <1>0, <1>3, IdleType DEF BeginBatchResolve, Begin, OthersKept, Idle
    <2> QED
      BY <1>3, <2>1, QuietKeepsKeys DEF BeginBatchResolve, SameFailure
  <1>4. CASE IngestFindsResolved(p) \/ SaveConflict(p) \/ FindRefused(p) \/ PostRefused(p)
             \/ Abandon(p)
    BY <1>0, <1>4, QuietKeepsKeys, EndSameFailure
       DEF IngestFindsResolved, SaveConflict, FindRefused, PostRefused, Abandon
  <1>5. CASE IngestFindsRow(p)
    BY <1>0, <1>5, QuietKeepsKeys, GotoSameFailure DEF IngestFindsRow
  <1>6. CASE IngestFindsNothing(p)
    BY <1>0, <1>6, QuietKeepsKeys, GotoSameFailure DEF IngestFindsNothing
  <1>7. CASE ListRows(p)
    <2>1. CASE End(p)
      BY <1>0, <1>7, <2>1, QuietKeepsKeys, EndSameFailure DEF ListRows
    <2>2. ASSUME NEW page, req' = [req EXCEPT ![p].pc = "find", ![p].todo = page]
          PROVE  SameFailure(p)
      BY <1>0, <2>2 DEF SameFailure, OthersKept, Request
    <2> QED
      BY <1>7, <2>1, <2>2, QuietKeepsKeys DEF ListRows
  <1>8. CASE FindById(p)
    BY <1>0, <1>8, QuietKeepsKeys, GotoSameFailure DEF FindById
  <1>9. CASE Post(p) \/ PostUnacked(p)
    <2>1. req[p].ev.key \in Keys
      BY <1>0, <1>9 DEF Post, PostUnacked, ReqTyped, Request, Row
    <2> QED
      BY <1>0, <1>9, <2>1, QuietKeepsKeys, DeliveredCounts, GotoSameFailure, EndSameFailure
         DEF Post, PostUnacked
  <1>10. CASE Save(p) \/ Update(p) \/ WriteUnacked(p)
    BY <1>0, <1>10, WriteKeepsKeys, EndSameFailure DEF Save, Update, WriteUnacked
  <1> QED
    BY <1>1, <1>2, <1>3, <1>4, <1>5, <1>6, <1>7, <1>8, <1>9, <1>10 DEF Own, Step, Fault

----------------------------------------------------------------------------
(* A submission has two natural keys at most.  The invariant speaks of     *)
(* every payload that may still become the key of a row, those that a      *)
(* handler is ingesting included.                                          *)

Original(k) == [k EXCEPT !.text = Sent]

\* The payload as it was sent, or what JSONB gives back of an event that was posted.
Genuine(k) ==
    k.text # Sent =>
        /\ Backend = "postgres" /\ k.text = Jsonb
        /\ \E i \in WithKey(Original(k)) : posts[rows[i].key] > 0

Circulating ==
    waiting \cup failed \cup {rows[i].key : i \in Stored}
        \cup {req[p].key : p \in {q \in Procs : req[q].op = "ingest"}}

KInv == waiting \cup failed \subseteq Keys /\ \A k \in Circulating : Genuine(k)

\* Every payload in the loop is one.
LEMMA CirculatingKeys ==
    ASSUME SInv, KInv
    PROVE  Circulating \subseteq Keys
  <1>1. \A i \in Stored : rows[i].key \in Keys
    BY DEF SInv, TInv, TypeOK, Stored, Row
  <1>2. \A p \in Procs : req[p].op = "ingest" => req[p].key \in Keys
    BY DEF SInv, TInv, TypeOK, ReqTyped
  <1> QED
    BY <1>1, <1>2 DEF KInv, Circulating

\* A genuine payload stays one.
LEMMA GenuineStays ==
    ASSUME SInv, NEW k \in Keys, Genuine(k), Backend = "postgres" => Kept
    PROVE  Genuine(k)'
  <1>1. CASE k.text = Sent
    BY <1>1 DEF Genuine
  <1>2. CASE k.text # Sent
    <2>1. PICK i \in WithKey(Original(k)) : posts[rows[i].key] > 0
      BY <1>2 DEF Genuine
    <2>2. Kept /\ i \in Stored /\ rows[i].key = Original(k) /\ rows[i].key \in Keys
      BY <1>2, <2>1 DEF Genuine, WithKey, SInv, TInv, TypeOK, Stored, Row
    <2>3. i \in Stored' /\ rows'[i].key = Original(k) /\ posts'[rows'[i].key] > 0
      BY <2>1, <2>2 DEF Kept
    <2>4. i \in WithKey(Original(k))' /\ (posts[rows[i].key] > 0)'
      BY <2>3 DEF WithKey, Original
    <2> QED
      BY <1>2, <2>4 DEF Genuine
  <1> QED
    BY <1>1, <1>2

\* A step keeps the invariant if it puts nothing else into circulation.
LEMMA NothingElse ==
    ASSUME SInv, KInv, Backend = "postgres" => Kept, waiting' \cup failed' \subseteq Keys,
           \A k \in Circulating' : k \in Circulating \/ Genuine(k)'
    PROVE  KInv'
  BY CirculatingKeys, GenuineStays DEF KInv

\* What a step of the dlqueue alone has in circulation was there before.
LEMMA QueueCirculates ==
    ASSUME NEW p \in Procs, NewRowsOf(p), SameFailure(p), Kept,
           NEW k \in Circulating', k \notin waiting' \cup failed'
    PROVE  k \in Circulating
  <1>1. CASE \E i \in Stored' : k = rows'[i].key
    BY <1>1 DEF NewRowsOf, Kept, Circulating
  <1>2. CASE \E q \in Procs : req'[q].op = "ingest" /\ k = req'[q].key
    BY <1>2 DEF SameFailure, OthersKept, Circulating
  <1> QED
    BY <1>1, <1>2 DEF Circulating

\* The text JSONB gives back of an event that was just posted is genuine.
LEMMA ReplayedIsGenuine ==
    ASSUME SInv, KInv, NEW p \in Procs, Replayed(p), Kept,
           NEW k, k = ReadBack(req[p].ev.key)
    PROVE  k \in Keys /\ (k \in Circulating \/ Genuine(k)')
  <1>1. PICK e \in Row : e = req[p].ev /\ e # Nil
    BY DEF Replayed, Post, PostUnacked, At, SInv, TInv, TypeOK, ReqTyped, Request
  <1>2. e.id \in Ids /\ e.key \in Keys /\ req[p].pc = "post"
    BY <1>1 DEF Replayed, Post, PostUnacked, At, Row
  <1>3. e.id \in Stored /\ rows[e.id].key = e.key
    BY <1>1, <1>2 DEF SInv, CopiesSound, CopySound, Stored
  <1>4. CASE k = e.key
    BY <1>2, <1>3, <1>4 DEF Circulating
  <1>5. CASE k # e.key
    <2>1. Backend = "postgres" /\ e.key.text = Sent /\ k = [e.key EXCEPT !.text = Jsonb]
      BY <1>1, <1>5 DEF ReadBack
    <2>2. k \in Keys /\ k.text = Jsonb
      BY <1>2, <2>1, KeysAssumption DEF Sent, Jsonb, MaxText
    <2>3. Original(k) = e.key
      BY <1>2, <2>1, KeysAssumption DEF Original
    <2>4. posts'[e.key] > 0
      BY <1>1, <1>2, DeliveredCounts DEF Replayed, Post, PostUnacked, SInv
    <2>5. e.id \in WithKey(e.key)' /\ (posts[rows[e.id].key] > 0)'
      BY <1>3, <2>4 DEF Kept, WithKey
    <2>6. Genuine(k)'
      BY <2>1, <2>2, <2>3, <2>5 DEF Genuine
    <2> QED
      BY <2>2, <2>6
  <1> QED
    BY <1>4, <1>5

\* Every step of the loop keeps the invariant.
LEMMA LoopKeepsKeys ==
    ASSUME SInv, KInv, [PipelineNext]_pipeline
    PROVE  KInv'
  <1>1. ASSUME NEW k \in Keys, TriggerSucceeds(k) \/ AttemptFails(k) \/ TriggerFails(k)
        PROVE  KInv'
    <2>1. /\ UNCHANGED vars
          /\ waiting' \cup failed' \subseteq waiting \cup failed
      BY <1>1 DEF TriggerSucceeds, AttemptFails, TriggerFails
    <2>2. Kept /\ Circulating' \subseteq Circulating
      BY <2>1 DEF Kept, Circulating, Stored, vars
    <2> QED
      BY <2>1, <2>2, NothingElse DEF KInv
  <1>2. ASSUME NEW p \in Procs, NEW k \in Keys, DeliverFailure(p, k) PROVE KInv'
    <2>1. k \in failed /\ UNCHANGED <<rows, posts, sensor>>
      BY <1>2 DEF DeliverFailure, BeginIngest
    <2>2. OthersKept(p) /\ req'[p].key = k
      BY <1>2, IdleType DEF DeliverFailure, BeginIngest, MarshalPayload, Begin, OthersKept, Idle,
                            SInv, TInv, TypeOK
    <2>3. Kept /\ Circulating' \subseteq Circulating
      BY <2>1, <2>2 DEF Kept, Circulating, OthersKept, Stored, sensor
    <2> QED
      BY <2>1, <2>3, NothingElse DEF KInv, sensor
  <1>3. ASSUME NEW p \in Procs, Operate(p) \/ Ingested(p) \/ Silent(p) PROVE KInv'
    <2>1. Own(p)
      BY <1>3 DEF Operate, Ingested, Silent, Own, Step, Fault
    <2>2. waiting' = waiting /\ failed' \subseteq failed
      BY <1>3 DEF Operate, Ingested, Silent, sensor
    <2>3. Kept /\ Circulating' \subseteq Circulating
      BY <2>1, <2>2, OwnKeeps, QueueCirculates DEF Circulating
    <2> QED
      BY <2>2, <2>3, NothingElse DEF KInv
  <1>4. ASSUME NEW p \in Procs, Replayed(p) PROVE KInv'
    <2>1. Own(p)
      BY <1>4 DEF Replayed, Own, Step, Fault
    <2> PICK k : k = ReadBack(req[p].ev.key)
      OBVIOUS
    <2>2. waiting' = waiting \cup {k} /\ failed' = failed
      BY <1>4 DEF Replayed
    <2>3. Kept /\ k \in Keys /\ (k \in Circulating \/ Genuine(k)')
      BY <1>4, <2>1, OwnKeeps, ReplayedIsGenuine
    <2>4. ASSUME NEW j \in Circulating' PROVE j \in Circulating \/ Genuine(j)'
      <3>1. CASE j \in waiting' \cup failed'
        BY <2>2, <2>3, <3>1 DEF Circulating
      <3>2. CASE j \notin waiting' \cup failed'
        BY <2>1, <3>2, OwnKeeps, QueueCirculates
      <3> QED
        BY <3>1, <3>2
    <2> QED
      BY <2>2, <2>3, <2>4, NothingElse DEF KInv
  <1>5. CASE Restart /\ UNCHANGED sensor
    <2>1. Backend = "postgres" => Kept
      BY <1>5 DEF Restart, Kept, Stored
    <2>2. Circulating' \subseteq Circulating
      BY <1>5, IdleType DEF Restart, Circulating, Stored, sensor
    <2> QED
      BY <1>5, <2>1, <2>2, NothingElse DEF KInv, sensor
  <1>6. CASE UNCHANGED pipeline
    <2>1. UNCHANGED vars /\ UNCHANGED sensor
      BY <1>6 DEF pipeline
    <2>2. Kept /\ Circulating' \subseteq Circulating
      BY <2>1 DEF Kept, Circulating, Stored, vars, sensor
    <2> QED
      BY <2>1, <2>2, NothingElse DEF KInv, sensor
  <1> QED
    BY <1>1, <1>2, <1>3, <1>4, <1>5, <1>6 DEF PipelineNext

\* However often an event is replayed and fails, a submission has at most two
\* natural keys, and the second only once the event of the first was posted.
THEOREM KeysChangeOnce == PipelineSpec => []TwoKeysAtMost
  <1>1. PipelineInit => KInv
    BY KeysAssumption, IdleType
       DEF PipelineInit, Init, KInv, Circulating, Genuine, Stored, Sent, MaxText
  <1>2. KInv => TwoKeysAtMost
    BY DEF KInv, Circulating, Genuine, Original, TwoKeysAtMost
  <1> QED
    BY <1>1, <1>2, LoopKeepsKeys, QueueInvariant, PTL DEF PipelineSpec

----------------------------------------------------------------------------
(* Nothing is lost, when requests do not overlap.  Before a handler writes *)
(* "replayed", the sensor has had the payload, and no other handler has    *)
(* taken it in again.                                                      *)

\* The write service knows the key of s, or the sensor has s.
Covered(s) == s \in recorded \/ \E k \in waiting \cup failed : k.sub = s

\* What p is about to write leaves its submission visible, or covered.
CopyCovered(p) ==
    req[p].pc \in {"save", "update"} /\ req[p].ev.status = "replayed" =>
        req[p].op # "ingest" /\ Covered(req[p].ev.key.sub)

Visible(s) == \E i \in RowsOf(s) : rows[i].status # "replayed"

LInv ==
    /\ \A s \in Subs : Covered(s) \/ Visible(s)
    /\ \A p \in Procs : CopyCovered(p)

\* A step that leaves the table and what the sensor has alone.
LEMMA TableKept ==
    ASSUME LInv, OneAtATime, NEW p \in Procs, CopyCovered(p)', UNCHANGED rows,
           \A s \in Subs : Covered(s) => Covered(s)' \/ Visible(s)
    PROVE  LInv'
  BY DEF LInv, OneAtATime, Visible, RowsOf, Stored

\* A handler that holds nothing to write.
LEMMA NothingToWrite ==
    ASSUME NEW p \in Procs, req'[p].pc \notin {"save", "update"}
    PROVE  CopyCovered(p)'
  BY DEF CopyCovered

\* A write shows the submission, or the sensor has it.
LEMMA WriteKeepsVisible ==
    ASSUME SInv, LInv, OneAtATime, NEW p \in Procs,
           req[p].pc \in {"save", "update"}, req'[p].pc \notin {"save", "update"},
           rows' = [rows EXCEPT ![req[p].ev.id] = req[p].ev],
           waiting' = waiting, recorded' = recorded,
           \/ failed' = failed
           \/ req[p].op = "ingest" /\ failed' = {k \in failed : k # req[p].key}
    PROVE  LInv'
  <1>1. PICK e \in Row : e = req[p].ev /\ e # Nil /\ e.id \in Ids
    BY DEF SInv, TInv, TypeOK, ReqTyped, Request, Row
  <1>2. CopySound(p) /\ CopyCovered(p) /\ rows \in [Ids -> Row \cup {Nil}]
    BY DEF SInv, TInv, TypeOK, CopiesSound, LInv
  <1>3. /\ rows[e.id] # Nil => rows[e.id].key = e.key
        /\ req[p].op = "ingest" => e.key = req[p].key
    BY <1>1, <1>2 DEF CopySound
  <1>4. rows'[e.id] = e /\ \A i \in Ids \ {e.id} : rows'[i] = rows[i]
    BY <1>1, <1>2
  <1>5. e.id \in RowsOf(e.key.sub)'
    BY <1>1, <1>4 DEF RowsOf, Stored
  <1>6. ASSUME NEW s \in Subs PROVE (Covered(s) \/ Visible(s))'
    <2>1. CASE s = e.key.sub /\ e.status # "replayed"
      BY <1>4, <1>5, <2>1 DEF Visible
    <2>2. CASE s = e.key.sub /\ e.status = "replayed"
      BY <1>1, <1>2, <2>2 DEF CopyCovered, Covered
    <2>3. CASE s # e.key.sub
      <3>1. Covered(s) => Covered(s)'
        BY <1>3, <2>3 DEF Covered
      <3>2. Visible(s) => Visible(s)'
        BY <1>1, <1>3, <1>4, <2>3 DEF Visible, RowsOf, Stored
      <3> QED
        BY <3>1, <3>2 DEF LInv
    <2> QED
      BY <2>1, <2>2, <2>3
  <1>7. \A q \in Procs : CopyCovered(q)'
    BY NothingToWrite DEF OneAtATime
  <1> QED
    BY <1>6, <1>7 DEF LInv

\* A step of the dlqueue after which nothing is to be written.
LEMMA QuietKeepsVisible ==
    ASSUME LInv, OneAtATime, NEW p \in Procs, req'[p].pc \notin {"save", "update"},
           UNCHANGED <<rows, sensor>>
    PROVE  LInv'
  <1>1. \A s \in Subs : Covered(s) => Covered(s)'
    BY DEF Covered, sensor
  <1> QED
    BY <1>1, NothingToWrite, TableKept

\* The steps of the sensor lose nothing.
LEMMA SensorKeepsVisible ==
    ASSUME LInv, NEW k \in Keys,
           TriggerSucceeds(k) \/ AttemptFails(k) \/ TriggerFails(k)
    PROVE  LInv'
  <1>1. UNCHANGED <<rows, req>>
    BY DEF TriggerSucceeds, AttemptFails, TriggerFails, vars
  <1>2. \A s : Covered(s) => Covered(s)'
    BY DEF TriggerSucceeds, AttemptFails, TriggerFails, Covered
  <1> QED
    BY <1>1, <1>2 DEF LInv, CopyCovered, Visible, RowsOf, Stored

\* An ingest that is answered 201 shows the failure it takes from the sensor.
LEMMA IngestedKeepsVisible ==
    ASSUME SInv, LInv, OneAtATime, NEW p \in Procs, Ingested(p)
    PROVE  LInv'
  <1>0. TInv
    BY DEF SInv
  <1>1. waiting' = waiting /\ recorded' = recorded /\ failed' = {k \in failed : k # req[p].key}
    BY DEF Ingested, MarshalPayload
  <1>2. CASE IngestFindsResolved(p)
    <2>1. PICK i \in WithKey(req[p].key) : rows[i].status = "resolved"
      BY <1>2 DEF IngestFindsResolved
    <2>2. ASSUME NEW s \in Subs, Covered(s) PROVE Covered(s)' \/ Visible(s)
      <3>1. CASE s = req[p].key.sub
        BY <2>1, <3>1 DEF Visible, RowsOf, WithKey
      <3>2. CASE s # req[p].key.sub
        BY <1>1, <2>2, <3>2 DEF Covered
      <3> QED
        BY <3>1, <3>2
    <2>3. UNCHANGED rows /\ req'[p].pc = "idle"
      BY <1>0, <1>2, EndKeepsOthers DEF IngestFindsResolved
    <2> QED
      BY <2>2, <2>3, NothingToWrite, TableKept
  <1>3. CASE Save(p)
    <2>1. req[p].op = "ingest" /\ req[p].pc = "save"
      BY <1>0, <1>3 DEF Save, At, TInv, ReqTyped
    <2>2. req'[p].pc = "idle"
      BY <1>0, <1>3, EndKeepsOthers DEF Save
    <2> QED
      BY <1>1, <1>3, <2>1, <2>2, WriteKeepsVisible DEF Save
  <1>4. CASE req[p].op = "ingest" /\ Update(p)
    <2>1. req'[p].pc = "idle"
      BY <1>0, <1>4, EndKeepsOthers DEF Update
    <2> QED
      BY <1>1, <1>4, <2>1, WriteKeepsVisible DEF Update, At
  <1> QED
    BY <1>2, <1>3, <1>4 DEF Ingested

\* A replay that arrives gives the submission back to the sensor.
LEMMA ReplayedKeepsVisible ==
    ASSUME SInv, LInv, OneAtATime, NEW p \in Procs, Replayed(p)
    PROVE  LInv'
  <1>0. TInv
    BY DEF SInv
  <1>1. PICK k \in Keys : k = req[p].ev.key
    BY <1>0 DEF Replayed, Post, PostUnacked, At, TInv, TypeOK, ReqTyped, Request, Row
  <1>2. ReadBack(k).sub = k.sub
    BY KeysAssumption DEF ReadBack
  <1>3. UNCHANGED <<rows, failed, recorded>> /\ waiting' = waiting \cup {ReadBack(k)}
    BY <1>1 DEF Replayed, Post, PostUnacked
  <1>4. Covered(k.sub)' /\ \A s : Covered(s) => Covered(s)'
    BY <1>2, <1>3 DEF Covered
  <1>5. CASE Post(p)
    <2>1. req[p].op = "replay"
      BY <1>0, <1>5 DEF Post, At, TInv, ReqTyped
    <2>2. req'[p].op = "replay" /\ req'[p].ev = req[p].ev
      BY <1>0, <1>5, <2>1, GotoKeeps DEF Post
    <2>3. CopyCovered(p)'
      BY <1>1, <1>4, <2>2 DEF CopyCovered
    <2> QED
      BY <1>3, <1>4, <2>3, TableKept
  <1>6. CASE PostUnacked(p)
    <2>1. req'[p].pc = "idle"
      BY <1>0, <1>6, EndKeepsOthers DEF PostUnacked
    <2> QED
      BY <1>3, <1>4, <2>1, NothingToWrite, TableKept
  <1> QED
    BY <1>5, <1>6 DEF Replayed

\* The steps the sensor hears nothing of.
LEMMA SilentKeepsVisible ==
    ASSUME SInv, LInv, OneAtATime, NEW p \in Procs, Silent(p)
    PROVE  LInv'
  <1> USE DEF At
  <1>0. TInv /\ req \in [Procs -> Request] /\ ReqTyped(req[p]) /\ UNCHANGED sensor
    BY DEF SInv, TInv, TypeOK, Silent
  <1>1. CASE SaveConflict(p) \/ FindRefused(p) \/ PostRefused(p) \/ Abandon(p)
    BY <1>0, <1>1, EndKeepsOthers, QuietKeepsVisible
       DEF SaveConflict, FindRefused, PostRefused, Abandon
  <1>2. CASE ListRows(p)
    <2>1. req'[p].pc \in {"idle", "find"}
      BY <1>0, <1>2, EndKeepsOthers DEF ListRows, Request
    <2> QED
      BY <1>0, <1>2, <2>1, QuietKeepsVisible DEF ListRows
  <1>3. CASE IngestFindsRow(p)
    <2>1. PICK i \in WithKey(req[p].key) : Goto(p, "update", ReIngest(rows[i]))
      BY <1>3 DEF IngestFindsRow
    <2>2. rows[i] \in Row
      BY <2>1 DEF WithKey, Stored, SInv, TInv, TypeOK
    <2>3. ReIngest(rows[i]).status # "replayed"
      BY <2>2 DEF Row, ReIngest
    <2>4. CopyCovered(p)'
      BY <1>0, <2>1, <2>3, GotoKeeps DEF CopyCovered
    <2>5. \A s \in Subs : Covered(s) => Covered(s)'
      BY <1>0 DEF Covered, sensor
    <2> QED
      BY <1>3, <2>4, <2>5, TableKept DEF IngestFindsRow
  <1>4. CASE IngestFindsNothing(p)
    <2>1. PICK i \in FreshIds, m \in Thresholds :
              Goto(p, "save", NewDLQEvent(i, req[p].key, m))
      BY <1>4 DEF IngestFindsNothing
    <2>2. NewDLQEvent(i, req[p].key, m).status # "replayed"
      BY DEF NewDLQEvent
    <2>3. CopyCovered(p)'
      BY <1>0, <2>1, <2>2, GotoKeeps DEF CopyCovered
    <2>4. \A s \in Subs : Covered(s) => Covered(s)'
      BY <1>0 DEF Covered, sensor
    <2> QED
      BY <1>4, <2>3, <2>4, TableKept DEF IngestFindsNothing
  <1>5. CASE FindById(p)
    <2>1. PICK e \in Row : e = rows[Head(req[p].todo)] /\ e # Nil
      <3>1. Head(req[p].todo) \in Ids
        BY <1>0, <1>5 DEF FindById, ReqTyped, Request
      <3> QED
        BY <1>0, <1>5, <3>1 DEF FindById, TInv, TypeOK
    <2>2. Goto(p, IF req[p].op = "replay" THEN "post" ELSE "update", Apply(req[p].op, e))
      BY <1>5, <2>1 DEF FindById
    <2>3. CASE req[p].op = "replay"
      BY <1>0, <1>5, <2>2, <2>3, GotoKeeps, QuietKeepsVisible DEF FindById
    <2>4. CASE req[p].op # "replay"
      <3>1. Apply(req[p].op, e).status # "replayed"
        BY <1>5, <2>1, <2>4 DEF FindById, ByIdOps, Apply, Resolve, ResetPoison, Row
      <3>2. CopyCovered(p)'
        BY <1>0, <2>2, <3>1, GotoKeeps DEF CopyCovered
      <3>3. \A s \in Subs : Covered(s) => Covered(s)'
        BY <1>0 DEF Covered, sensor
      <3> QED
        BY <1>5, <3>2, <3>3, TableKept DEF FindById
    <2> QED
      BY <2>3, <2>4
  <1>6. CASE req[p].op # "ingest" /\ Update(p)
    <2>1. req'[p].pc \in {"idle", "find"}
      BY <1>0, <1>6, NextRowKeepsOthers DEF Update
    <2> QED
      BY <1>0, <1>6, <2>1, WriteKeepsVisible DEF Update, sensor
  <1>7. CASE WriteUnacked(p)
    <2>1. req'[p].pc = "idle"
      BY <1>0, <1>7, EndKeepsOthers DEF WriteUnacked
    <2> QED
      BY <1>0, <1>7, <2>1, WriteKeepsVisible DEF WriteUnacked, sensor
  <1> QED
    BY <1>1, <1>2, <1>3, <1>4, <1>5, <1>6, <1>7 DEF Silent

\* Every step of the loop keeps the submissions stored, covered or visible.
LEMMA LoopKeepsVisible ==
    ASSUME SInv, LInv, OneAtATime, [PipelineNext]_pipeline
    PROVE  LInv'
  <1>0. req \in [Procs -> Request]
    BY DEF SInv, TInv, TypeOK
  <1>1. ASSUME NEW p \in Procs, NEW k \in Keys, DeliverFailure(p, k) PROVE LInv'
    <2>1. req'[p].pc = "find"
      BY <1>0, <1>1 DEF DeliverFailure, BeginIngest, Begin, Idle
    <2> QED
      BY <1>1, <2>1, QuietKeepsVisible DEF DeliverFailure, BeginIngest
  <1>2. ASSUME NEW p \in Procs, Operate(p) PROVE LInv'
    <2>1. req'[p].pc \in {"find", "list"} /\ UNCHANGED rows
      BY <1>0, <1>2 DEF Operate, BeginById, BeginBatchReplay, BeginBatchResolve, Begin, Idle
    <2> QED
      BY <1>2, <2>1, QuietKeepsVisible DEF Operate
  <1>3. CASE Restart /\ UNCHANGED sensor
    <2>1. UNCHANGED rows /\ \A p \in Procs : req'[p].pc = "idle"
      BY <1>3, IdleType, BackendAssumption DEF Restart, OneAtATime
    <2>2. \A s \in Subs : (Covered(s) => Covered(s)') /\ (Visible(s) => Visible(s)')
      BY <1>3, <2>1 DEF Covered, Visible, RowsOf, Stored, sensor
    <2> QED
      BY <2>1, <2>2, NothingToWrite DEF LInv
  <1>4. CASE UNCHANGED pipeline
    BY <1>4 DEF pipeline, vars, sensor, LInv, CopyCovered, Covered, Visible, RowsOf, Stored
  <1> QED
    BY <1>1, <1>2, <1>3, <1>4, SensorKeepsVisible, IngestedKeepsVisible, ReplayedKeepsVisible,
       SilentKeepsVisible DEF PipelineNext

\* Without faults the keys on record are those of stored submissions.
BInv == Faults \/ recorded \subseteq saved

\* An accepted submission that is not stored is under way or is an event that
\* does not read replayed, whatever fails on the way round, unless a failed
\* attempt of the write service has burnt its key.
THEOREM ReplaysAreSafe ==
    ASSUME OneAtATime
    PROVE  PipelineSpec => []NothingLost
  <1>1. PipelineInit => LInv
    <2>1. \A s \in Subs : [sub |-> s, text |-> Sent] \in [sub : Subs, text : {Sent}]
      OBVIOUS
    <2> QED
      BY <2>1, IdleType DEF PipelineInit, Init, LInv, CopyCovered, Covered
  <1>2. LInv => NothingLost
    BY DEF LInv, NothingLost, OnItsWay, Covered, Visible
  <1> QED
    BY <1>1, <1>2, LoopKeepsVisible, QueueInvariant, PTL DEF PipelineSpec

\* Without faults no key is burnt, and the claim of the README holds as it
\* stands: what is not stored is under way or shown.
THEOREM ReplaysStoreWithoutFaults ==
    ASSUME OneAtATime, ~Faults
    PROVE  PipelineSpec => []ReplaysStore
  <1>1. PipelineInit => BInv
    BY DEF PipelineInit, BInv
  <1>2. BInv /\ [PipelineNext]_pipeline => BInv'
    BY DEF BInv, PipelineNext, pipeline, sensor, TriggerSucceeds, AttemptFails, TriggerFails,
           DeliverFailure, Operate, Ingested, Replayed, Silent
  <1>3. BInv /\ NothingLost => ReplaysStore
    BY DEF BInv, NothingLost, ReplaysStore
  <1> QED
    BY <1>1, <1>2, <1>3, ReplaysAreSafe, PTL DEF PipelineSpec
=============================================================================
