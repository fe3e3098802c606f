--------------------------- MODULE IngestionProofs ---------------------------
(***************************************************************************)
(* One cycle at a time and a status that tells the truth, for any number   *)
(* of triggers, queries and books, and whatever is cancelled or fails.     *)
(***************************************************************************)
EXTENDS Ingestion, FiniteSetTheorems, TLAPS

\* The invariant: the properties are inductive together.
IInv == TypeOK /\ StateIsTrue /\ CountsAddUp

----------------------------------------------------------------------------
LEMMA BooksFinite ==
    ASSUME NEW S \in SUBSET Books
    PROVE  IsFiniteSet(S) /\ Cardinality(S) \in Nat
  BY CycleAssumption, FS_Subset, FS_CardinalityType

LEMMA NothingCounted == Nothing \in Result /\ Counted(Nothing, {})
  BY FS_EmptySet DEF Nothing, Result, Counted

LEMMA IdleSound == Idle \in Cycle /\ Idle.pc = "idle" /\ Counted(Idle.result, Idle.books)
  BY NothingCounted DEF Idle, Cycle

\* A caller outside a cycle changes what it is doing: the status stays true.
LEMMA OutsideKeeps ==
    ASSUME IInv, NEW c \in Cycles, ~Scraping(c), NEW new \in Cycle,
           new.pc # "search", Counted(new.result, new.books),
           cycle' = [cycle EXCEPT ![c] = new],
           UNCHANGED status, tick' \in BOOLEAN, UNCHANGED server
    PROVE  IInv'
  <1>1. cycle'[c] = new /\ \A d \in Cycles \ {c} : cycle'[d] = cycle[d]
    BY DEF IInv, TypeOK
  <1>2. TypeOK'
    BY DEF IInv, TypeOK, status
  <1>3. \A d \in Cycles : Scraping(d)' <=> Scraping(d)
    BY <1>1 DEF Scraping
  <1>4. StateIsTrue'
    BY <1>3 DEF IInv, StateIsTrue, status
  <1>5. CountsAddUp'
    BY <1>1 DEF IInv, CountsAddUp, Counted, status
  <1> QED
    BY <1>2, <1>4, <1>5 DEF IInv

\* A running cycle advances and has counted what it did.
LEMMA AdvanceKeeps ==
    ASSUME IInv, NEW c \in Cycles, Scraping(c),
           NEW queries \in Nat, NEW books \in SUBSET Books, NEW result \in Result,
           Counted(result, books), Advance(c, queries, books, result),
           UNCHANGED <<status, tick, server>>
    PROVE  IInv'
  <1> DEFINE new == [pc |-> "search", live |-> cycle[c].live,
                     queries |-> queries, books |-> books, result |-> result]
  <1>1. new \in Cycle
    BY DEF Cycle, IInv, TypeOK
  <1>2. cycle'[c] = new /\ \A d \in Cycles \ {c} : cycle'[d] = cycle[d]
    BY DEF Advance, IInv, TypeOK
  <1>3. TypeOK'
    BY <1>1 DEF Advance, IInv, TypeOK, status
  <1>4. \A d \in Cycles : Scraping(d)' <=> Scraping(d)
    BY <1>2 DEF Scraping
  <1>5. StateIsTrue'
    BY <1>4 DEF IInv, StateIsTrue, status
  <1>6. new.result = result /\ new.books = books
    OBVIOUS
  <1>7. CountsAddUp'
    BY <1>2, <1>6 DEF IInv, CountsAddUp, Counted, status
  <1> QED
    BY <1>3, <1>5, <1>7 DEF IInv

\* Into a cycle, and out of it.
LEMMA EnterKeeps ==
    ASSUME IInv, NEW c \in Cycles, Enter(c)
    PROVE  IInv'
  <1> DEFINE new == [pc |-> "search", live |-> cycle[c].live,
                     queries |-> cycle[c].queries, books |-> {}, result |-> Nothing]
  <1>1. new \in Cycle /\ Counted(new.result, new.books)
    BY NothingCounted DEF Cycle, IInv, TypeOK
  <1>2. cycle'[c] = new /\ \A d \in Cycles \ {c} : cycle'[d] = cycle[d]
    BY DEF Enter, Advance, IInv, TypeOK
  <1>3. TypeOK'
    BY <1>1 DEF Enter, Advance, IInv, TypeOK
  <1>4. \A d \in Cycles : ~Scraping(d)
    BY DEF Enter, IInv, StateIsTrue
  <1>5. \A d \in Cycles : Scraping(d)' <=> d = c
    BY <1>2, <1>4 DEF Scraping
  <1>6. StateIsTrue'
    BY <1>5 DEF Enter, StateIsTrue
  <1>7. CountsAddUp'
    BY <1>1, <1>2 DEF Enter, IInv, CountsAddUp, Counted
  <1> QED
    BY <1>3, <1>6, <1>7 DEF IInv

LEMMA FinishKeeps ==
    ASSUME IInv, NEW c \in Cycles, Finish(c)
    PROVE  IInv'
  <1>1. cycle'[c] = Idle /\ \A d \in Cycles \ {c} : cycle'[d] = cycle[d]
    BY DEF Finish, End, IInv, TypeOK
  <1>2. cycle[c].result \in Result
    BY DEF IInv, TypeOK, Cycle
  <1>3. TypeOK'
    BY <1>2, IdleSound DEF Finish, End, IInv, TypeOK
  <1>4. \A d \in Cycles : ~Scraping(d)'
    BY <1>1, IdleSound DEF Finish, At, Scraping, IInv, StateIsTrue
  <1>5. StateIsTrue'
    BY <1>4 DEF Finish, StateIsTrue
  <1>6. Counted(last', {})
    BY DEF Finish, IInv, CountsAddUp
  <1>7. CountsAddUp'
    BY <1>1, <1>6, IdleSound DEF IInv, CountsAddUp, Counted
  <1> QED
    BY <1>3, <1>5, <1>7 DEF IInv

----------------------------------------------------------------------------
\* Each step of TriggerScrape keeps the invariant.
LEMMA StepKeeps ==
    ASSUME IInv, NEW c \in Cycles, Step(c)
    PROVE  IInv'
  <1>0. /\ cycle[c] \in Cycle /\ cycle[c].result \in Result
        /\ cycle[c].queries \in Nat /\ cycle[c].books \in SUBSET Books
        /\ Counted(cycle[c].result, cycle[c].books)
    BY DEF IInv, TypeOK, Cycle, CountsAddUp
  <1>1. CASE Enter(c)
    BY <1>1, EnterKeeps
  <1>2. CASE Refused(c)
    BY <1>2, IdleSound, OutsideKeeps DEF Refused, End, At, Scraping, IInv, TypeOK
  <1>3. CASE SearchFails(c)
    <2>1. cycle[c].queries - 1 \in Nat
      BY <1>0, <1>3 DEF SearchFails, NextQuery
    <2>2. PlusError(cycle[c].result) \in Result
      BY <1>0 DEF PlusError, Result
    <2>3. Counted(PlusError(cycle[c].result), {})
      BY <1>0, <1>3, FS_EmptySet DEF SearchFails, NextQuery, PlusError, Counted, Result
    <2> QED
      BY <1>3, <2>1, <2>2, <2>3, AdvanceKeeps DEF SearchFails, NextQuery, At, Scraping
  <1>4. CASE Finish(c)
    BY <1>4, FinishKeeps
  <1>5. ASSUME NEW found \in SUBSET Books, SearchBooks(c, found) PROVE IInv'
    <2> DEFINE r == [found     |-> cycle[c].result.found + Cardinality(found),
                     published |-> cycle[c].result.published,
                     errors    |-> cycle[c].result.errors]
    <2>1. cycle[c].queries - 1 \in Nat
      BY <1>0, <1>5 DEF SearchBooks, NextQuery
    <2>2. r \in Result
      BY <1>0, BooksFinite DEF Result
    <2>3. Counted(cycle[c].result, {})
      BY <1>0, <1>5 DEF SearchBooks, NextQuery
    <2>4. Counted(r, found)
      BY <1>0, <2>3, BooksFinite, FS_EmptySet DEF Counted, Result
    <2>5. Advance(c, cycle[c].queries - 1, found, r) /\ Scraping(c)
      BY <1>5 DEF SearchBooks, NextQuery, At, Scraping
    <2> QED
      BY <1>5, <2>1, <2>2, <2>4, <2>5, AdvanceKeeps DEF SearchBooks
  <1>6. ASSUME NEW b \in Books, PublishBookAdded(c, b) PROVE IInv'
    <2> DEFINE r == [found     |-> cycle[c].result.found,
                     published |-> cycle[c].result.published + 1,
                     errors    |-> cycle[c].result.errors]
    <2>1. r \in Result
      BY <1>0 DEF Result
    <2>2. /\ Cardinality(cycle[c].books \ {b}) = Cardinality(cycle[c].books) - 1
          /\ Cardinality(cycle[c].books) \in Nat
      BY <1>0, <1>6, BooksFinite, FS_RemoveElement DEF PublishBookAdded
    <2>3. Counted(r, cycle[c].books \ {b})
      BY <1>0, <2>2 DEF Counted, Result
    <2>4. Advance(c, cycle[c].queries, cycle[c].books \ {b}, r) /\ Scraping(c)
      BY <1>6 DEF PublishBookAdded, At, Scraping
    <2> QED
      BY <1>0, <1>6, <2>1, <2>3, <2>4, AdvanceKeeps DEF PublishBookAdded
  <1>7. ASSUME NEW b \in Books, PublishFails(c, b) PROVE IInv'
    <2>1. PlusError(cycle[c].result) \in Result
      BY <1>0 DEF PlusError, Result
    <2>2. /\ Cardinality(cycle[c].books \ {b}) = Cardinality(cycle[c].books) - 1
          /\ Cardinality(cycle[c].books) \in Nat
      BY <1>0, <1>7, BooksFinite, FS_RemoveElement DEF PublishFails
    <2>3. Counted(PlusError(cycle[c].result), cycle[c].books \ {b})
      BY <1>0, <2>2 DEF PlusError, Counted, Result
    <2> QED
      BY <1>0, <1>7, <2>1, <2>3, AdvanceKeeps DEF PublishFails, At, Scraping
  <1> QED
    BY <1>1, <1>2, <1>3, <1>4, <1>5, <1>6, <1>7 DEF Step

\* A call of TriggerScrape begins.
LEMMA CallKeeps ==
    ASSUME IInv, NEW c \in Cycles, At(c, "idle"), NEW n \in Nat, NEW live \in BOOLEAN,
           Call(c, n, live), UNCHANGED status, tick' \in BOOLEAN, UNCHANGED server
    PROVE  IInv'
  <1> DEFINE new == [pc |-> "begin", live |-> live, queries |-> OrDefaults(n),
                     books |-> {}, result |-> Nothing]
  <1>1. OrDefaults(n) \in Nat
    BY QueriesAssumption DEF OrDefaults
  <1>2. new \in Cycle /\ new.pc # "search" /\ Counted(new.result, new.books)
    BY <1>1, NothingCounted DEF Cycle
  <1>3. cycle' = [cycle EXCEPT ![c] = new] /\ ~Scraping(c)
    BY DEF Call, At, Scraping
  <1> HIDE DEF new
  <1> QED
    BY <1>2, <1>3, OutsideKeeps

\* A context is cancelled: only "live" of a caller changes.
LEMMA CancelKeeps ==
    ASSUME IInv, NEW c \in Cycles, NEW live \in BOOLEAN,
           cycle' = [cycle EXCEPT ![c].live = live],
           UNCHANGED <<status, tick>>,
           server' \in {"serving", "draining", "closing", "exited"}
    PROVE  IInv'
  <1>1. cycle[c] \in Cycle
    BY DEF IInv, TypeOK
  <1>2. cycle' \in [Cycles -> Cycle]
    BY <1>1 DEF IInv, TypeOK, Cycle
  <1>3. \A d \in Cycles : /\ cycle'[d].pc = cycle[d].pc
                          /\ cycle'[d].result = cycle[d].result
                          /\ cycle'[d].books = cycle[d].books
    BY <1>1 DEF IInv, TypeOK, Cycle
  <1>4. \A d \in Cycles : Scraping(d)' <=> Scraping(d)
    BY <1>3 DEF Scraping
  <1>5. StateIsTrue'
    BY <1>4 DEF IInv, StateIsTrue, status
  <1>6. CountsAddUp'
    BY <1>3 DEF IInv, CountsAddUp, Counted, status
  <1> QED
    BY <1>2, <1>5, <1>6 DEF IInv, TypeOK, status

----------------------------------------------------------------------------
\* IInv is an invariant of the service: at most one cycle runs and the status
\* says so, and no book is lost from the counts.
THEOREM SafetyInvariant == Spec => []IInv
  <1>1. Init => IInv
    BY IdleSound DEF Init, IInv, TypeOK, StateIsTrue, CountsAddUp, Scraping
  <1>2. ASSUME IInv, [Next]_vars PROVE IInv'
    <2> USE <1>2
    <2>0. Poll \in Cycles /\ \A c \in Triggers : c \in Cycles
      BY DEF Cycles
    <2>1. CASE UNCHANGED vars
      BY <2>1 DEF vars, status, IInv, TypeOK, StateIsTrue, CountsAddUp, Counted, Scraping
    <2>2. CASE Tick \/ Signal \/ Exit
      BY <2>2 DEF Tick, Signal, Exit, status, IInv, TypeOK, StateIsTrue, CountsAddUp,
                  Counted, Scraping
    <2>3. CASE PollTick
      BY <2>0, <2>3, CallKeeps DEF PollTick
    <2>4. CASE Drained \/ ListenFails
      BY <2>0, <2>4, CancelKeeps DEF Drained, ListenFails, PollCancel
    <2>5. CASE Restart
      BY <2>5, IdleSound DEF Restart, IInv, TypeOK, StateIsTrue, CountsAddUp, Scraping
    <2>6. ASSUME NEW c \in Triggers, Disconnect(c) PROVE IInv'
      BY <2>0, <2>6, CancelKeeps DEF Disconnect, IInv, TypeOK
    <2>7. ASSUME NEW c \in Triggers, NEW n \in 0..MaxQueries, Trigger(c, n) PROVE IInv'
      <3>1. n \in Nat /\ c \in Cycles /\ tick \in BOOLEAN
        BY <2>0, QueriesAssumption DEF IInv, TypeOK
      <3> QED
        BY <2>7, <3>1, CallKeeps DEF Trigger
    <2>8. ASSUME NEW c \in Cycles, Step(c) PROVE IInv'
      BY <2>8, StepKeeps
    <2> QED
      BY <2>1, <2>2, <2>3, <2>4, <2>5, <2>6, <2>7, <2>8 DEF Next
  <1> QED
    BY <1>1, <1>2, PTL DEF Spec

\* The status is "running" exactly while one cycle is, however ticks, triggers,
\* failures, cancellations and the shutdown meet.
THEOREM OneCycleAtATime == Spec => []StateIsTrue
  BY SafetyInvariant, PTL DEF IInv

\* No book is lost between found, published and errors.
THEOREM NothingUncounted == Spec => []CountsAddUp
  BY SafetyInvariant, PTL DEF IInv

\* TypeOK is an invariant of the service.
THEOREM TypeCorrect == Spec => []TypeOK
  BY SafetyInvariant, PTL DEF IInv
=============================================================================
