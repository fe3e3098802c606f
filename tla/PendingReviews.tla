--------------------------- MODULE PendingReviews ---------------------------
(***************************************************************************)
(* productpage shows one product.  A review that was submitted travels     *)
(* through the event pipeline before the reviews service has it; until     *)
(* then a Redis list holds it as pending, and a Redis set holds the ids of *)
(* reviews that are being deleted.  Every load of the reviews partial      *)
(* fetches one page of stored reviews and reconciles both against it, one  *)
(* Redis command after the other, while other loads, forms and the         *)
(* pipeline go on.                                                         *)
(***************************************************************************)
EXTENDS Naturals, Sequences, FiniteSets, SequencesExt

CONSTANTS
    Subs,       \* submissions; each has an idempotency key of its own, so at
                \* most one row (IdempotentWrite), which is named after it
    Texts,      \* pairs of a reviewer and a text
    Text,       \* [Subs -> Texts], what was written
    Seconds,    \* the clock of NewReview: equal for submissions close together
    Tabs,       \* browsers with a reviews section
    Author,     \* [Subs -> Tabs], the browser a review is written in
    Loads,      \* requests for the partial under way at the same time (a bound)
    PageSize,   \* rows on a page (10)
    Pages,      \* the page numbers that are asked for
    Deletable,  \* the reviews somebody may delete (a bound)
    Faults      \* whether calls fail

ASSUME TextAssumption == Text \in [Subs -> Texts]
ASSUME TabsAssumption == Tabs # {}
ASSUME AuthorAssumption == Author \in [Subs -> Tabs]
ASSUME PageAssumption == PageSize \in Nat \ {0} /\ Pages \subseteq Nat \ {0} /\ 1 \in Pages
ASSUME FaultsAssumption == Faults \in BOOLEAN

VARIABLES
    reviews,    \* rows of the reviews service, newest first
    inflight,   \* submissions the event source took and the service has not applied
    deletes,    \* the same for deletions
    pending,    \* the Redis list
    deleting,   \* the Redis set
    form,       \* [Subs -> where partialRatingSubmit is]
    removal,    \* [Tabs -> [Subs -> where partialDeleteReview is]]
    load,       \* [Loads -> the load of the partial]
    section,    \* [Tabs -> what #reviews-section shows]
    marked,     \* history: submissions whose StorePending succeeded
    everStored, \* history: submissions that have had a row
    condemned   \* history: rows that were marked as being deleted

pipeline == <<reviews, inflight, deletes, everStored>>
forms    == <<form, removal, marked, condemned>>
redis    == <<pending, deleting>>
pages    == <<load, section>>
vars     == <<pipeline, forms, redis, pages>>

Entries == [text : Texts, at : Seconds]

Load == [pc   : {"idle", "pending", "lrem", "srem"},
         tab  : Tabs,               \* whose section the answer replaces
         page : Pages,
         seen : Seq(Subs),          \* the page of confirmed reviews, as fetched
         drop : SUBSET Entries,     \* pending entries still to be removed
         left : SUBSET Entries,     \* pending entries to be shown
         gone : SUBSET Subs,        \* marks still to be removed
         kept : SUBSET Subs,        \* marks to be shown
         due  : SUBSET Entries]     \* history: what was pending when it began, less
                                    \* what other loads have removed since

Closed == [pc |-> "idle", tab |-> CHOOSE p \in Tabs : TRUE, page |-> 1, seen |-> <<>>,
           drop |-> {}, left |-> {}, gone |-> {}, kept |-> {}, due |-> {}]

Section == [left    : SUBSET Entries,   \* what it has as pending
            kept    : SUBSET Subs,      \* rows with the badge "Deleting..."
            buttons : SUBSET Subs]      \* rows with a delete button

Blank == [left |-> {}, kept |-> {}, buttons |-> {}]

Init ==
    /\ reviews = <<>> /\ inflight = {} /\ deletes = {} /\ everStored = {}
    /\ pending = <<>> /\ deleting = {}
    /\ form = [s \in Subs |-> "new"]
    /\ removal = [p \in Tabs |-> [s \in Subs |-> "none"]]
    /\ marked = {} /\ condemned = {}
    /\ load = [l \in Loads |-> Closed] /\ section = [p \in Tabs |-> Blank]

----------------------------------------------------------------------------
(* The rating form: partialRatingSubmit, after SubmitRating succeeded.     *)

Submit(s) ==
    /\ form[s] = "new"
    /\ form' = [form EXCEPT ![s] = "post"]
    /\ UNCHANGED <<removal, marked, condemned, pipeline, redis, pages>>

\* The client's POST: the event source takes the review, or nobody does.
SubmitReview(s) ==
    \/ inflight' = inflight \cup {s}
    \/ Faults /\ UNCHANGED inflight

\* When SubmitReview fails the form goes on all the same.
PostReview(s) ==
    /\ form[s] = "post"
    /\ form' = [form EXCEPT ![s] = "mark"]
    /\ SubmitReview(s)
    /\ UNCHANGED <<reviews, deletes, everStored, removal, marked, condemned, redis, pages>>

\* Mutant: the entry is pushed without its record.
MarkPendingTextOnly(s) ==
    /\ form[s] = "mark"
    /\ form' = [form EXCEPT ![s] = "load"]
    /\ pending' = Append(pending, Text[s])
    /\ marked' = marked \cup {s}
    /\ UNCHANGED <<pipeline, removal, condemned, deleting, pages>>

\* StorePending.  The answer, in the place of the form, loads the reviews.
MarkPending(s) ==
    /\ form[s] = "mark"
    /\ form' = [form EXCEPT ![s] = "load"]
    /\ \/ /\ \E t \in Seconds : pending' = Append(pending, [text |-> Text[s], at |-> t])
          /\ marked' = marked \cup {s}
       \/ Faults /\ UNCHANGED <<pending, marked>>
    /\ UNCHANGED <<pipeline, removal, condemned, deleting, pages>>

----------------------------------------------------------------------------
(* The delete button: partialDeleteReview.                                 *)

Goes(p, s, to) == removal' = [removal EXCEPT ![p] = [@ EXCEPT ![s] = to]]

Delete(p, s) ==
    /\ removal[p][s] = "none" /\ s \in section[p].buttons \cap Deletable
    /\ Goes(p, s, "post")
    /\ UNCHANGED <<form, marked, condemned, pipeline, redis, pages>>

\* The client's POST: the event source takes the deletion, or nobody does.
DeleteReview(s) ==
    \/ deletes' = deletes \cup {s}
    \/ Faults /\ UNCHANGED deletes

\* When DeleteReview fails the review is marked all the same.
PostDelete(p, s) ==
    /\ removal[p][s] = "post"
    /\ Goes(p, s, "mark")
    /\ DeleteReview(s)
    /\ UNCHANGED <<reviews, inflight, everStored, form, marked, condemned, redis, pages>>

\* StoreDeleting.  The answer replaces the whole section by a div that loads it.
MarkDeleting(p, s) ==
    /\ removal[p][s] = "mark"
    /\ Goes(p, s, "load")
    /\ section' = [section EXCEPT ![p] = Blank]
    /\ \/ deleting' = deleting \cup {s} /\ condemned' = condemned \cup {s}
       \/ Faults /\ UNCHANGED <<deleting, condemned>>
    /\ UNCHANGED <<pipeline, form, marked, pending, load>>

----------------------------------------------------------------------------
(* The pipeline: event source, bus, sensor and the reviews service.        *)

StoreRow(s) ==
    /\ s \in inflight
    /\ inflight' = inflight \ {s}
    /\ reviews' = <<s>> \o reviews
    /\ everStored' = everStored \cup {s}
    /\ UNCHANGED <<deletes, forms, redis, pages>>

\* DeleteByID, by primary key; a second deletion finds nothing.
DeleteRow(s) ==
    /\ s \in deletes
    /\ deletes' = deletes \ {s}
    /\ reviews' = RemoveFirst(reviews, s)
    /\ UNCHANGED <<inflight, everStored, forms, redis, pages>>

----------------------------------------------------------------------------
(* A load of the reviews partial: partialReviews and GetAndReconcile.      *)

Page(n) ==
    LET last == n * PageSize
    IN  SubSeq(reviews, last - PageSize + 1, IF last < Len(reviews) THEN last ELSE Len(reviews))

Becomes(l, to) == load' = [load EXCEPT ![l] = to]

Shows(p, what) == section' = [section EXCEPT ![p] = what]

\* GetProductReviews; the answer of the service is all the load knows of the
\* rows.  When it fails the section says so, and shows nothing else.
Fetch(l, p, n) ==
    /\ load[l].pc = "idle"
    /\ \/ /\ Becomes(l, [Closed EXCEPT !.pc = "pending", !.tab = p, !.page = n,
                                       !.seen = Page(n), !.due = ToSet(pending)])
          /\ UNCHANGED section
       \/ Faults /\ UNCHANGED load /\ Shows(p, Blank)
    /\ UNCHANGED <<pipeline, redis, marked, condemned>>

\* A user opens the product or turns to a page.  Nothing makes a load wait for
\* another one of the same browser: no element of the templates has an hx-sync.
Open(l, p, n) == Fetch(l, p, n) /\ UNCHANGED <<form, removal>>

\* Mutant: a page that only shows deletions does not poll.
PollsForPending(p) == section[p].left # {}

\* A section polls while it has something pending or being deleted.
Polls(p) == section[p].left # {} \/ section[p].kept # {}

\* The poll, which always asks for page 1.
Refresh(l, p) == Polls(p) /\ Fetch(l, p, 1) /\ UNCHANGED <<form, removal>>

\* The hx-trigger="load" of the two forms' answers.
LoadAfterSubmit(l, s) ==
    /\ form[s] = "load"
    /\ form' = [form EXCEPT ![s] = "done"]
    /\ Fetch(l, Author[s], 1)
    /\ UNCHANGED removal

LoadAfterDelete(l, p, s) ==
    /\ removal[p][s] = "load"
    /\ Goes(p, s, "none")
    /\ Fetch(l, p, 1)
    /\ UNCHANGED form

\* Mutant: entries are compared with the rows as they are now.
ConfirmedByNow(l, j) ==
    /\ \E s \in ToSet(reviews) : Text[s] = pending[j].text
    /\ \A i \in 1..j - 1 : pending[i].text # pending[j].text

\* An entry is confirmed by a row with its text, and a text confirms one entry.
Confirmed(l, j) ==
    /\ \E s \in ToSet(load[l].seen) : Text[s] = pending[j].text
    /\ \A i \in 1..j - 1 : pending[i].text # pending[j].text

\* LRANGE.
ReadPending(l) ==
    /\ load[l].pc = "pending"
    /\ LET confirmed == {j \in DOMAIN pending : Confirmed(l, j)} IN
         Becomes(l, [load[l] EXCEPT !.pc = "lrem",
                        !.drop = {pending[j] : j \in confirmed},
                        !.left = {pending[j] : j \in DOMAIN pending \ confirmed}])
    /\ UNCHANGED <<pipeline, forms, redis, section>>

\* Mutant: LPOP, as if the list were still the one that was read.
DropPendingPops(l) ==
    /\ load[l].pc = "lrem"
    /\ \E e \in load[l].drop :
         /\ Becomes(l, [load[l] EXCEPT !.drop = @ \ {e}])
         /\ pending' = IF pending = <<>> THEN pending ELSE Tail(pending)
    /\ UNCHANGED <<pipeline, forms, deleting, section>>

\* The load l without the entry e, which the others need not account for either.
Removed(l, e) ==
    [m \in Loads |-> IF m = l THEN [load[m] EXCEPT !.drop = @ \ {e}]
                              ELSE [load[m] EXCEPT !.due = @ \ {e}]]

\* LREM with count 1: the first equal entry, if it is still there.  The
\* entries to drop have different texts, so their order is left open.
DropPending(l) ==
    /\ load[l].pc = "lrem"
    /\ \E e \in load[l].drop :
         \/ pending' = RemoveFirst(pending, e) /\ load' = Removed(l, e)
         \/ /\ Faults /\ UNCHANGED pending
            /\ Becomes(l, [load[l] EXCEPT !.drop = @ \ {e}])
    /\ UNCHANGED <<pipeline, forms, deleting, section>>

\* SMEMBERS: a mark stays while this page shows the review.
ReadDeleting(l) ==
    /\ load[l].pc = "lrem" /\ load[l].drop = {}
    /\ Becomes(l, [load[l] EXCEPT !.pc = "srem",
                      !.gone = deleting \ ToSet(load[l].seen),
                      !.kept = deleting \cap ToSet(load[l].seen)])
    /\ UNCHANGED <<pipeline, forms, redis, section>>

\* SREM.
DropDeleting(l) ==
    /\ load[l].pc = "srem"
    /\ \E s \in load[l].gone :
         /\ Becomes(l, [load[l] EXCEPT !.gone = @ \ {s}])
         /\ \/ deleting' = deleting \ {s}
            \/ Faults /\ UNCHANGED deleting
    /\ UNCHANGED <<pipeline, forms, pending, section>>

Reconciled(l) == load[l].pc = "srem" /\ load[l].gone = {}

\* The answer replaces the section of its tab, whatever it shows by then.
Answer(l) ==
    /\ Shows(load[l].tab, [left    |-> load[l].left,
                           kept    |-> load[l].kept,
                           buttons |-> ToSet(load[l].seen) \ load[l].kept])
    /\ Becomes(l, Closed)
    /\ UNCHANGED <<pipeline, forms, redis>>

Render(l) == Reconciled(l) /\ Answer(l)

\* LRANGE or SMEMBERS fails: what has been read before is shown.
RenderUnreconciled(l) ==
    /\ load[l].pc = "pending" \/ (load[l].pc = "lrem" /\ load[l].drop = {})
    /\ Answer(l)

----------------------------------------------------------------------------
LoadStep(l) ==
    \/ ReadPending(l) \/ DropPending(l) \/ ReadDeleting(l) \/ DropDeleting(l) \/ Render(l)

FormStep(s) == PostReview(s) \/ MarkPending(s)

RemovalStep(p, s) == PostDelete(p, s) \/ MarkDeleting(p, s)

Pipeline(s) == StoreRow(s) \/ DeleteRow(s)

Next ==
    \/ \E s \in Subs : Submit(s) \/ FormStep(s) \/ Pipeline(s)
    \/ \E p \in Tabs, s \in Subs : Delete(p, s) \/ RemovalStep(p, s)
    \/ \E l \in Loads :
          \/ LoadStep(l)
          \/ Faults /\ RenderUnreconciled(l)
          \/ \E p \in Tabs : Refresh(l, p) \/ \E n \in Pages : Open(l, p, n)
          \/ \E s \in Subs : LoadAfterSubmit(l, s) \/ \E p \in Tabs : LoadAfterDelete(l, p, s)

Spec == Init /\ [][Next]_vars

\* Handlers go on, the pipeline delivers, a section that polls loads again and
\* an answer is followed by its load.  These are strongly fair because Loads is
\* the model's bound: in a browser other loads do not keep them from being sent.
Fairness ==
    /\ \A s \in Subs : WF_vars(FormStep(s)) /\ WF_vars(StoreRow(s)) /\ WF_vars(DeleteRow(s))
    /\ \A p \in Tabs, s \in Subs : WF_vars(RemovalStep(p, s))
    /\ \A l \in Loads : WF_vars(LoadStep(l))
    /\ \A p \in Tabs : SF_vars(\E l \in Loads : Refresh(l, p))
    /\ \A s \in Subs : SF_vars(\E l \in Loads : LoadAfterSubmit(l, s))

FairSpec == Spec /\ Fairness

----------------------------------------------------------------------------
(* Properties.                                                             *)

TypeOK ==
    /\ reviews \in Seq(Subs) /\ pending \in Seq(Entries)
    /\ inflight \subseteq Subs /\ deletes \subseteq Subs /\ deleting \subseteq Subs
    /\ form \in [Subs -> {"new", "post", "mark", "load", "done"}]
    /\ removal \in [Tabs -> [Subs -> {"none", "post", "mark", "load"}]]
    /\ load \in [Loads -> Load] /\ section \in [Tabs -> Section]
    /\ marked \subseteq Subs /\ everStored \subseteq Subs /\ condemned \subseteq Subs

\* pending.go: pending reviews are merged into the answers "until the async
\* CQRS write pipeline confirms them".  So a review marked as pending keeps its
\* entry until it has had a row, however many loads reconcile and fail.
PendingUntilStored ==
    \A x \in Texts :
        Cardinality({s \in marked \ everStored : Text[s] = x})
            <= Cardinality({j \in DOMAIN pending : pending[j].text = x})

\* A review that is pending when page 1 is asked for is on the answer, as a row
\* or as pending, whatever happens to it in between and however many loads
\* overlap; unless another load has confirmed it meanwhile and removed its
\* entry (due), of which an answer with older rows knows nothing.
NeverVanishes ==
    \A l \in Loads : Reconciled(l) /\ load[l].page = 1
        => \A e \in load[l].due :
              e.text \in {Text[s] : s \in ToSet(load[l].seen)} \cup {f.text : f \in load[l].left}

\* handler.go:249: a section polls as long as its last answer had something
\* pending or being deleted.  So no badge stays on a page for ever, also when
\* an older answer arrives late and brings it back: the badge of a deletion goes
\* with the row, and that of a pending review after the row is stored, unless
\* it was deleted before its own form had marked it as pending.
BadgesClear ==
    \A p \in Tabs, s \in Subs :
        /\ (\E e \in section[p].left : e.text = Text[s])
              ~> \/ \A e \in section[p].left : e.text # Text[s]
                 \/ s \in condemned
        /\ s \in section[p].kept ~> s \notin section[p].kept

----------------------------------------------------------------------------
(* What a reader of the page may expect and does not get.                  *)

\* redis.go:137 calls a review that is not on the page that was loaded a
\* confirmed deletion.  It may be on another page, or not yet have been stored.
DeletingUntilGone == \A s \in condemned \cap ToSet(reviews) : s \in deleting

\* The page a review was written on shows it in the end, and keeps showing it
\* while it is not deleted.  An overlapping load ends this: its answer, older but
\* last, has neither the row nor the entry, and does not poll.
AuthorSeesReview ==
    \A s \in Subs :
        s \in marked ~> [](\/ s \in section[Author[s]].buttons \cup section[Author[s]].kept
                           \/ s \in condemned)
=============================================================================
