------------------------ MODULE PendingReviewsProofs ------------------------
(***************************************************************************)
(* Theorems about PendingReviews, for every set of submissions, texts,     *)
(* browsers, overlapping loads and page sizes, with and without faults.    *)
(***************************************************************************)
EXTENDS PendingReviews, SequenceTheorems, FiniteSetTheorems, TLAPS

----------------------------------------------------------------------------
(* The operators on sequences that the model is built from.                *)

\* A set of naturals that is not empty has a least element, which Min returns.
LEMMA MinIsElement ==
    ASSUME NEW I \in SUBSET Nat, I # {}
    PROVE  Min(I) \in I
  <1> DEFINE R == OpToRel(<, Nat)
  <1>1. PICK x \in I : \A y \in I : <<y, x>> \notin R
    BY NatLessThanWellFounded, WFMin
  <1>2. ASSUME NEW y \in I, y < x PROVE <<y, x>> \in R
    <2>1. <<y, x>> \in Nat \X Nat /\ <<y, x>>[1] < <<y, x>>[2]
      BY <1>2
    <2> QED
      BY <2>1, Zenon DEF OpToRel
  <1> HIDE DEF R
  <1>3. ASSUME NEW y \in I PROVE x <= y
    <2>1. ~(y < x)
      BY <1>1, <1>2, Zenon
    <2>2. x \in Nat /\ y \in Nat
      BY Zenon
    <2> QED
      BY <2>1, <2>2
  <1> QED
    BY <1>3 DEF Min

\* s without its k-th element.
Cut(s, k) == SubSeq(s, 1, k - 1) \o SubSeq(s, k + 1, Len(s))

\* RemoveFirst takes out one position that holds the element, if there is one.
LEMMA RemoveFirstCuts ==
    ASSUME NEW S, NEW s \in Seq(S), NEW e, e \in ToSet(s)
    PROVE  \E k \in 1 .. Len(s) : s[k] = e /\ RemoveFirst(s, e) = Cut(s, k)
  <1> DEFINE I == {i \in 1 .. Len(s) : s[i] = e}
  <1>1. Len(s) \in Nat /\ DOMAIN s = 1 .. Len(s)
    BY LenProperties
  <1>2. I # {} /\ I \in SUBSET Nat
    BY <1>1 DEF ToSet
  <1>3. Min(I) \in I
    BY <1>2, MinIsElement
  <1>4. RemoveFirst(s, e) = RemoveAt(s, Min(I))
    BY <1>2 DEF RemoveFirst, SelectInSeq
  <1> HIDE DEF I
  <1>5. RemoveAt(s, Min(I)) = Cut(s, Min(I))
    BY DEF RemoveAt, Cut
  <1> QED
    BY <1>3, <1>4, <1>5 DEF I

\* A sequence u of the first k - 1 elements and v of those after the k-th.
LEMMA CutIndices ==
    ASSUME NEW n \in Nat, NEW k \in 1 .. n, NEW s, NEW t, NEW u, NEW v,
           \A i \in 1 .. k - 1 : u[i] = s[i],
           \A i \in 1 .. n - k : v[i] = s[k + i],
           \A i \in 1 .. n - 1 : t[i] = IF i <= k - 1 THEN u[i] ELSE v[i - (k - 1)]
    PROVE  \A i \in 1 .. n - 1 : t[i] = IF i < k THEN s[i] ELSE s[i + 1]
  <1> SUFFICES ASSUME NEW i \in 1 .. n - 1
               PROVE  t[i] = IF i < k THEN s[i] ELSE s[i + 1]
    OBVIOUS
  <1>1. CASE i < k
    BY <1>1
  <1>2. CASE i >= k
    <2>1. i - (k - 1) \in 1 .. n - k /\ ~(i <= k - 1)
      BY <1>2
    <2>2. t[i] = s[k + (i - (k - 1))]
      BY <2>1
    <2>3. k + (i - (k - 1)) = i + 1
      OBVIOUS
    <2> QED
      BY <1>2, <2>2, <2>3
  <1> QED
    BY <1>1, <1>2

\* What a cut leaves, position by position.
LEMMA CutAt ==
    ASSUME NEW S, NEW s \in Seq(S), NEW k \in 1 .. Len(s)
    PROVE  \A t : t = Cut(s, k) =>
               /\ t \in Seq(S) /\ Len(t) = Len(s) - 1
               /\ \A i \in 1 .. Len(t) : t[i] = IF i < k THEN s[i] ELSE s[i + 1]
  <1>1. PICK n \in Nat : n = Len(s) /\ \A i \in 1 .. n : s[i] \in S
    BY LenProperties
  <1>2. k \in Nat /\ k - 1 \in Nat /\ n - k \in Nat /\ k \in 1 .. n
    BY <1>1
  <1> DEFINE u == SubSeq(s, 1, k - 1)
             v == SubSeq(s, k + 1, n)
             t == u \o v
  <1>3. u \in Seq(S) /\ Len(u) = k - 1 /\ \A i \in 1 .. k - 1 : u[i] = s[i]
    <2>1. \A i \in 1 .. k - 1 : s[i] \in S
      BY <1>1, <1>2
    <2> QED
      BY <1>2, <2>1, SubSeqProperties
  <1>4. v \in Seq(S) /\ Len(v) = n - k /\ \A i \in 1 .. n - k : v[i] = s[k + i]
    <2>1. \A i \in k + 1 .. n : s[i] \in S
      BY <1>1, <1>2
    <2> QED
      BY <1>1, <1>2, <2>1, SubSeqProperties
  <1> HIDE DEF u, v
  <1>5. /\ t \in Seq(S) /\ Len(t) = (k - 1) + (n - k)
        /\ \A i \in 1 .. (k - 1) + (n - k) :
              t[i] = IF i <= k - 1 THEN u[i] ELSE v[i - (k - 1)]
    <2>1. /\ t \in Seq(S) /\ Len(t) = Len(u) + Len(v)
          /\ \A i \in 1 .. Len(u) + Len(v) :
                t[i] = IF i <= Len(u) THEN u[i] ELSE v[i - Len(u)]
      BY <1>3, <1>4, ConcatProperties
    <2> HIDE DEF t
    <2>2. Len(u) = k - 1 /\ Len(v) = n - k
      BY <1>3, <1>4
    <2> QED
      BY <2>1, <2>2, Zenon
  <1>6. (k - 1) + (n - k) = n - 1
    BY <1>2
  <1> HIDE DEF t
  <1>7. /\ t \in Seq(S) /\ Len(t) = n - 1
        /\ \A i \in 1 .. n - 1 : t[i] = IF i <= k - 1 THEN u[i] ELSE v[i - (k - 1)]
    BY <1>5, <1>6
  <1>8. \A i \in 1 .. n - 1 : t[i] = IF i < k THEN s[i] ELSE s[i + 1]
    BY <1>2, <1>3, <1>4, <1>7, CutIndices
  <1> QED
    BY <1>1, <1>7, <1>8 DEF t, u, v, Cut

\* RemoveFirst keeps every other element and adds none; if no element occurs
\* twice, none does afterwards and the removed one is gone.
LEMMA RemoveFirstKeeps ==
    ASSUME NEW S, NEW s \in Seq(S), NEW e
    PROVE  /\ RemoveFirst(s, e) \in Seq(S)
           /\ ToSet(RemoveFirst(s, e)) \subseteq ToSet(s)
           /\ ToSet(s) \ {e} \subseteq ToSet(RemoveFirst(s, e))
           /\ IsInjective(s) => /\ IsInjective(RemoveFirst(s, e))
                                /\ e \notin ToSet(RemoveFirst(s, e))
  <1>1. CASE e \notin ToSet(s)
    <2>1. RemoveFirst(s, e) = s
      BY <1>1, LenProperties DEF RemoveFirst, ToSet
    <2> QED
      BY <1>1, <2>1
  <1>2. CASE e \in ToSet(s)
    <2>1. PICK k \in 1 .. Len(s) : s[k] = e /\ RemoveFirst(s, e) = Cut(s, k)
      BY <1>2, RemoveFirstCuts
    <2>2. PICK t : t = RemoveFirst(s, e)
      OBVIOUS
    <2>3. /\ t \in Seq(S) /\ Len(t) = Len(s) - 1
          /\ \A i \in 1 .. Len(t) : t[i] = IF i < k THEN s[i] ELSE s[i + 1]
      <3>1. t = Cut(s, k)
        BY <2>1, <2>2
      <3> QED
        BY <3>1, CutAt, Zenon
    <2>4. Len(s) \in Nat /\ DOMAIN s = 1 .. Len(s) /\ DOMAIN t = 1 .. Len(t)
      BY <2>3, LenProperties
    <2>5. ToSet(t) \subseteq ToSet(s)
      BY <2>3, <2>4 DEF ToSet
    <2>6. ASSUME NEW x \in ToSet(s) \ {e} PROVE x \in ToSet(t)
      <3>1. PICK i \in 1 .. Len(s) : s[i] = x
        BY <2>4 DEF ToSet
      <3>2. CASE i < k
        BY <2>3, <2>4, <3>1, <3>2 DEF ToSet
      <3>3. CASE i > k
        <4>1. i - 1 \in 1 .. Len(t) /\ t[i - 1] = x
          BY <2>3, <2>4, <3>1, <3>3
        <4> QED
          BY <2>4, <4>1 DEF ToSet
      <3> QED
        BY <2>1, <2>6, <3>1, <3>2, <3>3
    <2>7. ASSUME IsInjective(s) PROVE IsInjective(t) /\ e \notin ToSet(t)
      <3>1. \A i, j \in 1 .. Len(s) : s[i] = s[j] => i = j
        BY <2>4, <2>7 DEF IsInjective
      <3>2. \A i, j \in 1 .. Len(t) : t[i] = t[j] => i = j
        BY <2>3, <2>4, <3>1
      <3>3. \A i \in 1 .. Len(t) : t[i] # e
        BY <2>1, <2>3, <2>4, <3>1
      <3> QED
        BY <2>4, <3>2, <3>3 DEF IsInjective, ToSet
    <2> QED
      BY <2>2, <2>3, <2>5, <2>6, <2>7
  <1> QED
    BY <1>1, <1>2

\* Appending adds the element at the end.
LEMMA AppendKeeps ==
    ASSUME NEW S, NEW s \in Seq(S), NEW e \in S
    PROVE  Append(s, e) \in Seq(S) /\ ToSet(Append(s, e)) = ToSet(s) \cup {e}
  <1>1. PICK n \in Nat : n = Len(s)
    BY LenProperties
  <1> DEFINE t == Append(s, e)
  <1>2. /\ t \in Seq(S) /\ Len(t) = n + 1
        /\ \A i \in 1 .. n : t[i] = s[i]
        /\ t[n + 1] = e
    BY <1>1, AppendProperties
  <1> HIDE DEF t
  <1>3. DOMAIN s = 1 .. n /\ DOMAIN t = 1 .. n + 1
    BY <1>1, <1>2, LenProperties
  <1>4. ToSet(t) = ToSet(s) \cup {e}
    BY <1>2, <1>3 DEF ToSet
  <1> QED
    BY <1>2, <1>4 DEF t

\* Putting an element in front adds it.
LEMMA PrependKeeps ==
    ASSUME NEW S, NEW s \in Seq(S), NEW e \in S
    PROVE  /\ <<e>> \o s \in Seq(S) /\ ToSet(<<e>> \o s) = ToSet(s) \cup {e}
           /\ IsInjective(s) /\ e \notin ToSet(s) => IsInjective(<<e>> \o s)
  <1>1. PICK n \in Nat : n = Len(s)
    BY LenProperties
  <1> DEFINE t == <<e>> \o s
  <1>2. <<e>> \in Seq(S) /\ Len(<<e>>) = 1 /\ <<e>>[1] = e
    OBVIOUS
  <1>3. /\ t \in Seq(S) /\ Len(t) = 1 + n
        /\ \A i \in 1 .. 1 + n : t[i] = IF i <= 1 THEN e ELSE s[i - 1]
    <2>1. /\ t \in Seq(S) /\ Len(t) = Len(<<e>>) + Len(s)
          /\ \A i \in 1 .. Len(<<e>>) + Len(s) :
                t[i] = IF i <= Len(<<e>>) THEN <<e>>[i] ELSE s[i - Len(<<e>>)]
      BY <1>2, ConcatProperties
    <2> HIDE DEF t
    <2> QED
      BY <1>1, <1>2, <2>1
  <1> HIDE DEF t
  <1>4. DOMAIN s = 1 .. n /\ DOMAIN t = 1 .. 1 + n
    BY <1>1, <1>3, LenProperties
  <1>5. t[1] = e /\ \A i \in 1 .. n : t[i + 1] = s[i]
    BY <1>3
  <1>6. ToSet(t) \subseteq ToSet(s) \cup {e}
    <2>1. \A i \in 1 .. 1 + n : i = 1 \/ i - 1 \in 1 .. n
      OBVIOUS
    <2> QED
      BY <1>3, <1>4, <2>1 DEF ToSet
  <1>7. ToSet(s) \cup {e} \subseteq ToSet(t)
    <2>1. 1 \in 1 .. 1 + n /\ \A i \in 1 .. n : i + 1 \in 1 .. 1 + n
      OBVIOUS
    <2> QED
      BY <1>4, <1>5, <2>1 DEF ToSet
  <1>8. ASSUME IsInjective(s), e \notin ToSet(s) PROVE IsInjective(t)
    <2>1. \A i \in 1 .. n : s[i] # e
      BY <1>4, <1>8 DEF ToSet
    <2>2. \A i, j \in 1 .. n : s[i] = s[j] => i = j
      BY <1>4, <1>8 DEF IsInjective
    <2>3. \A i, j \in 1 .. 1 + n : t[i] = t[j] => i = j
      BY <1>3, <2>1, <2>2
    <2> QED
      BY <1>4, <2>3 DEF IsInjective
  <1> QED
    BY <1>3, <1>6, <1>7, <1>8 DEF t

\* The elements of a sequence are where the sequence is over.
LEMMA ElementsOf ==
    ASSUME NEW S, NEW s \in Seq(S)
    PROVE  ToSet(s) \subseteq S
  BY LenProperties DEF ToSet

----------------------------------------------------------------------------
(* Type correctness.                                                       *)

\* A page is a part of the rows.
LEMMA PageType ==
    ASSUME TypeOK, NEW n \in Pages
    PROVE  Page(n) \in Seq(Subs) /\ ToSet(Page(n)) \subseteq ToSet(reviews)
  <1>1. PICK l \in Nat : /\ l = Len(reviews) /\ DOMAIN reviews = 1 .. l
                         /\ \A i \in 1 .. l : reviews[i] \in Subs
    BY LenProperties DEF TypeOK
  <1>2. PICK m \in Nat : n = m + 1
    <2>1. n \in Nat \ {0}
      BY PageAssumption
    <2> QED
      BY <2>1
  <1>3. PICK b \in Nat : b = m * PageSize
    BY PageAssumption
  <1>4. PageSize \in Nat \ {0} /\ n * PageSize = b + PageSize
    BY <1>2, <1>3, PageAssumption
  <1>5. PICK first, last :
           /\ first = b + 1
           /\ last = (IF b + PageSize < l THEN b + PageSize ELSE l)
    OBVIOUS
  <1>6. (b + PageSize) - PageSize + 1 = first
    BY <1>4, <1>5
  <1>7. Page(n) = SubSeq(reviews, first, last)
    BY <1>1, <1>4, <1>5, <1>6 DEF Page
  <1>8. first \in Int /\ last \in Int /\ \A i \in first .. last : i \in 1 .. l
    BY <1>4, <1>5
  <1> DEFINE s == SubSeq(reviews, first, last)
  <1>9. /\ s \in Seq(Subs)
        /\ Len(s) = IF first <= last THEN last - first + 1 ELSE 0
        /\ \A i \in 1 .. last - first + 1 : s[i] = reviews[first + i - 1]
    BY <1>1, <1>8, SubSeqProperties
  <1> HIDE DEF s
  <1>10. DOMAIN s = 1 .. Len(s)
    BY <1>9, LenProperties
  <1>11. ASSUME NEW i \in 1 .. Len(s) PROVE s[i] \in ToSet(reviews)
    <2>1. first <= last /\ i \in 1 .. last - first + 1
      BY <1>8, <1>9
    <2>2. first + i - 1 \in first .. last
      BY <1>8, <2>1
    <2>3. s[i] = reviews[first + i - 1] /\ first + i - 1 \in DOMAIN reviews
      BY <1>1, <1>8, <1>9, <2>1, <2>2
    <2> QED
      BY <2>3 DEF ToSet
  <1>12. ToSet(s) \subseteq ToSet(reviews)
    BY <1>10, <1>11 DEF ToSet
  <1> QED
    BY <1>7, <1>9, <1>12 DEF s

\* No load.
LEMMA ClosedType == Closed \in Load /\ Closed.pc = "idle" /\ Closed.seen = <<>> /\ Closed.drop = {}
  <1>1. <<>> \in Seq(Subs) /\ 1 \in Pages
    BY PageAssumption
  <1>2. PICK p \in Tabs : p = CHOOSE q \in Tabs : TRUE
    BY TabsAssumption
  <1> QED
    BY <1>1, <1>2 DEF Closed, Load

----------------------------------------------------------------------------
(* What the steps of a load do to it.  The other loads stay as they are,   *)
(* but for the history of a load another one has removed an entry under.   *)

OthersKept(l) == \A m \in Loads \ {l} : load'[m] = load[m]

\* A load that becomes to.
LEMMA BecomesKeeps ==
    ASSUME TypeOK, NEW l \in Loads, NEW to \in Load, Becomes(l, to)
    PROVE  load' \in [Loads -> Load] /\ OthersKept(l) /\ load'[l] = to
  BY DEF Becomes, OthersKept, TypeOK

\* A section that shows what.
LEMMA ShowsKeeps ==
    ASSUME TypeOK, NEW p \in Tabs, NEW what \in Section, Shows(p, what)
    PROVE  section' \in [Tabs -> Section]
  BY DEF Shows, TypeOK

\* Fetch opens a load with the page and what is pending, or fails.
LEMMA FetchLoads ==
    ASSUME TypeOK, NEW l \in Loads, NEW p \in Tabs, NEW n \in Pages, Fetch(l, p, n)
    PROVE  /\ load' \in [Loads -> Load] /\ OthersKept(l) /\ load[l].pc = "idle"
           /\ section' \in [Tabs -> Section]
           /\ \/ load'[l] = load[l]
              \/ /\ load'[l].pc = "pending" /\ load'[l].page = n
                 /\ load'[l].seen = Page(n) /\ load'[l].due = ToSet(pending)
                 /\ load'[l].drop = {} /\ load'[l].left = {}
  <1> DEFINE to == [Closed EXCEPT !.pc = "pending", !.tab = p, !.page = n,
                                  !.seen = Page(n), !.due = ToSet(pending)]
  <1>1. ToSet(pending) \subseteq Entries
    BY ElementsOf DEF TypeOK
  <1>2. /\ to \in Load /\ to.pc = "pending" /\ to.page = n /\ to.seen = Page(n)
        /\ to.due = ToSet(pending) /\ to.drop = {} /\ to.left = {}
    BY <1>1, PageType, ClosedType DEF Closed, Load
  <1>3. CASE Becomes(l, to) /\ UNCHANGED section
    <2> HIDE DEF to
    <2>1. load' \in [Loads -> Load] /\ OthersKept(l) /\ load'[l] = to
      BY <1>2, <1>3, BecomesKeeps
    <2> QED
      BY <1>2, <1>3, <2>1 DEF Fetch, TypeOK
  <1>4. CASE UNCHANGED load /\ Shows(p, Blank)
    <2>1. Blank \in Section
      BY DEF Blank, Section
    <2>2. section' \in [Tabs -> Section]
      BY <1>4, <2>1, ShowsKeeps
    <2> QED
      BY <1>4, <2>2 DEF Fetch, OthersKept, TypeOK
  <1> QED
    BY <1>3, <1>4 DEF Fetch

\* What ReadPending drops has its text on the page; the rest is left.
LEMMA ReadPendingLoads ==
    ASSUME TypeOK, NEW l \in Loads, ReadPending(l)
    PROVE  /\ load' \in [Loads -> Load] /\ OthersKept(l) /\ load[l].pc = "pending"
           /\ load'[l].pc = "lrem"
           /\ \A f \in {"page", "seen", "due"} : load'[l][f] = load[l][f]
           /\ \A e \in load'[l].drop : \E s \in ToSet(load[l].seen) : Text[s] = e.text
           /\ \A e \in ToSet(pending) :
                 \/ e \in load'[l].left
                 \/ \E s \in ToSet(load[l].seen) : Text[s] = e.text
  <1> DEFINE confirmed == {j \in DOMAIN pending : Confirmed(l, j)}
             drop == {pending[j] : j \in confirmed}
             left == {pending[j] : j \in DOMAIN pending \ confirmed}
             to == [load[l] EXCEPT !.pc = "lrem", !.drop = drop, !.left = left]
  <1>1. drop \subseteq ToSet(pending) /\ left \subseteq ToSet(pending)
    BY DEF ToSet
  <1>2. ToSet(pending) \subseteq Entries
    BY ElementsOf DEF TypeOK
  <1>3. /\ \A e \in drop : \E s \in ToSet(load[l].seen) : Text[s] = e.text
        /\ \A e \in ToSet(pending) : e \in left \/ \E s \in ToSet(load[l].seen) : Text[s] = e.text
    BY DEF Confirmed, ToSet
  <1>4. Becomes(l, to) /\ load[l] \in Load
    BY DEF ReadPending, TypeOK
  <1> HIDE DEF drop, left
  <1>5. /\ to \in Load /\ to.pc = "lrem" /\ to.drop = drop /\ to.left = left
        /\ to.page = load[l].page /\ to.seen = load[l].seen /\ to.due = load[l].due
    BY <1>1, <1>2, <1>4 DEF Load
  <1> HIDE DEF to
  <1>6. load' \in [Loads -> Load] /\ OthersKept(l) /\ load'[l] = to
    BY <1>4, <1>5, BecomesKeeps
  <1> QED
    BY <1>3, <1>5, <1>6 DEF ReadPending

\* A load without the entry e, and one that need not account for it.
LEMMA WithoutEntry ==
    ASSUME NEW to \in Load, NEW e
    PROVE  /\ \A t : t = [to EXCEPT !.drop = @ \ {e}] =>
                /\ t \in Load /\ t.drop = to.drop \ {e}
                /\ \A f \in {"pc", "page", "seen", "left", "due"} : t[f] = to[f]
           /\ \A t : t = [to EXCEPT !.due = @ \ {e}] =>
                /\ t \in Load /\ t.due = to.due \ {e}
                /\ \A f \in {"pc", "page", "seen", "drop", "left"} : t[f] = to[f]
  BY DEF Load

\* LREM takes one entry of the list and of what is to be dropped.  The loads
\* that were to account for it need not do so any more.
LEMMA DropPendingLoads ==
    ASSUME TypeOK, NEW l \in Loads, DropPending(l)
    PROVE  /\ load' \in [Loads -> Load] /\ load[l].pc = "lrem"
           /\ \A m \in Loads : \A f \in {"pc", "page", "seen", "left"} :
                 load'[m][f] = load[m][f]
           /\ \A m \in Loads : /\ load'[m].drop \subseteq load[m].drop
                              /\ load'[m].due \subseteq load[m].due
           /\ \E e \in load[l].drop :
                 \/ pending' = pending
                 \/ /\ pending' = RemoveFirst(pending, e)
                    /\ \A m \in Loads \ {l} : load'[m].due = load[m].due \ {e}
  <1>0. load[l].pc = "lrem" /\ load \in [Loads -> Load]
    BY DEF DropPending, TypeOK
  <1>1. PICK e \in load[l].drop :
           \/ pending' = RemoveFirst(pending, e) /\ load' = Removed(l, e)
           \/ pending' = pending /\ Becomes(l, [load[l] EXCEPT !.drop = @ \ {e}])
    BY DEF DropPending
  <1>2. PICK to : to = [load[l] EXCEPT !.drop = @ \ {e}]
    OBVIOUS
  <1>3. /\ to \in Load /\ to.drop = load[l].drop \ {e}
        /\ \A f \in {"pc", "page", "seen", "left", "due"} : to[f] = load[l][f]
    BY <1>0, <1>2, WithoutEntry
  <1>4. CASE pending' = RemoveFirst(pending, e) /\ load' = Removed(l, e)
    <2>1. load'[l] = to
      BY <1>2, <1>4 DEF Removed
    <2>2. ASSUME NEW m \in Loads \ {l}
          PROVE  /\ load'[m] \in Load /\ load'[m].due = load[m].due \ {e}
                 /\ \A f \in {"pc", "page", "seen", "drop", "left"} : load'[m][f] = load[m][f]
      <3>1. load'[m] = [load[m] EXCEPT !.due = @ \ {e}]
        BY <1>4 DEF Removed
      <3> QED
        BY <1>0, <3>1, WithoutEntry
    <2>3. load' \in [Loads -> Load]
      <3>1. \A m \in Loads : load'[m] \in Load
        BY <1>3, <2>1, <2>2
      <3>2. load' = [m \in Loads |-> load'[m]]
        BY <1>4 DEF Removed
      <3> QED
        BY <3>1, <3>2
    <2> QED
      BY <1>0, <1>3, <1>4, <2>1, <2>2, <2>3
  <1>5. CASE pending' = pending /\ Becomes(l, [load[l] EXCEPT !.drop = @ \ {e}])
    <2>1. load' \in [Loads -> Load] /\ OthersKept(l) /\ load'[l] = to
      BY <1>2, <1>3, <1>5, BecomesKeeps
    <2> QED
      BY <1>0, <1>3, <1>5, <2>1 DEF OthersKept
  <1> QED
    BY <1>1, <1>4, <1>5

\* Reading the marks changes nothing that was read before.
LEMMA ReadDeletingLoads ==
    ASSUME TypeOK, NEW l \in Loads, ReadDeleting(l)
    PROVE  /\ load' \in [Loads -> Load] /\ OthersKept(l) /\ load[l].pc = "lrem"
           /\ load'[l].pc = "srem"
           /\ \A f \in {"page", "seen", "drop", "left", "due"} : load'[l][f] = load[l][f]
  <1> DEFINE to == [load[l] EXCEPT !.pc = "srem",
                       !.gone = deleting \ ToSet(load[l].seen),
                       !.kept = deleting \cap ToSet(load[l].seen)]
  <1>1. load[l] \in Load /\ deleting \subseteq Subs
    BY DEF TypeOK
  <1>2. /\ to \in Load /\ to.pc = "srem"
        /\ to.page = load[l].page /\ to.seen = load[l].seen /\ to.left = load[l].left
        /\ to.drop = load[l].drop /\ to.due = load[l].due
    BY <1>1 DEF Load
  <1>3. Becomes(l, to)
    BY DEF ReadDeleting
  <1> HIDE DEF to
  <1>4. load' \in [Loads -> Load] /\ OthersKept(l) /\ load'[l] = to
    BY <1>2, <1>3, BecomesKeeps
  <1> QED
    BY <1>2, <1>4 DEF ReadDeleting

\* SREM takes one mark and changes nothing else that was read.
LEMMA DropDeletingLoads ==
    ASSUME TypeOK, NEW l \in Loads, DropDeleting(l)
    PROVE  /\ load' \in [Loads -> Load] /\ OthersKept(l) /\ load[l].pc = "srem"
           /\ \A f \in {"pc", "page", "seen", "drop", "left", "due"} :
                 load'[l][f] = load[l][f]
           /\ deleting' \subseteq deleting
  <1>1. PICK s \in load[l].gone :
           /\ Becomes(l, [load[l] EXCEPT !.gone = @ \ {s}])
           /\ deleting' = deleting \ {s} \/ deleting' = deleting
    BY DEF DropDeleting
  <1> DEFINE to == [load[l] EXCEPT !.gone = @ \ {s}]
  <1>2. load[l] \in Load
    BY DEF TypeOK
  <1>3. /\ to \in Load /\ to.pc = load[l].pc
        /\ to.page = load[l].page /\ to.seen = load[l].seen /\ to.left = load[l].left
        /\ to.drop = load[l].drop /\ to.due = load[l].due
    BY <1>2 DEF Load
  <1> HIDE DEF to
  <1>4. load' \in [Loads -> Load] /\ OthersKept(l) /\ load'[l] = to
    BY <1>1, <1>3, BecomesKeeps DEF to
  <1> QED
    BY <1>1, <1>3, <1>4 DEF DropDeleting

\* Both answers end the load, and replace a section.
LEMMA AnswerLoads ==
    ASSUME TypeOK, NEW l \in Loads, Answer(l)
    PROVE  /\ load' \in [Loads -> Load] /\ OthersKept(l) /\ load'[l] = Closed
           /\ section' \in [Tabs -> Section]
  <1>1. Becomes(l, Closed) /\ load[l] \in Load
    BY DEF Answer, TypeOK
  <1>2. load' \in [Loads -> Load] /\ OthersKept(l) /\ load'[l] = Closed
    BY <1>1, ClosedType, BecomesKeeps
  <1> DEFINE what == [left    |-> load[l].left,
                      kept    |-> load[l].kept,
                      buttons |-> ToSet(load[l].seen) \ load[l].kept]
  <1>3. ToSet(load[l].seen) \subseteq Subs
    BY <1>1, ElementsOf DEF Load
  <1>4. what \in Section /\ load[l].tab \in Tabs
    BY <1>1, <1>3 DEF Load, Section
  <1>5. Shows(load[l].tab, what)
    BY DEF Answer
  <1>6. section' \in [Tabs -> Section]
    BY <1>4, <1>5, ShowsKeeps
  <1> QED
    BY <1>2, <1>6

----------------------------------------------------------------------------
(* What is true of every run, with any number of browsers and loads and    *)
(* whatever fails: each submission has at most one row, and what the loads *)
(* know of are rows that have been stored.                                 *)

RowsOnce ==
    /\ IsInjective(reviews) /\ ToSet(reviews) \subseteq everStored
    /\ inflight \cap everStored = {}
    /\ \A s \in Subs : form[s] \in {"new", "post"} => s \notin inflight \cup everStored

LoadsKnown ==
    \A l \in Loads : /\ ToSet(load[l].seen) \subseteq everStored
                     /\ \A e \in load[l].drop : \E s \in everStored : Text[s] = e.text

SInv == TypeOK /\ RowsOnce /\ LoadsKnown

\* What has been stored once stays so.
StoredGrows == everStored \subseteq everStored'

\* The steps of the forms, the buttons and the pipeline.
FormSteps ==
    \/ \E s \in Subs : Submit(s) \/ FormStep(s) \/ Pipeline(s)
    \/ \E p \in Tabs, s \in Subs : Delete(p, s) \/ RemovalStep(p, s)

\* The steps of a load.
LoadSteps(l) ==
    \/ LoadStep(l)
    \/ Faults /\ RenderUnreconciled(l)
    \/ \E p \in Tabs : Refresh(l, p) \/ \E n \in Pages : Open(l, p, n)
    \/ \E s \in Subs : LoadAfterSubmit(l, s) \/ \E p \in Tabs : LoadAfterDelete(l, p, s)

\* Next is these.
LEMMA NextSteps == Next => FormSteps \/ \E l \in Loads : LoadSteps(l)
  BY DEF Next, FormSteps, LoadSteps

\* A removal that goes on keeps its type.
LEMMA GoesType ==
    ASSUME TypeOK, NEW p \in Tabs, NEW s \in Subs,
           NEW to \in {"none", "post", "mark", "load"}, Goes(p, s, to)
    PROVE  removal' \in [Tabs -> [Subs -> {"none", "post", "mark", "load"}]]
  BY DEF Goes, TypeOK

\* The forms and the pipeline do not touch the loads.
LEMMA FormsKeepLoads ==
    ASSUME FormSteps
    PROVE  load' = load
  BY DEF FormSteps, Submit, Delete, FormStep, RemovalStep, Pipeline, PostReview, MarkPending,
         PostDelete, MarkDeleting, StoreRow, DeleteRow, pages

\* The forms and the pipeline keep the invariant.
LEMMA FormsSafe ==
    ASSUME SInv, FormSteps
    PROVE  SInv' /\ StoredGrows
  <1> USE DEF SInv, TypeOK, RowsOnce, StoredGrows, pipeline, forms, redis, pages
  <1>1. load' = load
    BY FormsKeepLoads
  <1>2. StoredGrows => LoadsKnown'
    BY <1>1 DEF LoadsKnown
  <1>3. ASSUME NEW s \in Subs, Submit(s) PROVE SInv' /\ StoredGrows
    BY <1>2, <1>3 DEF Submit
  <1>4. ASSUME NEW p \in Tabs, NEW s \in Subs, Delete(p, s) PROVE SInv' /\ StoredGrows
    BY <1>2, <1>4, GoesType DEF Delete
  <1>5. ASSUME NEW s \in Subs, PostReview(s) PROVE SInv' /\ StoredGrows
    BY <1>2, <1>5 DEF PostReview, SubmitReview
  <1>6. ASSUME NEW s \in Subs, MarkPending(s) PROVE SInv' /\ StoredGrows
    <2>1. pending' \in Seq(Entries)
      <3>1. CASE UNCHANGED pending
        BY <3>1
      <3>2. ASSUME NEW t \in Seconds, pending' = Append(pending, [text |-> Text[s], at |-> t])
            PROVE  pending' \in Seq(Entries)
        <4>1. [text |-> Text[s], at |-> t] \in Entries
          BY TextAssumption DEF Entries
        <4> QED
          BY <3>2, <4>1, AppendKeeps
      <3> QED
        BY <1>6, <3>1, <3>2 DEF MarkPending
    <2> QED
      BY <1>2, <1>6, <2>1 DEF MarkPending
  <1>7. ASSUME NEW p \in Tabs, NEW s \in Subs, PostDelete(p, s) PROVE SInv' /\ StoredGrows
    BY <1>2, <1>7, GoesType DEF PostDelete, DeleteReview
  <1>8. ASSUME NEW p \in Tabs, NEW s \in Subs, MarkDeleting(p, s) PROVE SInv' /\ StoredGrows
    <2>1. removal' \in [Tabs -> [Subs -> {"none", "post", "mark", "load"}]]
      BY <1>8, GoesType DEF MarkDeleting
    <2>2. section' \in [Tabs -> Section]
      BY <1>8 DEF MarkDeleting, Blank, Section
    <2> QED
      BY <1>2, <1>8, <2>1, <2>2 DEF MarkDeleting
  <1>9. ASSUME NEW s \in Subs, StoreRow(s) PROVE SInv' /\ StoredGrows
    <2>1. s \notin ToSet(reviews)
      BY <1>9 DEF StoreRow
    <2>2. /\ reviews' \in Seq(Subs) /\ IsInjective(reviews')
          /\ ToSet(reviews') = ToSet(reviews) \cup {s}
      BY <1>9, <2>1, PrependKeeps DEF StoreRow
    <2> QED
      BY <1>2, <1>9, <2>2 DEF StoreRow
  <1>10. ASSUME NEW s \in Subs, DeleteRow(s) PROVE SInv' /\ StoredGrows
    <2>1. /\ reviews' \in Seq(Subs) /\ IsInjective(reviews')
          /\ ToSet(reviews') \subseteq ToSet(reviews)
      BY <1>10, RemoveFirstKeeps DEF DeleteRow
    <2> QED
      BY <1>2, <1>10, <2>1 DEF DeleteRow
  <1> QED
    BY <1>3, <1>4, <1>5, <1>6, <1>7, <1>8, <1>9, <1>10
       DEF FormSteps, FormStep, RemovalStep, Pipeline

\* The four ways to begin a load: one fetch, which leaves everything else alone
\* except the trigger it follows.
LEMMA LoadsBegin ==
    ASSUME TypeOK, NEW l \in Loads,
           \/ \E p \in Tabs : Refresh(l, p) \/ \E n \in Pages : Open(l, p, n)
           \/ \E s \in Subs : LoadAfterSubmit(l, s) \/ \E p \in Tabs : LoadAfterDelete(l, p, s)
    PROVE  /\ \E p \in Tabs : \E n \in Pages : Fetch(l, p, n)
           /\ UNCHANGED <<pipeline, redis, marked, condemned>>
           /\ removal' \in [Tabs -> [Subs -> {"none", "post", "mark", "load"}]]
           /\ form' \in [Subs -> {"new", "post", "mark", "load", "done"}]
           /\ \A s \in Subs : form'[s] \in {"new", "post"} => form[s] \in {"new", "post"}
  <1>0. 1 \in Pages
    BY PageAssumption
  <1>1. ASSUME NEW p \in Tabs, NEW n \in Pages, Fetch(l, p, n)
        PROVE  UNCHANGED <<pipeline, redis, marked, condemned>>
    BY <1>1 DEF Fetch
  <1>2. CASE \E p \in Tabs : Refresh(l, p) \/ \E n \in Pages : Open(l, p, n)
    BY <1>0, <1>1, <1>2 DEF Refresh, Open, TypeOK
  <1>3. ASSUME NEW s \in Subs, LoadAfterSubmit(l, s)
        PROVE  /\ \E p \in Tabs : Fetch(l, p, 1)
               /\ form' = [form EXCEPT ![s] = "done"] /\ removal' = removal
    BY <1>3, AuthorAssumption DEF LoadAfterSubmit
  <1>4. ASSUME NEW p \in Tabs, NEW s \in Subs, LoadAfterDelete(l, p, s)
        PROVE  /\ Fetch(l, p, 1) /\ form' = form
               /\ removal' \in [Tabs -> [Subs -> {"none", "post", "mark", "load"}]]
    BY <1>4, GoesType DEF LoadAfterDelete
  <1> QED
    BY <1>0, <1>1, <1>2, <1>3, <1>4 DEF TypeOK

\* The loads keep the invariant.
LEMMA LoadsSafe ==
    ASSUME SInv, NEW l \in Loads, LoadSteps(l)
    PROVE  SInv' /\ UNCHANGED <<pipeline, marked>>
  <1>0. TypeOK /\ LoadsKnown /\ load[l] \in Load
    BY DEF SInv, TypeOK
  <1>1. ASSUME UNCHANGED <<pipeline, marked, condemned>>,
               load' \in [Loads -> Load], section' \in [Tabs -> Section],
               removal' \in [Tabs -> [Subs -> {"none", "post", "mark", "load"}]],
               form' \in [Subs -> {"new", "post", "mark", "load", "done"}],
               \A s \in Subs : form'[s] \in {"new", "post"} => form[s] \in {"new", "post"},
               pending' \in Seq(Entries), deleting' \subseteq Subs,
               \A m \in Loads : /\ ToSet(load'[m].seen) \subseteq everStored
                                /\ \A e \in load'[m].drop : \E s \in everStored : Text[s] = e.text
        PROVE  SInv' /\ UNCHANGED <<pipeline, marked>>
    <2>1. LoadsKnown'
      BY <1>1 DEF LoadsKnown, pipeline
    <2>2. RowsOnce'
      BY <1>1 DEF SInv, RowsOnce, pipeline
    <2>3. TypeOK'
      BY <1>1 DEF SInv, TypeOK, pipeline
    <2> QED
      BY <1>1, <2>1, <2>2, <2>3 DEF SInv
  <1>2. ASSUME UNCHANGED <<pipeline, forms>>,
               load' \in [Loads -> Load], section' \in [Tabs -> Section], OthersKept(l),
               pending' \in Seq(Entries), deleting' \subseteq Subs,
               ToSet(load'[l].seen) \subseteq everStored,
               \A e \in load'[l].drop : \E s \in everStored : Text[s] = e.text
        PROVE  SInv' /\ UNCHANGED <<pipeline, marked>>
    <2>1. \A m \in Loads : /\ ToSet(load'[m].seen) \subseteq everStored
                           /\ \A e \in load'[m].drop : \E s \in everStored : Text[s] = e.text
      BY <1>0, <1>2 DEF LoadsKnown, OthersKept
    <2> QED
      BY <1>0, <1>1, <1>2, <2>1 DEF forms, TypeOK
  <1>3. CASE ReadPending(l)
    <2>1. UNCHANGED <<pipeline, forms, redis, section>>
      BY <1>3 DEF ReadPending
    <2>2. /\ load' \in [Loads -> Load] /\ OthersKept(l) /\ load'[l].seen = load[l].seen
          /\ \A e \in load'[l].drop : \E s \in ToSet(load[l].seen) : Text[s] = e.text
      BY <1>0, <1>3, ReadPendingLoads
    <2>3. ToSet(load[l].seen) \subseteq everStored
      BY <1>0 DEF LoadsKnown
    <2> QED
      BY <1>0, <1>2, <2>1, <2>2, <2>3 DEF redis, TypeOK
  <1>4. CASE DropPending(l)
    <2>1. UNCHANGED <<pipeline, forms, deleting, section>>
      BY <1>4 DEF DropPending
    <2>2. /\ load' \in [Loads -> Load]
          /\ \A m \in Loads : load'[m].seen = load[m].seen /\ load'[m].drop \subseteq load[m].drop
      BY <1>0, <1>4, DropPendingLoads
    <2>3. pending' \in Seq(Entries)
      BY <1>0, <1>4, DropPendingLoads, RemoveFirstKeeps DEF TypeOK
    <2>4. \A m \in Loads : /\ ToSet(load'[m].seen) \subseteq everStored
                           /\ \A e \in load'[m].drop : \E s \in everStored : Text[s] = e.text
      BY <1>0, <2>2 DEF LoadsKnown
    <2> QED
      BY <1>0, <1>1, <2>1, <2>2, <2>3, <2>4 DEF forms, TypeOK
  <1>5. CASE ReadDeleting(l)
    <2>1. UNCHANGED <<pipeline, forms, redis, section>>
      BY <1>5 DEF ReadDeleting
    <2>2. /\ load' \in [Loads -> Load] /\ OthersKept(l) /\ load'[l].seen = load[l].seen
          /\ load'[l].drop = load[l].drop
      BY <1>0, <1>5, ReadDeletingLoads
    <2> QED
      BY <1>0, <1>2, <2>1, <2>2 DEF redis, TypeOK, LoadsKnown
  <1>6. CASE DropDeleting(l)
    <2>1. UNCHANGED <<pipeline, forms, pending, section>>
      BY <1>6 DEF DropDeleting
    <2>2. /\ load' \in [Loads -> Load] /\ OthersKept(l) /\ load'[l].seen = load[l].seen
          /\ load'[l].drop = load[l].drop /\ deleting' \subseteq deleting
      BY <1>0, <1>6, DropDeletingLoads
    <2> QED
      BY <1>0, <1>2, <2>1, <2>2 DEF TypeOK, LoadsKnown
  <1>7. CASE Answer(l)
    <2>1. /\ load' \in [Loads -> Load] /\ OthersKept(l) /\ load'[l] = Closed
          /\ section' \in [Tabs -> Section]
      BY <1>0, <1>7, AnswerLoads
    <2>2. ToSet(Closed.seen) = {} /\ Closed.drop = {}
      BY ClosedType DEF ToSet
    <2>3. UNCHANGED <<pipeline, forms, redis>>
      BY <1>7 DEF Answer
    <2> QED
      BY <1>0, <1>2, <2>1, <2>2, <2>3 DEF redis, TypeOK
  <1>8. CASE \/ \E p \in Tabs : Refresh(l, p) \/ \E n \in Pages : Open(l, p, n)
             \/ \E s \in Subs : LoadAfterSubmit(l, s) \/ \E p \in Tabs : LoadAfterDelete(l, p, s)
    <2>1. PICK p \in Tabs, n \in Pages : Fetch(l, p, n)
      BY <1>0, <1>8, LoadsBegin
    <2>2. /\ load' \in [Loads -> Load] /\ OthersKept(l) /\ section' \in [Tabs -> Section]
          /\ \/ load'[l] = load[l]
             \/ load'[l].seen = Page(n) /\ load'[l].drop = {}
      BY <1>0, <2>1, FetchLoads
    <2>3. ToSet(Page(n)) \subseteq everStored
      BY <1>0, PageType DEF SInv, RowsOnce
    <2>4. \A m \in Loads : /\ ToSet(load'[m].seen) \subseteq everStored
                           /\ \A e \in load'[m].drop : \E s \in everStored : Text[s] = e.text
      BY <1>0, <2>2, <2>3 DEF LoadsKnown, OthersKept
    <2>5. /\ UNCHANGED <<pipeline, redis, marked, condemned>>
          /\ removal' \in [Tabs -> [Subs -> {"none", "post", "mark", "load"}]]
          /\ form' \in [Subs -> {"new", "post", "mark", "load", "done"}]
          /\ \A s \in Subs : form'[s] \in {"new", "post"} => form[s] \in {"new", "post"}
      BY <1>0, <1>8, LoadsBegin
    <2>6. pending' \in Seq(Entries) /\ deleting' \subseteq Subs
      BY <1>0, <2>5 DEF redis, TypeOK
    <2> QED
      BY <1>1, <2>2, <2>4, <2>5, <2>6
  <1> QED
    BY <1>3, <1>4, <1>5, <1>6, <1>7, <1>8 DEF LoadSteps, LoadStep, Render, RenderUnreconciled

\* SInv is an invariant of the page.
THEOREM SafetyInvariant == Spec => []SInv
  <1>1. Init => SInv
    <2>1. /\ <<>> \in Seq(Subs) /\ <<>> \in Seq(Entries)
          /\ ToSet(<<>>) = {} /\ IsInjective(<<>>)
      BY DEF ToSet, IsInjective
    <2>2. Blank \in Section
      BY DEF Blank, Section
    <2> QED
      BY <2>1, <2>2, ClosedType DEF Init, SInv, TypeOK, RowsOnce, LoadsKnown
  <1>2. SInv /\ [Next]_vars => SInv'
    <2>1. ASSUME SInv, UNCHANGED vars PROVE SInv'
      BY <2>1 DEF vars, pipeline, forms, redis, pages, SInv, TypeOK, RowsOnce, LoadsKnown
    <2> QED
      BY <2>1, NextSteps, FormsSafe, LoadsSafe
  <1> QED
    BY <1>1, <1>2, PTL DEF Spec

\* The model of the pending reviews keeps its types.
THEOREM TypeCorrect == Spec => []TypeOK
  <1>1. SInv => TypeOK
    BY DEF SInv
  <1> QED
    BY <1>1, SafetyInvariant, PTL

----------------------------------------------------------------------------
(* A pending review keeps its entry.  A text confirms one entry, so this   *)
(* needs every submission to have a text of its own: two that say the same *)
(* are told apart by nobody.                                               *)

OwnTexts == \A s, t \in Subs : Text[s] = Text[t] => s = t

Kept(s) == \E e \in ToSet(pending) : e.text = Text[s]

MarkedKept == \A s \in marked \ everStored : Kept(s)

\* A list that only grows keeps the entries.
LEMMA GrowingKeeps ==
    ASSUME MarkedKept, marked' = marked, StoredGrows,
           ToSet(pending) \subseteq ToSet(pending')
    PROVE  MarkedKept'
  BY DEF MarkedKept, Kept, StoredGrows

\* The forms and the pipeline add entries, and remove none.
LEMMA FormsGrowPending ==
    ASSUME TypeOK, FormSteps
    PROVE  ToSet(pending) \subseteq ToSet(pending')
  <1>1. ASSUME NEW s \in Subs, MarkPending(s)
        PROVE  ToSet(pending) \subseteq ToSet(pending')
    <2>1. ASSUME NEW t \in Seconds, pending' = Append(pending, [text |-> Text[s], at |-> t])
          PROVE  ToSet(pending) \subseteq ToSet(pending')
      <3>1. [text |-> Text[s], at |-> t] \in Entries
        BY TextAssumption DEF Entries
      <3> QED
        BY <2>1, <3>1, AppendKeeps DEF TypeOK
    <2> QED
      BY <1>1, <2>1 DEF MarkPending
  <1>2. CASE UNCHANGED pending
    BY <1>2
  <1> QED
    BY <1>1, <1>2 DEF FormSteps, Submit, Delete, FormStep, RemovalStep, Pipeline, PostReview,
                      PostDelete, MarkDeleting, StoreRow, DeleteRow, redis

\* The forms and the pipeline keep the entries.
LEMMA FormsKeepEntries ==
    ASSUME SInv, MarkedKept, FormSteps
    PROVE  MarkedKept'
  <1>1. StoredGrows
    BY FormsSafe
  <1>2. ToSet(pending) \subseteq ToSet(pending')
    BY FormsGrowPending DEF SInv
  <1>3. ASSUME NEW s \in Subs, MarkPending(s), marked' # marked
        PROVE  MarkedKept'
    <2>1. PICK t \in Seconds : pending' = Append(pending, [text |-> Text[s], at |-> t])
      BY <1>3 DEF MarkPending
    <2>2. marked' = marked \cup {s}
      BY <1>3 DEF MarkPending
    <2>3. PICK e : e = [text |-> Text[s], at |-> t]
      OBVIOUS
    <2>4. e \in Entries /\ e.text = Text[s]
      BY <2>3, TextAssumption DEF Entries
    <2>5. ToSet(pending') = ToSet(pending) \cup {e}
      BY <2>1, <2>3, <2>4, AppendKeeps DEF SInv, TypeOK
    <2> QED
      BY <1>1, <2>2, <2>4, <2>5 DEF MarkedKept, Kept, StoredGrows
  <1>4. CASE marked' = marked
    BY <1>1, <1>2, <1>4, GrowingKeeps
  <1> QED
    BY <1>3, <1>4 DEF FormSteps, Submit, Delete, FormStep, RemovalStep, Pipeline, PostReview,
                      PostDelete, MarkDeleting, StoreRow, DeleteRow, forms

\* A load changes the list only by removing an entry with the text of a row.
LEMMA LoadsRemove ==
    ASSUME TypeOK, NEW l \in Loads, LoadSteps(l)
    PROVE  DropPending(l) \/ UNCHANGED pending
  <1>1. CASE \/ \E p \in Tabs : Refresh(l, p) \/ \E n \in Pages : Open(l, p, n)
             \/ \E s \in Subs : LoadAfterSubmit(l, s) \/ \E p \in Tabs : LoadAfterDelete(l, p, s)
    BY <1>1, LoadsBegin DEF redis
  <1>2. CASE ReadPending(l) \/ ReadDeleting(l) \/ DropDeleting(l) \/ Answer(l)
    BY <1>2 DEF ReadPending, ReadDeleting, DropDeleting, Answer, redis
  <1> QED
    BY <1>1, <1>2 DEF LoadSteps, LoadStep, Render, RenderUnreconciled

\* A load removes only entries with the text of a row it has seen.
LEMMA LoadsKeepEntries ==
    ASSUME OwnTexts, SInv, MarkedKept, NEW l \in Loads, LoadSteps(l)
    PROVE  MarkedKept'
  <1>1. StoredGrows /\ marked' = marked /\ everStored' = everStored
    BY LoadsSafe DEF StoredGrows, pipeline
  <1>2. CASE UNCHANGED pending
    BY <1>1, <1>2, GrowingKeeps
  <1>3. CASE DropPending(l)
    <2>1. PICK e \in load[l].drop : pending' = RemoveFirst(pending, e) \/ pending' = pending
      BY <1>3, DropPendingLoads DEF SInv
    <2>2. PICK r \in everStored : Text[r] = e.text
      BY DEF SInv, LoadsKnown
    <2>3. ToSet(pending) \ {e} \subseteq ToSet(pending')
      BY <2>1, RemoveFirstKeeps DEF SInv, TypeOK
    <2> SUFFICES ASSUME NEW s \in marked \ everStored PROVE Kept(s)'
      BY <1>1 DEF MarkedKept
    <2>4. PICK f \in ToSet(pending) : f.text = Text[s]
      BY DEF MarkedKept, Kept
    <2>5. f # e
      BY <2>2, <2>4 DEF OwnTexts, SInv, TypeOK
    <2> QED
      BY <2>3, <2>4, <2>5 DEF Kept
  <1> QED
    BY <1>2, <1>3, LoadsRemove DEF SInv

\* A review marked as pending keeps its entry until it has had a row, with any
\* number of loads that reconcile at the same time and whatever calls fail.
THEOREM PendingStays ==
    ASSUME OwnTexts
    PROVE  Spec => []PendingUntilStored
  <1>1. Init => MarkedKept
    BY DEF Init, MarkedKept
  <1>2. SInv /\ MarkedKept /\ [Next]_vars => MarkedKept'
    <2>1. ASSUME MarkedKept, UNCHANGED vars PROVE MarkedKept'
      BY <2>1 DEF vars, pipeline, forms, redis, MarkedKept, Kept
    <2> QED
      BY <2>1, NextSteps, FormsKeepEntries, LoadsKeepEntries
  <1>3. SInv /\ MarkedKept => PendingUntilStored
    <2> SUFFICES ASSUME SInv, MarkedKept, NEW x \in Texts
                 PROVE  Cardinality({s \in marked \ everStored : Text[s] = x})
                            <= Cardinality({j \in DOMAIN pending : pending[j].text = x})
      BY DEF PendingUntilStored
    <2> DEFINE A == {s \in marked \ everStored : Text[s] = x}
               B == {j \in DOMAIN pending : pending[j].text = x}
    <2>1. PICK n \in Nat : DOMAIN pending = 1 .. n
      BY LenProperties DEF SInv, TypeOK
    <2>2. IsFiniteSet(B) /\ Cardinality(B) \in Nat
      <3>1. IsFiniteSet(1 .. n)
        BY FS_Interval
      <3>2. B \in SUBSET (1 .. n)
        BY <2>1
      <3> QED
        BY <3>1, <3>2, FS_Subset, FS_CardinalityType
    <2>3. CASE A = {}
      <3>1. Cardinality(A) = 0
        BY <2>3, FS_EmptySet
      <3> QED
        BY <2>2, <3>1
    <2>4. CASE A # {}
      <3>1. PICK s \in A : TRUE
        BY <2>4
      <3>2. A = {s}
        BY <3>1 DEF OwnTexts, SInv, TypeOK
      <3>3. B # {}
        BY <3>1 DEF MarkedKept, Kept, ToSet
      <3> HIDE DEF A, B
      <3>4. Cardinality(A) = 1
        BY <3>2, FS_Singleton
      <3>5. Cardinality(B) # 0
        BY <2>2, <3>3, FS_EmptySet
      <3>6. Cardinality(A) <= Cardinality(B)
        BY <2>2, <3>4, <3>5
      <3> QED
        BY <3>6 DEF A, B
    <2> QED
      BY <2>3, <2>4
  <1> QED
    BY <1>1, <1>2, <1>3, SafetyInvariant, PTL DEF Spec

----------------------------------------------------------------------------
(* Nothing vanishes from the answer of a load, except by another load.     *)

\* What was pending when the load began and no other load has removed is still
\* pending, or on its answer.
Accounted(l) ==
    /\ load[l].pc = "pending" => load[l].due \subseteq ToSet(pending)
    /\ load[l].pc \in {"lrem", "srem"} =>
          \A e \in load[l].due : \/ \E s \in ToSet(load[l].seen) : Text[s] = e.text
                                 \/ \E f \in load[l].left : f.text = e.text

DueShown == \A l \in Loads : Accounted(l)

\* The forms and the pipeline remove no entries.
LEMMA FormsKeepDue ==
    ASSUME SInv, DueShown, FormSteps
    PROVE  DueShown'
  <1>1. load' = load
    BY FormsKeepLoads
  <1>2. ToSet(pending) \subseteq ToSet(pending')
    BY FormsGrowPending DEF SInv
  <1> QED
    BY <1>1, <1>2 DEF DueShown, Accounted

\* A step of a load that leaves the list alone does not concern the others.
LEMMA OthersAccounted ==
    ASSUME DueShown, NEW l \in Loads, OthersKept(l), UNCHANGED pending, Accounted(l)'
    PROVE  DueShown'
  BY DEF DueShown, Accounted, OthersKept

\* What one load removes from the list, no other one has to account for.
LEMMA RemovalAccounted ==
    ASSUME SInv, DueShown, NEW l \in Loads, DropPending(l)
    PROVE  DueShown'
  <1>0. TypeOK
    BY DEF SInv
  <1>1. /\ load[l].pc = "lrem"
        /\ \A m \in Loads : /\ load'[m].pc = load[m].pc /\ load'[m].seen = load[m].seen
                            /\ load'[m].left = load[m].left
                            /\ load'[m].due \subseteq load[m].due
    BY <1>0, DropPendingLoads
  <1>2. PICK e \in load[l].drop :
           \/ pending' = pending
           \/ /\ pending' = RemoveFirst(pending, e)
              /\ \A m \in Loads \ {l} : load'[m].due = load[m].due \ {e}
    BY <1>0, DropPendingLoads
  <1>3. ToSet(pending) \ {e} \subseteq ToSet(RemoveFirst(pending, e))
    BY <1>0, RemoveFirstKeeps DEF TypeOK
  <1> SUFFICES ASSUME NEW m \in Loads PROVE Accounted(m)'
    BY DEF DueShown
  <1>4. Accounted(m)
    BY DEF DueShown
  <1>5. ASSUME load[m].pc = "pending" PROVE load'[m].due \subseteq ToSet(pending')
    <2>1. m # l
      BY <1>1, <1>5
    <2>2. CASE pending' = pending
      BY <1>1, <1>4, <1>5, <2>2 DEF Accounted
    <2>3. CASE pending' = RemoveFirst(pending, e) /\ load'[m].due = load[m].due \ {e}
      BY <1>3, <1>4, <1>5, <2>3 DEF Accounted
    <2> QED
      BY <1>2, <2>1, <2>2, <2>3
  <1>6. ASSUME load[m].pc \in {"lrem", "srem"}
        PROVE  \A d \in load'[m].due : \/ \E s \in ToSet(load'[m].seen) : Text[s] = d.text
                                      \/ \E f \in load'[m].left : f.text = d.text
    BY <1>1, <1>4, <1>6 DEF Accounted
  <1> QED
    BY <1>1, <1>5, <1>6 DEF Accounted

\* Each load accounts for what was pending, step by step.
LEMMA LoadsKeepDue ==
    ASSUME SInv, DueShown, NEW l \in Loads, LoadSteps(l)
    PROVE  DueShown'
  <1>0. TypeOK /\ Accounted(l)
    BY DEF SInv, DueShown
  <1>1. CASE \/ \E p \in Tabs : Refresh(l, p) \/ \E n \in Pages : Open(l, p, n)
             \/ \E s \in Subs : LoadAfterSubmit(l, s) \/ \E p \in Tabs : LoadAfterDelete(l, p, s)
    <2>1. PICK p \in Tabs, n \in Pages : Fetch(l, p, n)
      BY <1>0, <1>1, LoadsBegin
    <2>2. UNCHANGED pending
      BY <2>1 DEF Fetch, redis
    <2>3. /\ OthersKept(l) /\ load[l].pc = "idle"
          /\ \/ load'[l] = load[l]
             \/ load'[l].pc = "pending" /\ load'[l].due = ToSet(pending)
      BY <1>0, <2>1, FetchLoads
    <2>4. Accounted(l)'
      BY <1>0, <2>2, <2>3 DEF Accounted
    <2> QED
      BY <2>2, <2>3, <2>4, OthersAccounted
  <1>2. CASE ReadPending(l)
    <2>1. /\ OthersKept(l) /\ load[l].pc = "pending" /\ load'[l].pc = "lrem"
          /\ load'[l].seen = load[l].seen /\ load'[l].due = load[l].due
          /\ \A e \in ToSet(pending) :
                 \/ e \in load'[l].left
                 \/ \E s \in ToSet(load[l].seen) : Text[s] = e.text
      BY <1>0, <1>2, ReadPendingLoads
    <2>2. Accounted(l)'
      BY <1>0, <2>1 DEF Accounted
    <2> QED
      BY <1>2, <2>1, <2>2, OthersAccounted DEF ReadPending, redis
  <1>3. CASE DropPending(l)
    BY <1>3, RemovalAccounted
  <1>4. CASE ReadDeleting(l)
    <2>1. /\ OthersKept(l) /\ load[l].pc = "lrem" /\ load'[l].pc = "srem"
          /\ load'[l].seen = load[l].seen /\ load'[l].due = load[l].due
          /\ load'[l].left = load[l].left
      BY <1>0, <1>4, ReadDeletingLoads
    <2>2. Accounted(l)'
      BY <1>0, <2>1 DEF Accounted
    <2> QED
      BY <1>4, <2>1, <2>2, OthersAccounted DEF ReadDeleting, redis
  <1>5. CASE DropDeleting(l)
    <2>1. /\ OthersKept(l) /\ load[l].pc = "srem" /\ load'[l].pc = "srem"
          /\ load'[l].seen = load[l].seen /\ load'[l].due = load[l].due
          /\ load'[l].left = load[l].left
      BY <1>0, <1>5, DropDeletingLoads
    <2>2. Accounted(l)'
      BY <1>0, <2>1 DEF Accounted
    <2> QED
      BY <1>5, <2>1, <2>2, OthersAccounted DEF DropDeleting
  <1>6. CASE Answer(l)
    <2>1. OthersKept(l) /\ load'[l].pc = "idle"
      BY <1>0, <1>6, AnswerLoads, ClosedType
    <2>2. Accounted(l)'
      BY <2>1 DEF Accounted
    <2> QED
      BY <1>6, <2>1, <2>2, OthersAccounted DEF Answer, redis
  <1> QED
    BY <1>1, <1>2, <1>3, <1>4, <1>5, <1>6 DEF LoadSteps, LoadStep, Render, RenderUnreconciled

\* Whatever calls fail and however many loads of however many browsers overlap,
\* a review that was pending when a load of page 1 began is on its reconciled
\* answer, as a row or as pending, unless another load has removed its entry in
\* between.
THEOREM NothingVanishes == Spec => []NeverVanishes
  <1>1. Init => DueShown
    BY ClosedType DEF Init, DueShown, Accounted
  <1>2. SInv /\ DueShown /\ [Next]_vars => DueShown'
    <2>1. ASSUME DueShown, UNCHANGED vars PROVE DueShown'
      BY <2>1 DEF vars, pages, redis, DueShown, Accounted
    <2> QED
      BY <2>1, NextSteps, FormsKeepDue, LoadsKeepDue
  <1>3. DueShown => NeverVanishes
    BY DEF DueShown, Accounted, NeverVanishes, Reconciled
  <1> QED
    BY <1>1, <1>2, <1>3, SafetyInvariant, PTL DEF Spec

=============================================================================
