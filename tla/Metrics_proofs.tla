--------------------------- MODULE Metrics_proofs ---------------------------
(***************************************************************************)
(* Proofs about Ingestion and Metrics: type correctness; a sync stores     *)
(* everything there was when it began, and undoes nothing; a report that   *)
(* no commit interfered with is exact.                                     *)
(***************************************************************************)
EXTENDS Metrics, FiniteSetTheorems, TLAPS

-----------------------------------------------------------------------------
(* Smallest, largest and k-th elements. *)

\* There is no induction here: the segments below the elements of a set are
\* finite sets, which strict inclusion orders well.
LEMMA LeastExists ==
  ASSUME NEW T, T \subseteq Nat, T # {}
  PROVE  \E m \in T : \A x \in T : m =< x
<1> DEFINE R == StrictSubsetOrdering(Nat)
           Below(x) == 0 .. (x - 1)
           F == {Below(x) : x \in T}
<1>1. F \subseteq FiniteSubsetsOf(Nat)
  <2>1. ASSUME NEW x \in T PROVE Below(x) \in FiniteSubsetsOf(Nat)
    <3>1. x \in Nat /\ 0 \in Int /\ x - 1 \in Int
      OBVIOUS
    <3>2. IsFiniteSet(Below(x))
      BY <3>1, FS_Interval
    <3>3. QED
      BY <3>1, <3>2 DEF FiniteSubsetsOf
  <2>2. QED
    BY <2>1
<1>2. F # {}
  OBVIOUS
<1>3. IsWellFoundedOn(R, FiniteSubsetsOf(Nat))
  BY FS_StrictSubsetOrderingWellFounded
<1> HIDE DEF R
<1>4. PICK B \in F : \A C \in F : <<C, B>> \notin R
  BY <1>1, <1>2, <1>3, WFMin
<1>5. PICK m \in T : B = Below(m)
  BY <1>4
<1>6. ASSUME NEW x \in T PROVE m =< x
  <2> SUFFICES ASSUME x < m PROVE FALSE
    OBVIOUS
  <2>1. Below(x) \subseteq Below(m) /\ Below(x) # Below(m)
    <3>1. x \in Below(m) /\ x \notin Below(x)
      OBVIOUS
    <3>2. Below(x) \subseteq Below(m)
      OBVIOUS
    <3>3. QED
      BY <3>1, <3>2
  <2>2. <<Below(x), Below(m)>> \in R
    BY <2>1 DEF R, StrictSubsetOrdering
  <2>3. QED
    BY <1>4, <1>5, <2>2
<1>7. QED
  BY <1>6

LEMMA GreatestExists ==
  ASSUME NEW n \in Nat, NEW T, T \subseteq 0 .. n, T # {}
  PROVE  \E m \in T : \A x \in T : x =< m
<1> DEFINE D == {n - x : x \in T}
<1>1. D \subseteq Nat /\ D # {}
  <2>1. \A x \in T : n - x \in Nat
    OBVIOUS
  <2>2. PICK x : x \in T
    OBVIOUS
  <2>3. n - x \in D
    BY <2>2
  <2>4. QED
    BY <2>1, <2>3
<1> HIDE DEF D
<1>2. \E d \in D : \A x \in D : d =< x
  BY <1>1, LeastExists
<1>3. PICK m \in T : \A x \in D : n - m =< x
  BY <1>2 DEF D
<1>4. ASSUME NEW x \in T PROVE x =< m
  <2>1. n - x \in D
    BY DEF D
  <2>2. n - m =< n - x
    BY <1>3, <2>1
  <2>3. x \in Int /\ m \in Int
    OBVIOUS
  <2>4. QED
    BY <2>2, <2>3
<1>5. QED
  BY <1>4

LEMMA MinIsLeast ==
  ASSUME NEW T, T \subseteq Nat, T # {}
  PROVE  Min(T) \in T /\ \A x \in T : Min(T) =< x
  BY LeastExists DEF Min

LEMMA MaxIsGreatest ==
  ASSUME NEW n \in Nat, NEW T, T \subseteq 0 .. n, T # {}
  PROVE  Max(T) \in T /\ \A x \in T : Max(T) >= x
<1>1. \E m \in T : \A x \in T : m >= x
  BY GreatestExists
<1>2. QED
  BY <1>1 DEF Max

LEMMA SubsetOfInterval ==
  ASSUME NEW n \in Nat, NEW S, S \subseteq 1 .. n
  PROVE  IsFiniteSet(S) /\ Cardinality(S) \in 0 .. n
<1>1. IsFiniteSet(1 .. n) /\ Cardinality(1 .. n) = n
  BY FS_Interval
<1>2. IsFiniteSet(S) /\ Cardinality(S) =< n
  BY <1>1, FS_Subset
<1>3. QED
  BY <1>2, FS_CardinalityType

\* v is a value of f, with fewer than k values below it, and k or more up to it.
IsKth(f, k, v) ==
    /\ \E x \in DOMAIN f : v = f[x]
    /\ Cardinality({x \in DOMAIN f : f[x] < v}) < k
    /\ Cardinality({x \in DOMAIN f : f[x] =< v}) >= k

\* The k-th smallest of the values of any function on a finite set is one of
\* the values, with fewer than k below it and k or more up to it, and no other
\* value is: the two that the median is half the sum of
\* (repository_metrics.py:79-82).
THEOREM KthSmallest ==
  ASSUME NEW b \in Nat, NEW D, IsFiniteSet(D), NEW f \in [D -> 0 .. b],
         NEW k \in 1 .. Cardinality(D)
  PROVE  IsKth(f, k, Kth(f, k)) /\ \A u : IsKth(f, k, u) => u = Kth(f, k)
<1> DEFINE upTo(v) == {x \in D : f[x] =< v}
           under(v) == {x \in D : f[x] < v}
           T == {v \in Nat : Cardinality(upTo(v)) >= k}
<1>1. \A v : IsFiniteSet(upTo(v)) /\ IsFiniteSet(under(v))
  BY FS_Subset
<1>2. \A v : Cardinality(upTo(v)) \in Nat /\ Cardinality(under(v)) \in Nat
  BY <1>1, FS_CardinalityType
<1>3. Cardinality(D) \in Nat /\ k \in Nat /\ k >= 1 /\ k =< Cardinality(D)
  BY FS_CardinalityType
<1>4. b \in T
  <2>1. upTo(b) = D
    OBVIOUS
  <2>2. QED
    BY <1>3, <2>1
<1>5. PICK v \in T : \A u \in T : v =< u
  <2> HIDE DEF T
  <2>1. T \subseteq Nat
    BY DEF T
  <2>2. QED
    BY <1>4, <2>1, LeastExists
<1>6. v \in Nat /\ Cardinality(upTo(v)) >= k
  OBVIOUS
<1>7. Cardinality(under(v)) < k
  <2>1. CASE v = 0
    <3>1. under(v) = {}
      BY <2>1
    <3>2. QED
      BY <1>3, <3>1, FS_EmptySet
  <2>2. CASE v # 0
    <3>1. v - 1 \in Nat /\ v - 1 \notin T
      BY <1>5, <1>6, <2>2
    <3>2. ~(Cardinality(upTo(v - 1)) >= k)
      BY <3>1
    <3>3. under(v) = upTo(v - 1)
      BY <1>6
    <3> HIDE DEF under, upTo
    <3>4. QED
      BY <1>2, <1>3, <3>2, <3>3
  <2>3. QED
    BY <2>1, <2>2
<1>8. v \in {f[x] : x \in D}
  <2>1. upTo(v) # under(v)
    BY <1>2, <1>3, <1>6, <1>7
  <2>2. PICK x \in D : f[x] =< v /\ ~(f[x] < v)
    BY <2>1
  <2>3. f[x] = v
    BY <1>6, <2>2
  <2>4. QED
    BY <2>3
<1>9. DOMAIN f = D
  OBVIOUS
<1>10. /\ Kth(f, k) \in {f[x] : x \in D}
       /\ Cardinality(under(Kth(f, k))) < k
       /\ Cardinality(upTo(Kth(f, k))) >= k
  <2>1. \E u \in {f[x] : x \in DOMAIN f} :
          /\ Cardinality({x \in DOMAIN f : f[x] < u}) < k
          /\ Cardinality({x \in DOMAIN f : f[x] =< u}) >= k
    BY <1>6, <1>7, <1>8, <1>9
  <2> DEFINE P(u) == /\ Cardinality({x \in DOMAIN f : f[x] < u}) < k
                     /\ Cardinality({x \in DOMAIN f : f[x] =< u}) >= k
             V == {f[x] : x \in DOMAIN f}
  <2>2. Kth(f, k) = CHOOSE u \in V : P(u)
    BY DEF Kth
  <2>3. \E u \in V : P(u)
    BY <2>1
  <2> HIDE DEF P, V
  <2>4. Kth(f, k) \in V /\ P(Kth(f, k))
    BY <2>2, <2>3
  <2>5. QED
    BY <1>9, <2>4 DEF P, V
<1>11. ASSUME NEW u \in 0 .. b, NEW w \in 0 .. b, u < w,
              Cardinality(upTo(u)) >= k, Cardinality(under(w)) < k
       PROVE  FALSE
  <2>1. upTo(u) \subseteq under(w)
    BY <1>11
  <2> HIDE DEF under, upTo
  <2>2. Cardinality(upTo(u)) =< Cardinality(under(w))
    BY <1>1, <2>1, FS_Subset
  <2>3. QED
    BY <1>2, <1>3, <1>11, <2>2
<1>12. ASSUME NEW u, IsKth(f, k, u)
       PROVE  u = Kth(f, k)
  <2>0. u \in {f[x] : x \in D} /\ Cardinality(under(u)) < k /\ Cardinality(upTo(u)) >= k
    BY <1>9, <1>12 DEF IsKth
  <2>1. u \in 0 .. b /\ Kth(f, k) \in 0 .. b
    BY <1>10, <2>0
  <2> HIDE DEF under, upTo
  <2>2. ~(u < Kth(f, k)) /\ ~(Kth(f, k) < u)
    BY <1>10, <1>11, <2>0, <2>1
  <2>3. QED
    BY <2>1, <2>2
<1>13. IsKth(f, k, Kth(f, k))
  BY <1>9, <1>10 DEF IsKth
<1>14. QED
  BY <1>12, <1>13

LEMMA MedianType ==
  ASSUME NEW b \in Nat, NEW D, IsFiniteSet(D), NEW f \in [D -> 0 .. b]
  PROVE  TwiceMedian(f) \in (0 .. 2 * b) \cup {Never}
<1> DEFINE size == Cardinality(D)
<1>1. size \in Nat /\ DOMAIN f = D
  BY FS_CardinalityType
<1>2. CASE size = 0
  BY <1>1, <1>2 DEF TwiceMedian
<1>3. CASE size # 0
  <2> HIDE DEF size
  <2>1. (size + 1) \div 2 \in 1 .. size /\ size \div 2 + 1 \in 1 .. size
    BY <1>1, <1>3
  <2>2. Kth(f, (size + 1) \div 2) \in 0 .. b /\ Kth(f, size \div 2 + 1) \in 0 .. b
    <3>1. ASSUME NEW k \in 1 .. size PROVE \E x \in D : Kth(f, k) = f[x]
      <4>1. IsKth(f, k, Kth(f, k))
        BY KthSmallest DEF size
      <4>2. QED
        BY <1>1, <4>1 DEF IsKth
    <3>2. QED
      BY <2>1, <3>1
  <2>3. TwiceMedian(f) = Kth(f, (size + 1) \div 2) + Kth(f, size \div 2 + 1)
    BY <1>1, <1>3 DEF TwiceMedian, size
  <2>4. QED
    BY <2>2, <2>3
<1>4. QED
  BY <1>2, <1>3

-----------------------------------------------------------------------------
(* The inductive invariant. *)

Active(s) == sync[s].phase \in {"list", "reviews", "persist"}

\* The execution has the list of pull requests, and not yet stored it.
HasList(s) == sync[s].phase \in {"reviews", "persist"}

GitHubHolds ==
    /\ now \in Times
    /\ pulls \in [Numbers -> Pull]
    /\ \A n \in Numbers : pulls[n].created # Never => pulls[n].created =< now
    /\ \A n \in Numbers : pulls[n].merged # Never => pulls[n].merged =< now
    /\ reviews \in [Numbers -> Seq(Times \cup {Never})]
    /\ \A n \in Numbers : Len(reviews[n]) =< now

\* What is stored is what GitHub says: its timestamps do not change.
StoredHolds ==
    /\ storedPulls \in [Numbers -> Pull]
    /\ storedReviews \in [Numbers -> SUBSET (1 .. MaxEvents)]
    /\ \A n \in Numbers :
        /\ storedPulls[n].created \in {Never, pulls[n].created}
        /\ storedPulls[n].merged \in {Never, pulls[n].merged}
        /\ storedPulls[n].merged # Never => storedPulls[n].created # Never
        /\ storedReviews[n] \subseteq DOMAIN reviews[n]

\* One pull request of the list, as it was when the list was read: later than
\* the execution began, and not before anything that is stored.
FetchHolds(s, n) ==
    LET fetched == sync[s].fetched[n] IN
    /\ n \in Opened
    /\ fetched.created = pulls[n].created
    /\ fetched.merged \in {Never, pulls[n].merged}
    /\ pulls[n].merged \in 1 .. sync[s].since => fetched.merged = pulls[n].merged
    /\ storedPulls[n].merged # Never => fetched.merged = storedPulls[n].merged

\* The newest pull requests that were there when the execution began.
ListIsComplete(s) ==
    \A n \in Newest(Opened, Window) :
        pulls[n].created \in 0 .. sync[s].since => n \in DOMAIN sync[s].fetched

\* The review was submitted before the execution began, or before the merge it
\* has read.
IsDue(s, n, t) ==
    LET merged == sync[s].fetched[n].merged IN
    t \in 1 .. sync[s].since \/ (merged # Never /\ t \in 1 .. merged)

\* The reviews of the pull requests that are done are there, and those of the
\* next one up to the page that is due.
ReadHolds(s) ==
    /\ \A n \in DOMAIN sync[s].fetched \ sync[s].todo : \A i \in DOMAIN reviews[n] :
            IsDue(s, n, reviews[n][i]) => i \in sync[s].found[n]
    /\ sync[s].phase = "reviews" =>
            1 .. (sync[s].page - 1) * PageSize \subseteq sync[s].found[Max(sync[s].todo)]

SyncHolds(s) ==
    /\ sync[s].since =< now
    /\ \A n \in Numbers : sync[s].found[n] \subseteq DOMAIN reviews[n]
    /\ sync[s].todo \subseteq DOMAIN sync[s].fetched
    /\ sync[s].phase = "reviews" => sync[s].todo # {}
    /\ sync[s].phase # "reviews" => sync[s].todo = {} /\ sync[s].page = 1
    /\ HasList(s) => /\ \A n \in DOMAIN sync[s].fetched : FetchHolds(s, n)
                     /\ ListIsComplete(s)
                     /\ ReadHolds(s)

OneSync == \A s, t \in Syncs : Active(s) /\ Active(t) => s = t

IngestionInv ==
    /\ GitHubHolds
    /\ StoredHolds
    /\ sync \in [Syncs -> Execution]
    /\ \A s \in Syncs : SyncHolds(s)
    /\ OneSync

\* The submission times that count for a pull request.
ValidTimes(n) == {t \in {reviews[n][i] : i \in storedReviews[n]} :
                     t # Never /\ t >= storedPulls[n].created}

ReportHolds(r) ==
    /\ \A row \in report[r].rows : /\ row.pr \in Stored
                                   /\ row.position \in storedReviews[row.pr]
                                   /\ reviews[row.pr][row.position] # Never
    /\ report[r].phase # "loop" => report[r].rows = {}
    /\ \A n \in Numbers : report[r].earliest[n] # Never =>
            n \in Stored /\ report[r].earliest[n] >= storedPulls[n].created
    /\ report[r].phase \in {"total", "merged", "cycle", "reviews"} =>
            report[r].earliest = [n \in Numbers |-> Never]

\* The durations that the two medians are of.
Cycles ==
    [n \in {m \in Merged : storedPulls[m].merged >= storedPulls[m].created} |->
        storedPulls[n].merged - storedPulls[n].created]

Firsts ==
    [n \in {m \in Stored : ValidTimes(m) # {}} |-> Min(ValidTimes(n)) - storedPulls[n].created]

\* What a report has counted so far, if no sync has interfered.
CountsHold(r) ==
    /\ report[r].phase # "total" => report[r].total = Cardinality(Stored)
    /\ report[r].phase \notin {"total", "merged"} => report[r].merged = Cardinality(Merged)
    /\ report[r].phase \in {"reviews", "loop", "done"} => report[r].cycle = TwiceMedian(Cycles)

\* The rows that are read have been taken into account, and nothing else.
EarliestHolds(r) ==
    \A n \in Numbers :
        /\ report[r].earliest[n] # Never => report[r].earliest[n] \in ValidTimes(n)
        /\ \A i \in storedReviews[n] : n \in Stored /\ reviews[n][i] \in ValidTimes(n) =>
               \/ [pr |-> n, position |-> i] \in report[r].rows
               \/ /\ report[r].earliest[n] # Never
                  /\ report[r].earliest[n] =< reviews[n][i]

QuietHolds(r) ==
    report[r].quiet => /\ CountsHold(r)
                       /\ report[r].phase = "loop" => EarliestHolds(r)
                       /\ report[r].phase = "done" => report[r].first = TwiceMedian(Firsts)

ReportsHold ==
    /\ report \in [Readers -> Report]
    /\ \A r \in Readers : ReportHolds(r)

QuietsHold == \A r \in Readers : QuietHolds(r)

Inv == IngestionInv /\ ReportsHold /\ QuietsHold

-----------------------------------------------------------------------------
(* GitHub. *)

\* What GitHub does while syncs and reports read it: timestamps are set once,
\* reviews are added, and what is new is dated now, or not properly at all.
GitHubGrows ==
    /\ now' = now + 1
    /\ GitHubHolds'
    /\ UNCHANGED <<storedVars, sync>>
    /\ \A n \in Numbers :
        /\ \/ pulls'[n].created = pulls[n].created
           \/ pulls[n].created = Never /\ pulls'[n].created = now'
        /\ \/ pulls'[n].merged = pulls[n].merged
           \/ pulls[n].merged = Never /\ pulls'[n].merged \in {0, now'}
        /\ DOMAIN reviews[n] \subseteq DOMAIN reviews'[n]
        /\ \A i \in DOMAIN reviews[n] : reviews'[n][i] = reviews[n][i]
        /\ \A i \in DOMAIN reviews'[n] \ DOMAIN reviews[n] : reviews'[n][i] \in {0, now', Never}

LEMMA GitHubTimes ==
  ASSUME GitHubHolds
  PROVE  /\ now \in Nat /\ Never \notin Nat
         /\ \A n \in Numbers :
              /\ pulls[n].created # Never => pulls[n].created \in Nat /\ pulls[n].created =< now
              /\ pulls[n].merged # Never => pulls[n].merged \in Nat /\ pulls[n].merged =< now
<1>1. \A n \in Numbers : pulls[n].created \in Times \cup {Never} /\ pulls[n].merged \in Times \cup {Never}
  BY DEF GitHubHolds, Pull
<1>2. Times \subseteq Nat
  BY IngestionBounds DEF Times
<1>3. QED
  BY <1>1, <1>2, IngestionBounds DEF GitHubHolds

LEMMA OpenGrows ==
  ASSUME GitHubHolds, Open
  PROVE  GitHubGrows
<1>1. PICK n \in Numbers : Opened = 1 .. n - 1 /\ pulls' = [pulls EXCEPT ![n].created = now']
  BY DEF Open
<1>2. now < MaxEvents /\ now' = now + 1 /\ UNCHANGED <<reviews, storedVars, sync>>
  BY DEF Open, Tick
<1>3. now \in Nat /\ now' \in Times /\ MaxEvents \in Nat /\ Never \notin Nat
  BY <1>2, IngestionBounds DEF GitHubHolds, Times
<1>4. pulls[n] \in Pull /\ pulls[n].created = Never
  BY <1>1 DEF GitHubHolds, Opened, Numbers
<1> DEFINE p == [pulls[n] EXCEPT !.created = now']
<1>5. pulls' = [pulls EXCEPT ![n] = p]
  BY <1>1
<1>6. p \in Pull /\ p.created = now' /\ p.merged = pulls[n].merged
  BY <1>3, <1>4 DEF Pull
<1> HIDE DEF p
<1>7. /\ pulls' \in [Numbers -> Pull] /\ pulls'[n] = p
      /\ \A m \in Numbers : m # n => pulls'[m] = pulls[m]
  BY <1>5, <1>6 DEF GitHubHolds
<1>8. GitHubHolds'
  <2>1. \A m \in Numbers : pulls'[m].created # Never => pulls'[m].created =< now'
    BY <1>2, <1>3, <1>6, <1>7, GitHubTimes
  <2>2. \A m \in Numbers : pulls'[m].merged # Never => pulls'[m].merged =< now'
    BY <1>2, <1>3, <1>6, <1>7, GitHubTimes
  <2>3. \A m \in Numbers : Len(reviews'[m]) =< now'
    BY <1>2, <1>3 DEF GitHubHolds
  <2>4. QED
    BY <1>2, <1>3, <1>7, <2>1, <2>2, <2>3 DEF GitHubHolds
<1>9. QED
  BY <1>2, <1>4, <1>6, <1>7, <1>8 DEF GitHubGrows

LEMMA MergeGrows ==
  ASSUME GitHubHolds, NEW n \in Numbers, Merge(n)
  PROVE  GitHubGrows
<1>1. PICK t \in {0, now'} : pulls' = [pulls EXCEPT ![n].merged = t]
  BY DEF Merge
<1>2. /\ now < MaxEvents /\ now' = now + 1 /\ UNCHANGED <<reviews, storedVars, sync>>
      /\ pulls[n].merged = Never
  BY DEF Merge, Tick
<1>3. now \in Nat /\ now' \in Times /\ MaxEvents \in Nat /\ Never \notin Nat /\ t \in Times /\ t =< now'
  BY <1>2, IngestionBounds DEF GitHubHolds, Times
<1>4. pulls[n] \in Pull
  BY DEF GitHubHolds
<1> DEFINE p == [pulls[n] EXCEPT !.merged = t]
<1>5. pulls' = [pulls EXCEPT ![n] = p]
  BY <1>1
<1>6. p \in Pull /\ p.merged = t /\ p.created = pulls[n].created
  BY <1>3, <1>4 DEF Pull
<1> HIDE DEF p
<1>7. /\ pulls' \in [Numbers -> Pull] /\ pulls'[n] = p
      /\ \A m \in Numbers : m # n => pulls'[m] = pulls[m]
  BY <1>5, <1>6 DEF GitHubHolds
<1>8. GitHubHolds'
  <2>1. \A m \in Numbers : pulls'[m].created # Never => pulls'[m].created =< now'
    BY <1>2, <1>3, <1>6, <1>7, GitHubTimes
  <2>2. \A m \in Numbers : pulls'[m].merged # Never => pulls'[m].merged =< now'
    BY <1>2, <1>3, <1>6, <1>7, GitHubTimes
  <2>3. \A m \in Numbers : Len(reviews'[m]) =< now'
    BY <1>2, <1>3 DEF GitHubHolds
  <2>4. QED
    BY <1>2, <1>3, <1>7, <2>1, <2>2, <2>3 DEF GitHubHolds
<1>9. QED
  BY <1>2, <1>6, <1>7, <1>8 DEF GitHubGrows

LEMMA ReviewGrows ==
  ASSUME GitHubHolds, NEW n \in Numbers, Review(n)
  PROVE  GitHubGrows
<1>1. PICK t \in {0, now', Never} : reviews' = [reviews EXCEPT ![n] = Append(@, t)]
  BY DEF Review
<1>2. now < MaxEvents /\ now' = now + 1 /\ UNCHANGED <<pulls, storedVars, sync>>
  BY DEF Review, Tick
<1>3. now \in Nat /\ now' \in Times /\ MaxEvents \in Nat /\ t \in Times \cup {Never}
  BY <1>2, IngestionBounds DEF GitHubHolds, Times
<1>4. reviews[n] \in Seq(Times \cup {Never}) /\ Len(reviews[n]) =< now
  BY DEF GitHubHolds
<1>5. PICK l : l = Append(reviews[n], t)
  OBVIOUS
<1>6. /\ l \in Seq(Times \cup {Never}) /\ Len(l) = Len(reviews[n]) + 1
      /\ DOMAIN reviews[n] = 1 .. Len(reviews[n]) /\ DOMAIN l = 1 .. Len(reviews[n]) + 1
      /\ \A i \in DOMAIN reviews[n] : l[i] = reviews[n][i]
      /\ l[Len(reviews[n]) + 1] = t
      /\ Len(reviews[n]) \in Nat
  BY <1>3, <1>4, <1>5
<1>7. /\ reviews' \in [Numbers -> Seq(Times \cup {Never})] /\ reviews'[n] = l
      /\ \A m \in Numbers : m # n => reviews'[m] = reviews[m]
  BY <1>1, <1>5, <1>6 DEF GitHubHolds
<1>8. DOMAIN reviews[n] \subseteq DOMAIN l /\ \A i \in DOMAIN l \ DOMAIN reviews[n] : l[i] = t
  BY <1>6
<1>9. GitHubHolds'
  <2>1. \A m \in Numbers : pulls'[m].created # Never => pulls'[m].created =< now'
    BY <1>2, <1>3, GitHubTimes
  <2>2. \A m \in Numbers : pulls'[m].merged # Never => pulls'[m].merged =< now'
    BY <1>2, <1>3, GitHubTimes
  <2>3. \A m \in Numbers : Len(reviews'[m]) =< now'
    <3>1. \A m \in Numbers : Len(reviews[m]) \in Nat /\ Len(reviews[m]) =< now
      BY DEF GitHubHolds
    <3>2. QED
      BY <1>2, <1>3, <1>6, <1>7, <3>1
  <2>4. QED
    BY <1>2, <1>3, <1>7, <2>1, <2>2, <2>3 DEF GitHubHolds
<1>10. QED
  BY <1>2, <1>6, <1>7, <1>8, <1>9 DEF GitHubGrows

\* The newest pull requests only ever get older.
LEMMA NewestShrinks ==
  ASSUME Opened \subseteq Opened', NEW n \in Opened, n \in Newest(Opened', Window)
  PROVE  n \in Newest(Opened, Window)
<1> DEFINE before == {m \in Opened : m > n}
           after == {m \in Opened' : m > n}
<1>1. IsFiniteSet(after) /\ IsFiniteSet(before) /\ Cardinality(before) =< Cardinality(after)
  <2>1. after \subseteq 1 .. LastNumber /\ before \subseteq after
    BY DEF Opened, Numbers
  <2>2. IsFiniteSet(after)
    BY <2>1, SubsetOfInterval, IngestionBounds
  <2>3. QED
    BY <2>1, <2>2, FS_Subset
<1>2. Cardinality(before) \in Nat /\ Cardinality(after) \in Nat
  BY <1>1, FS_CardinalityType
<1>3. Cardinality(after) < Window
  BY DEF Newest
<1>4. Cardinality(before) < Window
  BY <1>1, <1>2, <1>3, PositiveSizes
<1>5. QED
  BY <1>4 DEF Newest

LEMMA GrowsOpened ==
  ASSUME GitHubHolds, GitHubGrows
  PROVE  /\ Opened \subseteq Opened'
         /\ \A n \in Opened : pulls'[n].created = pulls[n].created
  BY DEF GitHubGrows, Opened, GitHubHolds

\* A timestamp that GitHub sets now is later than anything a sync remembers.
LEMMA GrowsStored ==
  ASSUME GitHubHolds, StoredHolds, GitHubGrows
  PROVE  StoredHolds'
<1>1. UNCHANGED <<storedPulls, storedReviews>>
  BY DEF GitHubGrows, storedVars
<1>2. ASSUME NEW n \in Numbers
      PROVE  /\ storedPulls[n].created \in {Never, pulls'[n].created}
             /\ storedPulls[n].merged \in {Never, pulls'[n].merged}
             /\ storedPulls[n].merged # Never => storedPulls[n].created # Never
             /\ storedReviews[n] \subseteq DOMAIN reviews'[n]
  <2>1. /\ \/ pulls'[n].created = pulls[n].created
           \/ pulls[n].created = Never
        /\ \/ pulls'[n].merged = pulls[n].merged
           \/ pulls[n].merged = Never
        /\ DOMAIN reviews[n] \subseteq DOMAIN reviews'[n]
    BY DEF GitHubGrows
  <2>2. QED
    BY <2>1 DEF StoredHolds
<1>3. QED
  BY <1>1, <1>2 DEF StoredHolds

LEMMA GrowsSync ==
  ASSUME GitHubHolds, GitHubGrows, NEW s \in Syncs, sync[s] \in Execution, SyncHolds(s)
  PROVE  SyncHolds(s)'
<1> DEFINE e == sync[s]
<1>0. /\ sync' = sync /\ storedPulls' = storedPulls /\ now' = now + 1
      /\ now \in Nat /\ Never \notin Nat
      /\ e.since \in Nat /\ e.since =< now
      /\ DOMAIN e.fetched \subseteq Numbers
  <2>1. sync' = sync /\ storedPulls' = storedPulls /\ now' = now + 1
    BY DEF GitHubGrows, storedVars
  <2>2. e.since \in Times /\ e.fetched \in UNION {[S -> Pull] : S \in SUBSET Numbers}
    BY DEF Execution
  <2>3. e.since \in Nat
    BY <2>2, IngestionBounds DEF Times
  <2>4. DOMAIN e.fetched \subseteq Numbers
    BY <2>2
  <2>5. QED
    BY <2>1, <2>3, <2>4, GitHubTimes DEF SyncHolds
<1>1. ASSUME HasList(s), NEW n \in DOMAIN e.fetched PROVE FetchHolds(s, n)'
  <2>1. FetchHolds(s, n) /\ n \in Numbers
    BY <1>0, <1>1 DEF SyncHolds
  <2>2. n \in Opened /\ n \in Opened' /\ pulls'[n].created = pulls[n].created
    BY <2>1, GrowsOpened DEF FetchHolds
  <2>3. \/ pulls'[n].merged = pulls[n].merged
        \/ pulls[n].merged = Never /\ pulls'[n].merged \notin 1 .. e.since
    BY <1>0, <2>1 DEF GitHubGrows
  <2>4. QED
    BY <1>0, <2>1, <2>2, <2>3 DEF FetchHolds
<1>2. ASSUME HasList(s) PROVE ListIsComplete(s)'
  <2> SUFFICES ASSUME NEW n \in Newest(Opened', Window), pulls'[n].created \in 0 .. e.since
               PROVE  n \in DOMAIN e.fetched
    BY <1>0 DEF ListIsComplete
  <2>1. n \in Numbers
    BY DEF Newest, Opened
  <2>2. pulls'[n].created = pulls[n].created /\ n \in Opened
    BY <1>0, <2>1 DEF GitHubGrows, Opened
  <2>3. n \in Newest(Opened, Window)
    BY <2>2, NewestShrinks, GrowsOpened
  <2>4. QED
    BY <1>2, <2>2, <2>3 DEF SyncHolds, ListIsComplete
<1>3. ASSUME HasList(s) PROVE ReadHolds(s)'
  <2>1. ASSUME NEW n \in DOMAIN e.fetched \ e.todo, NEW i \in DOMAIN reviews'[n],
               IsDue(s, n, reviews'[n][i])
        PROVE  i \in e.found[n]
    <3>1. n \in Numbers /\ FetchHolds(s, n)
      BY <1>0, <1>3 DEF SyncHolds
    <3>2. CASE i \in DOMAIN reviews[n]
      <4>1. reviews'[n][i] = reviews[n][i]
        BY <3>1, <3>2 DEF GitHubGrows
      <4>2. QED
        BY <1>3, <2>1, <3>2, <4>1 DEF SyncHolds, ReadHolds
    <3>3. CASE i \notin DOMAIN reviews[n]
      <4>1. reviews'[n][i] \in {0, now + 1, Never}
        BY <1>0, <3>1, <3>3 DEF GitHubGrows
      <4>2. e.fetched[n].merged # Never => e.fetched[n].merged \in Nat /\ e.fetched[n].merged =< now
        BY <3>1, GitHubTimes DEF FetchHolds
      <4>3. QED
        BY <1>0, <2>1, <4>1, <4>2 DEF IsDue
    <3>4. QED
      BY <3>2, <3>3
  <2>2. QED
    BY <1>0, <1>3, <2>1 DEF SyncHolds, ReadHolds, IsDue
<1>4. \A n \in Numbers : e.found[n] \subseteq DOMAIN reviews'[n]
  BY DEF SyncHolds, GitHubGrows
<1>5. HasList(s)' = HasList(s)
  BY <1>0 DEF HasList
<1>6. QED
  BY <1>0, <1>1, <1>2, <1>3, <1>4, <1>5 DEF SyncHolds

LEMMA GrowsInv ==
  ASSUME IngestionInv, GitHubGrows
  PROVE  IngestionInv'
<1>1. sync' = sync
  BY DEF GitHubGrows
<1>2. GitHubHolds' /\ StoredHolds'
  BY GrowsStored DEF IngestionInv, GitHubGrows
<1>3. \A s \in Syncs : SyncHolds(s)'
  BY GrowsSync DEF IngestionInv
<1>4. OneSync'
  BY <1>1 DEF IngestionInv, OneSync, Active
<1>5. QED
  BY <1>1, <1>2, <1>3, <1>4 DEF IngestionInv

-----------------------------------------------------------------------------
(* The executions of sync_repository. *)

\* What an execution may have fetched: any part of what there is.
Fetches == UNION {[S -> Pull] : S \in SUBSET Numbers}

LEMMA ExecutionType ==
  Execution = [phase: {"idle", "list", "reviews", "persist", "done", "failed"},
               fetched: Fetches, todo: SUBSET Numbers, page: 1 .. MaxEvents + 1,
               found: [Numbers -> SUBSET (1 .. MaxEvents)], since: Times]
  BY DEF Execution, Fetches

LEMMA NewExecutionType ==
  ASSUME NEW phase \in {"list", "done", "failed"}, NEW since \in Times
  PROVE  LET e == [NewExecution EXCEPT !.phase = phase, !.since = since]
             f == [NewExecution EXCEPT !.phase = phase]
         IN  /\ NewExecution \in Execution /\ e \in Execution /\ f \in Execution
             /\ e.phase = phase /\ e.since = since /\ e.todo = {} /\ e.page = 1
             /\ e.fetched = NewExecution.fetched /\ e.found = NewExecution.found
             /\ f.phase = phase /\ f.since = 0 /\ f.todo = {} /\ f.page = 1
             /\ f.fetched = NewExecution.fetched /\ f.found = NewExecution.found
             /\ DOMAIN NewExecution.fetched = {}
             /\ NewExecution.found = [n \in Numbers |-> {}]
<1> DEFINE none == [n \in {} |-> Absent]
           empty == [n \in Numbers |-> {}]
<1>1. none \in Fetches
  <2>1. none \in [{} -> Pull] /\ {} \in SUBSET Numbers
    OBVIOUS
  <2>2. QED
    BY <2>1 DEF Fetches
<1>2. empty \in [Numbers -> SUBSET (1 .. MaxEvents)]
  OBVIOUS
<1>3. 0 \in Times /\ 1 \in 1 .. MaxEvents + 1 /\ {} \in SUBSET Numbers
  BY IngestionBounds DEF Times
<1>4. DOMAIN none = {}
  OBVIOUS
<1>5. NewExecution = [phase |-> "idle", fetched |-> none, todo |-> {},
                      page |-> 1, found |-> empty, since |-> 0]
  BY DEF NewExecution
<1> HIDE DEF none, empty
<1>6. QED
  BY <1>1, <1>2, <1>3, <1>4, <1>5, ExecutionType DEF empty

\* An execution that does nothing in this step.
LEMMA OtherSync ==
  ASSUME NEW s, SyncHolds(s), sync'[s] = sync[s], UNCHANGED githubVars,
         storedPulls' = storedPulls \/ ~HasList(s)
  PROVE  SyncHolds(s)'
<1>1. UNCHANGED <<now, pulls, reviews>> /\ Opened' = Opened /\ (HasList(s)' <=> HasList(s))
  BY DEF githubVars, Opened, HasList
<1>2. ASSUME HasList(s), NEW n \in DOMAIN sync[s].fetched PROVE FetchHolds(s, n)'
  BY <1>1, <1>2 DEF SyncHolds, FetchHolds
<1>3. ASSUME HasList(s) PROVE ListIsComplete(s)' /\ ReadHolds(s)'
  BY <1>1, <1>3 DEF SyncHolds, ListIsComplete, ReadHolds, IsDue
<1>4. QED
  BY <1>1, <1>2, <1>3 DEF SyncHolds

\* One execution takes a step that stores nothing.
LEMMA SyncUpdate ==
  ASSUME IngestionInv, NEW s \in Syncs, NEW e \in Execution, sync' = [sync EXCEPT ![s] = e],
         UNCHANGED <<githubVars, storedVars>>, SyncHolds(s)',
         Active(s) \/ e.phase \in {"done", "failed"} \/ (\A t \in Syncs : ~Active(t))
  PROVE  IngestionInv'
<1>1. /\ sync' \in [Syncs -> Execution] /\ sync'[s] = e
      /\ \A t \in Syncs : t # s => sync'[t] = sync[t]
  BY DEF IngestionInv
<1>2. \A t \in Syncs : SyncHolds(t)'
  BY <1>1, OtherSync DEF IngestionInv, storedVars
<1>3. GitHubHolds' /\ StoredHolds'
  BY DEF IngestionInv, GitHubHolds, StoredHolds, githubVars, storedVars
<1>4. OneSync'
  BY <1>1 DEF IngestionInv, OneSync, Active
<1>5. QED
  BY <1>1, <1>2, <1>3, <1>4 DEF IngestionInv

LEMMA BeginInv ==
  ASSUME IngestionInv, NEW s \in Syncs, Begin(s)
  PROVE  IngestionInv'
<1> DEFINE e == [sync[s] EXCEPT !.phase = "list", !.since = now]
<1>1. /\ sync[s].phase = "idle" /\ UNCHANGED <<githubVars, storedVars>>
      /\ \A t \in Syncs : sync[t].phase \in {"idle", "done", "failed"}
      /\ sync' = [sync EXCEPT ![s] = e]
  BY DEF Begin
<1>2. sync[s] \in Execution /\ now \in Times /\ SyncHolds(s)
  BY DEF IngestionInv, GitHubHolds
<1>3. /\ e \in Execution /\ e.phase = "list" /\ e.since = now /\ e.fetched = sync[s].fetched
      /\ e.todo = sync[s].todo /\ e.page = sync[s].page /\ e.found = sync[s].found
  BY <1>2, ExecutionType
<1> HIDE DEF e
<1>4. sync'[s] = e
  BY <1>1 DEF IngestionInv
<1>5. SyncHolds(s)'
  <2>1. now' = now /\ reviews' = reviews /\ now =< now
    BY <1>1, GitHubTimes DEF githubVars, IngestionInv
  <2>2. QED
    BY <1>1, <1>2, <1>3, <1>4, <2>1 DEF SyncHolds, HasList
<1>6. \A t \in Syncs : ~Active(t)
  BY <1>1 DEF Active
<1>7. QED
  BY <1>1, <1>3, <1>5, <1>6, SyncUpdate

LEMMA SyncFailsInv ==
  ASSUME IngestionInv, NEW s \in Syncs, SyncFails(s)
  PROVE  IngestionInv' /\ sync'[s].phase = "failed"
<1> DEFINE e == [NewExecution EXCEPT !.phase = "failed"]
<1>1. /\ sync' = [sync EXCEPT ![s] = e] /\ UNCHANGED <<githubVars, storedVars>>
  BY DEF SyncFails
<1>2. /\ e \in Execution /\ e.phase = "failed" /\ e.since = 0 /\ e.todo = {} /\ e.page = 1
      /\ DOMAIN e.fetched = {} /\ e.found = [n \in Numbers |-> {}]
  <2>1. 0 \in Times
    BY IngestionBounds DEF Times
  <2>2. QED
    BY <2>1, NewExecutionType
<1> HIDE DEF e
<1>3. sync'[s] = e
  BY <1>1 DEF IngestionInv
<1>4. SyncHolds(s)'
  <2>1. now' = now /\ 0 =< now
    BY <1>1, GitHubTimes DEF githubVars, IngestionInv
  <2>2. QED
    BY <1>2, <1>3, <2>1 DEF SyncHolds, HasList
<1>5. QED
  BY <1>1, <1>2, <1>3, <1>4, SyncUpdate

LEMMA ListPullsInv ==
  ASSUME IngestionInv, NEW s \in Syncs, ListPulls(s)
  PROVE  IngestionInv'
<1> DEFINE window == Newest(Opened, Window)
           fetched == [n \in window |-> pulls[n]]
           phase == IF window = {} THEN "persist" ELSE "reviews"
           e == [sync[s] EXCEPT !.phase = phase, !.fetched = fetched, !.todo = window]
<1>1. /\ sync[s].phase = "list" /\ UNCHANGED <<githubVars, storedVars>>
      /\ sync' = [sync EXCEPT ![s] = e]
  BY DEF ListPulls
<1>2. /\ sync[s] \in Execution /\ SyncHolds(s)
      /\ window \subseteq Opened /\ window \subseteq Numbers
  BY DEF IngestionInv, Newest, Opened
<1>3. fetched \in Fetches /\ DOMAIN fetched = window /\ \A n \in window : fetched[n] = pulls[n]
  <2>1. fetched \in [window -> Pull]
    BY <1>2 DEF IngestionInv, GitHubHolds
  <2>2. QED
    BY <1>2, <2>1 DEF Fetches
<1> HIDE DEF window, fetched
<1>4. /\ e \in Execution /\ e.phase = phase /\ e.fetched = fetched /\ e.todo = window
      /\ e.since = sync[s].since /\ e.page = sync[s].page /\ e.found = sync[s].found
  BY <1>2, <1>3, ExecutionType
<1> HIDE DEF e
<1>5. sync'[s] = e
  BY <1>1 DEF IngestionInv
<1>6. UNCHANGED <<now, pulls, reviews, storedPulls>> /\ Opened' = Opened
  BY <1>1 DEF githubVars, storedVars, Opened
<1>7. SyncHolds(s)'
  <2>1. \A n \in window : FetchHolds(s, n)'
    BY <1>2, <1>3, <1>4, <1>5, <1>6 DEF FetchHolds, IngestionInv, StoredHolds
  <2>2. ListIsComplete(s)'
    BY <1>3, <1>4, <1>5, <1>6 DEF ListIsComplete, window
  <2>3. ReadHolds(s)'
    <3>1. sync[s].page = 1 /\ 1 .. (1 - 1) * PageSize = {}
      BY <1>1, <1>2, PositiveSizes DEF SyncHolds
    <3>2. QED
      BY <1>3, <1>4, <1>5, <3>1 DEF ReadHolds
  <2>4. QED
    BY <1>1, <1>2, <1>3, <1>4, <1>5, <1>6, <2>1, <2>2, <2>3 DEF SyncHolds
<1>8. Active(s)
  BY <1>1 DEF Active
<1>9. QED
  BY <1>1, <1>4, <1>7, <1>8, SyncUpdate

\* What is known once page k of a listing has been read.
LEMMA PageFacts ==
  ASSUME NEW k \in Nat \ {0}, NEW length \in Nat
  PROVE  /\ Page(k, length) \subseteq 1 .. length
         /\ HasNext(k, length) =>
               /\ k < length
               /\ 1 .. k * PageSize \subseteq 1 .. (k - 1) * PageSize \cup Page(k, length)
         /\ ~HasNext(k, length) =>
               1 .. length \subseteq 1 .. (k - 1) * PageSize \cup Page(k, length)
<1>0. PageSize \in Nat \ {0}
  BY PositiveSizes
<1>1. PICK a \in Nat : a = (k - 1) * PageSize
  BY <1>0
<1>2. PICK b \in Nat : b = k * PageSize
  BY <1>0
<1>3. b = a + PageSize
  BY <1>0, <1>1, <1>2
<1>4. k =< b
  <2>1. k * 1 =< k * PageSize
    BY <1>0
  <2>2. QED
    BY <1>2, <2>1
<1>5. Min({b, length}) \in {b, length} /\ Min({b, length}) =< b /\ Min({b, length}) =< length
  BY MinIsLeast
<1>6. Page(k, length) = (a + 1) .. Min({b, length}) /\ (HasNext(k, length) <=> b < length)
  BY <1>1, <1>2 DEF Page, HasNext
<1>7. PICK l \in Nat : l = Min({b, length})
  BY <1>5
<1>8. /\ (a + 1) .. l \subseteq 1 .. length
      /\ b < length => k < length /\ 1 .. b \subseteq 1 .. a \cup (a + 1) .. l
      /\ ~(b < length) => 1 .. length \subseteq 1 .. a \cup (a + 1) .. l
  BY <1>0, <1>3, <1>4, <1>5, <1>7
<1>9. QED
  BY <1>1, <1>2, <1>6, <1>7, <1>8

LEMMA ListReviewsInv ==
  ASSUME IngestionInv, NEW s \in Syncs, ListReviews(s)
  PROVE  IngestionInv'
<1>1. /\ sync[s] \in Execution /\ SyncHolds(s) /\ sync[s].phase = "reviews"
      /\ UNCHANGED <<githubVars, storedVars>>
      /\ HasList(s) /\ ReadHolds(s) /\ ListIsComplete(s)
      /\ \A m \in DOMAIN sync[s].fetched : FetchHolds(s, m)
  BY DEF ListReviews, IngestionInv, SyncHolds, HasList
<1>2. PICK n \in sync[s].todo : n = Max(sync[s].todo)
  <2>1. sync[s].todo # {} /\ sync[s].todo \subseteq 0 .. LastNumber
    BY <1>1, ExecutionType, IngestionBounds DEF SyncHolds, Numbers
  <2>2. QED
    BY <2>1, MaxIsGreatest, IngestionBounds
<1>3. n \in Numbers /\ n \in DOMAIN sync[s].fetched
  BY <1>1, ExecutionType DEF SyncHolds
<1>4. PICK length \in Nat : length = Len(reviews[n])
  BY <1>3 DEF IngestionInv, GitHubHolds
<1>5. DOMAIN reviews[n] = 1 .. length /\ length =< MaxEvents
  <2>1. now =< MaxEvents /\ length =< now /\ now \in Nat
    BY <1>3, <1>4, GitHubTimes, IngestionBounds DEF IngestionInv, GitHubHolds, Times
  <2>2. QED
    BY <1>3, <1>4, <2>1, IngestionBounds DEF IngestionInv, GitHubHolds
<1>6. PICK k \in Nat \ {0} : k = sync[s].page
  BY <1>1, ExecutionType, IngestionBounds
<1> DEFINE rest == sync[s].todo \ {n}
           found == [sync[s].found EXCEPT ![n] = @ \cup Page(k, length)]
           more == [sync[s] EXCEPT !.found = found, !.page = k + 1]
           phase == IF rest = {} THEN "persist" ELSE "reviews"
           last == [sync[s] EXCEPT !.found = found, !.page = 1, !.todo = rest, !.phase = phase]
<1>7. /\ found \in [Numbers -> SUBSET (1 .. MaxEvents)]
      /\ found[n] = sync[s].found[n] \cup Page(k, length)
      /\ \A m \in Numbers : sync[s].found[m] \subseteq found[m]
      /\ \A m \in Numbers : found[m] \subseteq DOMAIN reviews[m]
  <2>1. Page(k, length) \subseteq 1 .. length /\ Page(k, length) \subseteq 1 .. MaxEvents
    BY <1>5, PageFacts, IngestionBounds
  <2>2. sync[s].found \in [Numbers -> SUBSET (1 .. MaxEvents)]
    BY <1>1, ExecutionType
  <2>3. \A m \in Numbers : sync[s].found[m] \subseteq DOMAIN reviews[m]
    BY <1>1 DEF SyncHolds
  <2>4. QED
    BY <1>3, <1>5, <2>1, <2>2, <2>3
<1>8. sync' = [sync EXCEPT ![s] = IF HasNext(k, length) THEN more ELSE last]
  <2> DEFINE read == [sync EXCEPT ![s].found[n] = @ \cup Page(k, length)]
  <2>1. sync' = IF HasNext(k, length)
                THEN [read EXCEPT ![s].page = @ + 1]
                ELSE [read EXCEPT ![s].page = 1, ![s].todo = rest, ![s].phase = phase]
    BY <1>2, <1>4, <1>6 DEF ListReviews
  <2>2. sync \in [Syncs -> Execution]
    BY DEF IngestionInv
  <2>3. read = [sync EXCEPT ![s] = [sync[s] EXCEPT !.found = found]]
    BY <2>2
  <2>4. [read EXCEPT ![s].page = @ + 1] = [sync EXCEPT ![s] = more]
    <3>1. [sync[s] EXCEPT !.found = found].page = k
      BY <1>1, <1>6, ExecutionType
    <3>2. QED
      BY <2>2, <2>3, <3>1
  <2>5. [read EXCEPT ![s].page = 1, ![s].todo = rest, ![s].phase = phase]
          = [sync EXCEPT ![s] = last]
    BY <2>2, <2>3
  <2>6. QED
    BY <2>1, <2>4, <2>5
<1>9. UNCHANGED <<now, pulls, reviews, storedPulls>> /\ Opened' = Opened /\ Active(s)
  BY <1>1 DEF githubVars, storedVars, Opened, Active
<1>10. ReadHolds(s) /\ 1 .. (k - 1) * PageSize \subseteq sync[s].found[n]
  BY <1>1, <1>2, <1>6 DEF ReadHolds
<1> HIDE DEF found, rest
\* The execution after the step, as far as the invariant is about both cases.
<1>11. ASSUME NEW e \in Execution, sync' = [sync EXCEPT ![s] = e],
              e.fetched = sync[s].fetched, e.since = sync[s].since, e.found = found,
              e.phase \in {"reviews", "persist"}, e.todo \subseteq sync[s].todo,
              e.phase = "reviews" => e.todo # {},
              e.phase # "reviews" => e.todo = {} /\ e.page = 1,
              ReadHolds(s)'
       PROVE  IngestionInv'
  <2>1. sync'[s] = e
    BY <1>11 DEF IngestionInv
  <2>2. \A m \in DOMAIN e.fetched : FetchHolds(s, m)'
    BY <1>1, <1>9, <1>11, <2>1 DEF FetchHolds
  <2>3. ListIsComplete(s)'
    BY <1>1, <1>9, <1>11, <2>1 DEF ListIsComplete
  <2>4. SyncHolds(s)'
    BY <1>1, <1>7, <1>9, <1>11, <2>1, <2>2, <2>3 DEF SyncHolds
  <2>5. QED
    BY <1>1, <1>9, <1>11, <2>4, SyncUpdate
<1>12. CASE HasNext(k, length)
  <2>1. k + 1 \in 1 .. MaxEvents + 1
    BY <1>5, <1>12, PageFacts, IngestionBounds
  <2>2. /\ more \in Execution /\ more.fetched = sync[s].fetched /\ more.since = sync[s].since
        /\ more.found = found /\ more.phase = "reviews" /\ more.todo = sync[s].todo
        /\ more.page = k + 1
    BY <1>1, <1>7, <2>1, ExecutionType
  <2> HIDE DEF more
  <2>3. sync'[s] = more /\ sync' = [sync EXCEPT ![s] = more]
    BY <1>8, <1>12 DEF IngestionInv
  <2>4. 1 .. k * PageSize \subseteq found[n]
    BY <1>7, <1>10, <1>12, PageFacts
  <2>5. ReadHolds(s)'
    <3>1. (k + 1) - 1 = k
      OBVIOUS
    <3>2. ASSUME NEW m \in DOMAIN sync[s].fetched \ sync[s].todo, NEW i \in DOMAIN reviews[m],
                 IsDue(s, m, reviews[m][i])
          PROVE  i \in found[m]
      <4>1. m \in Numbers /\ i \in sync[s].found[m]
        BY <1>1, <3>2 DEF ReadHolds, FetchHolds, Opened
      <4>2. QED
        BY <1>7, <4>1
    <3>3. QED
      BY <1>2, <1>9, <2>2, <2>3, <2>4, <3>1, <3>2 DEF ReadHolds, IsDue
  <2>6. sync[s].todo # {}
    OBVIOUS
  <2>7. QED
    BY <1>11, <2>2, <2>3, <2>5, <2>6
<1>13. CASE ~HasNext(k, length)
  <2>1. 1 \in 1 .. MaxEvents + 1 /\ rest \subseteq sync[s].todo
    BY IngestionBounds DEF rest
  <2>2. /\ last \in Execution /\ last.fetched = sync[s].fetched /\ last.since = sync[s].since
        /\ last.found = found /\ last.phase = phase /\ last.todo = rest
        /\ last.page = 1
    BY <1>1, <1>7, <2>1, ExecutionType
  <2> HIDE DEF last
  <2>3. sync'[s] = last /\ sync' = [sync EXCEPT ![s] = last]
    BY <1>8, <1>13 DEF IngestionInv
  <2>4. 1 .. length \subseteq found[n]
    BY <1>7, <1>10, <1>13, PageFacts
  <2>5. ReadHolds(s)'
    <3>1. 1 .. (1 - 1) * PageSize = {}
      BY PositiveSizes
    <3>2. ASSUME NEW m \in DOMAIN sync[s].fetched \ rest, NEW i \in DOMAIN reviews[m],
                 IsDue(s, m, reviews[m][i])
          PROVE  i \in found[m]
      <4>1. CASE m = n
        BY <1>5, <2>4, <4>1
      <4>2. CASE m # n
        <5>1. m \in Numbers /\ i \in sync[s].found[m]
          BY <1>1, <3>2, <4>2 DEF ReadHolds, FetchHolds, Opened, rest
        <5>2. QED
          BY <1>7, <5>1
      <4>3. QED
        BY <4>1, <4>2
    <3>3. QED
      BY <1>9, <2>2, <2>3, <3>1, <3>2 DEF ReadHolds, IsDue
  <2>6. QED
    BY <1>11, <2>1, <2>2, <2>3, <2>5
<1>14. QED
  BY <1>12, <1>13

\* A commit brings the rows of the pull requests fetched up to date.
LEMMA PersistEffect ==
  ASSUME IngestionInv, NEW s \in Syncs, Persist(s)
  PROVE  /\ sync[s].phase = "persist" /\ SyncHolds(s)
         /\ sync[s] \in Execution /\ DOMAIN sync[s].fetched \subseteq Numbers
         /\ UNCHANGED <<now, pulls, reviews>>
         /\ storedPulls' \in [Numbers -> Pull]
         /\ storedReviews' \in [Numbers -> SUBSET (1 .. MaxEvents)]
         /\ \A n \in Numbers :
              /\ n \in DOMAIN sync[s].fetched =>
                    /\ FetchHolds(s, n)
                    /\ storedPulls'[n].created = pulls[n].created
                    /\ storedPulls'[n].merged = sync[s].fetched[n].merged
              /\ n \notin DOMAIN sync[s].fetched => storedPulls'[n] = storedPulls[n]
              /\ storedReviews'[n] = storedReviews[n] \cup sync[s].found[n]
<1>1. /\ sync[s].phase = "persist"
      /\ storedPulls' = [n \in Numbers |->
            IF n \notin DOMAIN sync[s].fetched THEN storedPulls[n]
            ELSE IF n \in Stored THEN [storedPulls[n] EXCEPT !.merged = sync[s].fetched[n].merged]
            ELSE sync[s].fetched[n]]
      /\ storedReviews' = [n \in Numbers |-> storedReviews[n] \cup sync[s].found[n]]
      /\ UNCHANGED <<now, pulls, reviews>>
  BY DEF Persist, githubVars
<1>2. /\ SyncHolds(s) /\ HasList(s) /\ sync[s] \in Execution
      /\ sync[s].found \in [Numbers -> SUBSET (1 .. MaxEvents)]
      /\ sync[s].fetched \in Fetches
  BY <1>1, ExecutionType DEF IngestionInv, HasList
<1>3. PICK S \in SUBSET Numbers : sync[s].fetched \in [S -> Pull]
  BY <1>2 DEF Fetches
<1>4. \A n \in DOMAIN sync[s].fetched : FetchHolds(s, n)
  BY <1>2 DEF SyncHolds
<1>5. ASSUME NEW n \in Numbers
      PROVE  /\ storedPulls'[n] \in Pull
             /\ n \in DOMAIN sync[s].fetched =>
                    /\ storedPulls'[n].created = pulls[n].created
                    /\ storedPulls'[n].merged = sync[s].fetched[n].merged
             /\ n \notin DOMAIN sync[s].fetched => storedPulls'[n] = storedPulls[n]
  <2>1. storedPulls[n] \in Pull
    BY DEF IngestionInv, StoredHolds
  <2>2. CASE n \notin DOMAIN sync[s].fetched
    BY <1>1, <2>1, <2>2
  <2>3. CASE n \in DOMAIN sync[s].fetched /\ n \in Stored
    <3> DEFINE m == sync[s].fetched[n].merged
               p == [storedPulls[n] EXCEPT !.merged = m]
    <3>1. storedPulls'[n] = p
      BY <1>1, <2>3
    <3>2. sync[s].fetched[n] \in Pull
      BY <1>3, <2>3
    <3>3. p \in Pull /\ p.merged = m /\ p.created = storedPulls[n].created
      BY <2>1, <3>2 DEF Pull
    <3>4. storedPulls[n].created = pulls[n].created
      BY <2>3 DEF IngestionInv, StoredHolds, Stored
    <3> HIDE DEF p
    <3>5. QED
      BY <2>3, <3>1, <3>3, <3>4
  <2>4. CASE n \in DOMAIN sync[s].fetched /\ n \notin Stored
    <3>1. storedPulls'[n] = sync[s].fetched[n] /\ sync[s].fetched[n] \in Pull
      BY <1>1, <1>3, <2>4
    <3>2. QED
      BY <1>4, <2>4, <3>1 DEF FetchHolds
  <2>5. QED
    BY <2>2, <2>3, <2>4
<1>6. storedPulls' \in [Numbers -> Pull]
  BY <1>1, <1>5
<1>7. storedReviews' \in [Numbers -> SUBSET (1 .. MaxEvents)]
  BY <1>1, <1>2 DEF IngestionInv, StoredHolds
<1>8. QED
  BY <1>1, <1>2, <1>3, <1>4, <1>5, <1>6, <1>7

LEMMA PersistInv ==
  ASSUME IngestionInv, NEW s \in Syncs, Persist(s)
  PROVE  IngestionInv'
<1> DEFINE e == [NewExecution EXCEPT !.phase = "done"]
<1>1. sync' = [sync EXCEPT ![s] = e] /\ UNCHANGED githubVars
  BY DEF Persist
<1>2. /\ e \in Execution /\ e.phase = "done" /\ e.since = 0 /\ e.todo = {} /\ e.page = 1
      /\ DOMAIN e.fetched = {} /\ e.found = [n \in Numbers |-> {}]
  <2>1. 0 \in Times
    BY IngestionBounds DEF Times
  <2>2. QED
    BY <2>1, NewExecutionType
<1> HIDE DEF e
<1>3. /\ sync' \in [Syncs -> Execution] /\ sync'[s] = e
      /\ \A t \in Syncs : t # s => sync'[t] = sync[t]
  BY <1>1, <1>2 DEF IngestionInv
<1>4. GitHubHolds'
  BY <1>1 DEF IngestionInv, GitHubHolds, githubVars
<1>5. StoredHolds'
  <2>1. ASSUME NEW n \in Numbers
        PROVE  /\ storedPulls'[n].created \in {Never, pulls[n].created}
               /\ storedPulls'[n].merged \in {Never, pulls[n].merged}
               /\ storedPulls'[n].merged # Never => storedPulls'[n].created # Never
               /\ storedReviews'[n] \subseteq DOMAIN reviews[n]
    <3>1. storedReviews'[n] \subseteq DOMAIN reviews[n]
      BY PersistEffect DEF IngestionInv, StoredHolds, SyncHolds
    <3>2. CASE n \in DOMAIN sync[s].fetched
      <4>1. /\ FetchHolds(s, n)
            /\ storedPulls'[n].created = pulls[n].created
            /\ storedPulls'[n].merged = sync[s].fetched[n].merged
        BY <3>2, PersistEffect
      <4>2. pulls[n].created # Never /\ sync[s].fetched[n].merged \in {Never, pulls[n].merged}
        BY <4>1 DEF FetchHolds, Opened
      <4>3. QED
        BY <3>1, <4>1, <4>2
    <3>3. CASE n \notin DOMAIN sync[s].fetched
      BY <3>1, <3>3, PersistEffect DEF IngestionInv, StoredHolds
    <3>4. QED
      BY <3>2, <3>3
  <2>2. QED
    BY <2>1, PersistEffect DEF StoredHolds
<1>6. SyncHolds(s)'
  <2>1. now' = now /\ 0 =< now
    BY <1>1, GitHubTimes DEF githubVars, IngestionInv
  <2>2. QED
    BY <1>2, <1>3, <2>1 DEF SyncHolds, HasList
<1>7. ASSUME NEW t \in Syncs, t # s PROVE SyncHolds(t)'
  <2>1. Active(s) /\ ~HasList(t)
    BY <1>7, PersistEffect DEF IngestionInv, OneSync, Active, HasList
  <2>2. QED
    BY <1>1, <1>3, <1>7, <2>1, OtherSync DEF IngestionInv
<1>8. OneSync'
  BY <1>2, <1>3 DEF IngestionInv, OneSync, Active
<1>9. QED
  BY <1>3, <1>4, <1>5, <1>6, <1>7, <1>8 DEF IngestionInv

LEMMA IngestionStep ==
  ASSUME IngestionInv, IngestionNext
  PROVE  IngestionInv'
<1>1. CASE Open
  BY <1>1, OpenGrows, GrowsInv DEF IngestionInv
<1>2. ASSUME NEW n \in Numbers, Merge(n) \/ Review(n) PROVE IngestionInv'
  BY <1>2, MergeGrows, ReviewGrows, GrowsInv DEF IngestionInv
<1>3. ASSUME NEW s \in Syncs,
             Begin(s) \/ ListPulls(s) \/ ListReviews(s) \/ Persist(s) \/ SyncFails(s)
      PROVE  IngestionInv'
  BY <1>3, BeginInv, ListPullsInv, ListReviewsInv, PersistInv, SyncFailsInv
<1>4. QED
  BY <1>1, <1>2, <1>3 DEF IngestionNext

LEMMA IngestionStays ==
  ASSUME IngestionInv, UNCHANGED ingestionVars
  PROVE  IngestionInv'
<1>1. UNCHANGED <<githubVars, storedVars, sync>>
  BY DEF ingestionVars
<1>2. GitHubHolds' /\ StoredHolds' /\ OneSync'
  BY <1>1 DEF githubVars, storedVars, IngestionInv, GitHubHolds, StoredHolds, OneSync, Active
<1>3. \A s \in Syncs : SyncHolds(s)'
  BY <1>1, OtherSync DEF IngestionInv, storedVars
<1>4. QED
  BY <1>1, <1>2, <1>3 DEF IngestionInv

LEMMA IngestionStarts ==
  ASSUME IngestionInit
  PROVE  IngestionInv
<1>1. /\ now = 0
      /\ pulls = [n \in Numbers |-> Absent]
      /\ reviews = [n \in Numbers |-> <<>>]
      /\ storedPulls = [n \in Numbers |-> Absent]
      /\ storedReviews = [n \in Numbers |-> {}]
      /\ sync = [s \in Syncs |-> NewExecution]
  BY DEF IngestionInit
<1>2. 0 \in Times /\ 0 \in Nat
  BY IngestionBounds DEF Times
<1>3. Absent \in Pull /\ Absent.created = Never /\ Absent.merged = Never
  BY DEF Absent, Pull
<1>4. <<>> \in Seq(Times \cup {Never}) /\ Len(<<>>) = 0
  OBVIOUS
<1>5. GitHubHolds
  BY <1>1, <1>2, <1>3, <1>4 DEF GitHubHolds
<1>6. StoredHolds
  BY <1>1, <1>3 DEF StoredHolds
<1>7. /\ NewExecution \in Execution /\ NewExecution.phase = "idle" /\ NewExecution.since = 0
      /\ NewExecution.todo = {} /\ NewExecution.page = 1
      /\ NewExecution.found = [n \in Numbers |-> {}]
  BY <1>2, NewExecutionType DEF NewExecution
<1>8. \A s \in Syncs : SyncHolds(s)
  BY <1>1, <1>2, <1>7 DEF SyncHolds, HasList
<1>9. OneSync
  BY <1>1, <1>7 DEF OneSync, Active
<1>10. QED
  BY <1>1, <1>5, <1>6, <1>7, <1>8, <1>9 DEF IngestionInv

-----------------------------------------------------------------------------
(* What the syncs promise. *)

LEMMA NextIngestion ==
  ASSUME IngestionInv, [Next]_vars
  PROVE  IngestionInv'
<1>1. CASE OtherStep
  BY <1>1, IngestionStep DEF OtherStep
<1>2. ASSUME NEW r \in Readers, ReaderStep(r) PROVE IngestionInv'
  BY <1>2, IngestionStays DEF ReaderStep, CountTotal, CountMerged, CycleTimes, SelectReviews,
     ReadRow, FirstReviews
<1>3. CASE UNCHANGED vars
  BY <1>3, IngestionStays DEF vars
<1>4. QED
  BY <1>1, <1>2, <1>3 DEF Next

\* Only a commit changes what is stored, and only it ends an execution well.
LEMMA OnlyPersistStores ==
  ASSUME IngestionInv, [Next]_vars
  PROVE  \/ /\ UNCHANGED storedVars
            /\ \A s \in Syncs : ~(sync[s].phase = "persist" /\ sync'[s].phase = "done")
         \/ \E s \in Syncs : Persist(s) /\ \A t \in Syncs : t # s => sync'[t] = sync[t]
<1> DEFINE Quiet == /\ UNCHANGED storedVars
                    /\ \A s \in Syncs : ~(sync[s].phase = "persist" /\ sync'[s].phase = "done")
<1>1. CASE UNCHANGED <<sync, storedVars>>
  BY <1>1
<1>2. CASE Open \/ \E n \in Numbers : Merge(n) \/ Review(n)
  BY <1>1, <1>2 DEF Open, Merge, Review
<1>3. ASSUME NEW s \in Syncs, Begin(s) \/ ListPulls(s) \/ ListReviews(s) PROVE Quiet
  <2>1. UNCHANGED storedVars /\ sync[s].phase # "persist"
    BY <1>3 DEF Begin, ListPulls, ListReviews
  <2>2. \A t \in Syncs : t # s => sync'[t] = sync[t]
    <3>1. sync \in [Syncs -> Execution]
      BY DEF IngestionInv
    <3>2. CASE Begin(s)
      BY <3>1, <3>2 DEF Begin
    <3>3. CASE ListPulls(s)
      BY <3>1, <3>3 DEF ListPulls
    <3>4. CASE ListReviews(s)
      BY <3>1, <3>4 DEF ListReviews
    <3>5. QED
      BY <1>3, <3>2, <3>3, <3>4
  <2>3. QED
    BY <2>1, <2>2
<1>4. ASSUME NEW s \in Syncs, SyncFails(s) PROVE Quiet
  <2>1. UNCHANGED storedVars /\ sync'[s].phase = "failed"
        /\ \A t \in Syncs : t # s => sync'[t] = sync[t]
    BY <1>4, SyncFailsInv DEF SyncFails, IngestionInv
  <2>2. QED
    BY <2>1
<1>5. ASSUME NEW s \in Syncs, Persist(s)
      PROVE  \A t \in Syncs : t # s => sync'[t] = sync[t]
  BY <1>5 DEF Persist, IngestionInv
<1>6. CASE OtherStep
  BY <1>2, <1>3, <1>4, <1>5, <1>6 DEF OtherStep, IngestionNext
<1>7. ASSUME NEW r \in Readers, ReaderStep(r) PROVE UNCHANGED <<sync, storedVars>>
  BY <1>7 DEF ReaderStep, CountTotal, CountMerged, CycleTimes, SelectReviews, ReadRow,
     FirstReviews, ingestionVars
<1>8. CASE UNCHANGED vars
  BY <1>1, <1>8 DEF vars, ingestionVars
<1>9. QED
  BY <1>1, <1>6, <1>7, <1>8 DEF Next

\* Every sync that ends well has stored each of the newest pull requests that
\* were there when it began, with the merges and all the reviews of that time,
\* although it reads GitHub in many requests (repository_sync.py:37-115,
\* client.py:63-91).
THEOREM SyncStoresAll == Spec => SyncIsComplete
<1>1. Init => IngestionInv
  BY IngestionStarts DEF Init
<1>2. IngestionInv /\ [Next]_vars => IngestionInv'
  BY NextIngestion
<1>3. IngestionInv /\ [Next]_vars =>
        [\A s \in Syncs : sync[s].phase = "persist" /\ sync'[s].phase = "done" =>
            LET had == {n \in Numbers : pulls[n].created \in 0 .. sync[s].since} IN
            \A n \in Newest(Opened, Window) \cap had :
                /\ storedPulls'[n].created = pulls[n].created
                /\ pulls[n].merged \in 1 .. sync[s].since => storedPulls'[n].merged = pulls[n].merged
                /\ \A i \in DOMAIN reviews[n] :
                    reviews[n][i] \in 1 .. sync[s].since => i \in storedReviews'[n]]_vars
  <2> SUFFICES ASSUME IngestionInv, [Next]_vars, NEW s \in Syncs,
                      sync[s].phase = "persist", sync'[s].phase = "done",
                      NEW n \in Newest(Opened, Window),
                      n \in Numbers, pulls[n].created \in 0 .. sync[s].since
               PROVE  /\ storedPulls'[n].created = pulls[n].created
                      /\ pulls[n].merged \in 1 .. sync[s].since => storedPulls'[n].merged = pulls[n].merged
                      /\ \A i \in DOMAIN reviews[n] :
                           reviews[n][i] \in 1 .. sync[s].since => i \in storedReviews'[n]
    OBVIOUS
  <2>1. Persist(s)
    BY OnlyPersistStores DEF Persist
  <2>2. HasList(s) /\ ListIsComplete(s) /\ ReadHolds(s) /\ sync[s].todo = {}
    BY <2>1, PersistEffect DEF SyncHolds, HasList
  <2>3. n \in DOMAIN sync[s].fetched
    BY <2>2 DEF ListIsComplete
  <2>4. /\ FetchHolds(s, n)
        /\ storedPulls'[n].created = pulls[n].created
        /\ storedPulls'[n].merged = sync[s].fetched[n].merged
        /\ sync[s].found[n] \subseteq storedReviews'[n]
    BY <2>1, <2>3, PersistEffect
  <2>5. \A i \in DOMAIN reviews[n] : reviews[n][i] \in 1 .. sync[s].since => i \in sync[s].found[n]
    BY <2>2, <2>3 DEF ReadHolds, IsDue
  <2>6. QED
    BY <2>4, <2>5 DEF FetchHolds
<1>4. QED
  BY <1>1, <1>2, <1>3, PTL DEF Spec, SyncIsComplete

LEMMA MergedStays ==
  ASSUME IngestionInv, [Next]_vars, NEW n \in Numbers, storedPulls[n].merged # Never
  PROVE  storedPulls'[n].merged = storedPulls[n].merged
<1>1. CASE UNCHANGED storedVars
  BY <1>1 DEF storedVars
<1>2. ASSUME NEW s \in Syncs, Persist(s) PROVE storedPulls'[n].merged = storedPulls[n].merged
  BY <1>2, PersistEffect DEF FetchHolds
<1>3. QED
  BY <1>1, <1>2, OnlyPersistStores

\* A merge that is stored is never taken back by a later commit, although each
\* of them overwrites merged_at with what it has fetched
\* (repository_sync.py:84).
THEOREM MergedForGood == Spec => MergedStaysMerged
<1>1. Init => IngestionInv
  BY IngestionStarts DEF Init
<1>2. IngestionInv /\ [Next]_vars => IngestionInv'
  BY NextIngestion
<1>3. IngestionInv /\ [Next]_vars =>
        [\A n \in Merged : storedPulls'[n].merged = storedPulls[n].merged]_vars
  BY MergedStays DEF Merged, Stored
<1>4. QED
  BY <1>1, <1>2, <1>3, PTL DEF Spec, MergedStaysMerged

\* A commit that brings a merge brings every review from before it too
\* (repository_sync.py:43-115: one transaction for both).
THEOREM ReviewsWithPulls == Spec => ReviewsComeAlong
<1>1. Init => IngestionInv
  BY IngestionStarts DEF Init
<1>2. IngestionInv /\ [Next]_vars => IngestionInv'
  BY NextIngestion
<1>3. IngestionInv /\ [Next]_vars =>
        [\A n \in Numbers : \A i \in DOMAIN reviews[n] :
            storedPulls'[n].merged # storedPulls[n].merged
                /\ reviews[n][i] \in 1 .. storedPulls'[n].merged => i \in storedReviews'[n]]_vars
  <2> SUFFICES ASSUME IngestionInv, [Next]_vars, NEW n \in Numbers, NEW i \in DOMAIN reviews[n],
                      storedPulls'[n].merged # storedPulls[n].merged,
                      reviews[n][i] \in 1 .. storedPulls'[n].merged
               PROVE  i \in storedReviews'[n]
    OBVIOUS
  <2>1. PICK s \in Syncs : Persist(s)
    BY OnlyPersistStores DEF storedVars
  <2>2. HasList(s) /\ ReadHolds(s) /\ sync[s].todo = {}
    BY <2>1, PersistEffect DEF SyncHolds, HasList
  <2>3. /\ n \in DOMAIN sync[s].fetched /\ FetchHolds(s, n)
        /\ storedPulls'[n].merged = sync[s].fetched[n].merged
        /\ sync[s].found[n] \subseteq storedReviews'[n]
    BY <2>1, PersistEffect
  <2>4. storedPulls[n].merged = Never
    BY MergedStays
  <2>5. IsDue(s, n, reviews[n][i])
    BY <2>3, <2>4 DEF IsDue
  <2>6. QED
    BY <2>2, <2>3, <2>5 DEF ReadHolds
<1>4. QED
  BY <1>1, <1>2, <1>3, PTL DEF Spec, ReviewsComeAlong

-----------------------------------------------------------------------------
(* The reports. *)

Row == [pr: Numbers, position: 1 .. MaxEvents]

LEMMA ReportType ==
  Report = [phase: {"total", "merged", "cycle", "reviews", "loop", "done"},
            total: 0 .. LastNumber, merged: 0 .. LastNumber,
            cycle: (0 .. 2 * MaxEvents) \cup {Never}, rows: SUBSET Row,
            earliest: [Numbers -> Times \cup {Never}],
            first: (0 .. 2 * MaxEvents) \cup {Never}, quiet: BOOLEAN]
  BY DEF Report, Row, ReportPhases

\* Nothing that a report has read is taken back.
LEMMA StoredGrows ==
  ASSUME IngestionInv, IngestionNext, NEW n \in Numbers
  PROVE  /\ n \in Stored => n \in Stored' /\ storedPulls'[n].created = storedPulls[n].created
         /\ storedReviews[n] \subseteq storedReviews'[n]
         /\ \A i \in storedReviews[n] : reviews'[n][i] = reviews[n][i]
<1>0. storedReviews[n] \subseteq DOMAIN reviews[n]
  BY DEF IngestionInv, StoredHolds
<1>1. CASE GitHubGrows
  BY <1>0, <1>1 DEF GitHubGrows, storedVars, Stored
<1>2. CASE UNCHANGED <<githubVars, storedVars>>
  BY <1>2 DEF githubVars, storedVars, Stored
<1>3. ASSUME NEW s \in Syncs, Persist(s)
      PROVE  /\ n \in Stored => n \in Stored' /\ storedPulls'[n].created = storedPulls[n].created
             /\ storedReviews[n] \subseteq storedReviews'[n]
             /\ reviews' = reviews
  <2>1. /\ storedReviews'[n] = storedReviews[n] \cup sync[s].found[n] /\ reviews' = reviews
        /\ \/ storedPulls'[n].created = pulls[n].created
           \/ storedPulls'[n] = storedPulls[n]
    BY <1>3, PersistEffect
  <2>2. n \in Stored => storedPulls[n].created = pulls[n].created
    BY DEF Stored, IngestionInv, StoredHolds
  <2>3. QED
    BY <2>1, <2>2 DEF Stored
<1>4. QED
  BY <1>1, <1>2, <1>3, OpenGrows, MergeGrows, ReviewGrows
     DEF IngestionNext, IngestionInv, Begin, ListPulls, ListReviews, SyncFails

\* A report that takes no step, whatever the others and the syncs do.
LEMMA OtherReport ==
  ASSUME NEW q \in Readers, ReportHolds(q),
         report'[q].phase = report[q].phase, report'[q].rows = report[q].rows,
         report'[q].earliest = report[q].earliest,
         report[q].rows \subseteq Row,
         \A n \in Numbers :
            /\ n \in Stored => n \in Stored' /\ storedPulls'[n].created = storedPulls[n].created
            /\ storedReviews[n] \subseteq storedReviews'[n]
            /\ \A i \in storedReviews[n] : reviews'[n][i] = reviews[n][i]
  PROVE  ReportHolds(q)'
<1>1. ASSUME NEW row \in report[q].rows
      PROVE  /\ row.pr \in Stored' /\ row.position \in storedReviews'[row.pr]
             /\ reviews'[row.pr][row.position] # Never
  BY DEF ReportHolds, Row
<1>2. \A n \in Numbers : report[q].earliest[n] # Never =>
            n \in Stored' /\ report[q].earliest[n] >= storedPulls'[n].created
  BY DEF ReportHolds
<1>3. QED
  BY <1>1, <1>2 DEF ReportHolds

LEMMA SameStored ==
  ASSUME UNCHANGED storedVars,
         \A n \in Numbers : \A i \in storedReviews[n] : reviews'[n][i] = reviews[n][i]
  PROVE  /\ Stored' = Stored /\ Merged' = Merged
         /\ \A n \in Numbers : ValidTimes(n)' = ValidTimes(n)
         /\ Cycles' = Cycles /\ Firsts' = Firsts
<1>1. storedPulls' = storedPulls /\ storedReviews' = storedReviews
  BY DEF storedVars
<1>2. Stored' = Stored
  BY <1>1 DEF Stored
<1>3. Merged' = Merged
  BY <1>1, <1>2 DEF Merged
<1>4. ASSUME NEW n \in Numbers PROVE ValidTimes(n)' = ValidTimes(n)
  <2>1. {reviews'[n][i] : i \in storedReviews[n]} = {reviews[n][i] : i \in storedReviews[n]}
    OBVIOUS
  <2>2. QED
    BY <1>1, <2>1 DEF ValidTimes
<1>5. Cycles' = Cycles
  BY <1>1, <1>3 DEF Cycles
<1>6. Firsts' = Firsts
  <2>1. \A n \in Stored : ValidTimes(n)' = ValidTimes(n)
    BY <1>4 DEF Stored
  <2>2. {m \in Stored' : ValidTimes(m)' # {}} = {m \in Stored : ValidTimes(m) # {}}
    BY <1>2, <2>1
  <2>3. \A n \in {m \in Stored : ValidTimes(m) # {}} :
           Min(ValidTimes(n)') - storedPulls'[n].created = Min(ValidTimes(n)) - storedPulls[n].created
    BY <1>1, <2>1
  <2>4. QED
    BY <2>2, <2>3 DEF Firsts
<1>7. QED
  BY <1>2, <1>3, <1>4, <1>5, <1>6

LEMMA OtherQuiet ==
  ASSUME NEW q \in Readers, QuietHolds(q),
         report'[q].phase = report[q].phase, report'[q].total = report[q].total,
         report'[q].merged = report[q].merged, report'[q].cycle = report[q].cycle,
         report'[q].rows = report[q].rows, report'[q].earliest = report[q].earliest,
         report'[q].first = report[q].first,
         report'[q].quiet => report[q].quiet /\ (report[q].phase = "total" \/ UNCHANGED storedVars),
         \A n \in Numbers : \A i \in storedReviews[n] : reviews'[n][i] = reviews[n][i]
  PROVE  QuietHolds(q)'
<1> SUFFICES ASSUME report'[q].quiet
             PROVE  /\ CountsHold(q)'
                    /\ report[q].phase = "loop" => EarliestHolds(q)'
                    /\ report[q].phase = "done" => report[q].first = TwiceMedian(Firsts)'
  BY DEF QuietHolds
<1>1. CASE report[q].phase = "total"
  BY <1>1 DEF CountsHold
<1>2. CASE UNCHANGED storedVars
  <2>1. /\ Stored' = Stored /\ Merged' = Merged
        /\ \A n \in Numbers : ValidTimes(n)' = ValidTimes(n)
        /\ Cycles' = Cycles /\ Firsts' = Firsts
    BY <1>2, SameStored
  <2>2. CountsHold(q)'
    BY <2>1 DEF CountsHold, QuietHolds
  <2>3. report[q].phase = "loop" => EarliestHolds(q)'
    BY <1>2, <2>1 DEF EarliestHolds, QuietHolds, storedVars
  <2>4. QED
    BY <2>1, <2>2, <2>3 DEF QuietHolds
<1>3. QED
  BY <1>1, <1>2

LEMMA SameIngestion ==
  ASSUME UNCHANGED ingestionVars
  PROVE  /\ Stored' = Stored /\ Merged' = Merged
         /\ \A n \in Numbers : ValidTimes(n)' = ValidTimes(n)
         /\ Cycles' = Cycles /\ Firsts' = Firsts
         /\ UNCHANGED <<storedPulls, storedReviews, reviews>>
<1>1. UNCHANGED storedVars /\ UNCHANGED <<storedPulls, storedReviews, reviews>>
  BY DEF ingestionVars, storedVars, githubVars
<1>2. QED
  BY <1>1, SameStored

\* One report takes a step.
LEMMA ReaderUpdate ==
  ASSUME ReportsHold, QuietsHold, NEW r \in Readers, NEW e \in Report,
         report' = [report EXCEPT ![r] = e], UNCHANGED ingestionVars,
         ReportHolds(r)', QuietHolds(r)'
  PROVE  ReportsHold' /\ QuietsHold'
<1>1. /\ report' \in [Readers -> Report] /\ report'[r] = e
      /\ \A q \in Readers : q # r => report'[q] = report[q]
  BY DEF ReportsHold
<1>2. /\ Stored' = Stored /\ UNCHANGED <<storedPulls, storedReviews, reviews>>
  BY SameIngestion
<1>3. ASSUME NEW q \in Readers, q # r PROVE ReportHolds(q)' /\ QuietHolds(q)'
  <2>1. report'[q] = report[q] /\ report[q].rows \subseteq Row
    BY <1>1, <1>3, ReportType DEF ReportsHold
  <2>2. ReportHolds(q)'
    BY <1>2, <2>1, OtherReport DEF ReportsHold
  <2>3. QuietHolds(q)'
    BY <1>2, <2>1, OtherQuiet DEF QuietsHold, storedVars
  <2>4. QED
    BY <2>2, <2>3
<1>4. QED
  BY <1>1, <1>3 DEF ReportsHold, QuietsHold

\* The durations are whole numbers of ticks, none of them negative.
LEMMA StoredTimes ==
  ASSUME IngestionInv, NEW n \in Stored
  PROVE  /\ storedPulls[n].created \in Times /\ storedPulls[n].merged \in Times \cup {Never}
         /\ Times \subseteq Nat /\ Never \notin Nat /\ n \in Numbers
  BY IngestionBounds DEF IngestionInv, StoredHolds, Pull, Stored, Times

LEMMA CyclesType ==
  ASSUME IngestionInv
  PROVE  TwiceMedian(Cycles) \in (0 .. 2 * MaxEvents) \cup {Never}
<1> DEFINE D == {n \in Merged : storedPulls[n].merged >= storedPulls[n].created}
<1>1. IsFiniteSet(D)
  <2>1. D \subseteq 1 .. LastNumber
    BY DEF Merged, Stored, Numbers
  <2>2. QED
    BY <2>1, SubsetOfInterval, IngestionBounds
<1>2. ASSUME NEW n \in D PROVE storedPulls[n].merged - storedPulls[n].created \in 0 .. MaxEvents
  <2>1. storedPulls[n].merged \in Times /\ storedPulls[n].created \in Times
        /\ storedPulls[n].merged >= storedPulls[n].created
    BY StoredTimes DEF Merged
  <2>2. QED
    BY <2>1, IngestionBounds DEF Times
<1>3. Cycles \in [D -> 0 .. MaxEvents]
  BY <1>2 DEF Cycles
<1>4. QED
  BY <1>1, <1>3, MedianType, IngestionBounds

LEMMA CountsType ==
  Cardinality(Stored) \in 0 .. LastNumber /\ Cardinality(Merged) \in 0 .. LastNumber
<1>1. Stored \subseteq 1 .. LastNumber /\ Merged \subseteq 1 .. LastNumber
  BY DEF Stored, Merged, Numbers
<1>2. QED
  BY <1>1, SubsetOfInterval, IngestionBounds

LEMMA CountTotalHolds ==
  ASSUME Inv, NEW r \in Readers, CountTotal(r)
  PROVE  ReportsHold' /\ QuietsHold'
<1> DEFINE e == [report[r] EXCEPT !.phase = "merged", !.total = Cardinality(Stored)]
<1>1. /\ report[r].phase = "total" /\ report' = [report EXCEPT ![r] = e]
      /\ UNCHANGED ingestionVars
  BY DEF CountTotal
<1>2. report[r] \in Report /\ ReportHolds(r) /\ QuietHolds(r)
  BY DEF Inv, ReportsHold, QuietsHold
<1>3. /\ e \in Report /\ e.phase = "merged" /\ e.total = Cardinality(Stored)
      /\ e.rows = report[r].rows /\ e.earliest = report[r].earliest
  BY <1>2, ReportType, CountsType
<1> HIDE DEF e
<1>4. report'[r] = e
  BY <1>1 DEF Inv, ReportsHold
<1>5. Stored' = Stored /\ UNCHANGED <<storedPulls, storedReviews, reviews>>
  BY <1>1, SameIngestion
<1>6. ReportHolds(r)'
  BY <1>1, <1>2, <1>3, <1>4, <1>5 DEF ReportHolds
<1>7. QuietHolds(r)'
  BY <1>3, <1>4, <1>5 DEF QuietHolds, CountsHold
<1>8. QED
  BY <1>1, <1>3, <1>6, <1>7, ReaderUpdate DEF Inv

LEMMA CountMergedHolds ==
  ASSUME Inv, NEW r \in Readers, CountMerged(r)
  PROVE  ReportsHold' /\ QuietsHold'
<1> DEFINE e == [report[r] EXCEPT !.phase = "cycle", !.merged = Cardinality(Merged)]
<1>1. /\ report[r].phase = "merged" /\ report' = [report EXCEPT ![r] = e]
      /\ UNCHANGED ingestionVars
  BY DEF CountMerged
<1>2. report[r] \in Report /\ ReportHolds(r) /\ QuietHolds(r)
  BY DEF Inv, ReportsHold, QuietsHold
<1>3. /\ e \in Report /\ e.phase = "cycle" /\ e.merged = Cardinality(Merged)
      /\ e.total = report[r].total
      /\ e.rows = report[r].rows /\ e.earliest = report[r].earliest
  BY <1>2, ReportType, CountsType
<1>4. e.quiet = report[r].quiet
  BY <1>2, ReportType
<1> HIDE DEF e
<1>5. report'[r] = e
  BY <1>1 DEF Inv, ReportsHold
<1>6. Stored' = Stored /\ Merged' = Merged /\ UNCHANGED <<storedPulls, storedReviews, reviews>>
  BY <1>1, SameIngestion
<1>7. ReportHolds(r)'
  BY <1>1, <1>2, <1>3, <1>5, <1>6 DEF ReportHolds
<1>8. QuietHolds(r)'
  BY <1>1, <1>2, <1>3, <1>4, <1>5, <1>6 DEF QuietHolds, CountsHold
<1>9. QED
  BY <1>1, <1>3, <1>7, <1>8, ReaderUpdate DEF Inv

LEMMA CycleTimesHolds ==
  ASSUME Inv, NEW r \in Readers, CycleTimes(r)
  PROVE  ReportsHold' /\ QuietsHold'
<1> DEFINE e == [report[r] EXCEPT !.phase = "reviews", !.cycle = TwiceMedian(Cycles)]
<1>1. /\ report[r].phase = "cycle" /\ report' = [report EXCEPT ![r] = e]
      /\ UNCHANGED ingestionVars
  BY DEF CycleTimes, Cycles
<1>2. report[r] \in Report /\ ReportHolds(r) /\ QuietHolds(r)
  BY DEF Inv, ReportsHold, QuietsHold
<1>3. /\ e \in Report /\ e.phase = "reviews" /\ e.cycle = TwiceMedian(Cycles)
      /\ e.total = report[r].total /\ e.merged = report[r].merged
      /\ e.rows = report[r].rows /\ e.earliest = report[r].earliest
  <2>1. TwiceMedian(Cycles) \in (0 .. 2 * MaxEvents) \cup {Never}
    BY CyclesType DEF Inv
  <2>2. QED
    BY <1>2, <2>1, ReportType
<1>4. e.quiet = report[r].quiet
  BY <1>2, ReportType
<1> HIDE DEF e
<1>5. report'[r] = e
  BY <1>1 DEF Inv, ReportsHold
<1>6. /\ Stored' = Stored /\ Merged' = Merged /\ Cycles' = Cycles
      /\ UNCHANGED <<storedPulls, storedReviews, reviews>>
  BY <1>1, SameIngestion
<1>7. ReportHolds(r)'
  BY <1>1, <1>2, <1>3, <1>5, <1>6 DEF ReportHolds
<1>8. QuietHolds(r)'
  BY <1>1, <1>2, <1>3, <1>4, <1>5, <1>6 DEF QuietHolds, CountsHold
<1>9. QED
  BY <1>1, <1>3, <1>7, <1>8, ReaderUpdate DEF Inv

\* The reviews that the fourth SELECT returns.
SelectedRows ==
    {row \in [pr: Stored, position: 1 .. MaxEvents] :
        /\ row.position \in storedReviews[row.pr]
        /\ reviews[row.pr][row.position] # Never}

LEMMA SelectReviewsHolds ==
  ASSUME Inv, NEW r \in Readers, SelectReviews(r)
  PROVE  ReportsHold' /\ QuietsHold'
<1> DEFINE e == [report[r] EXCEPT !.phase = "loop", !.rows = SelectedRows]
<1>1. /\ report[r].phase = "reviews" /\ report' = [report EXCEPT ![r] = e]
      /\ UNCHANGED ingestionVars
  BY DEF SelectReviews, SelectedRows
<1>2. report[r] \in Report /\ ReportHolds(r) /\ QuietHolds(r)
  BY DEF Inv, ReportsHold, QuietsHold
<1>3. SelectedRows \subseteq Row
  BY DEF SelectedRows, Row, Stored
<1>4. /\ e \in Report /\ e.phase = "loop" /\ e.rows = SelectedRows
      /\ e.total = report[r].total /\ e.merged = report[r].merged
      /\ e.cycle = report[r].cycle /\ e.earliest = report[r].earliest
  BY <1>2, <1>3, ReportType
<1>5. e.quiet = report[r].quiet
  BY <1>2, ReportType
<1> HIDE DEF e
<1>6. report'[r] = e
  BY <1>1 DEF Inv, ReportsHold
<1>7. /\ Stored' = Stored /\ Merged' = Merged /\ Cycles' = Cycles
      /\ \A n \in Numbers : ValidTimes(n)' = ValidTimes(n)
      /\ UNCHANGED <<storedPulls, storedReviews, reviews>>
  BY <1>1, SameIngestion
<1>8. report[r].earliest = [n \in Numbers |-> Never]
  BY <1>1, <1>2 DEF ReportHolds
<1>9. ReportHolds(r)'
  BY <1>4, <1>6, <1>7, <1>8 DEF ReportHolds, SelectedRows
<1>10. EarliestHolds(r)'
  <2>1. ASSUME NEW n \in Numbers, NEW i \in storedReviews[n], n \in Stored,
               reviews[n][i] \in ValidTimes(n)
        PROVE  [pr |-> n, position |-> i] \in SelectedRows
    <3>1. i \in 1 .. MaxEvents
      BY DEF Inv, IngestionInv, StoredHolds
    <3>2. reviews[n][i] # Never
      BY <2>1 DEF ValidTimes
    <3>3. QED
      BY <2>1, <3>1, <3>2 DEF SelectedRows
  <2>2. QED
    BY <1>4, <1>6, <1>7, <1>8, <2>1 DEF EarliestHolds
<1>11. QuietHolds(r)'
  BY <1>1, <1>2, <1>4, <1>5, <1>6, <1>7, <1>10 DEF QuietHolds, CountsHold
<1>12. QED
  BY <1>1, <1>4, <1>9, <1>11, ReaderUpdate DEF Inv

\* One row updates the earliest submission of its pull request.
LEMMA ReadRowHolds ==
  ASSUME Inv, NEW r \in Readers, ReadRow(r)
  PROVE  ReportsHold' /\ QuietsHold'
<1>1. report[r] \in Report /\ ReportHolds(r) /\ QuietHolds(r) /\ report[r].phase = "loop"
  BY DEF Inv, ReportsHold, QuietsHold, ReadRow
<1>2. PICK row \in report[r].rows :
        report' = [report EXCEPT ![r].rows = @ \ {row},
                ![r].earliest[row.pr] =
                    IF /\ reviews[row.pr][row.position] >= storedPulls[row.pr].created
                       /\ (report[r].earliest[row.pr] = Never
                             \/ reviews[row.pr][row.position] < report[r].earliest[row.pr])
                    THEN reviews[row.pr][row.position] ELSE @]
  BY DEF ReadRow
<1>3. UNCHANGED ingestionVars
  BY DEF ReadRow
<1> DEFINE k == row.pr
           t == reviews[row.pr][row.position]
           old == report[r].earliest
           new == IF t >= storedPulls[k].created /\ (old[k] = Never \/ t < old[k])
                  THEN t ELSE old[k]
           e == [report[r] EXCEPT !.rows = @ \ {row}, !.earliest[k] = new]
<1>4. row \in Row /\ old \in [Numbers -> Times \cup {Never}]
  BY <1>1, <1>2, ReportType
<1>5. /\ k \in Stored /\ k \in Numbers /\ row.position \in storedReviews[k] /\ t # Never
  BY <1>1, <1>2, <1>4 DEF ReportHolds, Row
<1>6. t \in Times
  <2>1. row.position \in DOMAIN reviews[k] /\ reviews[k] \in Seq(Times \cup {Never})
    BY <1>5 DEF Inv, IngestionInv, GitHubHolds, StoredHolds
  <2>2. QED
    BY <1>5, <2>1
<1>7. storedPulls[k].created \in Times /\ Times \subseteq Nat /\ Never \notin Nat
  BY <1>5, StoredTimes DEF Inv
<1>8. /\ new \in Times \cup {Never}
      /\ new # Never => new >= storedPulls[k].created
  BY <1>1, <1>4, <1>5, <1>6, <1>7 DEF ReportHolds
<1>9. /\ e \in Report /\ e.phase = report[r].phase /\ e.rows = report[r].rows \ {row}
      /\ e.earliest = [old EXCEPT ![k] = new]
  BY <1>1, <1>4, <1>5, <1>8, ReportType
<1>10. /\ e.total = report[r].total /\ e.merged = report[r].merged
       /\ e.cycle = report[r].cycle /\ e.quiet = report[r].quiet
  BY <1>1, ReportType
<1>11. report' = [report EXCEPT ![r] = e]
  BY <1>2 DEF Inv, ReportsHold
<1> HIDE DEF e
<1>12. report'[r] = e
  BY <1>11 DEF Inv, ReportsHold
<1>13. /\ Stored' = Stored /\ Merged' = Merged /\ Cycles' = Cycles
       /\ \A n \in Numbers : ValidTimes(n)' = ValidTimes(n)
       /\ UNCHANGED <<storedPulls, storedReviews, reviews>>
  BY <1>3, SameIngestion
<1>14. /\ e.earliest[k] = new
       /\ \A n \in Numbers : n # k => e.earliest[n] = old[n]
  BY <1>4, <1>5, <1>9
<1> HIDE DEF new
<1>15. ReportHolds(r)'
  BY <1>1, <1>5, <1>8, <1>9, <1>12, <1>13, <1>14 DEF ReportHolds
<1>16. ASSUME EarliestHolds(r) PROVE EarliestHolds(r)'
  <2>1. new # Never => new \in ValidTimes(k)
    <3>1. old[k] # Never => old[k] \in ValidTimes(k)
      BY <1>5, <1>16 DEF EarliestHolds
    <3>2. t >= storedPulls[k].created => t \in ValidTimes(k)
      BY <1>5 DEF ValidTimes
    <3>3. QED
      BY <3>1, <3>2 DEF new
  <2>2. ASSUME NEW i \in storedReviews[k], reviews[k][i] \in ValidTimes(k)
        PROVE  \/ [pr |-> k, position |-> i] \in report[r].rows \ {row}
               \/ new # Never /\ new =< reviews[k][i]
    <3>1. reviews[k][i] \in Times /\ reviews[k][i] >= storedPulls[k].created
      <4>1. i \in DOMAIN reviews[k] /\ reviews[k] \in Seq(Times \cup {Never})
        BY <1>5 DEF Inv, IngestionInv, GitHubHolds, StoredHolds
      <4>2. QED
        BY <2>2, <4>1 DEF ValidTimes
    <3>2. CASE i = row.position
      BY <1>4, <1>5, <1>6, <1>7, <3>1, <3>2 DEF new
    <3>3. CASE i # row.position
      <4>1. [pr |-> k, position |-> i] # row
        BY <3>3
      <4>2. \/ [pr |-> k, position |-> i] \in report[r].rows
            \/ old[k] # Never /\ old[k] =< reviews[k][i]
        BY <1>5, <1>16, <2>2 DEF EarliestHolds
      <4>3. ASSUME old[k] # Never, old[k] =< reviews[k][i]
            PROVE  new # Never /\ new =< reviews[k][i]
        <5>1. old[k] \in Nat /\ t \in Nat /\ reviews[k][i] \in Nat
          BY <1>4, <1>5, <1>6, <1>7, <3>1, <4>3
        <5>2. new = old[k] \/ (new = t /\ t < old[k])
          BY <4>3 DEF new
        <5>3. QED
          BY <1>5, <4>3, <5>1, <5>2
      <4>4. QED
        BY <4>1, <4>2, <4>3
    <3>4. QED
      BY <3>2, <3>3
  <2>3. ASSUME NEW n \in Numbers
        PROVE  /\ e.earliest[n] # Never => e.earliest[n] \in ValidTimes(n)
               /\ \A i \in storedReviews[n] : n \in Stored /\ reviews[n][i] \in ValidTimes(n) =>
                     \/ [pr |-> n, position |-> i] \in e.rows
                     \/ e.earliest[n] # Never /\ e.earliest[n] =< reviews[n][i]
    <3>1. CASE n = k
      BY <1>9, <1>14, <2>1, <2>2, <3>1
    <3>2. CASE n # k
      <4>1. e.earliest[n] = old[n]
        BY <1>14, <3>2
      <4>2. \A i \in storedReviews[n] : [pr |-> n, position |-> i] # row
        BY <3>2
      <4>3. QED
        BY <1>9, <1>16, <4>1, <4>2 DEF EarliestHolds
    <3>3. QED
      BY <3>1, <3>2
  <2>4. QED
    BY <1>12, <1>13, <2>3 DEF EarliestHolds
<1>17. QuietHolds(r)'
  BY <1>1, <1>9, <1>10, <1>12, <1>13, <1>16 DEF QuietHolds, CountsHold
<1>18. QED
  BY <1>3, <1>9, <1>11, <1>15, <1>17, ReaderUpdate DEF Inv

\* With every row read, the loop has found the first valid review of each pull
\* request that has one.
LEMMA FirstsFound ==
  ASSUME IngestionInv, NEW r \in Readers, report[r] \in Report, ReportHolds(r),
         EarliestHolds(r), report[r].rows = {}
  PROVE  [n \in {m \in Numbers : report[r].earliest[m] # Never} |->
             report[r].earliest[n] - storedPulls[n].created] = Firsts
<1> DEFINE old == report[r].earliest
<1>1. old \in [Numbers -> Times \cup {Never}] /\ Times \subseteq Nat /\ Never \notin Nat
  BY ReportType, IngestionBounds DEF Times
<1>2. ASSUME NEW n \in Stored
      PROVE  ValidTimes(n) \subseteq Times
  <2>1. \A i \in storedReviews[n] : reviews[n][i] \in Times \cup {Never}
    BY DEF IngestionInv, GitHubHolds, StoredHolds, Stored
  <2>2. QED
    BY <2>1 DEF ValidTimes
<1>3. ASSUME NEW n \in Stored, NEW t \in ValidTimes(n)
      PROVE  old[n] # Never /\ old[n] =< t
  <2>1. PICK i \in storedReviews[n] : t = reviews[n][i]
    BY DEF ValidTimes
  <2>2. QED
    BY <2>1 DEF EarliestHolds, Stored
<1>4. \A n \in Numbers : old[n] # Never => n \in Stored /\ old[n] \in ValidTimes(n)
  BY DEF EarliestHolds, ReportHolds
<1>5. {m \in Numbers : old[m] # Never} = {m \in Stored : ValidTimes(m) # {}}
  BY <1>3, <1>4 DEF Stored
<1>6. ASSUME NEW n \in Stored, ValidTimes(n) # {}
      PROVE  old[n] = Min(ValidTimes(n))
  <2>1. ValidTimes(n) \subseteq Nat
    BY <1>1, <1>2
  <2>2. Min(ValidTimes(n)) \in ValidTimes(n) /\ \A t \in ValidTimes(n) : Min(ValidTimes(n)) =< t
    BY <1>6, <2>1, MinIsLeast
  <2>3. old[n] \in ValidTimes(n) /\ old[n] =< Min(ValidTimes(n))
    BY <1>3, <1>4, <2>2 DEF Stored
  <2>4. Min(ValidTimes(n)) =< old[n]
    BY <2>2, <2>3
  <2>5. QED
    BY <2>1, <2>2, <2>3, <2>4
<1>7. QED
  BY <1>5, <1>6 DEF Firsts

LEMMA FirstReviewsHolds ==
  ASSUME Inv, NEW r \in Readers, FirstReviews(r)
  PROVE  ReportsHold' /\ QuietsHold'
<1> DEFINE old == report[r].earliest
           D == {m \in Numbers : old[m] # Never}
           f == [n \in D |-> old[n] - storedPulls[n].created]
           e == [report[r] EXCEPT !.phase = "done", !.first = TwiceMedian(f)]
<1>1. /\ report[r].phase = "loop" /\ report[r].rows = {} /\ report' = [report EXCEPT ![r] = e]
      /\ UNCHANGED ingestionVars
  BY DEF FirstReviews
<1>2. report[r] \in Report /\ ReportHolds(r) /\ QuietHolds(r)
  BY DEF Inv, ReportsHold, QuietsHold
<1>3. TwiceMedian(f) \in (0 .. 2 * MaxEvents) \cup {Never}
  <2>1. D \subseteq 1 .. LastNumber
    BY DEF Numbers
  <2>2. IsFiniteSet(D)
    BY <2>1, SubsetOfInterval, IngestionBounds
  <2>3. ASSUME NEW n \in D PROVE old[n] - storedPulls[n].created \in 0 .. MaxEvents
    <3>1. n \in Stored /\ old[n] >= storedPulls[n].created
      BY <1>2 DEF ReportHolds
    <3>2. storedPulls[n].created \in Times /\ old[n] \in Times
      BY <1>2, <3>1, ReportType, StoredTimes DEF Inv
    <3>3. QED
      BY <3>1, <3>2, IngestionBounds DEF Times
  <2>4. f \in [D -> 0 .. MaxEvents]
    BY <2>3
  <2>5. QED
    BY <2>2, <2>4, MedianType, IngestionBounds
<1>4. /\ e \in Report /\ e.phase = "done" /\ e.first = TwiceMedian(f)
      /\ e.rows = {} /\ e.earliest = old
      /\ e.total = report[r].total /\ e.merged = report[r].merged
      /\ e.cycle = report[r].cycle
  BY <1>1, <1>2, <1>3, ReportType
<1>5. e.quiet = report[r].quiet
  BY <1>2, ReportType
<1>6. report[r].quiet => f = Firsts
  BY <1>1, <1>2, FirstsFound DEF QuietHolds, Inv
<1> HIDE DEF e, f
<1>7. report'[r] = e
  BY <1>1 DEF Inv, ReportsHold
<1>8. /\ Stored' = Stored /\ Merged' = Merged /\ Cycles' = Cycles /\ Firsts' = Firsts
      /\ UNCHANGED <<storedPulls, storedReviews, reviews>>
  BY <1>1, SameIngestion
<1>9. ReportHolds(r)'
  BY <1>2, <1>4, <1>7, <1>8 DEF ReportHolds
<1>10. QuietHolds(r)'
  BY <1>1, <1>2, <1>4, <1>5, <1>6, <1>7, <1>8 DEF QuietHolds, CountsHold
<1>11. QED
  BY <1>1, <1>4, <1>9, <1>10, ReaderUpdate DEF Inv

\* GitHub and the syncs disturb no report, except that it is no longer quiet.
LEMMA OtherStepHolds ==
  ASSUME Inv, OtherStep
  PROVE  ReportsHold' /\ QuietsHold'
<1>1. \A n \in Numbers :
            /\ n \in Stored => n \in Stored' /\ storedPulls'[n].created = storedPulls[n].created
            /\ storedReviews[n] \subseteq storedReviews'[n]
            /\ \A i \in storedReviews[n] : reviews'[n][i] = reviews[n][i]
  BY StoredGrows DEF Inv, OtherStep
<1>2. ASSUME NEW q \in Readers
      PROVE  /\ report'[q] \in Report
             /\ report'[q].phase = report[q].phase /\ report'[q].total = report[q].total
             /\ report'[q].merged = report[q].merged /\ report'[q].cycle = report[q].cycle
             /\ report'[q].rows = report[q].rows /\ report'[q].earliest = report[q].earliest
             /\ report'[q].first = report[q].first
             /\ report'[q].quiet =>
                    report[q].quiet /\ (report[q].phase = "total" \/ UNCHANGED storedVars)
             /\ report[q].rows \subseteq Row
  <2> DEFINE calm == report[q].quiet /\ (report[q].phase = "total" \/ UNCHANGED storedVars)
  <2>1. report'[q] = [report[q] EXCEPT !.quiet = calm]
    BY DEF OtherStep
  <2>2. calm \in BOOLEAN
    OBVIOUS
  <2>3. report[q] \in Report
    BY DEF Inv, ReportsHold
  <2> HIDE DEF calm
  <2>4. /\ report'[q] \in Report
        /\ report'[q].phase = report[q].phase /\ report'[q].total = report[q].total
        /\ report'[q].merged = report[q].merged /\ report'[q].cycle = report[q].cycle
        /\ report'[q].rows = report[q].rows /\ report'[q].earliest = report[q].earliest
        /\ report'[q].first = report[q].first
        /\ report[q].rows \subseteq Row
    BY <2>1, <2>2, <2>3, ReportType
  <2>5. report'[q].quiet = calm
    BY <2>1, <2>2, <2>3, ReportType
  <2>6. QED
    BY <2>4, <2>5 DEF calm
<1>3. report' \in [Readers -> Report]
  <2>1. report' = [q \in Readers |-> report'[q]]
    BY DEF OtherStep
  <2>2. QED
    BY <1>2, <2>1
<1>4. ASSUME NEW q \in Readers PROVE ReportHolds(q)' /\ QuietHolds(q)'
  <2>1. ReportHolds(q) /\ QuietHolds(q)
    BY DEF Inv, ReportsHold, QuietsHold
  <2>2. ReportHolds(q)'
    BY <1>1, <1>2, <2>1, OtherReport
  <2>3. QuietHolds(q)'
    BY <1>1, <1>2, <2>1, OtherQuiet
  <2>4. QED
    BY <2>2, <2>3
<1>5. QED
  BY <1>3, <1>4 DEF ReportsHold, QuietsHold

-----------------------------------------------------------------------------
(* The whole system. *)

LEMMA InvInit ==
  ASSUME Init
  PROVE  Inv
<1>1. IngestionInv
  BY IngestionStarts DEF Init
<1>2. /\ NewReport \in Report /\ NewReport.phase = "total" /\ NewReport.rows = {}
      /\ NewReport.earliest = [n \in Numbers |-> Never]
  BY ReportType, IngestionBounds DEF NewReport
<1>3. report = [r \in Readers |-> NewReport]
  BY DEF Init
<1>4. ReportsHold
  BY <1>2, <1>3 DEF ReportsHold, ReportHolds
<1>5. QuietsHold
  BY <1>2, <1>3 DEF QuietsHold, QuietHolds, CountsHold
<1>6. QED
  BY <1>1, <1>4, <1>5 DEF Inv

LEMMA InvStep ==
  ASSUME Inv, [Next]_vars
  PROVE  Inv'
<1>1. IngestionInv'
  BY NextIngestion DEF Inv
<1>2. CASE OtherStep
  BY <1>1, <1>2, OtherStepHolds DEF Inv
<1>3. ASSUME NEW r \in Readers, ReaderStep(r) PROVE ReportsHold' /\ QuietsHold'
  BY <1>3, CountTotalHolds, CountMergedHolds, CycleTimesHolds, SelectReviewsHolds,
     ReadRowHolds, FirstReviewsHolds DEF ReaderStep
<1>4. CASE UNCHANGED vars
  <2>1. /\ report' = report /\ Stored' = Stored /\ Merged' = Merged
        /\ \A n \in Numbers : ValidTimes(n)' = ValidTimes(n)
        /\ Cycles' = Cycles /\ Firsts' = Firsts
        /\ UNCHANGED <<storedPulls, storedReviews, reviews>>
    BY <1>4, SameIngestion DEF vars
  <2>2. ReportsHold'
    BY <2>1 DEF Inv, ReportsHold, ReportHolds
  <2>3. QuietsHold'
    BY <2>1 DEF Inv, QuietsHold, QuietHolds, CountsHold, EarliestHolds
  <2>4. QED
    BY <1>1, <2>2, <2>3 DEF Inv
<1>5. QED
  BY <1>1, <1>2, <1>3, <1>4 DEF Next, Inv

LEMMA InvTypes ==
  ASSUME Inv
  PROVE  TypeOK
<1>1. ASSUME NEW n \in Numbers, NEW i \in DOMAIN reviews[n]
      PROVE  reviews[n][i] \in Times \cup {Never}
  BY DEF Inv, IngestionInv, GitHubHolds
<1>2. QED
  BY <1>1 DEF Inv, IngestionInv, GitHubHolds, StoredHolds, ReportsHold, TypeOK

LEMMA InvQuiet ==
  ASSUME Inv
  PROVE  QuietReportIsExact
<1>1. ASSUME NEW r \in Readers, report[r].phase = "done", report[r].quiet
      PROVE  /\ report[r].total = Cardinality(Stored)
             /\ report[r].merged = Cardinality(Merged)
             /\ report[r].cycle = TwiceMedian(Cycles)
             /\ report[r].first = TwiceMedian(Firsts)
  BY <1>1 DEF Inv, QuietsHold, QuietHolds, CountsHold
<1>2. QED
  BY <1>1 DEF QuietReportIsExact, Cycles, Firsts, ValidTimes

\* Every variable keeps its type, whatever the syncs and the requests do: a
\* count is at most the number of pull requests, and a median, the k-th smallest
\* of some durations, is never negative and within the clock's bound
\* (repository_metrics.py:27-117).
THEOREM TypeCorrect == Spec => []TypeOK
<1>1. Init => Inv
  BY InvInit
<1>2. Inv /\ [Next]_vars => Inv'
  BY InvStep
<1>3. Inv => TypeOK
  BY InvTypes
<1>4. QED
  BY <1>1, <1>2, <1>3, PTL DEF Spec

\* The report of a request during which nothing was committed is exact, for any
\* number of pull requests and reviews and in whatever order the database
\* returns the reviews: two counts, the median time to a merge, and the median
\* time to the first valid review, found row by row
\* (repository_metrics.py:27-117).
THEOREM QuietExact == Spec => []QuietReportIsExact
<1>1. Init => Inv
  BY InvInit
<1>2. Inv /\ [Next]_vars => Inv'
  BY InvStep
<1>3. Inv => QuietReportIsExact
  BY InvQuiet
<1>4. QED
  BY <1>1, <1>2, <1>3, PTL DEF Spec
=============================================================================
