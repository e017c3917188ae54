------------------------------ MODULE Metrics ------------------------------
(***************************************************************************)
(* GET /me/repositories/{id}/metrics (app/services/repository_metrics.py)  *)
(* while syncs of the repository are committed.  The handler runs four     *)
(* SELECTs one after the other; at READ COMMITTED each of them sees what   *)
(* is committed when it runs.  Durations are in ticks of Ingestion's       *)
(* clock, and medians are doubled so that they are whole numbers.          *)
(***************************************************************************)
EXTENDS Ingestion

CONSTANT Readers   \* metrics requests

VARIABLE report    \* the handler of each metrics request

vars == <<ingestionVars, report>>

ReportPhases == {"total", "merged", "cycle", "reviews", "loop", "done"}

\* `rows` is the result of the last SELECT, which the handler goes through row
\* by row; `earliest` is earliest_valid_submission_by_pr.  `quiet` is not in the
\* code: no sync was committed since the first SELECT.
Report == [phase: ReportPhases, total: 0 .. LastNumber, merged: 0 .. LastNumber,
           cycle: (0 .. 2 * MaxEvents) \cup {Never},
           rows: SUBSET [pr: Numbers, position: 1 .. MaxEvents],
           earliest: [Numbers -> Times \cup {Never}],
           first: (0 .. 2 * MaxEvents) \cup {Never}, quiet: BOOLEAN]

NewReport == [phase |-> "total", total |-> 0, merged |-> 0, cycle |-> Never,
              rows |-> {}, earliest |-> [n \in Numbers |-> Never],
              first |-> Never, quiet |-> TRUE]

Init == IngestionInit /\ report = [r \in Readers |-> NewReport]

Merged == {n \in Stored : storedPulls[n].merged # Never}

\* The k-th smallest of the values of f.
Kth(f, k) ==
    CHOOSE v \in {f[x] : x \in DOMAIN f} :
        /\ Cardinality({x \in DOMAIN f : f[x] < v}) < k
        /\ Cardinality({x \in DOMAIN f : f[x] =< v}) >= k

\* Twice statistics.median of the values of f; None for an empty list.
TwiceMedian(f) ==
    LET size == Cardinality(DOMAIN f) IN
    IF size = 0 THEN Never
    ELSE Kth(f, (size + 1) \div 2) + Kth(f, size \div 2 + 1)

-----------------------------------------------------------------------------

CountTotal(r) ==
    /\ report[r].phase = "total"
    /\ report' = [report EXCEPT ![r].phase = "merged", ![r].total = Cardinality(Stored)]
    /\ UNCHANGED ingestionVars

CountMerged(r) ==
    /\ report[r].phase = "merged"
    /\ report' = [report EXCEPT ![r].phase = "cycle", ![r].merged = Cardinality(Merged)]
    /\ UNCHANGED ingestionVars

\* A merge before the creation is left out.
CycleTimes(r) ==
    /\ report[r].phase = "cycle"
    /\ LET valid == {n \in Merged : storedPulls[n].merged >= storedPulls[n].created} IN
        report' = [report EXCEPT ![r].phase = "reviews",
            ![r].cycle = TwiceMedian([n \in valid |->
                            storedPulls[n].merged - storedPulls[n].created])]
    /\ UNCHANGED ingestionVars

SelectReviews(r) ==
    /\ report[r].phase = "reviews"
    /\ report' = [report EXCEPT ![r].phase = "loop",
            ![r].rows = {row \in [pr: Stored, position: 1 .. MaxEvents] :
                            /\ row.position \in storedReviews[row.pr]
                            /\ reviews[row.pr][row.position] # Never}]
    /\ UNCHANGED ingestionVars

\* Mutant: the last valid row wins.
ReadRowLast(r) ==
    /\ report[r].phase = "loop"
    /\ \E row \in report[r].rows :
        LET submitted == reviews[row.pr][row.position] IN
        report' = [report EXCEPT ![r].rows = @ \ {row},
            ![r].earliest[row.pr] =
                IF submitted >= storedPulls[row.pr].created THEN submitted ELSE @]
    /\ UNCHANGED ingestionVars

\* Mutant: a review before the creation is not left out.
ReadRowUnchecked(r) ==
    /\ report[r].phase = "loop"
    /\ \E row \in report[r].rows :
        LET submitted == reviews[row.pr][row.position]
            earliest  == report[r].earliest[row.pr]
        IN  report' = [report EXCEPT ![r].rows = @ \ {row},
                ![r].earliest[row.pr] =
                    IF earliest = Never \/ submitted < earliest THEN submitted ELSE @]
    /\ UNCHANGED ingestionVars

\* One row of the result, in whatever order the database returned them.
ReadRow(r) ==
    /\ report[r].phase = "loop"
    /\ \E row \in report[r].rows :
        LET submitted == reviews[row.pr][row.position]
            earliest  == report[r].earliest[row.pr]
        IN  report' = [report EXCEPT ![r].rows = @ \ {row},
                ![r].earliest[row.pr] =
                    IF /\ submitted >= storedPulls[row.pr].created
                       /\ (earliest = Never \/ submitted < earliest)
                    THEN submitted ELSE @]
    /\ UNCHANGED ingestionVars

FirstReviews(r) ==
    /\ report[r].phase = "loop" /\ report[r].rows = {}
    /\ LET reviewed == {n \in Numbers : report[r].earliest[n] # Never} IN
        report' = [report EXCEPT ![r].phase = "done",
            ![r].first = TwiceMedian([n \in reviewed |->
                            report[r].earliest[n] - storedPulls[n].created])]
    /\ UNCHANGED ingestionVars

\* A step of GitHub or of a sync.  What a report has yet to read may change.
OtherStep ==
    /\ IngestionNext
    /\ report' = [r \in Readers |->
        [report[r] EXCEPT !.quiet = @ /\ (report[r].phase = "total" \/ UNCHANGED storedVars)]]

ReaderStep(r) ==
    \/ CountTotal(r) \/ CountMerged(r) \/ CycleTimes(r) \/ SelectReviews(r)
    \/ ReadRow(r) \/ FirstReviews(r)

Next == OtherStep \/ \E r \in Readers : ReaderStep(r)

Spec == Init /\ [][Next]_vars

-----------------------------------------------------------------------------
(* Properties *)

TypeOK ==
    /\ now \in Times
    /\ pulls \in [Numbers -> Pull]
    /\ \A n \in Numbers : \A i \in DOMAIN reviews[n] : reviews[n][i] \in Times \cup {Never}
    /\ storedPulls \in [Numbers -> Pull]
    /\ storedReviews \in [Numbers -> SUBSET (1 .. MaxEvents)]
    /\ sync \in [Syncs -> Execution]
    /\ report \in [Readers -> Report]

\* A sync that ends well has stored everything GitHub had when it began: each
\* of the newest Window pull requests, whether it was merged, and all of its
\* reviews, however many pages they took and whatever happened meanwhile.
SyncIsComplete ==
    [][\A s \in Syncs : sync[s].phase = "persist" /\ sync'[s].phase = "done" =>
        LET had == {n \in Numbers : pulls[n].created \in 0 .. sync[s].since} IN
        \A n \in Newest(Opened, Window) \cap had :
            /\ storedPulls'[n].created = pulls[n].created
            /\ pulls[n].merged \in 1 .. sync[s].since => storedPulls'[n].merged = pulls[n].merged
            /\ \A i \in DOMAIN reviews[n] :
                reviews[n][i] \in 1 .. sync[s].since => i \in storedReviews'[n]]_vars

\* Stored facts do not come undone: a pull request that was stored as merged
\* stays merged, although every sync overwrites merged_at with what it fetched.
MergedStaysMerged ==
    [][\A n \in Merged : storedPulls'[n].merged = storedPulls[n].merged]_vars

\* A commit that stores a merge has stored the reviews from before that merge:
\* the list is fetched before the reviews, and one commit has both.
ReviewsComeAlong ==
    [][\A n \in Numbers : \A i \in DOMAIN reviews[n] :
        storedPulls'[n].merged # storedPulls[n].merged
            /\ reviews[n][i] \in 1 .. storedPulls'[n].merged => i \in storedReviews'[n]]_vars

\* A report that no sync interfered with is exact, in whatever order the
\* database returned the reviews: the counts, the median over the merged pull
\* requests, and the median over those that were reviewed.
QuietReportIsExact ==
    \A r \in Readers : report[r].phase = "done" /\ report[r].quiet =>
        LET valid    == {n \in Merged : storedPulls[n].merged >= storedPulls[n].created}
            times(n) == {t \in {reviews[n][i] : i \in storedReviews[n]} :
                            t # Never /\ t >= storedPulls[n].created}
            reviewed == {n \in Stored : times(n) # {}}
        IN  /\ report[r].total = Cardinality(Stored)
            /\ report[r].merged = Cardinality(Merged)
            /\ report[r].cycle = TwiceMedian([n \in valid |->
                    storedPulls[n].merged - storedPulls[n].created])
            /\ report[r].first = TwiceMedian([n \in reviewed |->
                    Min(times(n)) - storedPulls[n].created])

\* merge_rate, when it is not None, is a fraction between 0 and 1.
MergeRateIsFraction ==
    \A r \in Readers : report[r].phase = "done" /\ report[r].total > 0 =>
        report[r].merged =< report[r].total
=============================================================================
