----------------------------- MODULE Ingestion -----------------------------
(***************************************************************************)
(* What one sync of a repository stores: sync_repository                   *)
(* (app/services/repository_sync.py) and the paginated reads of            *)
(* app/github/client.py, while pull requests are opened, reviewed and      *)
(* merged on GitHub.                                                       *)
(*                                                                         *)
(* Every GitHub response is one step and reads GitHub at that moment.      *)
(* Pull requests are their numbers, so the newest is the largest.  Reviews *)
(* of a pull request are listed in the order of their submission.          *)
(***************************************************************************)
EXTENDS Naturals, Sequences, FiniteSets, FiniteSetsExt

CONSTANTS
    LastNumber,  \* bound: pull requests that are ever opened
    Window,      \* MAX_PULL_REQUESTS_PER_SYNC
    PageSize,    \* per_page of the review listing
    Syncs,       \* executions of sync_repository
    Never,       \* no timestamp
    MaxEvents    \* bound: things that happen on GitHub, and the clock

ASSUME PositiveSizes   == Window \in Nat \ {0} /\ PageSize \in Nat \ {0}
ASSUME IngestionBounds == LastNumber \in Nat /\ MaxEvents \in Nat /\ Never \notin Nat

VARIABLES
    now,            \* GitHub's clock: the number of things that happened
    pulls,          \* GitHub: the timestamps of each pull request
    reviews,        \* GitHub: per pull request, when its reviews were submitted
    storedPulls,    \* rows of pull_requests
    storedReviews,  \* rows of pull_request_reviews: positions in `reviews`
    sync            \* the executions of sync_repository

githubVars == <<now, pulls, reviews>>
storedVars == <<storedPulls, storedReviews>>
ingestionVars == <<githubVars, storedVars, sync>>

Numbers == 1 .. LastNumber
Times == 0 .. MaxEvents
Pull == [created: Times \cup {Never}, merged: Times \cup {Never}]
Absent == [created |-> Never, merged |-> Never]

Opened == {n \in Numbers : pulls[n].created # Never}
Stored == {n \in Numbers : storedPulls[n].created # Never}

\* `since` is not in the code: it remembers when the execution began.
Execution == [phase: {"idle", "list", "reviews", "persist", "done", "failed"},
              fetched: UNION {[S -> Pull] : S \in SUBSET Numbers},
              todo: SUBSET Numbers, page: 1 .. MaxEvents + 1,
              found: [Numbers -> SUBSET (1 .. MaxEvents)], since: Times]

NewExecution == [phase |-> "idle", fetched |-> [n \in {} |-> Absent], todo |-> {},
                 page |-> 1, found |-> [n \in Numbers |-> {}], since |-> 0]

IngestionInit ==
    /\ now = 0
    /\ pulls = [n \in Numbers |-> Absent]
    /\ reviews = [n \in Numbers |-> <<>>]
    /\ storedPulls = [n \in Numbers |-> Absent]
    /\ storedReviews = [n \in Numbers |-> {}]
    /\ sync = [s \in Syncs |-> NewExecution]

-----------------------------------------------------------------------------
(* GitHub.  A timestamp may be malformed: 0 is before any creation.  A review
   that is still pending has none. *)

Tick == now < MaxEvents /\ now' = now + 1

Open ==
    /\ Tick
    /\ \E n \in Numbers :
        /\ Opened = 1 .. n - 1
        /\ pulls' = [pulls EXCEPT ![n].created = now']
    /\ UNCHANGED <<reviews, storedVars, sync>>

Merge(n) ==
    /\ Tick
    /\ n \in Opened /\ pulls[n].merged = Never
    /\ \E t \in {0, now'} : pulls' = [pulls EXCEPT ![n].merged = t]
    /\ UNCHANGED <<reviews, storedVars, sync>>

Review(n) ==
    /\ Tick
    /\ n \in Opened
    /\ \E t \in {0, now', Never} : reviews' = [reviews EXCEPT ![n] = Append(@, t)]
    /\ UNCHANGED <<pulls, storedVars, sync>>

-----------------------------------------------------------------------------
(* sync_repository *)

Newest(S, k) == {n \in S : Cardinality({m \in S : m > n}) < k}

\* Mutant: a sync begins whatever else is running.
BeginAnyTime(s) ==
    /\ sync[s].phase = "idle"
    /\ sync' = [sync EXCEPT ![s].phase = "list", ![s].since = now]
    /\ UNCHANGED <<githubVars, storedVars>>

\* One execution at a time for a repository: see SyncJobs!AtMostOneExecuting.
Begin(s) ==
    /\ sync[s].phase = "idle"
    /\ \A t \in Syncs : sync[t].phase \in {"idle", "done", "failed"}
    /\ sync' = [sync EXCEPT ![s].phase = "list", ![s].since = now]
    /\ UNCHANGED <<githubVars, storedVars>>

\* One page is enough: per_page is the limit itself.
ListPulls(s) ==
    /\ sync[s].phase = "list"
    /\ LET window == Newest(Opened, Window) IN
        sync' = [sync EXCEPT ![s].phase = IF window = {} THEN "persist" ELSE "reviews",
                             ![s].fetched = [n \in window |-> pulls[n]],
                             ![s].todo = window]
    /\ UNCHANGED <<githubVars, storedVars>>

\* Positions on page k of a listing of `length` items.
Page(k, length) == ((k - 1) * PageSize + 1) .. Min({k * PageSize, length})

\* Mutant: the Link header is not followed.
HasNextNever(k, length) == FALSE
HasNext(k, length) == k * PageSize < length

\* The next page of the reviews of the next pull request, newest first.
ListReviews(s) ==
    /\ sync[s].phase = "reviews"
    /\ LET n      == Max(sync[s].todo)
           length == Len(reviews[n])
           rest   == sync[s].todo \ {n}
           read   == [sync EXCEPT ![s].found[n] = @ \cup Page(sync[s].page, length)]
       IN  sync' = IF HasNext(sync[s].page, length)
                   THEN [read EXCEPT ![s].page = @ + 1]
                   ELSE [read EXCEPT ![s].page = 1, ![s].todo = rest,
                                     ![s].phase = IF rest = {} THEN "persist" ELSE "reviews"]
    /\ UNCHANGED <<githubVars, storedVars>>

\* Mutant: the pull requests are committed before their reviews.
PersistPullsOnly(s) ==
    /\ sync[s].phase = "persist"
    /\ storedPulls' = [n \in Numbers |->
            IF n \in DOMAIN sync[s].fetched THEN sync[s].fetched[n] ELSE storedPulls[n]]
    /\ sync' = [sync EXCEPT ![s] = [NewExecution EXCEPT !.phase = "done"]]
    /\ UNCHANGED <<githubVars, storedReviews>>

\* All upserts and one commit.  github_created_at is not in the SET list of the
\* upsert; merged_at is, whatever was stored.
Persist(s) ==
    /\ sync[s].phase = "persist"
    /\ storedPulls' = [n \in Numbers |->
            IF n \notin DOMAIN sync[s].fetched THEN storedPulls[n]
            ELSE IF n \in Stored THEN [storedPulls[n] EXCEPT !.merged = sync[s].fetched[n].merged]
            ELSE sync[s].fetched[n]]
    /\ storedReviews' = [n \in Numbers |-> storedReviews[n] \cup sync[s].found[n]]
    /\ sync' = [sync EXCEPT ![s] = [NewExecution EXCEPT !.phase = "done"]]
    /\ UNCHANGED githubVars

\* A GitHub or a database error: nothing has been written, or it is rolled back.
SyncFails(s) ==
    /\ sync[s].phase \in {"list", "reviews", "persist"}
    /\ sync' = [sync EXCEPT ![s] = [NewExecution EXCEPT !.phase = "failed"]]
    /\ UNCHANGED <<githubVars, storedVars>>

IngestionNext ==
    \/ Open
    \/ \E n \in Numbers : Merge(n) \/ Review(n)
    \/ \E s \in Syncs : Begin(s) \/ ListPulls(s) \/ ListReviews(s) \/ Persist(s) \/ SyncFails(s)
=============================================================================
