# TLA+ verification of GitHub Engineering Analytics

Specifications of the parts of the application whose correctness depends on what
happens in between: background synchronisation, the shared repository catalog,
ingestion and metrics, signing in and out, and the pages that track repositories
and wait for syncs. Each module says which source files it translates; `PROJECT.json` maps every definition
to its lines, every run to its properties, every property to a mutation of the code
that breaks it, and every known hazard to the properties that watch it. Paths below
are relative to `src/`.

## 1. The system

A FastAPI application and a Dramatiq worker share a PostgreSQL database; Redis
carries job ids from one to the other; both read GitHub; a React page drives it all.

```
 browser tab ── POST sync / GET job / GET metrics ──► API process ──► PostgreSQL
                                                        │  send(job_id)    ▲
                                                        ▼                  │
                                                      Redis ──► worker ────┘
                                                                  │
                                                                  ▼
                                                               GitHub
```

| Component | State | Operations | What makes it correct |
|---|---|---|---|
| Sync requests (`app/services/sync_jobs.py`, `app/models/sync_job.py`) | rows of `sync_jobs`, the partial unique index on active ones | `create_sync_job` (two checks, pre-check, insert, enqueue, mark failed), `get_owned_sync_job` | one active job per repository; no queued row that nothing will consume; the answer stays true |
| Worker (`app/worker/tasks.py`, `broker.py`) | the message it holds, the phase of `run_sync_job` | claim, fetch, persist, record | never two executions for a repository; every job ends; ends are final; repeated deliveries are harmless |
| Catalog and tracking (`app/services/repositories.py`) | rows of `repositories`, `user_repositories`; open transactions | resolve, track, untrack | deduplicated by GitHub id and name; the repository asked for is the one tracked; races are transparent |
| Ingestion (`app/services/repository_sync.py`, `app/github/client.py`) | rows of `pull_requests`, `pull_request_reviews`; what was fetched | list, page through reviews, upsert in one commit | a sync is complete as of its begin; nothing stored comes undone |
| Metrics (`app/services/repository_metrics.py`) | the locals of one report | four SELECTs and a reduction | a report nobody interfered with is exact |
| Sync panel (`frontend/src/hooks/useSyncJob.ts`, `SyncPanel.tsx`, `RepositoryDetailPage.tsx`) | hook state, poll count, timer, requests under way | start, poll, answer, mount, unmount | one chain of polls, bounded; its own job's outcome; fresh metrics after it |
| Login and sessions (`app/services/auth.py`, `app/api/routes/auth.py`) | `users`, `sessions`; the browser's cookies; what GitHub knows of a login | login, callback (five awaits), logout, session check | a login gives at most one session, of the account that approved it; one user row per account; the OAuth cookies stay a pair; a signed-out session is dead |
| Dashboard and shell (`frontend/src/pages/DashboardPage.tsx`, `TrackRepositoryForm.tsx`, `RepositoryList.tsx`, `ConfirmButton.tsx`, `hooks/useAuth.ts`, `App.tsx`) | the list, its error, the form, the rows that ask for confirmation, requests under way; the current user | load, track, ask, confirm, untrack, logout | the list is no older than what the page was told; form and spinner end |
| Health, configuration, migrations, deployment | none that changes while running | | |

How they interact. The POST handler commits a `queued` row *before* `send()`, so the
worker never receives an id without a row, at the price of rows without a message.
The worker reads and writes the same row in three transactions (claim, data,
outcome), with GitHub fetches between the first two outside any transaction. The
pre-check in the handler is advisory; the index is what counts. Metrics read the
tables a sync commits to, statement by statement. The page knows the server only
through four kinds of answer. The tabs of a browser share three cookies: `session`, and the
`oauth_state` and `pkce_verifier` of a login. Answers to any tab set and delete them,
and a callback is judged by the cookies of the moment it is sent.

Behaviours that are hard to test:

- *interleaving*: requests that pass a check together; two tabs of one user; commits
  of a sync between the SELECTs of a report; GitHub changing while it is read;
- *partial failure*: send fails after the commit; the data is committed and its
  outcome is not; the database fails while a failure is being recorded;
- *unreliable delivery*: messages lost, redelivered after a crash, delivered while
  their first holder is still at work, kept by a Redis whose reply was lost;
- *crashes* of the API process or a worker between any two statements;
- *retries*: a callback sent again with the same code when its answer was lost;
- *stale state*: an expired ORM object after a rollback, a name that now belongs to
  another repository, a poll answered after its panel is gone;
- *bounds*: the 25 newest pull requests, 100 reviews per page, 60 polls.

`PROJECT.json` "hazards" has each at its line.

## 2. Modules

| Module | Models | Extends / instantiates |
|---|---|---|
| `SyncContract` | what background synchronisation promises; no handler, queue or fault | |
| `SyncJobs` | POST handler, `sync_jobs` table, queue, worker | instantiates `SyncContract` |
| `MCSyncJobs` | the three fault sets and the symmetry of the runs | `SyncJobs` |
| `SyncJobs_types`, `SyncJobs_proofs` | effects of the helpers and type correctness; the safety theorems | `SyncJobs` |
| `SyncJobs_contract` | `SyncJobs` implements `SyncContract`; final and consistent rows | `SyncJobs_proofs` |
| `Catalog`, `MCCatalog` | catalog and tracking; the initial GitHub and the order of the requests in the run | |
| `Ingestion` | one sync against a changing GitHub | |
| `Metrics` | the report, reading while syncs commit | `Ingestion` |
| `SyncPoll` | the repository page | instantiates `SyncContract` as the server |
| `SignIn` | what signing in promises: approvals, at most one session each, ends | |
| `Auth` | the routes under `/auth`, `users`, `sessions`, one browser's cookies and tabs | instantiates `SignIn` |
| `Dashboard` | the dashboard, its requests, and the server's list for one user | |
| `Catalog_proofs`, `Metrics_proofs`, `SyncPoll_proofs`, `Auth_proofs`, `Dashboard_proofs` | theorems and their proofs, section 4 | the module they are named for |

`SyncContract` is the joint between server and browser: `SyncJobs` is proved to
implement it, `SyncPoll` assumes nothing else of the server. `Ingestion` opens up
the one step that `SyncJobs` takes with version numbers (`Persist`), under the
guarantee `SyncJobs` proves (one execution at a time for a repository).

### Grain and abstractions

- One step per database statement or transaction, per Redis call, per GitHub
  response and per delivery of an HTTP answer: everything between two awaits is
  atomic on the event loop. A rolled-back transaction is a step that changes no row.
- `SyncJobs`: `post[j]` is the handler (`phase` = the statement it is about to
  execute), `jobs[j]` the row, `worker[w]` the coroutine `run_sync_job`. A request
  and the job it creates share an id, because the handler draws the uuid. A
  repository's pull requests are a version number; `Fetch` reads `github`,
  `Persist` writes `stored`. `asOf` in a row (the version at the insert) is
  not in the code: it lets the contract say how recent the result must be.
  `queue`, `orphaned` and `owns` are Dramatiq's Redis lists and are external: a
  message waits, is owned by a worker, or was left by a dead one and is redelivered.
- `Catalog`: a row has the id of the request that inserts it. `pending` is a row a
  transaction has flushed; an `INSERT` with the same key is not enabled while it is
  pending, which is PostgreSQL's wait. `loaded` is whether the `User` object still
  has its attributes: a rollback expires it. The `COMMIT` (`Insert`) and the refresh of
  the row that follows it (`Refresh`) are two steps: a failure of the second is
  answered 500 with both rows stored, which is also how a commit whose
  acknowledgement is lost looks. Canonical spelling of names is left out.
- `Ingestion`: pull requests are their numbers, timestamps are the count of things
  that happened on GitHub. The upserts of one transaction are one step (`Persist`);
  `since` remembers when a sync began, for the property only.
- `Metrics`: each SELECT is a step; the rows of the review query come in any order,
  one `ReadRow` per row. Medians are doubled to stay in the naturals.
- `SyncPoll`: each mounting of the panel is a new hook in `hooks`; the last one is on
  the screen if `HasPanel`. Timers and requests survive unmounting, `setState` does
  not. A request is answered by the server in one step and delivered in another;
  network errors, 404s and lost answers are all "error". `from`, the request that
  brought the metrics, is not in the code: it tells an overtaken page from a stale one. The hook's `job` is the
  `created.job_id` its closure holds.
- `Auth`: one browser. A login's number stands for its state, its verifier and, once
  approved, its code; a callback's number stands for the request, the user row it
  may insert and the session (row and token) it creates. Row 0 belongs to an account
  that has signed in before. `callbacks[k].phase` is the await the handler is at.
  `/auth/me` is served and shown in one step, since nobody else can tell. "ended"
  merges rows that are deleted and rows past `expires_at`. The two OAuth cookies are
  set with one lifetime and expire together. GitHub redeems a code once, for the
  verifier of its challenge, and may give an account another's old name: external.
  A sign-out that reaches the server after its tab gave up is, to every other
  actor, a session that expired.
- `Dashboard`: `log` is the history of the set of repositories the user tracks, and
  a revision is a place in it; `log` and `from` (which request brought the list) are
  not in the code and let `FreshList` compare ages. `Catalog` has the statements of
  a POST; here a request is served in one step and answered in another, answers
  arrive in any order, and a request that fails may have made its change. A
  dashboard that was left keeps its continuations, which the screen no longer shows.
  A tab that is reloaded is a new one, whose requests still under way are those of
  `Elsewhere`.

## 3. What the runs check

| Run | Question | Instance | States, time |
|---|---|---|---|
| `sync_service` | With the failures the code handles, does everything end well? | 1 user, 1 repository, 3 requests, 1 worker, `HandledFaults` | 78 080, 35 s |
| `sync_crashes` | Is the contract kept when processes die and bookkeeping fails? | 2 requests, 2 workers, 1 crash, 2 versions, `CrashFaults` | 141 904, 35 s |
| `sync_delivery` | Does the index hold when the queue misbehaves? | 2 requests, 2 workers, 1 crash, `DeliveryFaults`, symmetry | 1 089 000, 35 s |
| `catalog` | Is the catalog keyed, does everyone track what they asked for, and is every request answered? | 2 users, 3 requests, 2 GitHub ids, 2 names, 1 rename, failing statements | 313 023, 100 s |
| `metrics` | Is a sync complete, monotone, and a quiet report exact? | 3 pull requests, window 2, page size 1, 2 syncs, 1 reader, 4 events | 959 701, 25 s |
| `poll` | Does the page tell the truth and stop? | 2 jobs, 2 polls per start, 1 visit | 75 132, 12 s |
| `auth` | Is a login what was approved, once, whatever tabs, retries and failures do? | 2 tabs, 2 accounts (one known), 2 names, 2 logins, 2 callbacks, 1 rename | 236 129, 90 s |
| `dashboard` | Does the list come to rest on what the page was told, and does nothing spin for ever? | 2 repositories, 2 mounts, 2 writes, 1 change elsewhere | 266 608, 60 s |

Fault sets (in `MCSyncJobs`), each the environment a group of properties is claimed
for:

- `HandledFaults`: clean failures of the insert, of the worker's loading, claiming
  and storing, of GitHub and of `send()`. Under them `RunningIsHeld`,
  `ResultMatchesStatus` and `AnswerMatchesJob` hold, and `SyncsEnd` is live.
- `CrashFaults`: additionally the API process and a worker die, a repository is deleted and
  the recording of outcomes fails. Jobs may then stay `running` (the README's known
  limitation), or `queued` for ever when the API dies before `send()` (not in its
  list); what remains is `AtMostOneExecuting`, `TerminalIsFinal` (a message
  delivered again after its job ended changes nothing), `ImplementsContract`,
  `DeliveredIsPickedUp`, and `QueuedIsDeliverable`: a row without a message is one
  whose requester was never told of a job.
- `DeliveryFaults`: a live worker taken for dead, lost messages, ambiguous sends,
  the time limit. What remains is `AtMostOneActive` and `OneMessagePerJob`.

Properties worth knowing:

- `ImplementsContract` (`SyncJobs` ⇒ `SyncContract!Spec`): a job starts once and ends
  once, only a running job writes, what it writes is neither older than what is
  stored nor older than the request, whatever crashes.
- `AnswerMatchesJob`: a 503 means that no worker has the job or will be handed it.
- `TracksWhatWasAsked`, `RowsComeTracked`, `ConflictIsOwn`: action properties that
  relate a row or an answer to both tables at that moment, with renames in between.
  `TracksWhatWasAsked` grants what the docstring of `resolve_repository` and
  `tests/test_repositories_service.py:74-92` grant: a row that merely has the
  submitted name, as long as no row has GitHub's id. In the code as it is, such a row
  is found but never tracked, because the request dies of the 500 that `catalog_race`
  shows; the proof of `Tracks` goes through that fact.
- `SyncIsComplete`, `ReviewsComeAlong`: what a commit contains against what GitHub
  had when the sync began.
- `QuietReportIsExact`: compares the report with a declarative definition (minimum,
  median) over the stored rows, for every row order.
- `BusyMeansOneChain`, `OutcomeIsOwn`, `PollingEnds` of the repository page, and
  `FreshAfterSuccess`, with the exception that `FreshList` has.
- `ImplementsSignIn` (`Auth` ⇒ `SignIn!Spec`): however callbacks overlap, are sent
  twice or fail half way, a login yields at most one session, its user is the account
  that approved it although names change hands, and a session that ended stays ended.
- `CookiesPaired`: five answers, to several tabs, write two cookies; a callback that
  passes the check of its state always carries the verifier of the same login.
- `SignedOutStaysOut`, `FailedLoginKeepsSession`, `TabsSettle`: what a sign-out, a
  login that came to nothing, and a lost answer leave behind.
- `FreshList`: at rest, without an error, the list is no older than any change this
  dashboard was told had succeeded, *unless* an older answer arrived after that of
  the last request: `InOrder` names the one way it can happen, which nothing in the
  code prevents.

### Bounds, and why they are enough

All runs of `SyncJobs` have one repository and one user. Jobs of different
repositories share nothing but the queue and the workers, and the proofs cover any
number of both; with two repositories the liveness runs do not fit the time a run is
given. Two of each actor are needed for a race; a third request in `sync_service` and `catalog`
lets one arrive after a race is decided. In `catalog` both names are served at first,
a rename makes the name of a row stale, and the third request meets it; requests are
submitted in a fixed order, which loses nothing because they are interchangeable
until then. With two renames, and with four requests, the safety properties hold as
well (96 418 and 460 310 states with symmetry). Two versions let a worker store an old and
a new one. One crash gives every kind of redelivery
(before the job is claimed, while it runs, after it ended), and `TerminalIsFinal`
is checked where that happens; the theorems hold for any number. In `metrics` the window (2) is smaller
than the number of pull requests (3) and a page (1) smaller than the reviews of
one, so both limits are met; two syncs give a stored row that is overwritten. In
`poll`, 2 polls reach the cap and one before it; two jobs give a second start whose
polls could meet answers of the first, and a page that loses its panel to a failed
refresh and mounts another one. With two visits and one poll per start
(950 000 states, 5 minutes, in-order metrics) the properties hold as well; that
instance is too slow to be kept as a run.

In `auth`, two logins and two callbacks are what two overlapping sign-ins, one
retried sign-in, or two accounts in turn need. With a third callback the invariants
hold as well (1 645 365 states); the refinement and the liveness properties do not
fit the time of a run there. In `dashboard`, two mounts give a write that is
acknowledged to a dashboard that was left; two writes and a change elsewhere give
refreshes that overtake each other; at first one of the two repositories is tracked,
and from all four initial sets (976 737 states, 4 minutes) the properties hold too.

Every bound is a constant (`MaxVersion`, `MaxCrashes`, `MaxRenames`, `LastNumber`,
`MaxEvents`, `MaxPolls`, `MaxVisits`, `MaxLogins`, `MaxCallbacks`, `MaxMounts`,
`MaxWrites`, `MaxElsewhere`). Deadlock checking is off throughout:
requests, syncs and visits are finite, and the system stops when they are used up.
No property relies on it; `SyncsEnd`, `DeliveredIsPickedUp`, `RequestsEnd`,
`PollingEnds`, `TabsSettle`, `FormComesBack` and `LoadingEnds` say what must not get
stuck.

### Fairness

- `SyncJobs!Fairness`: weak fairness of each handler's and each worker's next step,
  of taking a message and of redelivery. The event loop resumes every coroutine
  whose await is done, Dramatiq's threads keep polling, its broker requeues what
  dead workers held. Users, GitHub and faults have no fairness.
- `Catalog!Fairness`: the same for handlers; a waiting INSERT is not enabled, so weak
  fairness claims nothing about it until the other transaction ends.
- `SyncPoll!Fairness`: timers fire, and each request is answered or fails. The code
  has no timeout on `fetch`, so a request that is never answered keeps the panel
  busy; the server's jobs have no fairness, polling must end without them.
- `Auth!Fairness`: every await of a callback's handler ends (httpx has a timeout, the
  database answers or `Fail`s), and a tab shows what it is answered. Nobody has to
  click, GitHub's page need not be answered, and nothing has to expire.
- `Dashboard!Fairness`: each request is answered or fails and its continuation runs.

### Disagreements between the code and what it says of itself

Each is a run that TLC refutes, with the quotation in "findings":

| Run | What happens |
|---|---|
| `stuck_running` | `_mark_succeeded` is outside the `try`: one failed UPDATE leaves the job `running` and the repository blocked, with every process alive |
| `redelivered_job` | a worker dies after `_mark_succeeded` and before the acknowledgement, the redelivery cannot load the row, and `_mark_failed` turns `succeeded` into `failed` |
| `catalog_race` | the rollback after a lost race expires the request's `User`; reading `user.id` raises and the request is answered 500, also in the case the docstring's fallback by name is for |
| `merge_rate` | a sync committed between the two counts of a report: a merge rate above 1 |

Known, and not kept as runs:

- With `Faults = {"worker_stall"}` and two workers, `AtMostOneExecuting` and
  `TerminalIsFinal` fail. `_mark_running` reads the status and writes `running`
  without repeating the condition (`tasks.py:147`, `160`): when Dramatiq takes a late
  worker for dead and requeues its message, both holders may read `queued` and
  execute the job at once, and the index does not see it, for it is one row
  (`README.md:539-541` has the index make more workers safe). Or the slower one
  writes after the other has recorded `succeeded`, and an ended job
  (`README.md:471`) is `running` again.
- The recovery in `resolve_repository` may return a row by its name although another
  row has GitHub's id, where the docstring (`repositories.py:24-28`) calls the name a
  fallback: `n1` is tracked for `g1`, a request for `n2` has flushed the row of `g2`,
  `g2` takes the name `n1`, a request for `n1` selects nothing, `g2`'s row is
  committed, and the INSERT clashes with both rows. The SELECT asks for either, in no
  order. As in `catalog_race`, the request ends with a 500 before it tracks anything.
- Without `InOrder` in it, `FreshAfterSuccess` of `SyncPoll` fails. The metrics
  request of a first success is answered and delayed, a second sync succeeds and its
  newer metrics arrive first, then the delayed answer replaces them.
- With `Faults = {"enqueue_ambiguous"}`, `ResultMatchesStatus` fails: `send()` raises
  although Redis has the message, the job is marked `enqueue_failed`, is executed all
  the same, and keeps its error code when it succeeds (`README.md:472-473`).
- Two tabs that start a login share the cookies: the first one's callback is refused,
  and the refusal (`errors.py:92-93`) deletes the cookies the second's login still
  needs, which the comment at `errors.py:62-65` takes for useless.
- A callback that fails with a 5xx goes through the generic handler and leaves both
  OAuth cookies to their expiry; `README.md:649-652` has the verifier cleared as soon
  as the callback finishes.
- Of two first logins of one account at once, one is answered 500: the
  `IntegrityError` of `services/auth.py:81` is caught nowhere.
- The answer to a sign-out deletes the session cookie whatever it holds by then; a
  session made meanwhile in another tab lives on in no cookie until it expires.
- A write under way when the dashboard is left and opened again is acknowledged to
  the old mount; the new mount's list may predate it.

## 4. What is proved

With TLAPS, for any sets of users, repositories, jobs, workers, tabs, accounts and
requests, and for every value of the bounds. Every safety property that a passing run
checks, and both refinements, are theorems `Spec => ...` (the column "Assumes" lists
hypotheses beyond the assumptions on constants):

| Module | Theorem | States | Assumes |
|---|---|---|---|
| `SyncJobs_types` | `TypeCorrect` | `[]TypeOK` | |
| `SyncJobs_proofs` | `OneActiveJob` | `[]AtMostOneActive` | any set of faults |
| | `OneMessage` | `[]OneMessagePerJob` | any set of faults |
| | `SingleExecution` | `[]AtMostOneExecuting` | no `worker_stall`, no `enqueue_ambiguous` |
| | `RunningHeld` | `[]RunningIsHeld` | no `worker_crash`, `worker_interrupt`, `db_mark_succeeded`, `db_mark_failed` |
| | `QueuedDeliverable` | `[]QueuedIsDeliverable` | no `redis_loss`, `worker_interrupt`, `db_mark_failed` |
| | `AnswersKept` | `[]AnswerMatchesJob` | no `enqueue_ambiguous`, no `repository_deleted` |
| `SyncJobs_contract` | `ResultsConsistent` | `[]ResultMatchesStatus` | `OneDelivery` |
| | `FinalStatus` | `TerminalIsFinal` | `OneDelivery` |
| | `Refinement` | `ImplementsContract` | `OneDelivery` |
| `Catalog_proofs` | `TypeCorrect`, `Keyed` | `[]TypeOK`, `[]CatalogIsKeyed` | |
| | `Tracks`, `RowsTracked`, `OwnConflict` | `TracksWhatWasAsked`, `RowsComeTracked`, `ConflictIsOwn` | |
| `Metrics_proofs` | `KthSmallest` | `IsKth(f, k, Kth(f, k))`, and of no other value | `f` of a finite set into naturals |
| | `TypeCorrect`, `QuietExact` | `[]TypeOK`, `[]QuietReportIsExact` | |
| | `SyncStoresAll`, `MergedForGood`, `ReviewsWithPulls` | `SyncIsComplete`, `MergedStaysMerged`, `ReviewsComeAlong` | |
| `SyncPoll_proofs` | `TypeCorrect`, `OneChainWhileBusy` | `[]TypeOK`, `[]BusyMeansOneChain` | |
| | `OwnOutcome`, `FreshMetrics` | `[]OutcomeIsOwn`, `[]FreshAfterSuccess` | |
| `Auth_proofs` | `TypeCorrect`, `OneUser`, `Paired` | `[]TypeOK`, `[]OneUserPerAccount`, `[]CookiesPaired` | |
| | `SignedOut`, `FailedLogin` | `[]SignedOutStaysOut`, `FailedLoginKeepsSession` | |
| | `Refinement` | `ImplementsSignIn` | |
| `Dashboard_proofs` | `TypeCorrect`, `ListIsFresh` | `[]TypeOK`, `[]FreshList` | |

`OneDelivery` excludes `worker_stall` and `enqueue_ambiguous`, and `worker_crash`
together with `db_load`; without it `FinalStatus` is false (run `redelivered_job`, and
section 3 for `worker_stall`). The theorems of `SyncJobs` cover many more sets of
faults than the three that are run, since each names only the faults that break it.

Assumptions on constants, evaluated by TLC on every run: what stands for "nothing"
(`NoJob`, `Nothing`, `Never`) is not one of the values it stands beside; bounds are
natural numbers, windows, pages and the number of polls, logins and callbacks
positive; `Faults` is a set of known faults; GitHub has enough names for its
accounts to have different ones (`Auth!NamesAssumption`, without which `Init` would
choose from an empty set).

### The arguments

Each proof has lemmas that say what an update does to a record, so that step lemmas
never expand a nested EXCEPT; a typing invariant, usually stronger than `TypeOK`;
and layers of named conjuncts on top of it.

**`SyncJobs`.** `TypeInv` is `TypeOK` and is inductive, and so is `AtMostOneActive`
with it: only `Insert` and `Claim` make a row active (`RowWriters`), both test the
index, and a job's repository never changes once it is submitted (`RepoFixed`).

`AtMostOneExecuting` is not inductive: two workers could hold one message, a worker
could hold a job whose row is not running, or a deleted repository's rows could be
active. The strengthening is

    TypeInv /\ Delivery /\ Rows /\ ExecutingRows /\ AtMostOneExecuting

`Delivery`: a job id is in one place of the queue or with one busy worker, and its
handler is done with it. `Rows`: whoever refers to a job refers to a committed row,
and rows live while their repository does. `ExecutingRows`: a worker between
claiming and recording has a row that is `running`, or was deleted under it. When a
second worker claims a job of the same repository, the first one's row is active or
gone, and the index or the foreign key stops the claim. Both excluded faults break
`Delivery`: section 3 has the schedule that makes the theorem false with `worker_stall`;
`enqueue_ambiguous` lets a worker hold a job its handler is still marking.

`OneMessage` adds `Unsent` (before the send, Redis and the ack sets know nothing of
the job). `QueuedDeliverable` adds `Answered` and `Deliverable`: every queued row is
`AwaitedBy` a message, a handler or an owner of its message, or was never announced.
`AnswersKept` adds `Accepted` (only a job answered 202 is ever in Redis or with a
worker) and `Told` (what each answer says of the row).

**The contract.** `Progress` adds `Stage` to `Delivery` and `Rows`: a row is exactly
as far as the coroutine that works for it (`WorkerStage`), and, without crashes, no
message is delivered twice. From it, each row's writer moves it forward only, so
ends are final. `Versions` orders the version a job was asked at, the one its worker
carries, the one stored and GitHub's; with `AtMostOneExecuting`, nobody overwrites
what a worker is about to overwrite between its fetch and its commit. The refinement
then goes action by action: `Publish`, `DeleteRepository`, `Insert`,
`MarkEnqueueFailed`, `Claim`, `Persist`, `MarkSucceeded` and `MarkFailed` are steps of
`SyncContract` or stutter, and the others always stutter.

**`Catalog`.** `KeysApart` says of committed and flushed rows together what the two
unique constraints say; `RowsAreCommitted` and `RowsAreFound` tie a handler's `row`
to the catalog (a committed row's request is past its commit), with the one exception
the code has (a row recovered by name after a lost race), and `HandlersHold` shows
that exception never to reach a tracking row.

**`Ingestion` and `Metrics`.** `IngestionInv`: GitHub's timestamps never change and
are not in the future; what is stored is GitHub's or absent (`StoredHolds`); the list
of an execution is complete as of its begin and not older than anything stored
(`FetchHolds`, `ListIsComplete`), and what it has read of the reviews covers every
one that was due when the list was read (`ReadHolds`: the finished pull requests,
and the pages before the next one). A window only loses old members while pull
requests are opened (`NewestShrinks`). The three action properties are then
properties of `Persist` alone (`OnlyPersistStores`). `QuietExact` carries, for a
report nobody interfered with, the counts (`CountsHold`) and the loop invariant of
the reduction (`EarliestHolds`: each valid review is in a row still to be read or
not earlier than the earliest found). That a least element, and a k-th smallest
value, exist is proved without induction: the segments below the members of a
nonempty set are finite sets, which strict inclusion orders well (`LeastExists`,
`KthSmallest`).

**`SyncPoll`.** `OneChain` (a hook has one timer or one request, also after its
panel is gone) and `BusyAtWork` give `BusyMeansOneChain`. A request or timer is for
the job its hook created last, and an answer says of it what the contract's server
can never take back (`EndedAs`): that gives `OutcomeIsOwn`. `LatestIsFresh`: the
last request for the metrics was sent after the success, so what it was answered is
as recent as the sync. The server's steps enter only through `SyncContract`.

**`Auth`.** `TypeInv` relates handlers, rows and cookies: a row or session of a
callback is there only after its commit and belongs to the account that approved the
login. `InsertsApart`: open transactions that insert a user insert different ones,
of accounts without a row; that is what the wait on a unique key gives.
`SignOutServed`: the deletion precedes its answer. `RedeemedOnce`, of the code that
GitHub redeems once, gives the refinement: `Yield` says that a login's sessions are
none or one, of its approver.

**`Dashboard`.** `SentInOrder`, `ShowsItsOwn` and `LatestIsFresh`: the last request
of the dashboard on the screen was sent after the last change it was told of, and
once it is the one shown, the list contains that change. `LogIsBounded` gives the
types: each write and each change elsewhere adds at most one revision.

### Only model-checked

Liveness (`SyncsEnd`, `DeliveredIsPickedUp`, `RequestsEnd`,
`PollingEnds`, `TabsSettle`, `FormComesBack`, `LoadingEnds`) is out of the prover's
reach, as is anything about ENABLED. The refinements are proved, and checked, without
fairness: neither abstract specification has any.

## 5. Not modelled

- Reads without state (`GET /repositories`, `/health`), pydantic validation, response
  shapes, logging, configuration, static files, Docker, CI.
- Of login: hashing and token generation, the derivation of the PKCE challenge, cookie
  attributes, and the answer when OAuth is not configured. A callback without a code
  is not sent; the handler would refuse it before its first await, like a wrong state. Several browsers of one account share only the tables,
  and every race over those is there between two tabs.
- Of the dashboard: the text of the input and of the messages.
- HTTP status classification and payload parsing of the GitHub client: its callers
  see a result or a failure.
- The stored name of a repository in a sync: `Ingestion` reads one repository by
  number, so a catalog name that another repository has taken is a listed hazard
  without a property.
- Page navigation from one repository to another without unmounting.

## 6. Plan

Done, in this order: `SyncContract`, `SyncJobs` and its runs; type correctness,
`OneActiveJob`, `SingleExecution`; `Catalog`; `Ingestion` and `Metrics`; `SyncPoll`;
`SignIn` and `Auth`; `Dashboard`; the other theorems of section 4.

Next, modelling:

1. `Ingestion` over `Catalog`'s names: a sync that asks by a name another repository
   has taken. Property: a repository's rows are all its own.
2. The change of the route parameter in `SyncPoll`.

Next, proofs:

- The guarantee `Ingestion!Begin` relies on: the executions of one repository in
  `SyncJobs`, one at a time by `SingleExecution`, are those of `Ingestion`.
