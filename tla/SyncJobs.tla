------------------------------ MODULE SyncJobs ------------------------------
(***************************************************************************)
(* Background synchronisation: POST /me/repositories/{id}/sync             *)
(* (app/services/sync_jobs.py), the sync_jobs table with its partial       *)
(* unique index (app/models/sync_job.py), the Redis queue Dramatiq keeps,  *)
(* and the worker that runs a job (app/worker/tasks.py and                 *)
(* app/services/repository_sync.py).                                       *)
(*                                                                         *)
(* Every database statement or transaction, every Redis call and every     *)
(* GitHub fetch is one step, because the event loop and the other          *)
(* processes run between any two of them.  A job and the request that may  *)
(* create it share an id: uuid4() is drawn by the handler itself, so a     *)
(* request creates at most one job and no other request draws its id.      *)
(*                                                                         *)
(* A repository's pull requests are represented by one version number: 0   *)
(* before its first pull request, and one more per change on GitHub.       *)
(***************************************************************************)
EXTENDS Naturals, FiniteSets

CONSTANTS
    Users,       \* signed-in users
    Repos,       \* ids in the repositories table
    Jobs,        \* sync job ids, one per POST request
    Workers,     \* Dramatiq worker threads
    NoJob,       \* what an idle worker holds
    Faults,      \* which of FaultKinds the environment may inflict
    MaxVersion,  \* bound: changes published on GitHub per repository
    MaxCrashes   \* bound: worker processes that die

\* "db_*": the transaction is rolled back and the call raises SQLAlchemyError.
\* "enqueue_error": Redis did not get the message and send() raised;
\* "enqueue_ambiguous": Redis got it and send() raised all the same (the reply
\* was lost).  "worker_stall": Dramatiq takes a live worker for dead, because
\* its heartbeat is late, and gives its message to another one.
\* "worker_interrupt": Dramatiq's time limit cancels the coroutine; the
\* CancelledError passes every `except Exception`.
FaultKinds ==
    {"db_insert", "db_load", "db_claim", "db_persist", "db_mark_succeeded",
     "db_mark_failed", "db_mark_enqueue_failed", "github_error",
     "enqueue_error", "enqueue_ambiguous", "api_crash", "worker_crash",
     "worker_stall", "worker_interrupt", "redis_loss", "repository_deleted"}

ASSUME NoJobIsNoJob == NoJob \notin Jobs
ASSUME KnownFaults  == Faults \subseteq FaultKinds
ASSUME Bounds       == MaxVersion \in Nat /\ MaxCrashes \in Nat

VARIABLES
    enabled,       \* settings.background_sync_enabled, fixed per deployment
    repositories,  \* rows of repositories
    tracking,      \* rows of user_repositories
    jobs,          \* rows of sync_jobs; "none": not yet, "deleted": cascaded
    post,          \* the POST handler that owns each job id
    queue,         \* job ids waiting in Redis
    orphaned,      \* job ids in the ack set of a worker process that died
    worker,        \* the coroutine each worker thread runs
    github,        \* per repository, the version GitHub serves
    stored,        \* per repository, the version in pull_requests
    crashes        \* worker processes that died so far

dbVars   == <<repositories, tracking, jobs, stored>>
vars     == <<enabled, dbVars, post, queue, orphaned, worker, github, crashes>>

Statuses == {"none", "queued", "running", "succeeded", "failed", "deleted"}
\* Mutant: the index and the pre-check forget running jobs.
ActiveStatusesQueuedOnly == {"queued"}
ActiveStatuses == {"queued", "running"}
ErrorCodes == {"none", "enqueue_failed", "database_error", "github_error"}

\* `counted`: pull_requests_processed and reviews_processed are filled in.
\* `asOf` is not a column: it remembers what GitHub served when the row was
\* inserted.  The row's user_id and repository_id are those of the request and
\* are never rewritten, so they are read from there.
JobRow == [status: Statuses, error: ErrorCodes, counted: BOOLEAN,
           asOf: 0 .. MaxVersion]

PostPhases == {"idle", "get_repository", "get_tracking", "precheck", "insert",
               "enqueue", "mark_failed", "done"}
\* HTTP status of the answer; "disabled" is the 503 of the capability flag and
\* "lost" a connection cut by the death of the API process.
Answers == {"none", "202", "404", "409", "503", "disabled", "500", "lost"}
PostHandler == [phase: PostPhases, user: Users, repo: Repos, answer: Answers]

WorkerPhases == {"idle", "load", "load_repository", "claim", "fetch",
                 "persist", "succeed", "fail", "ack"}
\* `owns`: the message is in this process's ack set.
WorkerState == [phase: WorkerPhases, job: Jobs \cup {NoJob},
                version: 0 .. MaxVersion, error: ErrorCodes, owns: BOOLEAN]

IdleWorker == [phase |-> "idle", job |-> NoJob, version |-> 0,
               error |-> "none", owns |-> FALSE]
Received(j) == [phase |-> "load", job |-> j, version |-> 0,
                error |-> "none", owns |-> TRUE]

Active(j) == jobs[j].status \in ActiveStatuses

\* What the partial unique index looks up.
ActiveFor(r) == \E j \in Jobs : Active(j) /\ post[j].repo = r

Init ==
    /\ enabled \in BOOLEAN
    /\ repositories = Repos
    /\ tracking = {}
    /\ jobs = [j \in Jobs |->
            [status |-> "none", error |-> "none", counted |-> FALSE, asOf |-> 0]]
    \* who will ask for which repository
    /\ post \in [Jobs -> [phase: {"idle"}, user: Users, repo: Repos, answer: {"none"}]]
    /\ queue = {}
    /\ orphaned = {}
    /\ worker = [w \in Workers |-> IdleWorker]
    /\ github = [r \in Repos |-> 0]
    /\ stored = [r \in Repos |-> 0]
    /\ crashes = 0

-----------------------------------------------------------------------------
(* The POST handler: create_sync_job, awaited statement by statement. *)

Goto(j, phase) == post' = [post EXCEPT ![j].phase = phase]
Answer(j, code) == post' = [post EXCEPT ![j].phase = "done", ![j].answer = code]

SetStatus(j, status, error) ==
    jobs' = [jobs EXCEPT ![j].status = status, ![j].error = error]

Submit(j) ==
    /\ post[j].phase = "idle"
    /\ Goto(j, "get_repository")
    /\ UNCHANGED <<enabled, dbVars, queue, orphaned, worker, github, crashes>>

GetRepository(j) ==
    /\ post[j].phase = "get_repository"
    /\ IF post[j].repo \in repositories THEN Goto(j, "get_tracking") ELSE Answer(j, "404")
    /\ UNCHANGED <<enabled, dbVars, queue, orphaned, worker, github, crashes>>

\* The capability flag is read right after the tracking row, with no await
\* between the two.
GetTracking(j) ==
    /\ post[j].phase = "get_tracking"
    /\ \/ /\ <<post[j].user, post[j].repo>> \notin tracking
          /\ Answer(j, "404")
       \/ /\ <<post[j].user, post[j].repo>> \in tracking
          /\ IF enabled THEN Goto(j, "precheck") ELSE Answer(j, "disabled")
    /\ UNCHANGED <<enabled, dbVars, queue, orphaned, worker, github, crashes>>

Precheck(j) ==
    /\ post[j].phase = "precheck"
    /\ IF ActiveFor(post[j].repo) THEN Answer(j, "409") ELSE Goto(j, "insert")
    /\ UNCHANGED <<enabled, dbVars, queue, orphaned, worker, github, crashes>>

\* Mutant: no unique index, the pre-check is all there is.
InsertNoIndex(j) ==
    /\ post[j].phase = "insert"
    /\ jobs' = [jobs EXCEPT ![j].status = "queued", ![j].asOf = github[post[j].repo]]
    /\ Goto(j, "enqueue")
    /\ UNCHANGED <<enabled, repositories, tracking, stored, queue, orphaned,
                   worker, github, crashes>>

\* INSERT and COMMIT.  Both the partial unique index and the foreign key raise
\* IntegrityError, which the handler answers alike.
Insert(j) ==
    /\ post[j].phase = "insert"
    /\ IF ActiveFor(post[j].repo) \/ post[j].repo \notin repositories
       THEN Answer(j, "409") /\ UNCHANGED jobs
       ELSE /\ jobs' = [jobs EXCEPT ![j].status = "queued",
                                    ![j].asOf = github[post[j].repo]]
            /\ Goto(j, "enqueue")
    /\ UNCHANGED <<enabled, repositories, tracking, stored, queue, orphaned,
                   worker, github, crashes>>

InsertFails(j) ==
    /\ "db_insert" \in Faults
    /\ post[j].phase = "insert"
    /\ Answer(j, "500")
    /\ UNCHANGED <<enabled, dbVars, queue, orphaned, worker, github, crashes>>

\* sync_repository_actor.send() in a thread; the row is committed by then.
Enqueue(j) ==
    /\ post[j].phase = "enqueue"
    /\ queue' = queue \cup {j}
    /\ Answer(j, "202")
    /\ UNCHANGED <<enabled, dbVars, orphaned, worker, github, crashes>>

\* Mutant: a failed send is logged and ignored, the request accepted.
EnqueueFailsIgnored(j) ==
    /\ post[j].phase = "enqueue"
    /\ "enqueue_error" \in Faults
    /\ Answer(j, "202")
    /\ UNCHANGED <<enabled, dbVars, queue, orphaned, worker, github, crashes>>

\* Mutant: the send is given up although the message is on its way.
EnqueueFailsTooEarly(j) ==
    /\ post[j].phase = "enqueue"
    /\ queue' = queue \cup {j}
    /\ Goto(j, "mark_failed")
    /\ UNCHANGED <<enabled, dbVars, orphaned, worker, github, crashes>>

EnqueueFails(j) ==
    /\ post[j].phase = "enqueue"
    /\ \/ "enqueue_error" \in Faults /\ UNCHANGED queue
       \/ "enqueue_ambiguous" \in Faults /\ queue' = queue \cup {j}
    /\ Goto(j, "mark_failed")
    /\ UNCHANGED <<enabled, dbVars, orphaned, worker, github, crashes>>

\* An UPDATE by primary key that looks at no status.  If the row is gone it
\* matches nothing and SQLAlchemy raises StaleDataError.
MarkEnqueueFailed(j) ==
    /\ post[j].phase = "mark_failed"
    /\ IF jobs[j].status = "deleted"
       THEN Answer(j, "500") /\ UNCHANGED jobs
       ELSE Answer(j, "503") /\ SetStatus(j, "failed", "enqueue_failed")
    /\ UNCHANGED <<enabled, repositories, tracking, stored, queue, orphaned,
                   worker, github, crashes>>

MarkEnqueueFailedFails(j) ==
    /\ "db_mark_enqueue_failed" \in Faults
    /\ post[j].phase = "mark_failed"
    /\ Answer(j, "500")
    /\ UNCHANGED <<enabled, dbVars, queue, orphaned, worker, github, crashes>>

HandlerStep(j) ==
    \/ GetRepository(j) \/ GetTracking(j) \/ Precheck(j)
    \/ Insert(j) \/ InsertFails(j)
    \/ Enqueue(j) \/ EnqueueFails(j)
    \/ MarkEnqueueFailed(j) \/ MarkEnqueueFailedFails(j)

-----------------------------------------------------------------------------
(* The worker: run_sync_job, one short database session per phase. *)

workerUnchanged == <<enabled, repositories, tracking, post, orphaned, github, crashes>>

Proceed(w, phase) == worker' = [worker EXCEPT ![w].phase = phase]
FailWith(w, error) == worker' = [worker EXCEPT ![w].phase = "fail", ![w].error = error]
TargetOf(w) == post[worker[w].job].repo

\* Mutant: the message is acknowledged when it is received.
TakeAckEarly(w) ==
    /\ worker[w].phase = "idle"
    /\ \E j \in queue :
        /\ queue' = queue \ {j}
        /\ worker' = [worker EXCEPT ![w] = [Received(j) EXCEPT !.owns = FALSE]]
    /\ UNCHANGED <<workerUnchanged, jobs, stored>>

\* Mutant: the message is read and left in the queue.
TakePeek(w) ==
    /\ worker[w].phase = "idle"
    /\ \E j \in queue : worker' = [worker EXCEPT ![w] = Received(j)]
    /\ UNCHANGED <<workerUnchanged, queue, jobs, stored>>

Take(w) ==
    /\ worker[w].phase = "idle"
    /\ \E j \in queue :
        /\ queue' = queue \ {j}
        /\ worker' = [worker EXCEPT ![w] = Received(j)]
    /\ UNCHANGED <<workerUnchanged, jobs, stored>>

\* Mutant: a delivery is a sync attempt whatever the job's status.
LoadJobAnyStatus(w) ==
    /\ worker[w].phase = "load"
    /\ Proceed(w, "load_repository")
    /\ UNCHANGED <<workerUnchanged, queue, jobs, stored>>

\* Mutant: only a job that is running is skipped, not one that has ended.
LoadJobUnlessRunning(w) ==
    /\ worker[w].phase = "load"
    /\ Proceed(w, IF jobs[worker[w].job].status \notin {"running", "deleted"}
                  THEN "load_repository" ELSE "ack")
    /\ UNCHANGED <<workerUnchanged, queue, jobs, stored>>

\* _mark_running's first SELECT: anything but a queued row is skipped.
LoadJob(w) ==
    /\ worker[w].phase = "load"
    /\ Proceed(w, IF jobs[worker[w].job].status = "queued"
                  THEN "load_repository" ELSE "ack")
    /\ UNCHANGED <<workerUnchanged, queue, jobs, stored>>

LoadRepository(w) ==
    /\ worker[w].phase = "load_repository"
    /\ Proceed(w, IF TargetOf(w) \in repositories THEN "claim" ELSE "ack")
    /\ UNCHANGED <<workerUnchanged, queue, jobs, stored>>

\* Mutant: _mark_running is called before the try.
LoadFailsOutsideTry(w) ==
    /\ "db_load" \in Faults
    /\ worker[w].phase \in {"load", "load_repository"}
    /\ Proceed(w, "ack")
    /\ UNCHANGED <<workerUnchanged, queue, jobs, stored>>

\* One of the two SELECTs raises: run_sync_job turns that into a failed job.
LoadFails(w) ==
    /\ "db_load" \in Faults
    /\ worker[w].phase \in {"load", "load_repository"}
    /\ FailWith(w, "database_error")
    /\ UNCHANGED <<workerUnchanged, queue, jobs, stored>>

\* The UPDATE of _mark_running looks at no status either.  The unique index
\* rejects it when the row had become inactive and another job is active; a
\* vanished row is a StaleDataError.
Claimable(j) ==
    /\ jobs[j].status # "deleted"
    /\ \A k \in Jobs \ {j} : Active(k) => post[k].repo # post[j].repo

\* Mutant: a status the CHECK constraint does not know.
ClaimUnknownStatus(w) ==
    /\ worker[w].phase = "claim"
    /\ jobs' = [jobs EXCEPT ![worker[w].job].status = "in_progress"]
    /\ Proceed(w, "fetch")
    /\ UNCHANGED <<workerUnchanged, queue, stored>>

Claim(w) ==
    /\ worker[w].phase = "claim"
    /\ IF Claimable(worker[w].job)
       THEN /\ jobs' = [jobs EXCEPT ![worker[w].job].status = "running"]
            /\ Proceed(w, "fetch")
       ELSE FailWith(w, "database_error") /\ UNCHANGED jobs
    /\ UNCHANGED <<workerUnchanged, queue, stored>>

ClaimFails(w) ==
    /\ "db_claim" \in Faults
    /\ worker[w].phase = "claim"
    /\ FailWith(w, "database_error")
    /\ UNCHANGED <<workerUnchanged, queue, jobs, stored>>

\* Every GitHub call of sync_repository, before anything is written.
Fetch(w) ==
    /\ worker[w].phase = "fetch"
    /\ worker' = [worker EXCEPT ![w].phase = "persist",
                                ![w].version = github[TargetOf(w)]]
    /\ UNCHANGED <<workerUnchanged, queue, jobs, stored>>

FetchFails(w) ==
    /\ "github_error" \in Faults
    /\ worker[w].phase = "fetch"
    /\ FailWith(w, "github_error")
    /\ UNCHANGED <<workerUnchanged, queue, jobs, stored>>

\* The single commit of sync_repository: the upserts overwrite what is stored
\* with what was fetched.  No pull request, no write; a pull request of a
\* deleted repository violates its foreign key.
Persist(w) ==
    /\ worker[w].phase = "persist"
    /\ \/ /\ worker[w].version = 0
          /\ Proceed(w, "succeed")
          /\ UNCHANGED stored
       \/ /\ worker[w].version > 0
          /\ TargetOf(w) \in repositories
          /\ stored' = [stored EXCEPT ![TargetOf(w)] = worker[w].version]
          /\ Proceed(w, "succeed")
       \/ /\ worker[w].version > 0
          /\ TargetOf(w) \notin repositories
          /\ FailWith(w, "database_error")
          /\ UNCHANGED stored
    /\ UNCHANGED <<workerUnchanged, queue, jobs>>

\* Mutant: the failed commit is logged and not recorded.
PersistFailsUnrecorded(w) ==
    /\ "db_persist" \in Faults
    /\ worker[w].phase = "persist"
    /\ Proceed(w, "ack")
    /\ UNCHANGED <<workerUnchanged, queue, jobs, stored>>

PersistFails(w) ==
    /\ "db_persist" \in Faults
    /\ worker[w].phase = "persist"
    /\ FailWith(w, "database_error")
    /\ UNCHANGED <<workerUnchanged, queue, jobs, stored>>

\* _mark_succeeded and _mark_failed overwrite whatever status they find, and
\* leave a vanished row alone.
MarkSucceeded(w) ==
    LET j == worker[w].job IN
    /\ worker[w].phase = "succeed"
    /\ IF jobs[j].status = "deleted"
       THEN UNCHANGED jobs
       ELSE jobs' = [jobs EXCEPT ![j].status = "succeeded", ![j].counted = TRUE]
    /\ Proceed(w, "ack")
    /\ UNCHANGED <<workerUnchanged, queue, stored>>

\* Mutant: the error code is forgotten.
MarkFailedNoCode(w) ==
    /\ worker[w].phase = "fail"
    /\ SetStatus(worker[w].job, "failed", "none")
    /\ Proceed(w, "ack")
    /\ UNCHANGED <<workerUnchanged, queue, stored>>

MarkFailed(w) ==
    LET j == worker[w].job IN
    /\ worker[w].phase = "fail"
    /\ IF jobs[j].status = "deleted"
       THEN UNCHANGED jobs
       ELSE SetStatus(j, "failed", worker[w].error)
    /\ Proceed(w, "ack")
    /\ UNCHANGED <<workerUnchanged, queue, stored>>

\* Neither call is inside a try: the exception leaves the actor, and with
\* max_retries=0 Dramatiq discards the message.
MarkFails(w) ==
    /\ \/ "db_mark_succeeded" \in Faults /\ worker[w].phase = "succeed"
       \/ "db_mark_failed" \in Faults /\ worker[w].phase = "fail"
    /\ Proceed(w, "ack")
    /\ UNCHANGED <<workerUnchanged, queue, jobs, stored>>

\* The actor has returned or raised; the message leaves the ack set.
Ack(w) ==
    /\ worker[w].phase = "ack"
    /\ worker' = [worker EXCEPT ![w] = IdleWorker]
    /\ UNCHANGED <<workerUnchanged, queue, jobs, stored>>

WorkerStep(w) ==
    \/ LoadJob(w) \/ LoadRepository(w) \/ LoadFails(w)
    \/ Claim(w) \/ ClaimFails(w)
    \/ Fetch(w) \/ FetchFails(w)
    \/ Persist(w) \/ PersistFails(w)
    \/ MarkSucceeded(w) \/ MarkFailed(w) \/ MarkFails(w)
    \/ Ack(w)

-----------------------------------------------------------------------------
(* Everything else that changes this state while a sync is under way. *)

Publish(r) ==
    /\ github[r] < MaxVersion
    /\ github' = [github EXCEPT ![r] = @ + 1]
    /\ UNCHANGED <<enabled, dbVars, post, queue, orphaned, worker, crashes>>

TrackRepository(u, r) ==
    /\ r \in repositories
    /\ <<u, r>> \notin tracking
    /\ tracking' = tracking \cup {<<u, r>>}
    /\ UNCHANGED <<enabled, repositories, jobs, stored, post, queue, orphaned,
                   worker, github, crashes>>

\* Untracking leaves the repository, its pull requests and its jobs in place.
UntrackRepository(u, r) ==
    /\ <<u, r>> \in tracking
    /\ tracking' = tracking \ {<<u, r>>}
    /\ UNCHANGED <<enabled, repositories, jobs, stored, post, queue, orphaned,
                   worker, github, crashes>>

\* No route deletes a repository; an operator may, and ON DELETE CASCADE then
\* removes its jobs, its pull requests and every user's tracking row.
DeleteRepository(r) ==
    /\ "repository_deleted" \in Faults
    /\ r \in repositories
    /\ repositories' = repositories \ {r}
    /\ tracking' = {t \in tracking : t[2] # r}
    /\ jobs' = [j \in Jobs |->
                  IF jobs[j].status # "none" /\ post[j].repo = r
                  THEN [jobs[j] EXCEPT !.status = "deleted"] ELSE jobs[j]]
    /\ UNCHANGED <<enabled, stored, post, queue, orphaned, worker, github, crashes>>

\* The API process dies with every request it is serving.
ApiCrash ==
    /\ "api_crash" \in Faults
    /\ \E j \in Jobs : post[j].phase \notin {"idle", "done"}
    /\ post' = [j \in Jobs |->
                  IF post[j].phase \in {"idle", "done"} THEN post[j]
                  ELSE [post[j] EXCEPT !.phase = "done", !.answer = "lost"]]
    /\ UNCHANGED <<enabled, dbVars, queue, orphaned, worker, github, crashes>>

\* A worker process dies and is restarted with nothing in hand.
WorkerCrash(w) ==
    /\ "worker_crash" \in Faults
    /\ crashes < MaxCrashes
    /\ worker[w].phase # "idle"
    /\ crashes' = crashes + 1
    /\ orphaned' = IF worker[w].owns THEN orphaned \cup {worker[w].job} ELSE orphaned
    /\ worker' = [worker EXCEPT ![w] = IdleWorker]
    /\ UNCHANGED <<enabled, dbVars, post, queue, github>>

\* Dramatiq's maintenance requeues what a dead process had not acknowledged.
Redeliver(j) ==
    /\ j \in orphaned
    /\ orphaned' = orphaned \ {j}
    /\ queue' = queue \cup {j}
    /\ UNCHANGED <<enabled, dbVars, post, worker, github, crashes>>

\* The same maintenance, for a process that is late rather than dead: the
\* coroutine goes on, and its own acknowledgement will find nothing.
PresumeDead(w) ==
    /\ "worker_stall" \in Faults
    /\ worker[w].owns
    /\ queue' = queue \cup {worker[w].job}
    /\ worker' = [worker EXCEPT ![w].owns = FALSE]
    /\ UNCHANGED <<enabled, dbVars, post, orphaned, github, crashes>>

\* The time limit cancels the coroutine, and the message is discarded.
Interrupt(w) ==
    /\ "worker_interrupt" \in Faults
    /\ worker[w].phase \notin {"idle", "ack"}
    /\ worker' = [worker EXCEPT ![w] = IdleWorker]
    /\ UNCHANGED <<workerUnchanged, queue, jobs, stored>>

\* Redis restarts without persistence.
RedisLoss ==
    /\ "redis_loss" \in Faults
    /\ queue' = {}
    /\ orphaned' = {}
    /\ worker' = [w \in Workers |-> [worker[w] EXCEPT !.owns = FALSE]]
    /\ UNCHANGED <<enabled, dbVars, post, github, crashes>>

Environment ==
    \/ \E r \in Repos : Publish(r) \/ DeleteRepository(r)
    \/ \E u \in Users, r \in Repos : TrackRepository(u, r) \/ UntrackRepository(u, r)
    \/ ApiCrash
    \/ RedisLoss
    \/ \E w \in Workers : WorkerCrash(w) \/ PresumeDead(w) \/ Interrupt(w)

Next ==
    \/ \E j \in Jobs : Submit(j) \/ HandlerStep(j) \/ Redeliver(j)
    \/ \E w \in Workers : Take(w) \/ WorkerStep(w)
    \/ Environment

Spec == Init /\ [][Next]_vars

\* An admitted handler is driven by the event loop, a worker thread that is
\* free polls the queue and drives its coroutine, and the broker's maintenance
\* keeps running.  Nobody is obliged to send requests or to change GitHub.
Fairness ==
    /\ \A j \in Jobs : WF_vars(HandlerStep(j)) /\ WF_vars(Redeliver(j))
    /\ \A w \in Workers : WF_vars(Take(w)) /\ WF_vars(WorkerStep(w))

FairSpec == Spec /\ Fairness

-----------------------------------------------------------------------------
(* Properties *)

TypeOK ==
    /\ enabled \in BOOLEAN
    /\ repositories \subseteq Repos
    /\ tracking \subseteq Users \X Repos
    /\ jobs \in [Jobs -> JobRow]
    /\ post \in [Jobs -> PostHandler]
    /\ queue \subseteq Jobs
    /\ orphaned \subseteq Jobs
    /\ worker \in [Workers -> WorkerState]
    /\ github \in [Repos -> 0 .. MaxVersion]
    /\ stored \in [Repos -> 0 .. MaxVersion]
    /\ crashes \in 0 .. MaxCrashes

\* However requests, workers and faults interleave, a repository has at most
\* one job that is queued or running: the unique index is checked by the INSERT
\* of create_sync_job and by the UPDATE of _mark_running, and no other
\* statement makes a job active.
AtMostOneActive ==
    \A j, k \in Jobs : Active(j) /\ Active(k) /\ post[j].repo = post[k].repo => j = k

\* The coroutine has marked its job running and has yet to record the outcome.
Executing(w) == worker[w].phase \in {"fetch", "persist", "succeed"}

\* No two workers fetch and store the same repository at the same time, which
\* is what one active job per repository is for: overlapping syncs would race
\* on the same GitHub data (create_sync_job's docstring).
AtMostOneExecuting ==
    \A v, w \in Workers :
        Executing(v) /\ Executing(w) /\ TargetOf(v) = TargetOf(w) => v = w

\* A job id is in at most one place of the queue: waiting, orphaned, or in the
\* ack set of one worker; and it is in none before its row is committed.
OneMessagePerJob ==
    /\ queue \cap orphaned = {}
    /\ \A j \in queue \cup orphaned : jobs[j].status # "none"
    /\ \A w \in Workers : worker[w].owns =>
        /\ worker[w].phase # "idle"
        /\ worker[w].job \notin queue \cup orphaned
        /\ \A v \in Workers \ {w} : worker[v].owns => worker[v].job # worker[w].job

\* A queued job is never a phantom, whichever process dies between the commit of
\* its row and the end of its sync: its message is waiting, a worker has it and
\* has not given up on it, or the handler that created it is still at work.  The
\* one exception is a handler that died, or could not record that its send had
\* failed: its requester was never told of a job (services/sync_jobs.py:85-106).
QueuedIsDeliverable ==
    \A j \in Jobs : jobs[j].status = "queued" =>
        \/ j \in queue \cup orphaned
        \/ post[j].phase \in {"enqueue", "mark_failed"}
        \/ post[j].answer \in {"lost", "500"}
        \/ \E w \in Workers : /\ worker[w].job = j
                              /\ worker[w].phase \in {"load", "load_repository", "claim", "fail"}

\* A running job is in the hands of a worker that will record how it ended.
RunningIsHeld ==
    \A j \in Jobs : jobs[j].status = "running" =>
        \E w \in Workers : /\ worker[w].job = j
                           /\ worker[w].phase \in {"fetch", "persist", "succeed", "fail"}

\* A job carries an error code exactly when it failed, and counts when it
\* succeeded: what GET /sync-jobs/{id} shows is consistent.
ResultMatchesStatus ==
    \A j \in Jobs : LET row == jobs[j] IN
        /\ row.status # "deleted" => (row.error # "none" <=> row.status = "failed")
        /\ row.status = "succeeded" => row.counted

\* succeeded and failed are final: a message that is delivered again after its
\* worker died, at any statement up to the acknowledgement, moves no ended job
\* on, nor does the handler that created it (worker/tasks.py:147-151).
TerminalIsFinal ==
    [][\A j \in Jobs : jobs[j].status \in {"succeeded", "failed"} =>
            jobs'[j].status \in {jobs[j].status, "deleted"}]_vars

\* What a user was told stays true of the job: a refused request left nothing
\* behind, an accepted one has a row, and "could not schedule" means that the
\* job failed and that no worker has it or will ever be handed it.
AnswerMatchesJob ==
    \A j \in Jobs :
        /\ post[j].answer \in {"404", "409", "disabled"} => jobs[j].status = "none"
        /\ post[j].answer = "202" => jobs[j].status # "none"
        /\ post[j].answer = "503" =>
            /\ jobs[j].status = "failed" /\ jobs[j].error = "enqueue_failed"
            /\ j \notin queue \cup orphaned
            /\ \A w \in Workers : worker[w].job # j

\* Every job that is created ends, whatever GitHub, Redis and the database
\* refuse on the way.
SyncsEnd ==
    \A j \in Jobs : jobs[j].status = "queued" ~> jobs[j].status \in {"succeeded", "failed"}

\* A message that reached Redis takes its job out of "queued", also when the
\* worker that took it dies.
DeliveredIsPickedUp ==
    \A j \in Jobs : j \in queue ~> jobs[j].status # "queued"

\* The code keeps the abstract contract of SyncContract.
Contract == INSTANCE SyncContract WITH
    status <- [j \in Jobs |-> jobs[j].status],
    repo   <- [j \in Jobs |-> post[j].repo],
    asOf   <- [j \in Jobs |-> jobs[j].asOf]

ImplementsContract == Contract!Spec
=============================================================================
