------------------------- MODULE SyncJobs_contract -------------------------
(***************************************************************************)
(* SyncJobs implements SyncContract, for every instance: each statement,   *)
(* Redis call, fetch and fault is a step of the contract or invisible to   *)
(* it.  On the way: a job's status only moves forward, and what GET        *)
(* /sync-jobs/{id} shows is consistent.                                    *)
(***************************************************************************)
EXTENDS SyncJobs_proofs

\* The faults under which the contract holds.  A stalled worker's message is
\* given to a second one, an ambiguous send starts a job that is then marked
\* failed, and a job that was finished but not acknowledged when its worker
\* died is delivered again: if its row cannot be read then, it is marked failed.
OneDelivery ==
    /\ {"worker_stall", "enqueue_ambiguous"} \cap Faults = {}
    /\ ~({"worker_crash", "db_load"} \subseteq Faults)

Fresh == {"queued", "deleted"}

\* The row of the job a coroutine runs is as far as the coroutine is, or gone.
WorkerStage(w) ==
    LET s == jobs[worker[w].job].status IN
    /\ worker[w].phase = "load" /\ "worker_crash" \notin Faults => s \in Fresh
    /\ worker[w].phase \in {"load_repository", "claim"} => s \in Fresh
    /\ worker[w].phase \in {"fetch", "persist", "succeed"} => s \in {"running", "deleted"}
    /\ worker[w].phase = "fail" => s \in {"queued", "running", "deleted"}
                                   /\ worker[w].error # "none"

\* So is the row of the job a handler creates; and without crashes, no message
\* is delivered twice.
Stage ==
    /\ \A j \in Jobs : post[j].phase \in {"enqueue", "mark_failed"} => jobs[j].status \in Fresh
    /\ \A j \in Jobs : post[j].phase \in Early => jobs[j].status = "none"
    /\ "worker_crash" \notin Faults =>
           \A j \in queue \cup orphaned : jobs[j].status \in Fresh
    /\ \A w \in Workers : WorkerStage(w)

\* A handler's steps keep its row's stage.
LEMMA HandlerStage ==
  ASSUME TypeInv, Delivery, Stage, [Next]_vars, NEW j \in Jobs
  PROVE  /\ post'[j].phase \in {"enqueue", "mark_failed"} => jobs'[j].status \in Fresh
         /\ post'[j].phase \in Early => jobs'[j].status = "none"
<1> USE DEF TypeInv, TypeOK, HoldsJob, Stage, Early, Fresh
<1>1. CASE Insert(j)
  <2>1. github[post[j].repo] \in 0 .. MaxVersion
    BY DEF PostHandler
  <2>2. CASE Answer(j, "409")
    BY <1>1, <2>2, AnswerEffect DEF Answers
  <2>3. CASE /\ Goto(j, "enqueue")
             /\ jobs' = [jobs EXCEPT ![j].status = "queued", ![j].asOf = github[post[j].repo]]
    BY <1>1, <2>1, <2>3, GotoEffect, InsertRowEffect DEF PostPhases
  <2>4. QED
    BY <1>1, <2>2, <2>3 DEF Insert
<1>2. CASE MarkEnqueueFailed(j)
  BY <1>2, AnswerEffect DEF MarkEnqueueFailed, Answers
<1>3. ASSUME NEW w \in Workers, worker[w].job = j, Claim(w) \/ MarkSucceeded(w) \/ MarkFailed(w)
      PROVE  post'[j].phase = "done"
  <2>1. post[j].phase = "done"
    BY <1>3 DEF Delivery, Busy, Claim, MarkSucceeded, MarkFailed
  <2>2. QED
    BY <2>1, AnswerStays
<1>4. ASSUME NEW r \in Repos, DeleteRepository(r)
      PROVE  /\ post'[j].phase \in {"enqueue", "mark_failed"} => jobs'[j].status \in Fresh
             /\ post'[j].phase \in Early => jobs'[j].status = "none"
  <2>1. post' = post
    BY <1>4 DEF DeleteRepository
  <2>2. QED
    BY <1>4, <2>1, DeleteEffect
<1>5. CASE jobs'[j] = jobs[j]
  <2>1. CASE post'[j] = post[j]
    BY <1>5, <2>1
  <2>2. CASE ApiCrash
    BY <1>5, <2>2, ApiCrashEffect
  <2>3. CASE Submit(j) \/ GetRepository(j) \/ GetTracking(j) \/ Precheck(j) \/ InsertFails(j)
    BY <1>5, <2>3, GotoEffect, AnswerEffect
    DEF Submit, GetRepository, GetTracking, Precheck, InsertFails, PostPhases, Answers
  <2>4. CASE Enqueue(j) \/ EnqueueFails(j) \/ MarkEnqueueFailedFails(j)
    BY <1>5, <2>4, GotoEffect, AnswerEffect
    DEF Enqueue, EnqueueFails, MarkEnqueueFailedFails, PostPhases, Answers
  <2>5. QED
    BY <1>1, <1>2, <2>1, <2>2, <2>3, <2>4, HandlerOf DEF HandlerStep
<1>6. QED
  BY <1>1, <1>2, <1>3, <1>4, <1>5, RowWriterOf

\* While no worker dies, what is in Redis has not been started.
LEMMA QueueStage ==
  ASSUME TypeInv, Delivery, Stage, [Next]_vars, OneDelivery, "worker_crash" \notin Faults,
         NEW j \in queue' \cup orphaned'
  PROVE  j \in Jobs /\ jobs'[j].status \in Fresh
<1> USE DEF TypeInv, TypeOK, HoldsJob, Stage, Fresh, dbVars, workerUnchanged
<1>1. ASSUME NEW k \in Jobs, Enqueue(k), j = k PROVE j \in Jobs /\ jobs'[j].status \in Fresh
  BY <1>1 DEF Enqueue
<1>2. CASE ~\E k \in Jobs : Enqueue(k) /\ j = k
  <2>1. j \in queue \cup orphaned
    BY <1>2
    DEF OneDelivery, Next, vars, HandlerStep, WorkerStep, Submit, GetRepository, GetTracking,
        Precheck, Insert, InsertFails, Enqueue, EnqueueFails, MarkEnqueueFailed,
        MarkEnqueueFailedFails, Redeliver, Take, LoadJob, LoadRepository, LoadFails, Claim,
        ClaimFails, Fetch, FetchFails, Persist, PersistFails, MarkSucceeded, MarkFailed,
        MarkFails, Ack, Environment, Publish, DeleteRepository, TrackRepository,
        UntrackRepository, ApiCrash, RedisLoss, WorkerCrash, PresumeDead, Interrupt
  <2>2. jobs[j].status \in Fresh /\ post[j].phase = "done" /\ j \in Jobs
    BY <2>1 DEF Delivery
  <2>3. ~Insert(j) /\ ~MarkEnqueueFailed(j)
    BY <2>2 DEF Insert, MarkEnqueueFailed
  <2>4. ASSUME NEW w \in Workers, worker[w].job = j, Claim(w) \/ MarkSucceeded(w) \/ MarkFailed(w)
        PROVE  FALSE
    BY <2>1, <2>4 DEF Delivery, Busy, Claim, MarkSucceeded, MarkFailed
  <2>5. ASSUME NEW r \in Repos, DeleteRepository(r) PROVE jobs'[j].status \in Fresh
    BY <2>2, <2>5, DeleteEffect
  <2>6. QED
    BY <2>2, <2>3, <2>4, <2>5, RowWriterOf
<1>3. QED
  BY <1>1, <1>2

\* A coroutine's own steps keep its row's stage.
LEMMA OwnStage ==
  ASSUME TypeInv, Stage, OneDelivery, NEW w \in Workers, WorkerLocal(w)
  PROVE  WorkerStage(w)'
<1> USE DEF TypeInv, TypeOK, HoldsJob, Fresh, workerUnchanged
<1>1. worker'[w].job = worker[w].job /\ worker[w].job \in Jobs
  BY WorkerStepEffect DEF Busy
<1>2. WorkerStage(w)
  BY DEF Stage
<1>3. CASE LoadJob(w) \/ LoadRepository(w)
  BY <1>1, <1>2, <1>3, ProceedEffect DEF LoadJob, LoadRepository, WorkerPhases, WorkerStage
<1>4. CASE LoadFails(w) \/ ClaimFails(w)
  BY <1>1, <1>2, <1>4, FailWithEffect
  DEF LoadFails, ClaimFails, ErrorCodes, WorkerStage, OneDelivery
<1>5. CASE Claim(w)
  BY <1>1, <1>2, <1>5, ProceedEffect, FailWithEffect, ClaimRowEffect
  DEF Claim, WorkerPhases, ErrorCodes, WorkerStage
<1>6. CASE Fetch(w)
  <2>1. worker'[w].phase = "persist"
    BY <1>6 DEF Fetch, WorkerState
  <2>2. QED
    BY <1>1, <1>2, <1>6, <2>1 DEF Fetch, WorkerStage
<1>7. CASE FetchFails(w) \/ PersistFails(w)
  BY <1>1, <1>2, <1>7, FailWithEffect DEF FetchFails, PersistFails, ErrorCodes, WorkerStage
<1>8. CASE Persist(w)
  BY <1>1, <1>2, <1>8, ProceedEffect, FailWithEffect
  DEF Persist, WorkerPhases, ErrorCodes, WorkerStage
<1>9. CASE MarkSucceeded(w) \/ MarkFailed(w) \/ MarkFails(w)
  BY <1>9, ProceedEffect DEF MarkSucceeded, MarkFailed, MarkFails, WorkerPhases, WorkerStage
<1>10. QED
  BY <1>3, <1>4, <1>5, <1>6, <1>7, <1>8, <1>9 DEF WorkerLocal

\* Nobody else touches the row of a job in a worker's hands, but the cascade.
LEMMA OthersKeepRow ==
  ASSUME TypeInv, Delivery, [Next]_vars, NEW w \in Workers, Busy(w), ~WorkerLocal(w)
  PROVE  \/ jobs'[worker[w].job] = jobs[worker[w].job]
         \/ /\ jobs'[worker[w].job].status = "deleted"
            /\ jobs'[worker[w].job].asOf = jobs[worker[w].job].asOf
<1> USE DEF TypeInv, TypeOK, HoldsJob, Busy
<1> DEFINE j == worker[w].job
<1>1. j \in Jobs /\ post[j].phase = "done"
  BY DEF Delivery
<1>2. ~Insert(j) /\ ~MarkEnqueueFailed(j)
  BY <1>1 DEF Insert, MarkEnqueueFailed
<1>3. ASSUME NEW v \in Workers, worker[v].job = j, Claim(v) \/ MarkSucceeded(v) \/ MarkFailed(v)
      PROVE  FALSE
  <2>1. v # w /\ Busy(v)
    BY <1>3 DEF WorkerLocal, Claim, MarkSucceeded, MarkFailed
  <2>2. QED
    BY <1>3, <2>1 DEF Delivery
<1>4. ASSUME NEW r \in Repos, DeleteRepository(r)
      PROVE  \/ jobs'[j] = jobs[j]
             \/ jobs'[j].status = "deleted" /\ jobs'[j].asOf = jobs[j].asOf
  BY <1>1, <1>4, DeleteEffect
<1>5. QED
  BY <1>1, <1>2, <1>3, <1>4, RowWriterOf

\* Every step keeps rows, handlers, messages and coroutines in step.
LEMMA StageStep ==
  ASSUME TypeInv, Delivery, Stage, [Next]_vars, OneDelivery
  PROVE  Stage'
<1> USE DEF TypeInv, TypeOK, HoldsJob, Busy, Fresh
<1>1. ASSUME NEW w \in Workers PROVE WorkerStage(w)'
  <2>0. WorkerStage(w)
    BY DEF Stage
  <2>1. CASE WorkerLocal(w)
    BY <2>1, OwnStage
  <2>2. CASE Take(w)
    <3>1. PICK j \in queue : worker' = [worker EXCEPT ![w] = Received(j)]
      BY <2>2 DEF Take
    <3>2. worker'[w].phase = "load" /\ worker'[w].job = j /\ jobs' = jobs
      BY <2>2, <3>1, TakeEffect DEF Take
    <3>3. QED
      BY <3>2 DEF WorkerStage, Stage
  <2>3. CASE Ack(w) \/ Interrupt(w) \/ WorkerCrash(w)
    <3>1. worker'[w].phase = "idle"
      BY <2>3, IdleEffect DEF Ack, Interrupt, WorkerCrash
    <3>2. QED
      BY <3>1 DEF WorkerStage
  <2>4. CASE RedisLoss
    <3>1. jobs' = jobs
      BY <2>4 DEF RedisLoss, dbVars
    <3>2. QED
      BY <2>0, <2>4, <3>1, RedisLossEffect DEF RedisLoss, WorkerStage
  <2>5. CASE worker'[w] = worker[w] /\ ~WorkerLocal(w)
    BY <2>0, <2>5, OthersKeepRow DEF WorkerStage
  <2>6. ~PresumeDead(w)
    BY DEF PresumeDead, OneDelivery
  <2>7. QED
    BY <2>1, <2>2, <2>3, <2>4, <2>5, <2>6, WorkerOf
<1>2. QED
  BY <1>1, HandlerStage, QueueStage DEF Stage

\* Whatever breaks or repeats, under one delivery at a time: the invariant the
\* theorems below share.
Progress == TypeInv /\ Delivery /\ Rows /\ Stage

LEMMA ProgressInit == Init => Progress
<1> SUFFICES ASSUME Init PROVE Delivery /\ Rows /\ Stage
  BY TypeInit DEF Progress
<1>1. \A w \in Workers : worker[w].phase = "idle"
  BY DEF Init, IdleWorker
<1>2. \A j \in Jobs : post[j].phase = "idle" /\ jobs[j].status = "none"
  BY DEF Init
<1>3. \A w \in Workers : WorkerStage(w)
  BY <1>1 DEF WorkerStage
<1>4. QED
  BY <1>1, <1>2, <1>3 DEF Init, Delivery, Rows, Stage, Busy

LEMMA ProgressStep == OneDelivery /\ Progress /\ [Next]_vars => Progress'
  BY TypeStep, DeliveryStep, RowsStep, StageStep DEF Progress, OneDelivery

-----------------------------------------------------------------------------
(* Results. *)

\* The row of a job is consistent: it has an error code exactly when it failed,
\* and counts when it succeeded.
Consistent(row) ==
    /\ row.status # "deleted" => (row.error # "none" <=> row.status = "failed")
    /\ row.status = "succeeded" => row.counted

\* The UPDATE of _mark_succeeded fills the counts in.
LEMMA SucceedCounts ==
  ASSUME jobs \in [Jobs -> JobRow], NEW j \in Jobs,
         jobs' = [jobs EXCEPT ![j].status = "succeeded", ![j].counted = TRUE]
  PROVE  jobs'[j].counted
  BY Zenon DEF JobRow

\* Every write of a row leaves it consistent.
LEMMA ResultStep ==
  ASSUME Progress, [Next]_vars, NEW j \in Jobs, Consistent(jobs[j])
  PROVE  Consistent(jobs'[j])
<1> USE DEF Progress, TypeInv, TypeOK, HoldsJob
<1>1. ASSUME Insert(j), jobs'[j] # jobs[j] PROVE Consistent(jobs'[j])
  <2>1. github[post[j].repo] \in 0 .. MaxVersion
    BY DEF PostHandler
  <2>2. jobs[j].status = "none"
    BY <1>1 DEF Insert, Stage, Early
  <2>3. QED
    BY <1>1, <2>1, <2>2, InsertRowEffect DEF Insert, Consistent
<1>2. ASSUME MarkEnqueueFailed(j), jobs'[j] # jobs[j] PROVE Consistent(jobs'[j])
  BY <1>2, SetStatusEffect DEF MarkEnqueueFailed, Statuses, ErrorCodes, Consistent
<1>3. ASSUME NEW w \in Workers, worker[w].job = j, jobs'[j] # jobs[j],
             Claim(w) \/ MarkSucceeded(w) \/ MarkFailed(w)
      PROVE  Consistent(jobs'[j])
  <2>1. WorkerStage(w)
    BY DEF Stage
  <2>2. CASE Claim(w)
    BY <1>3, <2>1, <2>2, ClaimRowEffect DEF Claim, Claimable, WorkerStage, Fresh, Consistent
  <2>3. CASE MarkSucceeded(w)
    BY <1>3, <2>1, <2>3, SucceedRowEffect, SucceedCounts
    DEF MarkSucceeded, WorkerStage, Consistent
  <2>4. CASE MarkFailed(w)
    <3>1. worker[w].error \in ErrorCodes /\ worker[w].error # "none"
      BY <2>1, <2>4 DEF WorkerState, MarkFailed, WorkerStage
    <3>2. QED
      BY <1>3, <2>4, <3>1, SetStatusEffect DEF MarkFailed, Statuses, Consistent
  <2>5. QED
    BY <1>3, <2>2, <2>3, <2>4
<1>4. ASSUME NEW r \in Repos, DeleteRepository(r) PROVE Consistent(jobs'[j])
  BY <1>4, DeleteEffect DEF Consistent
<1>5. QED
  BY <1>1, <1>2, <1>3, <1>4, RowWriterOf

\* Under one delivery at a time, what GET /sync-jobs/{id} shows is consistent in
\* every state: an error code exactly when the job failed, counts when it
\* succeeded (worker/tasks.py:47-71, services/sync_jobs.py:85-97).
THEOREM ResultsConsistent ==
  ASSUME OneDelivery
  PROVE  Spec => []ResultMatchesStatus
<1>1. Init => \A j \in Jobs : Consistent(jobs[j])
  BY DEF Init, Consistent
<1>2. Progress /\ (\A j \in Jobs : Consistent(jobs[j])) /\ [Next]_vars
        => (\A j \in Jobs : Consistent(jobs[j]))'
  BY ResultStep
<1>3. (\A j \in Jobs : Consistent(jobs[j])) => ResultMatchesStatus
  BY DEF Consistent, ResultMatchesStatus
<1>4. QED
  BY <1>1, <1>2, <1>3, ProgressInit, ProgressStep, PTL DEF Spec

\* Under one delivery at a time, succeeded and failed are final: no late, lost
\* or repeated message, no crash and no failed write moves such a job on; only
\* the cascade removes it (worker/tasks.py:27-34).
THEOREM FinalStatus ==
  ASSUME OneDelivery
  PROVE  Spec => TerminalIsFinal
<1>1. Progress /\ [Next]_vars
        => [\A j \in Jobs : jobs[j].status \in {"succeeded", "failed"} =>
               jobs'[j].status \in {jobs[j].status, "deleted"}]_vars
  <2> SUFFICES ASSUME Progress, [Next]_vars, NEW j \in Jobs,
                      jobs[j].status \in {"succeeded", "failed"}
               PROVE  jobs'[j].status \in {jobs[j].status, "deleted"}
    OBVIOUS
  <2> USE DEF Progress, TypeInv, TypeOK
  <2>1. ~Insert(j) /\ ~MarkEnqueueFailed(j)
    BY DEF Insert, MarkEnqueueFailed, Stage, Early, Fresh
  <2>2. ASSUME NEW w \in Workers, worker[w].job = j, Claim(w) \/ MarkSucceeded(w) \/ MarkFailed(w)
        PROVE  FALSE
    BY <2>2 DEF Stage, WorkerStage, Fresh, Claim, MarkSucceeded, MarkFailed
  <2>3. ASSUME NEW r \in Repos, DeleteRepository(r)
        PROVE  jobs'[j].status \in {jobs[j].status, "deleted"}
    BY <2>3, DeleteEffect
  <2>4. QED
    BY <2>1, <2>2, <2>3, RowWriterOf
<1>2. QED
  BY <1>1, ProgressInit, ProgressStep, PTL DEF Spec, TerminalIsFinal

-----------------------------------------------------------------------------
(* Versions. *)

\* Data only moves forward: GitHub is never behind what is stored or was asked
\* for, what a coroutine carries is not older than what it will overwrite, and a
\* job about to be marked succeeded has been served.
Versions ==
    /\ \A j \in Jobs : jobs[j].asOf =< github[post[j].repo]
    /\ \A r \in Repos : stored[r] =< github[r]
    /\ \A w \in Workers : worker[w].phase = "persist" =>
           /\ jobs[worker[w].job].asOf =< worker[w].version
           /\ stored[TargetOf(w)] =< worker[w].version
           /\ worker[w].version =< github[TargetOf(w)]
    /\ \A w \in Workers : worker[w].phase = "succeed" =>
           jobs[worker[w].job].asOf =< stored[TargetOf(w)]

\* GitHub's version of a repository never decreases.
LEMMA GitHubGrows ==
  ASSUME TypeInv, [Next]_vars
  PROVE  \A r \in Repos : /\ github[r] \in Nat /\ github'[r] \in Nat
                          /\ github[r] =< github'[r]
<1> USE DEF TypeInv, TypeOK
<1>0. \A r \in Repos : github[r] \in Nat /\ github[r] =< github[r]
  BY Bounds
<1>1. CASE \E r \in Repos : Publish(r)
  <2>1. \A q \in Repos : github'[q] = github[q] \/ github'[q] = github[q] + 1
    BY <1>1 DEF Publish
  <2>2. QED
    BY <1>0, <2>1
<1>2. CASE UNCHANGED github
  BY <1>0, <1>2
<1>3. UNCHANGED github \/ \E r \in Repos : Publish(r)
  BY DEF Next, vars, workerUnchanged, Submit, Redeliver, HandlerStep, GetRepository, GetTracking,
      Precheck, Insert, InsertFails, Enqueue, EnqueueFails, MarkEnqueueFailed,
      MarkEnqueueFailedFails, Take, WorkerStep, LoadJob, LoadRepository, LoadFails, Claim,
      ClaimFails, Fetch, FetchFails, Persist, PersistFails, MarkSucceeded, MarkFailed,
      MarkFails, Ack, Environment, DeleteRepository, TrackRepository, UntrackRepository,
      ApiCrash, RedisLoss, WorkerCrash, PresumeDead, Interrupt
<1>4. QED
  BY <1>1, <1>2, <1>3

\* The one action that writes pull requests.
LEMMA StoredWriter ==
  ASSUME [Next]_vars
  PROVE  stored' = stored \/ \E w \in Workers : Persist(w)
  BY DEF Next, vars, dbVars, workerUnchanged, Submit, Redeliver, HandlerStep, GetRepository,
      GetTracking, Precheck, Insert, InsertFails, Enqueue, EnqueueFails, MarkEnqueueFailed,
      MarkEnqueueFailedFails, Take, WorkerStep, LoadJob, LoadRepository, LoadFails, Claim,
      ClaimFails, Fetch, FetchFails, PersistFails, MarkSucceeded, MarkFailed,
      MarkFails, Ack, Environment, Publish, DeleteRepository, TrackRepository,
      UntrackRepository, ApiCrash, RedisLoss, WorkerCrash, PresumeDead, Interrupt

\* What the single commit of a sync does to the repositories' data.
LEMMA PersistEffect ==
  ASSUME TypeInv, NEW w \in Workers, Persist(w)
  PROVE  /\ TargetOf(w) \in Repos
         /\ \A r \in Repos : r # TargetOf(w) => stored'[r] = stored[r]
         /\ \/ stored' = stored /\ worker'[w].phase = "fail"
            \/ stored' = stored /\ worker'[w].phase = "succeed" /\ worker[w].version = 0
            \/ stored'[TargetOf(w)] = worker[w].version /\ worker'[w].phase = "succeed"
<1> USE DEF TypeInv, TypeOK, HoldsJob
<1>1. TargetOf(w) \in Repos
  BY DEF Persist, TargetOf, PostHandler
<1>2. QED
  BY <1>1, ProceedEffect, FailWithEffect DEF Persist, WorkerPhases, ErrorCodes

\* What was asked for is fixed with the row.
LEMMA AsOfFixed ==
  ASSUME TypeInv, [Next]_vars, NEW j \in Jobs
  PROVE  \/ jobs'[j].asOf = jobs[j].asOf
         \/ Insert(j) /\ jobs'[j].asOf = github[post[j].repo] /\ github' = github
<1> USE DEF TypeInv, TypeOK, HoldsJob
<1>1. CASE Insert(j)
  <2>1. github[post[j].repo] \in 0 .. MaxVersion
    BY DEF PostHandler
  <2>2. QED
    BY <1>1, <2>1, InsertRowEffect DEF Insert
<1>2. CASE MarkEnqueueFailed(j)
  BY <1>2, SetStatusEffect DEF MarkEnqueueFailed, Statuses, ErrorCodes
<1>3. ASSUME NEW w \in Workers, worker[w].job = j, Claim(w) \/ MarkSucceeded(w) \/ MarkFailed(w)
      PROVE  jobs'[j].asOf = jobs[j].asOf
  <2>1. worker[w].error \in ErrorCodes
    BY DEF WorkerState
  <2>2. QED
    BY <1>3, <2>1, ClaimRowEffect, SucceedRowEffect, SetStatusEffect
    DEF Claim, MarkSucceeded, MarkFailed, Statuses
<1>4. ASSUME NEW r \in Repos, DeleteRepository(r) PROVE jobs'[j].asOf = jobs[j].asOf
  BY <1>4, DeleteEffect
<1>5. QED
  BY <1>1, <1>2, <1>3, <1>4, RowWriterOf

\* While a coroutine is executing, nobody else writes its repository's data.
LEMMA SoleWriter ==
  ASSUME TypeInv, AtMostOneExecuting, [Next]_vars, NEW w \in Workers, Executing(w), ~Persist(w)
  PROVE  stored'[TargetOf(w)] = stored[TargetOf(w)]
<1>1. TargetOf(w) \in Repos
  BY DEF Executing, TargetOf, TypeInv, TypeOK, HoldsJob, PostHandler
<1>2. ASSUME NEW v \in Workers, Persist(v) PROVE stored'[TargetOf(w)] = stored[TargetOf(w)]
  <2>1. Executing(v) /\ v # w
    BY <1>2 DEF Executing, Persist
  <2>2. TargetOf(v) # TargetOf(w)
    BY <2>1 DEF AtMostOneExecuting
  <2>3. QED
    BY <1>1, <1>2, <2>2, PersistEffect
<1>3. QED
  BY <1>2, StoredWriter

\* Every step keeps data moving forward.
LEMMA VersionsStep ==
  ASSUME Progress, AtMostOneExecuting, Versions, [Next]_vars
  PROVE  Versions'
<1> USE DEF Progress, TypeInv, TypeOK, HoldsJob
<1>0. \A j \in Jobs : post'[j].repo = post[j].repo /\ post[j].repo \in Repos
  BY RepoFixed DEF PostHandler
<1>1. \A r \in Repos : stored[r] \in Nat /\ stored'[r] \in Nat
  BY Bounds, TypeStep
<1>2. \A j \in Jobs : jobs[j].asOf \in Nat
  BY Bounds DEF JobRow
<1>3. \A w \in Workers : worker[w].version \in Nat
  BY Bounds DEF WorkerState
<1>4. ASSUME NEW j \in Jobs PROVE jobs'[j].asOf =< github'[post[j].repo]
  <2>1. CASE jobs'[j].asOf = jobs[j].asOf
    BY <1>0, <1>2, <2>1, GitHubGrows DEF Versions
  <2>2. CASE jobs'[j].asOf = github[post[j].repo] /\ github' = github
    BY <1>0, <2>2, GitHubGrows
  <2>3. QED
    BY <2>1, <2>2, AsOfFixed
<1>5. ASSUME NEW r \in Repos PROVE stored'[r] =< github'[r]
  <2>1. CASE stored'[r] = stored[r]
    BY <1>1, <2>1, GitHubGrows DEF Versions
  <2>2. ASSUME NEW w \in Workers, Persist(w), stored'[r] # stored[r]
        PROVE  stored'[r] =< github'[r]
    <3>1. r = TargetOf(w) /\ stored'[r] = worker[w].version
      BY <2>2, PersistEffect
    <3>2. worker[w].version =< github[r]
      BY <2>2, <3>1 DEF Versions, Persist
    <3>3. QED
      BY <1>3, <3>1, <3>2, GitHubGrows
  <2>3. QED
    BY <2>1, <2>2, StoredWriter
<1>6. ASSUME NEW w \in Workers, Busy(w), worker'[w].job = worker[w].job
      PROVE  jobs'[worker[w].job].asOf = jobs[worker[w].job].asOf
  <2>1. worker[w].job \in Jobs /\ post[worker[w].job].phase = "done"
    BY <1>6 DEF Busy, Delivery
  <2>2. QED
    BY <2>1, AsOfFixed DEF Insert
<1>7. ASSUME NEW w \in Workers, worker'[w].phase = "persist"
      PROVE  /\ jobs'[worker'[w].job].asOf =< worker'[w].version
             /\ stored'[TargetOf(w)'] =< worker'[w].version
             /\ worker'[w].version =< github'[TargetOf(w)']
  <2>1. CASE Fetch(w)
    <3>1. worker[w].job \in Jobs /\ TargetOf(w) \in Repos
      BY <2>1, <1>0 DEF Fetch, TargetOf
    <3>2. github[TargetOf(w)] \in 0 .. MaxVersion
      BY <3>1
    <3>3. worker'[w].version = github[TargetOf(w)] /\ worker'[w].job = worker[w].job
      BY <2>1, <3>2, FetchEffect DEF Fetch
    <3>4. UNCHANGED <<jobs, stored, github, post>>
      BY <2>1 DEF Fetch, workerUnchanged
    <3>5. QED
      BY <3>1, <3>3, <3>4, GitHubGrows DEF Versions, TargetOf
  <2>2. CASE ~Fetch(w)
    <3>1. /\ worker[w].phase = "persist" /\ worker'[w].job = worker[w].job
          /\ worker'[w].version = worker[w].version
      <4>1. CASE WorkerLocal(w)
        BY <1>7, <2>2, <4>1, ProceedEffect, FailWithEffect, PersistEffect
        DEF WorkerLocal, LoadJob, LoadRepository, LoadFails, Claim, ClaimFails, FetchFails,
            PersistFails, MarkSucceeded, MarkFailed, MarkFails, WorkerPhases, ErrorCodes
      <4>2. CASE Take(w)
        <5>1. PICK j \in queue : worker' = [worker EXCEPT ![w] = Received(j)]
          BY <4>2 DEF Take
        <5>2. QED
          BY <1>7, <5>1, TakeEffect
      <4>3. CASE Ack(w) \/ Interrupt(w) \/ WorkerCrash(w)
        BY <1>7, <4>3, IdleEffect DEF Ack, Interrupt, WorkerCrash
      <4>4. CASE PresumeDead(w)
        BY <1>7, <4>4, DisownEffect DEF PresumeDead
      <4>5. CASE RedisLoss
        BY <1>7, <4>5, RedisLossEffect DEF RedisLoss
      <4>6. QED
        BY <1>7, <4>1, <4>2, <4>3, <4>4, <4>5, WorkerOf
    <3>2. Executing(w) /\ Busy(w) /\ worker[w].job \in Jobs
      BY <3>1 DEF Executing, Busy
    <3>3. ~Persist(w)
      BY <1>7, PersistEffect
    <3>4. TargetOf(w)' = TargetOf(w) /\ TargetOf(w) \in Repos
      BY <1>0, <3>1, <3>2 DEF TargetOf
    <3>5. stored'[TargetOf(w)] = stored[TargetOf(w)]
      BY <3>2, <3>3, SoleWriter
    <3>6. jobs'[worker[w].job].asOf = jobs[worker[w].job].asOf
      BY <1>6, <3>1, <3>2
    <3>7. QED
      BY <1>3, <3>1, <3>4, <3>5, <3>6, GitHubGrows DEF Versions
  <2>3. QED
    BY <2>1, <2>2
<1>8. ASSUME NEW w \in Workers, worker'[w].phase = "succeed"
      PROVE  jobs'[worker'[w].job].asOf =< stored'[TargetOf(w)']
  <2>1. CASE Persist(w)
    <3>1. /\ worker'[w].job = worker[w].job /\ worker[w].job \in Jobs /\ Busy(w)
          /\ worker[w].phase = "persist"
      BY <2>1, WorkerStepEffect DEF WorkerLocal, Persist, Busy
    <3>2. TargetOf(w)' = TargetOf(w) /\ TargetOf(w) \in Repos
      BY <1>0, <3>1 DEF TargetOf
    <3>3. jobs'[worker[w].job].asOf = jobs[worker[w].job].asOf
      BY <1>6, <3>1
    <3>4. jobs[worker[w].job].asOf =< worker[w].version
      BY <3>1 DEF Versions
    <3>5. CASE stored'[TargetOf(w)] = worker[w].version
      BY <3>1, <3>2, <3>3, <3>4, <3>5
    <3>6. CASE stored' = stored /\ worker[w].version = 0
      BY <1>1, <1>2, <3>1, <3>2, <3>3, <3>4, <3>6
    <3>7. QED
      BY <1>8, <2>1, <3>5, <3>6, PersistEffect
  <2>2. CASE ~Persist(w)
    <3>1. worker[w].phase = "succeed" /\ worker'[w].job = worker[w].job
      <4>1. CASE WorkerLocal(w)
        <5>1. CASE Fetch(w)
          BY <1>8, <5>1 DEF Fetch, WorkerState
        <5>2. QED
          BY <1>8, <2>2, <4>1, <5>1, ProceedEffect, FailWithEffect
          DEF WorkerLocal, LoadJob, LoadRepository, LoadFails, Claim, ClaimFails, FetchFails,
              PersistFails, MarkSucceeded, MarkFailed, MarkFails, WorkerPhases, ErrorCodes
      <4>2. CASE Take(w)
        <5>1. PICK j \in queue : worker' = [worker EXCEPT ![w] = Received(j)]
          BY <4>2 DEF Take
        <5>2. QED
          BY <1>8, <5>1, TakeEffect
      <4>3. CASE Ack(w) \/ Interrupt(w) \/ WorkerCrash(w)
        BY <1>8, <4>3, IdleEffect DEF Ack, Interrupt, WorkerCrash
      <4>4. CASE PresumeDead(w)
        BY <1>8, <4>4, DisownEffect DEF PresumeDead
      <4>5. CASE RedisLoss
        BY <1>8, <4>5, RedisLossEffect DEF RedisLoss
      <4>6. QED
        BY <1>8, <4>1, <4>2, <4>3, <4>4, <4>5, WorkerOf
    <3>2. Executing(w) /\ Busy(w) /\ worker[w].job \in Jobs
      BY <3>1 DEF Executing, Busy
    <3>3. TargetOf(w)' = TargetOf(w)
      BY <1>0, <3>1, <3>2 DEF TargetOf
    <3>4. stored'[TargetOf(w)] = stored[TargetOf(w)]
      BY <2>2, <3>2, SoleWriter
    <3>5. jobs'[worker[w].job].asOf = jobs[worker[w].job].asOf
      BY <1>6, <3>1, <3>2
    <3>6. QED
      BY <3>1, <3>3, <3>4, <3>5 DEF Versions
  <2>3. QED
    BY <2>1, <2>2
<1>9. QED
  BY <1>0, <1>4, <1>5, <1>7, <1>8 DEF Versions

-----------------------------------------------------------------------------
(* The refinement. *)

\* The contract's view of a row changes in one place.
LEMMA StatusChange ==
  ASSUME NEW j \in Jobs, NEW s, jobs'[j].status = s,
         \A k \in Jobs : k # j => jobs'[k].status = jobs[k].status
  PROVE  [k \in Jobs |-> jobs'[k].status] = [[k \in Jobs |-> jobs[k].status] EXCEPT ![j] = s]
  OBVIOUS

\* The mapped variables, and the variables they are made of.
LEMMA SameView ==
  ASSUME UNCHANGED <<repositories, github, stored, jobs>>,
         \A j \in Jobs : post'[j].repo = post[j].repo
  PROVE  UNCHANGED Contract!vars
<1>1. [j \in Jobs |-> jobs[j].status]' = [j \in Jobs |-> jobs[j].status]
  OBVIOUS
<1>2. [j \in Jobs |-> jobs[j].asOf]' = [j \in Jobs |-> jobs[j].asOf]
  OBVIOUS
<1>3. [j \in Jobs |-> post[j].repo]' = [j \in Jobs |-> post[j].repo]
  OBVIOUS
<1>4. QED
  BY <1>1, <1>2, <1>3 DEF Contract!vars

\* The variables of the contract that an update of one row's status leaves alone.
LEMMA SameFrame ==
  ASSUME \A j \in Jobs : post'[j].repo = post[j].repo,
         \A j \in Jobs : jobs'[j].asOf = jobs[j].asOf
  PROVE  /\ [j \in Jobs |-> post[j].repo]' = [j \in Jobs |-> post[j].repo]
         /\ [j \in Jobs |-> jobs[j].asOf]' = [j \in Jobs |-> jobs[j].asOf]
  OBVIOUS

\* Only these actions change what the contract sees.
LEMMA VisibleSteps ==
  ASSUME [Next]_vars
  PROVE  \/ UNCHANGED <<repositories, github, stored, jobs>>
         \/ \E r \in Repos : Publish(r) \/ DeleteRepository(r)
         \/ \E j \in Jobs : Insert(j) \/ MarkEnqueueFailed(j)
         \/ \E w \in Workers : Claim(w) \/ Persist(w) \/ MarkSucceeded(w) \/ MarkFailed(w)
  BY DEF Next, vars, dbVars, workerUnchanged, Submit, Redeliver, HandlerStep, GetRepository,
      GetTracking, Precheck, InsertFails, Enqueue, EnqueueFails, MarkEnqueueFailedFails, Take,
      WorkerStep, LoadJob, LoadRepository, LoadFails, ClaimFails, Fetch, FetchFails,
      PersistFails, MarkFails, Ack, Environment, TrackRepository, UntrackRepository,
      ApiCrash, RedisLoss, WorkerCrash, PresumeDead, Interrupt

\* An INSERT that is not refused.
LEMMA InsertEffect ==
  ASSUME TypeInv, NEW j \in Jobs, Insert(j), jobs' # jobs
  PROVE  /\ ~ActiveFor(post[j].repo) /\ post[j].repo \in repositories
         /\ UNCHANGED <<repositories, github, stored>>
         /\ \A k \in Jobs : k # j => jobs'[k] = jobs[k]
         /\ jobs'[j].status = "queued" /\ jobs'[j].asOf = github[post[j].repo]
<1>1. jobs \in [Jobs -> JobRow]
  BY DEF TypeInv, TypeOK
<1>2. PICK v \in 0 .. MaxVersion : v = github[post[j].repo]
  BY DEF TypeInv, TypeOK, PostHandler
<1>3. jobs' = [jobs EXCEPT ![j].status = "queued", ![j].asOf = v]
  BY <1>2 DEF Insert
<1>4. /\ \A k \in Jobs : k # j => jobs'[k] = jobs[k]
      /\ jobs'[j].status = "queued" /\ jobs'[j].asOf = github[post[j].repo]
  BY <1>1, <1>2, <1>3, InsertRowEffect
<1>5. QED
  BY <1>4 DEF Insert

\* Each step of the program is a step of the contract, or invisible to it.
LEMMA ContractStep ==
  ASSUME Progress, AtMostOneExecuting, Versions, [Next]_vars
  PROVE  [Contract!Next]_(Contract!vars)
<1> USE DEF Progress, TypeInv, TypeOK, HoldsJob, dbVars, workerUnchanged
<1>0. \A j \in Jobs : post'[j].repo = post[j].repo /\ post[j].repo \in Repos
  BY RepoFixed DEF PostHandler
<1>1. CASE UNCHANGED <<repositories, github, stored, jobs>>
  BY <1>0, <1>1, SameView
<1>2. ASSUME NEW r \in Repos, Publish(r) PROVE Contract!Publish(r)
  <2>1. UNCHANGED <<repositories, stored, jobs, post>>
    BY <1>2 DEF Publish
  <2>2. QED
    BY <1>2, <2>1 DEF Publish, Contract!Publish
<1>3. ASSUME NEW r \in Repos, DeleteRepository(r) PROVE Contract!Delete(r)
  <2>1. \A j \in Jobs :
          /\ jobs'[j].asOf = jobs[j].asOf
          /\ jobs'[j].status = IF jobs[j].status # "none" /\ post[j].repo = r
                               THEN "deleted" ELSE jobs[j].status
    BY <1>3, DeleteEffect
  <2>2. /\ r \in repositories
        /\ repositories' = repositories \ {r}
        /\ UNCHANGED <<github, stored>>
    BY <1>3 DEF DeleteRepository
  <2>3. [j \in Jobs |-> jobs'[j].status]
          = [j \in Jobs |-> IF [k \in Jobs |-> jobs[k].status][j] # "none"
                               /\ [k \in Jobs |-> post[k].repo][j] = r
                            THEN "deleted" ELSE [k \in Jobs |-> jobs[k].status][j]]
    BY <2>1
  <2>4. QED
    BY <1>0, <2>1, <2>2, <2>3, SameFrame DEF Contract!Delete
<1>4. ASSUME NEW j \in Jobs, Insert(j), jobs' # jobs PROVE Contract!Create(j)
  <2>1. /\ ~ActiveFor(post[j].repo) /\ post[j].repo \in repositories
        /\ UNCHANGED <<repositories, github, stored>>
        /\ \A k \in Jobs : k # j => jobs'[k] = jobs[k]
        /\ jobs'[j].status = "queued" /\ jobs'[j].asOf = github[post[j].repo]
    BY <1>4, InsertEffect
  <2>2. [k \in Jobs |-> jobs'[k].status]
          = [[k \in Jobs |-> jobs[k].status] EXCEPT ![j] = "queued"]
    BY <2>1, StatusChange
  <2>3. [k \in Jobs |-> jobs'[k].asOf]
          = [[k \in Jobs |-> jobs[k].asOf] EXCEPT
               ![j] = github[[k \in Jobs |-> post[k].repo][j]]]
    BY <2>1
  <2>4. [k \in Jobs |-> post'[k].repo] = [k \in Jobs |-> post[k].repo]
    BY <1>0
  <2>5. jobs[j].status = "none"
    BY <1>4 DEF Insert, Stage, Early
  <2>6. \A k \in Jobs : jobs[k].status \in {"queued", "running"} => post[k].repo # post[j].repo
    BY <2>1 DEF ActiveFor, Active, ActiveStatuses
  <2>7. QED
    BY <2>1, <2>2, <2>3, <2>4, <2>5, <2>6 DEF Contract!Create, Contract!Active
<1>5. ASSUME NEW j \in Jobs, MarkEnqueueFailed(j), jobs' # jobs PROVE Contract!Fail(j)
  <2>1. jobs[j].status # "deleted" /\ SetStatus(j, "failed", "enqueue_failed")
    BY <1>5 DEF MarkEnqueueFailed
  <2>2. /\ \A k \in Jobs : k # j => jobs'[k] = jobs[k]
        /\ \A k \in Jobs : jobs'[k].asOf = jobs[k].asOf
        /\ jobs'[j].status = "failed"
    BY <2>1, SetStatusEffect DEF Statuses, ErrorCodes
  <2>3. jobs[j].status = "queued"
    BY <1>5, <2>1 DEF MarkEnqueueFailed, Stage, Fresh
  <2>4. [k \in Jobs |-> jobs'[k].status]
          = [[k \in Jobs |-> jobs[k].status] EXCEPT ![j] = "failed"]
    BY <2>2, StatusChange
  <2>5. UNCHANGED <<repositories, github, stored>>
    BY <1>5 DEF MarkEnqueueFailed
  <2>6. QED
    BY <1>0, <2>2, <2>3, <2>4, <2>5, SameFrame DEF Contract!Fail, Contract!Active
<1>6. ASSUME NEW w \in Workers, NEW j \in Jobs, worker[w].job = j, Claim(w), jobs' # jobs
      PROVE  Contract!Start(j)
  <2>1. /\ jobs[j].status = "queued"
        /\ jobs' = [jobs EXCEPT ![j].status = "running"]
    BY <1>6 DEF Claim, Claimable, Stage, WorkerStage, Fresh
  <2>2. /\ \A k \in Jobs : k # j => jobs'[k] = jobs[k]
        /\ \A k \in Jobs : jobs'[k].asOf = jobs[k].asOf
        /\ jobs'[j].status = "running"
    BY <2>1, ClaimRowEffect
  <2>3. [k \in Jobs |-> jobs'[k].status]
          = [[k \in Jobs |-> jobs[k].status] EXCEPT ![j] = "running"]
    BY <2>1, <2>2, StatusChange
  <2>4. UNCHANGED <<repositories, github, stored>>
    BY <1>6 DEF Claim
  <2>5. QED
    BY <1>0, <2>1, <2>2, <2>3, <2>4, SameFrame DEF Contract!Start
<1>7. ASSUME NEW w \in Workers, NEW j \in Jobs, worker[w].job = j,
             NEW v \in 0 .. MaxVersion, worker[w].version = v, Persist(w), stored' # stored
      PROVE  Contract!Ingest(j, v)
  <2>1. /\ TargetOf(w) = post[j].repo
        /\ TargetOf(w) \in repositories
        /\ stored' = [stored EXCEPT ![post[j].repo] = v]
    BY <1>7 DEF Persist, TargetOf
  <2>2. jobs[j].status = "running"
    BY <1>7, <2>1 DEF Persist, Stage, WorkerStage, Rows
  <2>3. v >= stored[post[j].repo] /\ v >= jobs[j].asOf /\ v =< github[post[j].repo]
    <3>1. jobs[j].asOf =< v /\ stored[TargetOf(w)] =< v /\ v =< github[TargetOf(w)]
      BY <1>7 DEF Versions, Persist
    <3>2. QED
      BY <2>1, <3>1
  <2>4. UNCHANGED <<repositories, github, jobs, post>>
    BY <1>7 DEF Persist
  <2>5. QED
    BY <1>0, <2>1, <2>2, <2>3, <2>4 DEF Contract!Ingest
<1>8. ASSUME NEW w \in Workers, NEW j \in Jobs, worker[w].job = j, MarkSucceeded(w), jobs' # jobs
      PROVE  Contract!Succeed(j)
  <2>1. /\ jobs[j].status = "running"
        /\ jobs' = [jobs EXCEPT ![j].status = "succeeded", ![j].counted = TRUE]
    BY <1>8 DEF MarkSucceeded, Stage, WorkerStage
  <2>2. /\ \A k \in Jobs : k # j => jobs'[k] = jobs[k]
        /\ \A k \in Jobs : jobs'[k].asOf = jobs[k].asOf
        /\ jobs'[j].status = "succeeded"
    BY <2>1, SucceedRowEffect
  <2>3. [k \in Jobs |-> jobs'[k].status]
          = [[k \in Jobs |-> jobs[k].status] EXCEPT ![j] = "succeeded"]
    BY <2>1, <2>2, StatusChange
  <2>4. stored[post[j].repo] >= jobs[j].asOf
    BY <1>8 DEF Versions, MarkSucceeded, TargetOf
  <2>5. UNCHANGED <<repositories, github, stored>>
    BY <1>8 DEF MarkSucceeded
  <2>6. QED
    BY <1>0, <2>1, <2>2, <2>3, <2>4, <2>5, SameFrame DEF Contract!Succeed
<1>9. ASSUME NEW w \in Workers, NEW j \in Jobs, worker[w].job = j, MarkFailed(w), jobs' # jobs
      PROVE  Contract!Fail(j)
  <2>1. /\ jobs[j].status \in {"queued", "running"}
        /\ SetStatus(j, "failed", worker[w].error)
        /\ worker[w].error \in ErrorCodes
    BY <1>9 DEF MarkFailed, Stage, WorkerStage, WorkerState
  <2>2. /\ \A k \in Jobs : k # j => jobs'[k] = jobs[k]
        /\ \A k \in Jobs : jobs'[k].asOf = jobs[k].asOf
        /\ jobs'[j].status = "failed"
    BY <2>1, SetStatusEffect DEF Statuses
  <2>3. [k \in Jobs |-> jobs'[k].status]
          = [[k \in Jobs |-> jobs[k].status] EXCEPT ![j] = "failed"]
    BY <2>1, <2>2, StatusChange
  <2>4. UNCHANGED <<repositories, github, stored>>
    BY <1>9 DEF MarkFailed
  <2>5. QED
    BY <1>0, <2>1, <2>2, <2>3, <2>4, SameFrame DEF Contract!Fail, Contract!Active
<1>10. CASE jobs' = jobs /\ \E j \in Jobs : Insert(j) \/ MarkEnqueueFailed(j)
  BY <1>1, <1>10 DEF Insert, MarkEnqueueFailed
<1>11. CASE jobs' = jobs /\ \E w \in Workers : Claim(w) \/ MarkSucceeded(w) \/ MarkFailed(w)
  BY <1>1, <1>11 DEF Claim, MarkSucceeded, MarkFailed
<1>12. CASE stored' = stored /\ \E w \in Workers : Persist(w)
  BY <1>1, <1>12 DEF Persist
<1>13. \A w \in Workers : Persist(w) => worker[w].job \in Jobs /\ worker[w].version \in 0 .. MaxVersion
  BY DEF Persist, WorkerState
<1>14. \A w \in Workers : Claim(w) \/ MarkSucceeded(w) \/ MarkFailed(w) => worker[w].job \in Jobs
  BY DEF Claim, MarkSucceeded, MarkFailed
<1>15. CASE \E r \in Repos : Publish(r) \/ DeleteRepository(r)
  BY <1>2, <1>3, <1>15 DEF Contract!Next
<1>16. CASE \E j \in Jobs : Insert(j) \/ MarkEnqueueFailed(j)
  <2>1. CASE jobs' # jobs
    BY <1>4, <1>5, <1>16, <2>1 DEF Contract!Next
  <2>2. QED
    BY <1>10, <1>16, <2>1
<1>17. CASE \E w \in Workers : Claim(w) \/ MarkSucceeded(w) \/ MarkFailed(w)
  <2>1. PICK w \in Workers : Claim(w) \/ MarkSucceeded(w) \/ MarkFailed(w)
    BY <1>17
  <2>2. PICK j \in Jobs : j = worker[w].job
    BY <1>14, <2>1
  <2>3. CASE jobs' # jobs
    BY <1>6, <1>8, <1>9, <2>1, <2>2, <2>3 DEF Contract!Next
  <2>4. QED
    BY <1>11, <1>17, <2>3
<1>18. CASE \E w \in Workers : Persist(w)
  <2>1. PICK w \in Workers : Persist(w)
    BY <1>18
  <2>2. PICK j \in Jobs, v \in 0 .. MaxVersion : j = worker[w].job /\ v = worker[w].version
    BY <1>13, <2>1
  <2>3. CASE stored' # stored
    BY <1>7, <2>1, <2>2, <2>3 DEF Contract!Next
  <2>4. QED
    BY <1>12, <1>18, <2>3
<1>19. QED
  BY <1>1, <1>15, <1>16, <1>17, <1>18, VisibleSteps

\* The initial states are the contract's.
LEMMA ContractInit == Init => Contract!Init
<1> SUFFICES ASSUME Init PROVE Contract!Init
  OBVIOUS
<1>1. [j \in Jobs |-> jobs[j].status] = [j \in Jobs |-> "none"]
  BY DEF Init
<1>2. [j \in Jobs |-> jobs[j].asOf] = [j \in Jobs |-> 0]
  BY DEF Init
<1>3. [j \in Jobs |-> post[j].repo] \in [Jobs -> Repos]
  BY DEF Init
<1>4. QED
  BY <1>1, <1>2, <1>3 DEF Init, Contract!Init

\* Under one delivery at a time, the whole of background synchronisation, its
\* races, its crashes and its failed calls included, does nothing the contract
\* does not allow: a job starts once and ends once, data never goes back, and a
\* job that succeeded has stored what GitHub had when it was asked for
\* (services/sync_jobs.py:53-106, worker/tasks.py:105-152,
\* services/repository_sync.py:18-118).
THEOREM Refinement ==
  ASSUME OneDelivery
  PROVE  Spec => ImplementsContract
<1> DEFINE IInv == Progress /\ ExecutingRows /\ AtMostOneExecuting /\ Versions
<1>1. Init => IInv
  <2>1. SUFFICES ASSUME Init PROVE ExecutingRows /\ AtMostOneExecuting /\ Versions
    BY ProgressInit
  <2>2. \A w \in Workers : worker[w].phase = "idle"
    BY <2>1 DEF Init, IdleWorker
  <2>3. /\ \A j \in Jobs : jobs[j].asOf = 0 /\ post[j].repo \in Repos
        /\ \A r \in Repos : stored[r] = 0 /\ github[r] = 0
    BY <2>1 DEF Init
  <2>4. QED
    BY <2>2, <2>3 DEF ExecutingRows, AtMostOneExecuting, Executing, Versions
<1>2. IInv /\ [Next]_vars => IInv'
  BY ProgressStep, ExecutingStep, VersionsStep DEF Progress, OneDelivery
<1>3. IInv /\ [Next]_vars => [Contract!Next]_(Contract!vars)
  BY ContractStep
<1>4. QED
  BY <1>1, <1>2, <1>3, ContractInit, PTL DEF Spec, ImplementsContract, Contract!Spec
=============================================================================
