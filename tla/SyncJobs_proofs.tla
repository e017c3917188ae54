-------------------------- MODULE SyncJobs_proofs --------------------------
(***************************************************************************)
(* The safety theorems about SyncJobs, for every number of users,          *)
(* repositories, jobs and workers, and for every bound.                    *)
(***************************************************************************)
EXTENDS SyncJobs_types

\* No step changes the repository a request is for.
LEMMA RepoFixed ==
  ASSUME TypeInv, [Next]_vars
  PROVE  \A j \in Jobs : post'[j].repo = post[j].repo
<1> USE DEF TypeInv, TypeOK
<1>1. ASSUME NEW j \in Jobs, \/ Submit(j) \/ HandlerStep(j) \/ Redeliver(j)
      PROVE  \A k \in Jobs : post'[k].repo = post[k].repo
  BY <1>1, GotoEffect, AnswerEffect
  DEF Submit, Redeliver, HandlerStep, GetRepository, GetTracking, Precheck, Insert, InsertFails,
      Enqueue, EnqueueFails, MarkEnqueueFailed, MarkEnqueueFailedFails, PostPhases, Answers
<1>2. ASSUME NEW w \in Workers, Take(w) \/ WorkerStep(w) PROVE post' = post
  BY <1>2
  DEF Take, WorkerStep, LoadJob, LoadRepository, LoadFails, Claim, ClaimFails, Fetch,
      FetchFails, Persist, PersistFails, MarkSucceeded, MarkFailed, MarkFails, Ack,
      workerUnchanged
<1>3. CASE ApiCrash
  BY <1>3, ApiCrashEffect
<1>4. CASE Environment /\ ~ApiCrash
  BY <1>4
  DEF Environment, Publish, DeleteRepository, TrackRepository, UntrackRepository,
      RedisLoss, WorkerCrash, PresumeDead, Interrupt, workerUnchanged
<1>5. CASE UNCHANGED vars
  BY <1>5 DEF vars
<1>6. QED
  BY <1>1, <1>2, <1>3, <1>4, <1>5 DEF Next

\* The six actions that write sync_jobs.
LEMMA RowWriters ==
  ASSUME [Next]_vars
  PROVE  \/ UNCHANGED jobs
         \/ \E j \in Jobs : Insert(j) \/ MarkEnqueueFailed(j)
         \/ \E w \in Workers : Claim(w) \/ MarkSucceeded(w) \/ MarkFailed(w)
         \/ \E r \in Repos : DeleteRepository(r)
  BY DEF Next, vars, dbVars, workerUnchanged,
      Submit, Redeliver, HandlerStep, GetRepository, GetTracking, Precheck, InsertFails,
      Enqueue, EnqueueFails, MarkEnqueueFailedFails,
      Take, WorkerStep, LoadJob, LoadRepository, LoadFails, ClaimFails, Fetch,
      FetchFails, Persist, PersistFails, MarkFails, Ack,
      Environment, Publish, TrackRepository, UntrackRepository, ApiCrash,
      RedisLoss, WorkerCrash, PresumeDead, Interrupt

\* No step makes a second job of a repository active.
LEMMA ActiveStep ==
  ASSUME TypeInv, AtMostOneActive, [Next]_vars
  PROVE  AtMostOneActive'
<1> USE DEF TypeInv, TypeOK, AtMostOneActive, Active, ActiveStatuses
<1>0. \A j \in Jobs : post'[j].repo = post[j].repo
  BY RepoFixed
<1>1. CASE UNCHANGED jobs
  BY <1>0, <1>1
<1>2. ASSUME NEW j \in Jobs, Insert(j), jobs' # jobs PROVE AtMostOneActive'
  <2>1. post[j].repo \in Repos
    BY DEF PostHandler
  <2>2. jobs' = [jobs EXCEPT ![j].status = "queued", ![j].asOf = github[post[j].repo]]
    BY <1>2 DEF Insert
  <2>3. \A k \in Jobs : k # j => jobs'[k] = jobs[k]
    BY <2>1, <2>2, InsertRowEffect
  <2>4. ~ActiveFor(post[j].repo)
    BY <1>2 DEF Insert
  <2>5. QED
    BY <1>0, <2>3, <2>4 DEF ActiveFor
<1>3. ASSUME NEW j \in Jobs, MarkEnqueueFailed(j), jobs' # jobs PROVE AtMostOneActive'
  BY <1>0, <1>3, SetStatusEffect DEF MarkEnqueueFailed, Statuses, ErrorCodes
<1>4. ASSUME NEW w \in Workers, Claim(w), jobs' # jobs PROVE AtMostOneActive'
  <2>1. worker[w].job \in Jobs
    BY <1>4 DEF Claim, HoldsJob
  <2>2. \A k \in Jobs \ {worker[w].job} : Active(k) => post[k].repo # post[worker[w].job].repo
    BY <1>4 DEF Claim, Claimable
  <2>3. \A k \in Jobs : k # worker[w].job => jobs'[k] = jobs[k]
    BY <1>4, <2>1, ClaimRowEffect DEF Claim
  <2>4. QED
    BY <1>0, <2>2, <2>3
<1>5. ASSUME NEW w \in Workers, MarkSucceeded(w), jobs' # jobs PROVE AtMostOneActive'
  <2>1. worker[w].job \in Jobs
    BY <1>5 DEF MarkSucceeded, HoldsJob
  <2>2. QED
    BY <1>0, <1>5, <2>1, SucceedRowEffect DEF MarkSucceeded
<1>6. ASSUME NEW w \in Workers, MarkFailed(w), jobs' # jobs PROVE AtMostOneActive'
  <2>1. worker[w].job \in Jobs /\ worker[w].error \in ErrorCodes
    BY <1>6 DEF MarkFailed, HoldsJob, WorkerState
  <2>2. QED
    BY <1>0, <1>6, <2>1, SetStatusEffect DEF MarkFailed, Statuses
<1>7. ASSUME NEW r \in Repos, DeleteRepository(r) PROVE AtMostOneActive'
  BY <1>0, <1>7, DeleteEffect
<1>8. QED
  BY <1>1, <1>2, <1>3, <1>4, <1>5, <1>6, <1>7, RowWriters

\* The partial unique index keeps its promise under every interleaving of
\* requests, workers and faults: at most one job of a repository is queued or
\* running (app/models/sync_job.py:19-22).
THEOREM OneActiveJob == Spec => []AtMostOneActive
<1>1. Init => AtMostOneActive
  BY DEF Init, AtMostOneActive, Active, ActiveStatuses
<1>2. TypeInv /\ AtMostOneActive /\ [Next]_vars => (TypeInv /\ AtMostOneActive)'
  BY TypeStep, ActiveStep
<1>3. QED
  BY TypeInit, <1>1, <1>2, PTL DEF Spec

-----------------------------------------------------------------------------
(* One worker per repository. *)

Busy(w) == worker[w].phase # "idle"

\* A job is delivered at most once at a time: it is in one place of the queue or
\* in the hands of one worker, and its POST handler is done with it.
Delivery ==
    /\ queue \cap orphaned = {}
    /\ \A j \in queue \cup orphaned : post[j].phase = "done"
    /\ \A w \in Workers : Busy(w) =>
        /\ worker[w].job \notin queue \cup orphaned
        /\ post[worker[w].job].phase = "done"
    /\ \A v, w \in Workers : v # w /\ Busy(v) /\ Busy(w) => worker[v].job # worker[w].job

\* Whoever refers to a job refers to a row that was committed; a row exists only
\* while its repository does, and a deleted repository does not come back.
Rows ==
    /\ \A j \in queue \cup orphaned : jobs[j].status # "none"
    /\ \A w \in Workers : Busy(w) => jobs[worker[w].job].status # "none"
    /\ \A j \in Jobs :
        /\ post[j].phase \in {"enqueue", "mark_failed"} => jobs[j].status # "none"
        /\ jobs[j].status = "deleted" => post[j].repo \notin repositories
        /\ jobs[j].status \notin {"none", "deleted"} => post[j].repo \in repositories

\* A coroutine between _mark_running and the recording of its outcome works for
\* a row that is running, or was deleted under it.
ExecutingRows ==
    \A w \in Workers : Executing(w) => jobs[worker[w].job].status \in {"running", "deleted"}

\* The steps of run_sync_job between receiving a message and finishing with it.
WorkerLocal(w) ==
    \/ LoadJob(w) \/ LoadRepository(w) \/ LoadFails(w) \/ Claim(w) \/ ClaimFails(w)
    \/ Fetch(w) \/ FetchFails(w) \/ Persist(w) \/ PersistFails(w)
    \/ MarkSucceeded(w) \/ MarkFailed(w) \/ MarkFails(w)

\* A coroutine touches neither the queue nor the requests, nor another worker.
LEMMA WorkerStepEffect ==
  ASSUME TypeInv, NEW w \in Workers, WorkerLocal(w)
  PROVE  /\ UNCHANGED <<queue, orphaned, post, repositories>>
         /\ Busy(w)
         /\ \A v \in Workers : v # w => worker'[v] = worker[v]
         /\ worker'[w].job = worker[w].job
         /\ worker'[w].owns = worker[w].owns
         /\ worker'[w].phase # "idle"
<1> USE DEF TypeInv, TypeOK, Busy, workerUnchanged
<1>1. CASE Fetch(w)
  <2>1. github[TargetOf(w)] \in 0 .. MaxVersion
    BY <1>1 DEF Fetch, TargetOf, PostHandler, HoldsJob
  <2>2. QED
    BY <1>1, <2>1, FetchEffect DEF Fetch
<1>2. CASE LoadJob(w) \/ LoadRepository(w) \/ LoadFails(w)
  BY <1>2, ProceedEffect, FailWithEffect
  DEF LoadJob, LoadRepository, LoadFails, WorkerPhases, ErrorCodes
<1>3. CASE Claim(w) \/ ClaimFails(w) \/ FetchFails(w) \/ PersistFails(w) \/ MarkFails(w)
  BY <1>3, ProceedEffect, FailWithEffect
  DEF Claim, ClaimFails, FetchFails, PersistFails, MarkFails, WorkerPhases, ErrorCodes
<1>4. CASE Persist(w) \/ MarkSucceeded(w) \/ MarkFailed(w)
  BY <1>4, ProceedEffect, FailWithEffect
  DEF Persist, MarkSucceeded, MarkFailed, WorkerPhases, ErrorCodes
<1>5. QED
  BY <1>1, <1>2, <1>3, <1>4 DEF WorkerLocal

\* Without stalls and ambiguous sends, one delivery per job is preserved.
LEMMA DeliveryStep ==
  ASSUME TypeInv, Delivery, [Next]_vars,
         "worker_stall" \notin Faults, "enqueue_ambiguous" \notin Faults
  PROVE  Delivery'
<1> USE DEF TypeInv, TypeOK, HoldsJob, Delivery, Busy, dbVars, workerUnchanged
<1>1. ASSUME NEW j \in Jobs,
             \/ Submit(j) \/ GetRepository(j) \/ GetTracking(j) \/ Precheck(j) \/ Insert(j)
             \/ InsertFails(j) \/ MarkEnqueueFailed(j) \/ MarkEnqueueFailedFails(j)
             \/ EnqueueFails(j)
      PROVE  Delivery'
  <2>1. UNCHANGED <<queue, orphaned, worker>>
    BY <1>1
    DEF Submit, GetRepository, GetTracking, Precheck, Insert, InsertFails,
        MarkEnqueueFailed, MarkEnqueueFailedFails, EnqueueFails
  <2>2. \A k \in Jobs : post[k].phase = "done" => post'[k].phase = "done"
    BY <1>1, GotoEffect, AnswerEffect
    DEF Submit, GetRepository, GetTracking, Precheck, Insert, InsertFails,
        MarkEnqueueFailed, MarkEnqueueFailedFails, EnqueueFails, PostPhases, Answers
  <2>3. QED
    BY <2>1, <2>2
<1>2. ASSUME NEW j \in Jobs, Enqueue(j) PROVE Delivery'
  BY <1>2, AnswerEffect DEF Enqueue, Answers
<1>3. ASSUME NEW j \in Jobs, Redeliver(j) PROVE Delivery'
  BY <1>3 DEF Redeliver
<1>4. ASSUME NEW w \in Workers, Take(w) PROVE Delivery'
  <2>1. PICK j \in queue : /\ queue' = queue \ {j}
                           /\ worker' = [worker EXCEPT ![w] = Received(j)]
    BY <1>4 DEF Take
  <2>2. /\ \A v \in Workers : v # w => worker'[v] = worker[v]
        /\ worker'[w].job = j
    BY <2>1, TakeEffect
  <2>3. orphaned' = orphaned /\ post' = post
    BY <1>4 DEF Take
  <2>4. QED
    BY <2>1, <2>2, <2>3
<1>5. ASSUME NEW w \in Workers, WorkerLocal(w) PROVE Delivery'
  BY <1>5, WorkerStepEffect
<1>6. ASSUME NEW w \in Workers, Ack(w) \/ Interrupt(w) PROVE Delivery'
  <2>1. \A v \in Workers : v # w => worker'[v] = worker[v]
    BY <1>6, IdleEffect DEF Ack, Interrupt
  <2>2. worker'[w].phase = "idle"
    BY <1>6, IdleEffect DEF Ack, Interrupt
  <2>3. UNCHANGED <<queue, orphaned, post>>
    BY <1>6 DEF Ack, Interrupt
  <2>4. QED
    BY <2>1, <2>2, <2>3
<1>7. ASSUME NEW w \in Workers, WorkerCrash(w) PROVE Delivery'
  <2>1. \A v \in Workers : v # w => worker'[v] = worker[v]
    BY <1>7, IdleEffect DEF WorkerCrash
  <2>2. worker'[w].phase = "idle" /\ Busy(w)
    BY <1>7, IdleEffect DEF WorkerCrash
  <2>3. /\ queue' = queue /\ post' = post
        /\ orphaned' = orphaned \/ orphaned' = orphaned \cup {worker[w].job}
    BY <1>7 DEF WorkerCrash
  <2>4. QED
    BY <2>1, <2>2, <2>3
<1>8. CASE ApiCrash
  BY <1>8, ApiCrashEffect DEF ApiCrash
<1>9. CASE RedisLoss
  <2>1. \A v \in Workers : /\ worker'[v].phase = worker[v].phase
                           /\ worker'[v].job = worker[v].job
    BY <1>9, RedisLossEffect DEF RedisLoss
  <2>2. queue' = {} /\ orphaned' = {} /\ post' = post
    BY <1>9 DEF RedisLoss
  <2>3. QED
    BY <2>1, <2>2
<1>10. ASSUME NEW r \in Repos, Publish(r) \/ DeleteRepository(r) PROVE Delivery'
  BY <1>10 DEF Publish, DeleteRepository
<1>11. ASSUME NEW u \in Users, NEW r \in Repos, TrackRepository(u, r) \/ UntrackRepository(u, r)
       PROVE  Delivery'
  BY <1>11 DEF TrackRepository, UntrackRepository
<1>12. CASE UNCHANGED vars
  BY <1>12 DEF vars
<1>13. QED
  BY <1>1, <1>2, <1>3, <1>4, <1>5, <1>6, <1>7, <1>8, <1>9, <1>10, <1>11, <1>12
  DEF Next, HandlerStep, WorkerStep, WorkerLocal, Environment, PresumeDead

\* Every step keeps rows and repositories consistent.
LEMMA RowsStep ==
  ASSUME TypeInv, Rows, [Next]_vars
  PROVE  Rows'
<1> USE DEF TypeInv, TypeOK, HoldsJob, Rows, Busy, dbVars, workerUnchanged
<1>0. \A j \in Jobs : post'[j].repo = post[j].repo
  BY RepoFixed
<1>1. ASSUME NEW j \in Jobs,
             \/ Submit(j) \/ GetRepository(j) \/ GetTracking(j) \/ Precheck(j)
             \/ InsertFails(j) \/ MarkEnqueueFailedFails(j)
      PROVE  Rows'
  <2>1. UNCHANGED <<repositories, jobs, queue, orphaned, worker>>
    BY <1>1
    DEF Submit, GetRepository, GetTracking, Precheck, InsertFails, MarkEnqueueFailedFails
  <2>2. \A k \in Jobs : \/ post'[k].phase = post[k].phase
                        \/ post'[k].phase \notin {"enqueue", "mark_failed"}
    BY <1>1, GotoEffect, AnswerEffect
    DEF Submit, GetRepository, GetTracking, Precheck, InsertFails, MarkEnqueueFailedFails,
        PostPhases, Answers
  <2>3. QED
    BY <1>0, <2>1, <2>2
<1>2. ASSUME NEW j \in Jobs, Insert(j) PROVE Rows'
  <2>1. CASE ActiveFor(post[j].repo) \/ post[j].repo \notin repositories
    BY <1>0, <1>2, <2>1, AnswerEffect DEF Insert, Answers
  <2>2. CASE ~(ActiveFor(post[j].repo) \/ post[j].repo \notin repositories)
    <3>1. github[post[j].repo] \in 0 .. MaxVersion
      BY DEF PostHandler
    <3>2. /\ \A k \in Jobs : k # j => jobs'[k] = jobs[k]
          /\ jobs'[j].status = "queued"
      BY <1>2, <2>2, <3>1, InsertRowEffect DEF Insert
    <3>3. post[j].repo \in repositories
      BY <1>2, <2>2 DEF Insert
    <3>4. \A k \in Jobs : k # j => post'[k] = post[k]
      BY <1>2, <2>2, GotoEffect DEF Insert, PostPhases
    <3>5. QED
      BY <1>0, <1>2, <3>2, <3>3, <3>4 DEF Insert
  <2>3. QED
    BY <2>1, <2>2
<1>3. ASSUME NEW j \in Jobs, Enqueue(j) \/ EnqueueFails(j) PROVE Rows'
  <2>1. /\ UNCHANGED <<repositories, jobs, orphaned, worker>>
        /\ queue' = queue \/ queue' = queue \cup {j}
        /\ post[j].phase = "enqueue"
    BY <1>3 DEF Enqueue, EnqueueFails
  <2>2. \A k \in Jobs : k # j => post'[k] = post[k]
    BY <1>3, GotoEffect, AnswerEffect DEF Enqueue, EnqueueFails, PostPhases, Answers
  <2>3. QED
    BY <1>0, <2>1, <2>2
<1>4. ASSUME NEW j \in Jobs, MarkEnqueueFailed(j) PROVE Rows'
  <2>1. /\ \A k \in Jobs : k # j => jobs'[k] = jobs[k]
        /\ jobs'[j].status = jobs[j].status \/ jobs'[j].status = "failed"
        /\ jobs[j].status = "deleted" => jobs'[j].status = "deleted"
    BY <1>4, SetStatusEffect DEF MarkEnqueueFailed, Statuses, ErrorCodes
  <2>2. /\ \A k \in Jobs : k # j => post'[k] = post[k]
        /\ post'[j].phase = "done"
        /\ post[j].phase = "mark_failed"
    BY <1>4, AnswerEffect DEF MarkEnqueueFailed, Answers
  <2>3. QED
    BY <1>0, <1>4, <2>1, <2>2 DEF MarkEnqueueFailed
<1>5. ASSUME NEW j \in Jobs, Redeliver(j) PROVE Rows'
  BY <1>5 DEF Redeliver
<1>6. ASSUME NEW w \in Workers, Take(w) PROVE Rows'
  <2>1. PICK j \in queue : /\ queue' = queue \ {j}
                           /\ worker' = [worker EXCEPT ![w] = Received(j)]
    BY <1>6 DEF Take
  <2>2. /\ \A v \in Workers : v # w => worker'[v] = worker[v]
        /\ worker'[w].job = j
    BY <2>1, TakeEffect
  <2>3. UNCHANGED <<repositories, jobs, orphaned, post>>
    BY <1>6 DEF Take
  <2>4. QED
    BY <2>1, <2>2, <2>3
<1>7. ASSUME NEW w \in Workers, WorkerLocal(w) PROVE Rows'
  <2>1. /\ UNCHANGED <<queue, orphaned, post, repositories>>
        /\ Busy(w)
        /\ \A v \in Workers : v # w => worker'[v] = worker[v]
        /\ worker'[w].job = worker[w].job
    BY <1>7, WorkerStepEffect
  <2>2. worker[w].job \in Jobs
    BY <2>1
  <2>3. \/ UNCHANGED jobs
        \/ /\ \A k \in Jobs : k # worker[w].job => jobs'[k] = jobs[k]
           /\ jobs[worker[w].job].status # "deleted"
           /\ jobs'[worker[w].job].status \in {"running", "succeeded", "failed"}
    <3>1. CASE Claim(w)
      BY <2>2, <3>1, ClaimRowEffect DEF Claim, Claimable
    <3>2. CASE MarkSucceeded(w)
      BY <2>2, <3>2, SucceedRowEffect DEF MarkSucceeded
    <3>3. CASE MarkFailed(w)
      <4>1. worker[w].error \in ErrorCodes
        BY DEF WorkerState
      <4>2. QED
        BY <2>2, <3>3, <4>1, SetStatusEffect DEF MarkFailed, Statuses
    <3>4. QED
      BY <1>7, <3>1, <3>2, <3>3
      DEF WorkerLocal, LoadJob, LoadRepository, LoadFails, ClaimFails, Fetch, FetchFails,
          Persist, PersistFails, MarkFails
  <2>4. QED
    BY <2>1, <2>2, <2>3
<1>8. ASSUME NEW w \in Workers, Ack(w) \/ Interrupt(w) PROVE Rows'
  <2>1. /\ \A v \in Workers : v # w => worker'[v] = worker[v]
        /\ worker'[w].phase = "idle"
    BY <1>8, IdleEffect DEF Ack, Interrupt
  <2>2. UNCHANGED <<queue, orphaned, post, jobs, repositories>>
    BY <1>8 DEF Ack, Interrupt
  <2>3. QED
    BY <2>1, <2>2
<1>9. ASSUME NEW w \in Workers, WorkerCrash(w) PROVE Rows'
  <2>1. /\ \A v \in Workers : v # w => worker'[v] = worker[v]
        /\ worker'[w].phase = "idle" /\ Busy(w)
    BY <1>9, IdleEffect DEF WorkerCrash
  <2>2. /\ UNCHANGED <<queue, post, jobs, repositories>>
        /\ orphaned' = orphaned \/ orphaned' = orphaned \cup {worker[w].job}
    BY <1>9 DEF WorkerCrash
  <2>3. QED
    BY <2>1, <2>2
<1>10. ASSUME NEW w \in Workers, PresumeDead(w) PROVE Rows'
  <2>1. \A v \in Workers : /\ worker'[v].phase = worker[v].phase
                           /\ worker'[v].job = worker[v].job
    BY <1>10, DisownEffect DEF PresumeDead
  <2>2. /\ UNCHANGED <<orphaned, post, jobs, repositories>>
        /\ queue' = queue \cup {worker[w].job}
        /\ Busy(w)
    BY <1>10 DEF PresumeDead
  <2>3. QED
    BY <2>1, <2>2
<1>11. CASE ApiCrash
  <2>1. \A j \in Jobs : post'[j] = post[j] \/ post'[j].phase = "done"
    BY <1>11, ApiCrashEffect
  <2>2. UNCHANGED <<jobs, repositories, queue, orphaned, worker>>
    BY <1>11 DEF ApiCrash
  <2>3. QED
    BY <1>0, <2>1, <2>2
<1>12. CASE RedisLoss
  <2>1. \A v \in Workers : /\ worker'[v].phase = worker[v].phase
                           /\ worker'[v].job = worker[v].job
    BY <1>12, RedisLossEffect DEF RedisLoss
  <2>2. queue' = {} /\ orphaned' = {} /\ UNCHANGED <<post, jobs, repositories>>
    BY <1>12 DEF RedisLoss
  <2>3. QED
    BY <2>1, <2>2
<1>13. ASSUME NEW r \in Repos, DeleteRepository(r) PROVE Rows'
  <2>1. \A j \in Jobs :
          /\ jobs[j].status # "none" /\ post[j].repo = r => jobs'[j].status = "deleted"
          /\ jobs[j].status = "none" \/ post[j].repo # r => jobs'[j] = jobs[j]
    BY <1>13, DeleteEffect
  <2>2. UNCHANGED <<post, queue, orphaned, worker>> /\ repositories' = repositories \ {r}
    BY <1>13 DEF DeleteRepository
  <2>3. QED
    BY <2>1, <2>2
<1>14. ASSUME NEW r \in Repos, Publish(r) PROVE Rows'
  BY <1>14 DEF Publish
<1>15. ASSUME NEW u \in Users, NEW r \in Repos, TrackRepository(u, r) \/ UntrackRepository(u, r)
       PROVE  Rows'
  BY <1>15 DEF TrackRepository, UntrackRepository
<1>16. CASE UNCHANGED vars
  BY <1>16 DEF vars
<1>17. QED
  BY <1>1, <1>2, <1>3, <1>4, <1>5, <1>6, <1>7, <1>8, <1>9, <1>10, <1>11, <1>12, <1>13,
     <1>14, <1>15, <1>16
  DEF Next, HandlerStep, WorkerStep, WorkerLocal, Environment

\* Every step keeps executing workers apart.
LEMMA ExecutingStep ==
  ASSUME TypeInv, Delivery, Rows, ExecutingRows, AtMostOneExecuting, [Next]_vars
  PROVE  ExecutingRows' /\ AtMostOneExecuting'
<1> USE DEF TypeInv, TypeOK, HoldsJob, Busy
<1>0. \A j \in Jobs : post'[j].repo = post[j].repo
  BY RepoFixed
<1>1. ASSUME NEW w \in Workers, Claim(w), Claimable(worker[w].job)
      PROVE  ExecutingRows' /\ AtMostOneExecuting'
  <2>1. /\ UNCHANGED <<post, repositories>>
        /\ Busy(w)
        /\ \A v \in Workers : v # w => worker'[v] = worker[v]
        /\ worker'[w].job = worker[w].job
        /\ worker[w].job \in Jobs
    BY <1>1, WorkerStepEffect DEF WorkerLocal
  <2>2. /\ jobs'[worker[w].job].status = "running"
        /\ \A k \in Jobs : k # worker[w].job => jobs'[k] = jobs[k]
        /\ Claimable(worker[w].job)
    BY <1>1, <2>1, ClaimRowEffect DEF Claim
  <2>3. ExecutingRows'
    BY <2>1, <2>2 DEF ExecutingRows, Executing, Delivery
  <2>4. \A v \in Workers : v # w /\ Executing(v) => TargetOf(v) # TargetOf(w)
    <3> SUFFICES ASSUME NEW v \in Workers, v # w, Executing(v)
                 PROVE  TargetOf(v) # TargetOf(w)
      OBVIOUS
    <3>1. worker[v].job # worker[w].job /\ worker[v].job \in Jobs
      BY <2>1 DEF Executing, Delivery
    <3>2. jobs[worker[v].job].status \in {"running", "deleted"}
      BY DEF ExecutingRows
    <3>3. CASE jobs[worker[v].job].status = "running"
      BY <2>2, <3>1, <3>3 DEF Claimable, Active, ActiveStatuses, TargetOf
    <3>4. CASE jobs[worker[v].job].status = "deleted"
      <4>1. TargetOf(v) \notin repositories
        BY <3>1, <3>4 DEF Rows, TargetOf
      <4>2. TargetOf(w) \in repositories
        BY <2>1, <2>2 DEF Rows, Claimable, TargetOf
      <4>3. QED
        BY <4>1, <4>2
    <3>5. QED
      BY <3>2, <3>3, <3>4
  <2>5. QED
    BY <2>1, <2>3, <2>4 DEF AtMostOneExecuting, Executing, TargetOf
<1>2. CASE ~\E w \in Workers : Claim(w) /\ Claimable(worker[w].job)
  <2>1. \A w \in Workers : Executing(w)' => Executing(w) /\ worker'[w].job = worker[w].job
    <3> USE DEF Executing, dbVars, workerUnchanged
    <3>1. ASSUME NEW v \in Workers, WorkerLocal(v)
          PROVE  \A w \in Workers : Executing(w)' => Executing(w) /\ worker'[w].job = worker[w].job
      <4>1. /\ \A w \in Workers : w # v => worker'[w] = worker[w]
            /\ worker'[v].job = worker[v].job
        BY <3>1, WorkerStepEffect
      <4>2. Executing(v)' => Executing(v)
        <5>1. CASE Fetch(v) \/ Persist(v) \/ PersistFails(v) \/ FetchFails(v)
          BY <5>1 DEF Fetch, Persist, PersistFails, FetchFails
        <5>2. CASE LoadJob(v) \/ LoadRepository(v) \/ LoadFails(v)
          BY <5>2, ProceedEffect, FailWithEffect
          DEF LoadJob, LoadRepository, LoadFails, WorkerPhases, ErrorCodes
        <5>3. CASE ClaimFails(v) \/ Claim(v)
          BY <1>2, <5>3, FailWithEffect DEF ClaimFails, Claim, ErrorCodes
        <5>4. CASE MarkSucceeded(v) \/ MarkFailed(v) \/ MarkFails(v)
          BY <5>4, ProceedEffect DEF MarkSucceeded, MarkFailed, MarkFails, WorkerPhases
        <5>5. QED
          BY <3>1, <5>1, <5>2, <5>3, <5>4 DEF WorkerLocal
      <4>3. QED
        BY <4>1, <4>2
    <3>2. ASSUME NEW v \in Workers, Take(v)
          PROVE  \A w \in Workers : Executing(w)' => Executing(w) /\ worker'[w].job = worker[w].job
      <4>1. PICK j \in queue : worker' = [worker EXCEPT ![v] = Received(j)]
        BY <3>2 DEF Take
      <4>2. QED
        BY <4>1, TakeEffect
    <3>3. ASSUME NEW v \in Workers, Ack(v) \/ Interrupt(v) \/ WorkerCrash(v)
          PROVE  \A w \in Workers : Executing(w)' => Executing(w) /\ worker'[w].job = worker[w].job
      BY <3>3, IdleEffect DEF Ack, Interrupt, WorkerCrash
    <3>4. ASSUME NEW v \in Workers, PresumeDead(v)
          PROVE  \A w \in Workers : Executing(w)' => Executing(w) /\ worker'[w].job = worker[w].job
      BY <3>4, DisownEffect DEF PresumeDead
    <3>5. CASE RedisLoss
      BY <3>5, RedisLossEffect DEF RedisLoss
    <3>6. CASE UNCHANGED worker
      BY <3>6
    <3>7. QED
      BY <3>1, <3>2, <3>3, <3>4, <3>5, <3>6
      DEF Next, vars, HandlerStep, WorkerStep, WorkerLocal, Environment,
          Submit, Redeliver, GetRepository, GetTracking, Precheck, Insert, InsertFails,
          Enqueue, EnqueueFails, MarkEnqueueFailed, MarkEnqueueFailedFails,
          Publish, DeleteRepository, TrackRepository, UntrackRepository, ApiCrash
  <2>2. \A w \in Workers : Executing(w)' => jobs'[worker[w].job].status \in {"running", "deleted"}
    <3> SUFFICES ASSUME NEW w \in Workers, Executing(w)'
                 PROVE  jobs'[worker[w].job].status \in {"running", "deleted"}
      OBVIOUS
    <3>0. /\ Executing(w) /\ Busy(w)
          /\ worker[w].job \in Jobs
          /\ jobs[worker[w].job].status \in {"running", "deleted"}
          /\ post[worker[w].job].phase = "done"
      BY <2>1 DEF Executing, ExecutingRows, Delivery
    <3>1. CASE UNCHANGED jobs
      BY <3>0, <3>1
    <3>2. ASSUME NEW j \in Jobs, Insert(j), jobs' # jobs
          PROVE  jobs'[worker[w].job] = jobs[worker[w].job]
      <4>1. github[post[j].repo] \in 0 .. MaxVersion
        BY DEF PostHandler
      <4>2. QED
        BY <3>0, <3>2, <4>1, InsertRowEffect DEF Insert
    <3>3. ASSUME NEW j \in Jobs, MarkEnqueueFailed(j), jobs' # jobs
          PROVE  jobs'[worker[w].job] = jobs[worker[w].job]
      BY <3>0, <3>3, SetStatusEffect DEF MarkEnqueueFailed, Statuses, ErrorCodes
    <3>4. ASSUME NEW v \in Workers, Claim(v), jobs' # jobs
          PROVE  FALSE
      BY <1>2, <3>4 DEF Claim
    <3>5. ASSUME NEW v \in Workers, MarkSucceeded(v) \/ MarkFailed(v), jobs' # jobs
          PROVE  jobs'[worker[w].job] = jobs[worker[w].job]
      <4>1. v # w
        BY <3>0, <3>5 DEF Executing, MarkSucceeded, MarkFailed, Proceed, WorkerState
      <4>2. worker[v].job # worker[w].job /\ worker[v].job \in Jobs
        BY <3>0, <3>5, <4>1 DEF Delivery, MarkSucceeded, MarkFailed
      <4>3. worker[v].error \in ErrorCodes
        BY DEF WorkerState
      <4>4. QED
        BY <3>0, <3>5, <4>2, <4>3, SucceedRowEffect, SetStatusEffect
        DEF MarkSucceeded, MarkFailed, Statuses
    <3>6. ASSUME NEW r \in Repos, DeleteRepository(r)
          PROVE  jobs'[worker[w].job].status \in {"running", "deleted"}
      BY <3>0, <3>6, DeleteEffect
    <3>7. QED
      BY <3>0, <3>1, <3>2, <3>3, <3>4, <3>5, <3>6, RowWriters
  <2>3. QED
    BY <1>0, <2>1, <2>2 DEF ExecutingRows, AtMostOneExecuting, Executing, TargetOf
<1>3. QED
  BY <1>1, <1>2

\* Unless Dramatiq gives a live worker's message to another worker, or a send
\* reported as failed was not, no two workers synchronise the same repository
\* at the same time: crashes, restarts, redeliveries, failed transactions and
\* deletions included.
THEOREM SingleExecution ==
  ASSUME "worker_stall" \notin Faults, "enqueue_ambiguous" \notin Faults
  PROVE  Spec => []AtMostOneExecuting
<1> DEFINE IInv == TypeInv /\ Delivery /\ Rows /\ ExecutingRows /\ AtMostOneExecuting
<1>1. Init => IInv
  <2>1. SUFFICES ASSUME Init PROVE Delivery /\ Rows /\ ExecutingRows /\ AtMostOneExecuting
    BY TypeInit
  <2>2. \A w \in Workers : worker[w].phase = "idle"
    BY <2>1 DEF Init, IdleWorker
  <2>3. \A j \in Jobs : post[j].phase = "idle" /\ jobs[j].status = "none"
    BY <2>1 DEF Init
  <2>4. QED
    BY <2>1, <2>2, <2>3 DEF Init, Delivery, Rows, ExecutingRows, AtMostOneExecuting, Busy, Executing
<1>2. IInv /\ [Next]_vars => IInv'
  BY TypeStep, DeliveryStep, RowsStep, ExecutingStep
<1>3. QED
  BY <1>1, <1>2, PTL DEF Spec
-----------------------------------------------------------------------------
(* One message per job. *)

\* The message of a job is sent once: until then Redis knows nothing of the job
\* and no worker has it in its ack set.
Unsent ==
    \A j \in Jobs : post[j].phase \notin {"mark_failed", "done"} =>
        /\ j \notin queue \cup orphaned
        /\ \A w \in Workers : worker[w].owns => worker[w].job # j

\* Every step keeps a job's message in one place.
LEMMA MessageStep ==
  ASSUME TypeInv, Rows, Unsent, OneMessagePerJob, [Next]_vars
  PROVE  Unsent' /\ OneMessagePerJob'
<1> USE DEF TypeInv, TypeOK, HoldsJob, dbVars, workerUnchanged
<1> DEFINE Goal == /\ Unsent'
                   /\ queue' \cap orphaned' = {}
                   /\ \A w \in Workers : worker'[w].owns =>
                        /\ worker'[w].phase # "idle"
                        /\ worker'[w].job \notin queue' \cup orphaned'
                        /\ \A v \in Workers \ {w} :
                             worker'[v].owns => worker'[v].job # worker'[w].job
<1>0. /\ Unsent
      /\ queue \cap orphaned = {}
      /\ \A w \in Workers : worker[w].owns =>
           /\ worker[w].phase # "idle"
           /\ worker[w].job \notin queue \cup orphaned
           /\ \A v \in Workers \ {w} : worker[v].owns => worker[v].job # worker[w].job
  BY DEF OneMessagePerJob
<1>1. ASSUME NEW j \in Jobs,
             \/ Submit(j) \/ GetRepository(j) \/ GetTracking(j) \/ Precheck(j) \/ Insert(j)
             \/ InsertFails(j) \/ MarkEnqueueFailed(j) \/ MarkEnqueueFailedFails(j)
      PROVE  Goal
  <2>1. UNCHANGED <<queue, orphaned, worker>>
    BY <1>1
    DEF Submit, GetRepository, GetTracking, Precheck, Insert, InsertFails,
        MarkEnqueueFailed, MarkEnqueueFailedFails
  <2>2. \A k \in Jobs : post[k].phase \in {"mark_failed", "done"}
                           => post'[k].phase \in {"mark_failed", "done"}
    BY <1>1, GotoEffect, AnswerEffect
    DEF Submit, GetRepository, GetTracking, Precheck, Insert, InsertFails,
        MarkEnqueueFailed, MarkEnqueueFailedFails, PostPhases, Answers
  <2>3. QED
    BY <1>0, <2>1, <2>2 DEF Unsent
<1>2. ASSUME NEW j \in Jobs, Enqueue(j) \/ EnqueueFails(j) PROVE Goal
  <2>1. /\ UNCHANGED <<orphaned, worker>>
        /\ queue' = queue \/ queue' = queue \cup {j}
        /\ post[j].phase = "enqueue"
    BY <1>2 DEF Enqueue, EnqueueFails
  <2>2. /\ \A k \in Jobs : k # j => post'[k] = post[k]
        /\ post'[j].phase \in {"mark_failed", "done"}
    BY <1>2, GotoEffect, AnswerEffect DEF Enqueue, EnqueueFails, PostPhases, Answers
  <2>3. QED
    BY <1>0, <2>1, <2>2 DEF Unsent
<1>3. ASSUME NEW j \in Jobs, Redeliver(j) PROVE Goal
  BY <1>0, <1>3 DEF Redeliver, Unsent
<1>4. ASSUME NEW w \in Workers, Take(w) PROVE Goal
  <2>1. PICK j \in queue : /\ queue' = queue \ {j}
                           /\ worker' = [worker EXCEPT ![w] = Received(j)]
    BY <1>4 DEF Take
  <2>2. /\ \A v \in Workers : v # w => worker'[v] = worker[v]
        /\ worker'[w].job = j
        /\ worker'[w].phase = "load"
    BY <2>1, TakeEffect
  <2>3. orphaned' = orphaned /\ post' = post
    BY <1>4 DEF Take
  <2>4. QED
    BY <1>0, <2>1, <2>2, <2>3 DEF Unsent
<1>5. ASSUME NEW w \in Workers, WorkerLocal(w) PROVE Goal
  BY <1>0, <1>5, WorkerStepEffect DEF Unsent
<1>6. ASSUME NEW w \in Workers, Ack(w) \/ Interrupt(w) PROVE Goal
  <2>1. /\ \A v \in Workers : v # w => worker'[v] = worker[v]
        /\ worker'[w].owns = FALSE
    BY <1>6, IdleEffect DEF Ack, Interrupt
  <2>2. UNCHANGED <<queue, orphaned, post>>
    BY <1>6 DEF Ack, Interrupt
  <2>3. QED
    BY <1>0, <2>1, <2>2 DEF Unsent
<1>7. ASSUME NEW w \in Workers, WorkerCrash(w) PROVE Goal
  <2>1. /\ \A v \in Workers : v # w => worker'[v] = worker[v]
        /\ worker'[w].owns = FALSE
    BY <1>7, IdleEffect DEF WorkerCrash
  <2>2. /\ queue' = queue /\ post' = post
        /\ \/ orphaned' = orphaned
           \/ worker[w].owns /\ orphaned' = orphaned \cup {worker[w].job}
    BY <1>7 DEF WorkerCrash
  <2>3. QED
    BY <1>0, <2>1, <2>2 DEF Unsent
<1>8. ASSUME NEW w \in Workers, PresumeDead(w) PROVE Goal
  <2>1. /\ \A v \in Workers : v # w => worker'[v] = worker[v]
        /\ worker'[w].owns = FALSE
    BY <1>8, DisownEffect DEF PresumeDead
  <2>2. /\ orphaned' = orphaned /\ post' = post
        /\ worker[w].owns /\ queue' = queue \cup {worker[w].job}
    BY <1>8 DEF PresumeDead
  <2>3. QED
    BY <1>0, <2>1, <2>2 DEF Unsent
<1>9. ASSUME ApiCrash PROVE Goal
  <2>1. \A j \in Jobs : post'[j] = post[j] \/ post'[j].phase = "done"
    BY <1>9, ApiCrashEffect
  <2>2. UNCHANGED <<queue, orphaned, worker>>
    BY <1>9 DEF ApiCrash
  <2>3. QED
    BY <1>0, <2>1, <2>2 DEF Unsent
<1>10. ASSUME RedisLoss PROVE Goal
  <2>1. \A v \in Workers : worker'[v].owns = FALSE
    BY <1>10, RedisLossEffect DEF RedisLoss
  <2>2. queue' = {} /\ orphaned' = {} /\ post' = post
    BY <1>10 DEF RedisLoss
  <2>3. QED
    BY <2>1, <2>2 DEF Unsent
<1>11. ASSUME NEW r \in Repos, Publish(r) \/ DeleteRepository(r) PROVE Goal
  BY <1>0, <1>11 DEF Publish, DeleteRepository, Unsent
<1>12. ASSUME NEW u \in Users, NEW r \in Repos, TrackRepository(u, r) \/ UntrackRepository(u, r)
       PROVE  Goal
  BY <1>0, <1>12 DEF TrackRepository, UntrackRepository, Unsent
<1>13. ASSUME UNCHANGED vars PROVE Goal
  BY <1>0, <1>13 DEF vars, Unsent
<1>14. Goal
  BY <1>1, <1>2, <1>3, <1>4, <1>5, <1>6, <1>7, <1>8, <1>9, <1>10, <1>11, <1>12, <1>13
  DEF Next, HandlerStep, WorkerStep, WorkerLocal, Environment
<1>15. Rows'
  BY RowsStep
<1>16. QED
  BY <1>14, <1>15 DEF OneMessagePerJob, Rows

\* Whatever Redis, the workers and their supervision do, stalls and ambiguous
\* sends included, a job has at most one message, in one place, and none before
\* its row is committed (services/sync_jobs.py:71-93).
THEOREM OneMessage == Spec => []OneMessagePerJob
<1> DEFINE IInv == TypeInv /\ Rows /\ Unsent /\ OneMessagePerJob
<1>1. Init => IInv
  <2>1. SUFFICES ASSUME Init PROVE Rows /\ Unsent /\ OneMessagePerJob
    BY TypeInit
  <2>2. \A w \in Workers : worker[w].phase = "idle" /\ worker[w].owns = FALSE
    BY <2>1 DEF Init, IdleWorker
  <2>3. QED
    BY <2>1, <2>2 DEF Init, Rows, Unsent, OneMessagePerJob, Busy
<1>2. IInv /\ [Next]_vars => IInv'
  BY TypeStep, RowsStep, MessageStep
<1>3. QED
  BY <1>1, <1>2, PTL DEF Spec

-----------------------------------------------------------------------------
(* Who writes the row and the request of one job. *)

\* A job's row is written by its own request, by a worker that has the job, or
\* by the cascade.
LEMMA RowWriterOf ==
  ASSUME TypeInv, [Next]_vars, NEW j \in Jobs
  PROVE  \/ jobs'[j] = jobs[j]
         \/ Insert(j) \/ MarkEnqueueFailed(j)
         \/ \E w \in Workers : /\ worker[w].job = j
                               /\ Claim(w) \/ MarkSucceeded(w) \/ MarkFailed(w)
         \/ \E r \in Repos : DeleteRepository(r)
<1> USE DEF TypeInv, TypeOK, HoldsJob
<1>1. ASSUME NEW k \in Jobs, k # j, Insert(k) PROVE jobs'[j] = jobs[j]
  <2>1. github[post[k].repo] \in 0 .. MaxVersion
    BY DEF PostHandler
  <2>2. QED
    BY <1>1, <2>1, InsertRowEffect DEF Insert
<1>2. ASSUME NEW k \in Jobs, k # j, MarkEnqueueFailed(k) PROVE jobs'[j] = jobs[j]
  BY <1>2, SetStatusEffect DEF MarkEnqueueFailed, Statuses, ErrorCodes
<1>3. ASSUME NEW w \in Workers, worker[w].job # j, Claim(w) \/ MarkSucceeded(w) \/ MarkFailed(w)
      PROVE  jobs'[j] = jobs[j]
  <2>1. worker[w].job \in Jobs /\ worker[w].error \in ErrorCodes
    BY <1>3 DEF Claim, MarkSucceeded, MarkFailed, WorkerState
  <2>2. QED
    BY <1>3, <2>1, ClaimRowEffect, SucceedRowEffect, SetStatusEffect
    DEF Claim, MarkSucceeded, MarkFailed, Statuses
<1>4. QED
  BY <1>1, <1>2, <1>3, RowWriters

\* A request is written by its own handler, or cut off with all the others.
LEMMA HandlerOf ==
  ASSUME TypeInv, [Next]_vars, NEW j \in Jobs
  PROVE  post'[j] = post[j] \/ Submit(j) \/ HandlerStep(j) \/ ApiCrash
<1> USE DEF TypeInv, TypeOK
<1>1. ASSUME NEW k \in Jobs, k # j, Submit(k) \/ HandlerStep(k) PROVE post'[j] = post[j]
  BY <1>1, GotoEffect, AnswerEffect
  DEF Submit, HandlerStep, GetRepository, GetTracking, Precheck, Insert, InsertFails,
      Enqueue, EnqueueFails, MarkEnqueueFailed, MarkEnqueueFailedFails, PostPhases, Answers
<1>2. CASE UNCHANGED post
  BY <1>2
<1>3. QED
  BY <1>1, <1>2
  DEF Next, vars, Redeliver, Take, WorkerStep, LoadJob, LoadRepository, LoadFails, Claim,
      ClaimFails, Fetch, FetchFails, Persist, PersistFails, MarkSucceeded, MarkFailed,
      MarkFails, Ack, workerUnchanged, Environment, Publish, DeleteRepository,
      TrackRepository, UntrackRepository, RedisLoss, WorkerCrash, PresumeDead, Interrupt

\* A worker's coroutine is run by itself, and touched by others only when its
\* message is taken away.
LEMMA WorkerOf ==
  ASSUME TypeInv, [Next]_vars, NEW w \in Workers
  PROVE  \/ WorkerLocal(w) \/ Take(w) \/ Ack(w) \/ Interrupt(w) \/ WorkerCrash(w)
         \/ PresumeDead(w) \/ RedisLoss
         \/ worker'[w] = worker[w]
<1> USE DEF TypeInv, TypeOK
<1>1. ASSUME NEW v \in Workers, v # w, WorkerLocal(v) PROVE worker'[w] = worker[w]
  BY <1>1, WorkerStepEffect
<1>2. ASSUME NEW v \in Workers, v # w, Take(v) PROVE worker'[w] = worker[w]
  BY <1>2, TakeEffect DEF Take
<1>3. ASSUME NEW v \in Workers, v # w, Ack(v) \/ WorkerCrash(v) \/ Interrupt(v)
      PROVE  worker'[w] = worker[w]
  BY <1>3, IdleEffect DEF Ack, WorkerCrash, Interrupt
<1>4. ASSUME NEW v \in Workers, v # w, PresumeDead(v) PROVE worker'[w] = worker[w]
  BY <1>4, DisownEffect DEF PresumeDead
<1>5. CASE UNCHANGED worker
  BY <1>5
<1>6. QED
  BY <1>1, <1>2, <1>3, <1>4, <1>5
  DEF Next, vars, HandlerStep, WorkerStep, WorkerLocal, Environment, Submit, Redeliver,
      GetRepository, GetTracking, Precheck, Insert, InsertFails, Enqueue, EnqueueFails,
      MarkEnqueueFailed, MarkEnqueueFailedFails, Publish, DeleteRepository,
      TrackRepository, UntrackRepository, ApiCrash

\* A request has an answer exactly when its handler is done.
Answered == \A j \in Jobs : post[j].phase = "done" <=> post[j].answer # "none"

\* A handler answers when, and only when, it ends.
LEMMA AnsweredStep ==
  ASSUME TypeInv, Answered, [Next]_vars
  PROVE  Answered'
<1> SUFFICES ASSUME NEW j \in Jobs PROVE post'[j].phase = "done" <=> post'[j].answer # "none"
  BY DEF Answered
<1> USE DEF TypeInv, TypeOK, Answered
<1>1. CASE post'[j] = post[j]
  BY <1>1
<1>2. CASE Submit(j) \/ HandlerStep(j)
  BY <1>2, GotoEffect, AnswerEffect
  DEF Submit, HandlerStep, GetRepository, GetTracking, Precheck, Insert, InsertFails,
      Enqueue, EnqueueFails, MarkEnqueueFailed, MarkEnqueueFailedFails, PostPhases, Answers
<1>3. CASE ApiCrash
  BY <1>3, ApiCrashEffect
<1>4. QED
  BY <1>1, <1>2, <1>3, HandlerOf

\* What a user was told is not taken back: an answered request is left alone.
LEMMA AnswerStays ==
  ASSUME TypeInv, [Next]_vars, NEW j \in Jobs, post[j].phase = "done"
  PROVE  post'[j] = post[j]
<1> USE DEF TypeInv, TypeOK
<1>1. ~(Submit(j) \/ HandlerStep(j))
  BY DEF Submit, HandlerStep, GetRepository, GetTracking, Precheck, Insert, InsertFails,
      Enqueue, EnqueueFails, MarkEnqueueFailed, MarkEnqueueFailedFails
<1>2. CASE ApiCrash
  BY <1>2, ApiCrashEffect
<1>3. QED
  BY <1>1, <1>2, HandlerOf

-----------------------------------------------------------------------------
(* A running job is in somebody's hands. *)

Recording == {"fetch", "persist", "succeed", "fail"}

\* Without crashes, cancellations and failed recordings, a coroutine that has
\* claimed its job gives it up only by recording its outcome.
LEMMA RecorderStays ==
  ASSUME TypeInv, [Next]_vars, NEW w \in Workers, worker[w].phase \in Recording,
         {"worker_crash", "worker_interrupt", "db_mark_succeeded", "db_mark_failed"}
            \cap Faults = {}
  PROVE  \/ MarkSucceeded(w) \/ MarkFailed(w)
         \/ worker'[w].job = worker[w].job /\ worker'[w].phase \in Recording
<1> USE DEF TypeInv, TypeOK, Recording
<1>1. CASE Fetch(w) \/ FetchFails(w) \/ Persist(w) \/ PersistFails(w)
  <2>1. worker'[w].job = worker[w].job
    BY <1>1, WorkerStepEffect DEF WorkerLocal
  <2>2. CASE Fetch(w)
    BY <2>1, <2>2 DEF Fetch, WorkerState
  <2>3. CASE FetchFails(w) \/ PersistFails(w)
    BY <2>1, <2>3, FailWithEffect DEF FetchFails, PersistFails, ErrorCodes
  <2>4. CASE Persist(w)
    BY <2>1, <2>4, FailWithEffect, ProceedEffect DEF Persist, ErrorCodes, WorkerPhases
  <2>5. QED
    BY <1>1, <2>2, <2>3, <2>4
<1>2. ~(\/ LoadJob(w) \/ LoadRepository(w) \/ LoadFails(w) \/ Claim(w) \/ ClaimFails(w)
        \/ MarkFails(w) \/ Ack(w) \/ Take(w) \/ WorkerCrash(w) \/ Interrupt(w))
  BY DEF LoadJob, LoadRepository, LoadFails, Claim, ClaimFails, MarkFails, Ack, Take,
         WorkerCrash, Interrupt
<1>3. ASSUME PresumeDead(w) PROVE worker'[w].phase = worker[w].phase /\ worker'[w].job = worker[w].job
  BY <1>3, DisownEffect DEF PresumeDead
<1>4. CASE RedisLoss
  BY <1>4, RedisLossEffect DEF RedisLoss
<1>5. QED
  BY <1>1, <1>2, <1>3, <1>4, WorkerOf DEF WorkerLocal

\* As long as workers live and can record what happened, a job that is running
\* is in the hands of a worker that will, even when its message was lost, sent
\* twice or given to two of them (worker/tasks.py:115-152).
THEOREM RunningHeld ==
  ASSUME {"worker_crash", "worker_interrupt", "db_mark_succeeded", "db_mark_failed"}
            \cap Faults = {}
  PROVE  Spec => []RunningIsHeld
<1>1. Init => RunningIsHeld
  BY DEF Init, RunningIsHeld
<1>2. TypeInv /\ RunningIsHeld /\ [Next]_vars => RunningIsHeld'
  <2> SUFFICES ASSUME TypeInv, RunningIsHeld, [Next]_vars,
                      NEW j \in Jobs, jobs'[j].status = "running"
               PROVE  \E w \in Workers : worker'[w].job = j /\ worker'[w].phase \in Recording
    BY DEF RunningIsHeld, Recording
  <2> USE DEF TypeInv, TypeOK
  <2>1. ASSUME NEW w \in Workers, worker[w].job = j, Claim(w), jobs'[j] # jobs[j]
        PROVE  worker'[w].job = j /\ worker'[w].phase \in Recording
    BY <2>1, ProceedEffect DEF Claim, WorkerPhases, Recording
  <2>2. ASSUME NEW w \in Workers, worker[w].job = j, MarkSucceeded(w) \/ MarkFailed(w)
        PROVE  FALSE
    <3>1. worker[w].error \in ErrorCodes
      BY DEF WorkerState
    <3>2. QED
      BY <2>2, <3>1, SucceedRowEffect, SetStatusEffect DEF MarkSucceeded, MarkFailed, Statuses
  <2>3. ~Insert(j) \/ jobs'[j] = jobs[j]
    <3>1. github[post[j].repo] \in 0 .. MaxVersion
      BY DEF PostHandler
    <3>2. QED
      BY <3>1, InsertRowEffect DEF Insert
  <2>4. ~MarkEnqueueFailed(j) \/ jobs'[j] = jobs[j]
    BY SetStatusEffect DEF MarkEnqueueFailed, Statuses, ErrorCodes
  <2>5. ASSUME NEW r \in Repos, DeleteRepository(r) PROVE jobs'[j] = jobs[j]
    BY <2>5, DeleteEffect
  <2>6. CASE jobs'[j] = jobs[j]
    <3>1. PICK w \in Workers : worker[w].job = j /\ worker[w].phase \in Recording
      BY <2>6 DEF RunningIsHeld, Recording
    <3>2. QED
      BY <2>2, <3>1, RecorderStays
  <2>7. QED
    BY <2>1, <2>2, <2>3, <2>4, <2>5, <2>6, RowWriterOf
<1>3. QED
  BY TypeInit, TypeStep, <1>1, <1>2, PTL DEF Spec

-----------------------------------------------------------------------------
(* A queued job is deliverable. *)

Pending == {"load", "load_repository", "claim", "fail"}

\* What a queued job waits for: its message, its handler, or the worker in whose
\* ack set its message is; or it was never announced.
AwaitedBy(j) ==
    \/ j \in queue \cup orphaned
    \/ post[j].phase \in {"enqueue", "mark_failed"}
    \/ post[j].answer \in {"lost", "500"}
    \/ \E w \in Workers : worker[w].job = j /\ worker[w].owns /\ worker[w].phase \in Pending

Deliverable == \A j \in Jobs : jobs[j].status = "queued" => AwaitedBy(j)

\* A handler that is at work on a committed job hands it on, records the failure,
\* or is cut off.
LEMMA HandlerHandsOn ==
  ASSUME TypeInv, [Next]_vars, NEW j \in Jobs, post[j].phase \in {"enqueue", "mark_failed"},
         jobs'[j].status = "queued"
  PROVE  AwaitedBy(j)'
<1> USE DEF TypeInv, TypeOK, AwaitedBy
<1>1. CASE post'[j] = post[j]
  BY <1>1
<1>2. CASE ApiCrash
  BY <1>2, ApiCrashEffect
<1>3. CASE Enqueue(j)
  BY <1>3 DEF Enqueue
<1>4. CASE EnqueueFails(j)
  BY <1>4, GotoEffect DEF EnqueueFails, PostPhases
<1>5. CASE MarkEnqueueFailed(j)
  BY <1>5, SetStatusEffect DEF MarkEnqueueFailed, Statuses, ErrorCodes
<1>6. CASE MarkEnqueueFailedFails(j)
  BY <1>6, AnswerEffect DEF MarkEnqueueFailedFails, Answers
<1>7. QED
  BY <1>1, <1>2, <1>3, <1>4, <1>5, <1>6, HandlerOf
  DEF Submit, HandlerStep, GetRepository, GetTracking, Precheck, Insert, InsertFails

\* A message leaves the queue for a worker that has to acknowledge it.
LEMMA MessageHandedOn ==
  ASSUME TypeInv, [Next]_vars, NEW j \in queue \cup orphaned, "redis_loss" \notin Faults
  PROVE  AwaitedBy(j)'
<1> USE DEF TypeInv, TypeOK, AwaitedBy, dbVars, workerUnchanged
<1>1. ASSUME NEW w \in Workers, Take(w) PROVE AwaitedBy(j)'
  <2>1. PICK k \in queue : /\ queue' = queue \ {k}
                           /\ worker' = [worker EXCEPT ![w] = Received(k)]
    BY <1>1 DEF Take
  <2>2. worker'[w].job = k /\ worker'[w].owns /\ worker'[w].phase = "load"
    BY <2>1, TakeEffect
  <2>3. orphaned' = orphaned
    BY <1>1 DEF Take
  <2>4. QED
    BY <2>1, <2>2, <2>3 DEF Pending
<1>2. ASSUME NEW k \in Jobs, Redeliver(k) PROVE AwaitedBy(j)'
  BY <1>2 DEF Redeliver
<1>3. CASE queue \subseteq queue' /\ orphaned \subseteq orphaned'
  BY <1>3
<1>4. QED
  BY <1>1, <1>2, <1>3
  DEF Next, vars, HandlerStep, WorkerStep, Submit, GetRepository, GetTracking, Precheck, Insert,
      InsertFails, Enqueue, EnqueueFails, MarkEnqueueFailed, MarkEnqueueFailedFails,
      LoadJob, LoadRepository, LoadFails, Claim, ClaimFails, Fetch, FetchFails, Persist,
      PersistFails, MarkSucceeded, MarkFailed, MarkFails, Ack, Environment, Publish,
      DeleteRepository, TrackRepository, UntrackRepository, ApiCrash, RedisLoss,
      WorkerCrash, PresumeDead, Interrupt

\* A worker gives a queued job up only with its message: by dying, or to the
\* supervision that takes it for dead.
LEMMA WorkerHandsOn ==
  ASSUME TypeInv, Rows, [Next]_vars, NEW j \in Jobs, NEW w \in Workers,
         worker[w].job = j, worker[w].owns, worker[w].phase \in Pending,
         jobs[j].status = "queued", jobs'[j].status = "queued",
         {"redis_loss", "worker_interrupt", "db_mark_failed"} \cap Faults = {}
  PROVE  AwaitedBy(j)'
<1> USE DEF TypeInv, TypeOK, HoldsJob, AwaitedBy, Pending
<1>1. CASE WorkerLocal(w)
  <2>1. worker'[w].job = j /\ worker'[w].owns
    BY <1>1, WorkerStepEffect
  <2>2. CASE LoadJob(w)
    BY <2>1, <2>2, ProceedEffect DEF LoadJob, WorkerPhases
  <2>3. CASE LoadRepository(w)
    <3>1. TargetOf(w) \in repositories
      BY DEF TargetOf, Rows
    <3>2. QED
      BY <2>1, <2>3, <3>1, ProceedEffect DEF LoadRepository, WorkerPhases
  <2>4. CASE LoadFails(w) \/ ClaimFails(w)
    BY <2>1, <2>4, FailWithEffect DEF LoadFails, ClaimFails, ErrorCodes
  <2>5. CASE Claim(w)
    BY <2>1, <2>5, FailWithEffect, ClaimRowEffect DEF Claim, ErrorCodes
  <2>6. CASE MarkFailed(w)
    <3>1. worker[w].error \in ErrorCodes
      BY DEF WorkerState
    <3>2. QED
      BY <2>6, <3>1, SetStatusEffect DEF MarkFailed, Statuses
  <2>7. QED
    BY <1>1, <2>2, <2>3, <2>4, <2>5, <2>6
    DEF WorkerLocal, Fetch, FetchFails, Persist, PersistFails, MarkSucceeded, MarkFails
<1>2. CASE WorkerCrash(w)
  BY <1>2 DEF WorkerCrash
<1>3. CASE PresumeDead(w)
  BY <1>3 DEF PresumeDead
<1>4. ~(Take(w) \/ Ack(w) \/ Interrupt(w) \/ RedisLoss)
  BY DEF Take, Ack, Interrupt, RedisLoss
<1>5. CASE worker'[w] = worker[w]
  BY <1>5
<1>6. QED
  BY <1>1, <1>2, <1>3, <1>4, <1>5, WorkerOf

\* As long as Redis keeps its messages, no coroutine is cancelled and failures
\* can be recorded, no queued job is a phantom, whichever process dies or is
\* taken for dead, and also when a send reported as failed was not
\* (services/sync_jobs.py:85-106).
THEOREM QueuedDeliverable ==
  ASSUME {"redis_loss", "worker_interrupt", "db_mark_failed"} \cap Faults = {}
  PROVE  Spec => []QueuedIsDeliverable
<1> DEFINE IInv == TypeInv /\ Rows /\ Answered /\ Deliverable
<1>1. Init => IInv
  <2>1. SUFFICES ASSUME Init PROVE Rows /\ Answered /\ Deliverable
    BY TypeInit
  <2>2. \A w \in Workers : worker[w].phase = "idle"
    BY <2>1 DEF Init, IdleWorker
  <2>3. \A j \in Jobs : post[j].phase = "idle" /\ post[j].answer = "none" /\ jobs[j].status = "none"
    BY <2>1 DEF Init
  <2>4. QED
    BY <2>1, <2>2, <2>3 DEF Init, Rows, Answered, Deliverable, Busy
<1>2. IInv /\ [Next]_vars => Deliverable'
  <2> SUFFICES ASSUME IInv, [Next]_vars, NEW j \in Jobs, jobs'[j].status = "queued"
               PROVE  AwaitedBy(j)'
    BY DEF Deliverable
  <2> USE DEF TypeInv, TypeOK, HoldsJob
  <2>1. CASE jobs[j].status = "queued"
    <3>1. CASE post[j].answer \in {"lost", "500"}
      BY <3>1, AnswerStays DEF Answered, AwaitedBy
    <3>2. QED
      BY <2>1, <3>1, HandlerHandsOn, MessageHandedOn, WorkerHandsOn DEF Deliverable, AwaitedBy
  <2>2. CASE jobs[j].status # "queued"
    <3>1. CASE Insert(j)
      BY <2>2, <3>1, GotoEffect DEF Insert, PostPhases, AwaitedBy
    <3>2. ~MarkEnqueueFailed(j)
      BY <2>2, SetStatusEffect DEF MarkEnqueueFailed, Statuses, ErrorCodes
    <3>3. ASSUME NEW w \in Workers, worker[w].job = j, Claim(w) \/ MarkSucceeded(w) \/ MarkFailed(w)
          PROVE  FALSE
      <4>1. worker[w].error \in ErrorCodes
        BY DEF WorkerState
      <4>2. QED
        BY <2>2, <3>3, <4>1, ClaimRowEffect, SucceedRowEffect, SetStatusEffect
        DEF Claim, MarkSucceeded, MarkFailed, Statuses
    <3>4. ASSUME NEW r \in Repos, DeleteRepository(r) PROVE FALSE
      BY <2>2, <3>4, DeleteEffect
    <3>5. QED
      BY <2>2, <3>1, <3>2, <3>3, <3>4, RowWriterOf
  <2>3. QED
    BY <2>1, <2>2
<1>3. IInv /\ [Next]_vars => IInv'
  BY <1>2, TypeStep, RowsStep, AnsweredStep
<1>4. IInv => QueuedIsDeliverable
  BY DEF Deliverable, AwaitedBy, QueuedIsDeliverable, Pending
<1>5. QED
  BY <1>1, <1>3, <1>4, PTL DEF Spec

-----------------------------------------------------------------------------
(* What a user is told. *)

\* Only a job whose request was accepted is ever in Redis or with a worker.
Accepted ==
    \A j \in Jobs : j \in queue \cup orphaned \/ (\E w \in Workers : worker[w].job = j)
        => post[j].answer = "202"

Early == {"idle", "get_repository", "get_tracking", "precheck", "insert"}

\* What the answer of a request says of its row, and that a request which has
\* come no further than its INSERT has none.
Told ==
    \A j \in Jobs :
        /\ post[j].phase \in Early => jobs[j].status = "none"
        /\ post[j].answer \in {"404", "409", "disabled"} => jobs[j].status = "none"
        /\ post[j].answer = "202" => jobs[j].status # "none"
        /\ post[j].answer = "503" =>
               jobs[j].status = "failed" /\ jobs[j].error = "enqueue_failed"

\* A job enters Redis with the acceptance of its request.
LEMMA AcceptedStep ==
  ASSUME TypeInv, Answered, Accepted, [Next]_vars, "enqueue_ambiguous" \notin Faults
  PROVE  Accepted'
<1> SUFFICES ASSUME NEW j \in Jobs,
                    j \in queue' \cup orphaned' \/ (\E w \in Workers : worker'[w].job = j)
             PROVE  post'[j].answer = "202"
  BY DEF Accepted
<1> USE DEF TypeInv, TypeOK, HoldsJob, dbVars, workerUnchanged
<1>1. CASE Enqueue(j)
  BY <1>1, AnswerEffect DEF Enqueue, Answers
<1>2. CASE ~Enqueue(j)
  <2>1. j \in queue' \cup orphaned' => \/ j \in queue \cup orphaned
                                       \/ \E w \in Workers : worker[w].job = j
    BY <1>2
    DEF Next, vars, HandlerStep, WorkerStep, Submit, GetRepository, GetTracking, Precheck,
        Insert, InsertFails, Enqueue, EnqueueFails, MarkEnqueueFailed, MarkEnqueueFailedFails,
        Redeliver, Take, LoadJob, LoadRepository, LoadFails, Claim, ClaimFails, Fetch,
        FetchFails, Persist, PersistFails, MarkSucceeded, MarkFailed, MarkFails, Ack,
        Environment, Publish, DeleteRepository, TrackRepository, UntrackRepository,
        ApiCrash, RedisLoss, WorkerCrash, PresumeDead, Interrupt
  <2>2. ASSUME NEW w \in Workers, worker'[w].job = j PROVE worker[w].job = j \/ j \in queue
    <3>1. CASE WorkerLocal(w)
      BY <2>2, <3>1, WorkerStepEffect
    <3>2. CASE Take(w)
      <4>1. PICK k \in queue : worker' = [worker EXCEPT ![w] = Received(k)]
        BY <3>2 DEF Take
      <4>2. worker'[w].job = k
        BY <4>1, TakeEffect
      <4>3. QED
        BY <2>2, <4>2
    <3>3. CASE Ack(w) \/ Interrupt(w) \/ WorkerCrash(w)
      BY <2>2, <3>3, IdleEffect, NoJobIsNoJob DEF Ack, Interrupt, WorkerCrash
    <3>4. CASE PresumeDead(w)
      BY <2>2, <3>4, DisownEffect DEF PresumeDead
    <3>5. CASE RedisLoss
      BY <2>2, <3>5, RedisLossEffect DEF RedisLoss
    <3>6. QED
      BY <2>2, <3>1, <3>2, <3>3, <3>4, <3>5, WorkerOf
  <2>3. post[j].answer = "202"
    BY <2>1, <2>2 DEF Accepted
  <2>4. QED
    BY <2>3, AnswerStays DEF Answered
<1>3. QED
  BY <1>1, <1>2

\* Rows and answers change together, or in an order that keeps them consistent.
LEMMA ToldStep ==
  ASSUME TypeInv, Rows, Answered, Accepted, Told, [Next]_vars,
         "repository_deleted" \notin Faults
  PROVE  Told'
<1> SUFFICES ASSUME NEW j \in Jobs
             PROVE  /\ post'[j].phase \in Early => jobs'[j].status = "none"
                    /\ post'[j].answer \in {"404", "409", "disabled"} => jobs'[j].status = "none"
                    /\ post'[j].answer = "202" => jobs'[j].status # "none"
                    /\ post'[j].answer = "503" =>
                         jobs'[j].status = "failed" /\ jobs'[j].error = "enqueue_failed"
  BY DEF Told
<1> USE DEF TypeInv, TypeOK, Early, Told
<1>1. CASE Insert(j)
  <2>1. CASE jobs'[j] = jobs[j] /\ Answer(j, "409")
    BY <1>1, <2>1, AnswerEffect DEF Insert, Answers
  <2>2. CASE Goto(j, "enqueue")
    BY <1>1, <2>2, GotoEffect DEF Insert, Answered, PostPhases
  <2>3. QED
    BY <1>1, <2>1, <2>2 DEF Insert
<1>2. CASE MarkEnqueueFailed(j)
  BY <1>2, AnswerEffect, SetStatusEffect
  DEF MarkEnqueueFailed, Answers, Statuses, ErrorCodes
<1>3. ASSUME NEW w \in Workers, worker[w].job = j, Claim(w) \/ MarkSucceeded(w) \/ MarkFailed(w)
      PROVE  jobs'[j].status # "none" /\ post'[j] = post[j] /\ post[j].answer = "202"
  <2>1. jobs'[j].status # "none"
    <3>1. worker[w].error \in ErrorCodes
      BY DEF WorkerState
    <3>2. jobs[j].status # "none"
      BY <1>3 DEF Rows, Busy, Claim, MarkSucceeded, MarkFailed
    <3>3. QED
      BY <1>3, <3>1, <3>2, ClaimRowEffect, SucceedRowEffect, SetStatusEffect
      DEF Claim, MarkSucceeded, MarkFailed, Statuses
  <2>2. post[j].answer = "202"
    BY <1>3 DEF Accepted
  <2>3. QED
    BY <2>1, <2>2, AnswerStays DEF Answered
<1>4. ASSUME NEW r \in Repos, DeleteRepository(r) PROVE FALSE
  BY <1>4 DEF DeleteRepository
<1>5. CASE jobs'[j] = jobs[j]
  <2>1. CASE post'[j] = post[j]
    BY <1>5, <2>1
  <2>2. CASE ApiCrash
    BY <1>5, <2>2, ApiCrashEffect
  <2>3. CASE Submit(j) \/ GetRepository(j) \/ GetTracking(j) \/ Precheck(j) \/ InsertFails(j)
    BY <1>5, <2>3, GotoEffect, AnswerEffect
    DEF Submit, GetRepository, GetTracking, Precheck, InsertFails, PostPhases, Answers, Answered
  <2>4. CASE Enqueue(j)
    BY <1>5, <2>4, AnswerEffect DEF Enqueue, Answers, Rows
  <2>5. CASE EnqueueFails(j)
    BY <1>5, <2>5, GotoEffect DEF EnqueueFails, PostPhases, Answered
  <2>6. CASE MarkEnqueueFailedFails(j)
    BY <1>5, <2>6, AnswerEffect DEF MarkEnqueueFailedFails, Answers
  <2>7. QED
    BY <1>1, <1>2, <2>1, <2>2, <2>3, <2>4, <2>5, <2>6, HandlerOf DEF HandlerStep
<1>6. QED
  BY <1>1, <1>2, <1>3, <1>4, <1>5, RowWriterOf

\* Unless a send reported as failed was not, or the repository is deleted under
\* it, what a user was told of a job stays true, whatever else fails or is
\* delivered twice: refused means that nothing was left behind, accepted that
\* there is a row, 503 that the job failed and that no worker has it or ever
\* will (services/sync_jobs.py:62-106).
THEOREM AnswersKept ==
  ASSUME "enqueue_ambiguous" \notin Faults, "repository_deleted" \notin Faults
  PROVE  Spec => []AnswerMatchesJob
<1> DEFINE IInv == TypeInv /\ Rows /\ Answered /\ Accepted /\ Told
<1>1. Init => IInv
  <2>1. SUFFICES ASSUME Init PROVE Rows /\ Answered /\ Accepted /\ Told
    BY TypeInit
  <2>2. \A w \in Workers : worker[w].phase = "idle" /\ worker[w].job = NoJob
    BY <2>1 DEF Init, IdleWorker
  <2>3. \A j \in Jobs : post[j].phase = "idle" /\ post[j].answer = "none" /\ jobs[j].status = "none"
    BY <2>1 DEF Init
  <2>4. QED
    BY <2>1, <2>2, <2>3, NoJobIsNoJob DEF Init, Rows, Answered, Accepted, Told, Busy
<1>2. IInv /\ [Next]_vars => IInv'
  BY TypeStep, RowsStep, AnsweredStep, AcceptedStep, ToldStep
<1>3. IInv => AnswerMatchesJob
  BY DEF Accepted, Told, AnswerMatchesJob
<1>4. QED
  BY <1>1, <1>2, <1>3, PTL DEF Spec
=============================================================================
