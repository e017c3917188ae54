-------------------------- MODULE SyncJobs_types --------------------------
(***************************************************************************)
(* What each update of SyncJobs does to the record it touches, field by    *)
(* field, and type correctness.  The other proofs about SyncJobs cite      *)
(* these lemmas instead of expanding EXCEPT.                               *)
(***************************************************************************)
EXTENDS SyncJobs, TLAPS

\* What TypeOK needs to be inductive: a worker thread that is not idle holds a
\* job, and only such a worker has a message in its ack set.
HoldsJob ==
    \A w \in Workers :
        /\ worker[w].phase # "idle" => worker[w].job \in Jobs
        /\ worker[w].owns => worker[w].phase # "idle"

TypeInv == TypeOK /\ HoldsJob
\* A handler that goes on keeps its target and touches no other handler.
LEMMA GotoEffect ==
  ASSUME post \in [Jobs -> PostHandler], NEW j \in Jobs, NEW p \in PostPhases, Goto(j, p)
  PROVE  /\ post' \in [Jobs -> PostHandler]
         /\ \A k \in Jobs : k # j => post'[k] = post[k]
         /\ \A k \in Jobs : post'[k].repo = post[k].repo
         /\ post'[j].phase = p
         /\ post'[j].answer = post[j].answer
  BY DEF Goto, PostHandler

\* A handler that answers is done, and touches no other handler.
LEMMA AnswerEffect ==
  ASSUME post \in [Jobs -> PostHandler], NEW j \in Jobs, NEW c \in Answers, Answer(j, c)
  PROVE  /\ post' \in [Jobs -> PostHandler]
         /\ \A k \in Jobs : k # j => post'[k] = post[k]
         /\ \A k \in Jobs : post'[k].repo = post[k].repo
         /\ post'[j].phase = "done"
         /\ post'[j].answer = c
  BY DEF Answer, PostHandler, PostPhases

\* The UPDATE by primary key touches one row.
LEMMA SetStatusEffect ==
  ASSUME jobs \in [Jobs -> JobRow], NEW j \in Jobs, NEW s \in Statuses, NEW e \in ErrorCodes,
         SetStatus(j, s, e)
  PROVE  /\ jobs' \in [Jobs -> JobRow]
         /\ \A k \in Jobs : k # j => jobs'[k] = jobs[k]
         /\ \A k \in Jobs : jobs'[k].asOf = jobs[k].asOf
         /\ jobs'[j].status = s
         /\ jobs'[j].error = e
         /\ jobs'[j].counted = jobs[j].counted
  BY DEF SetStatus, JobRow

\* A coroutine that goes on keeps its job, its data and its message.
LEMMA ProceedEffect ==
  ASSUME worker \in [Workers -> WorkerState], NEW w \in Workers, NEW p \in WorkerPhases,
         Proceed(w, p)
  PROVE  /\ worker' \in [Workers -> WorkerState]
         /\ \A v \in Workers : v # w => worker'[v] = worker[v]
         /\ worker'[w].phase = p
         /\ \A v \in Workers : /\ worker'[v].job = worker[v].job
                               /\ worker'[v].version = worker[v].version
                               /\ worker'[v].error = worker[v].error
                               /\ worker'[v].owns = worker[v].owns
  BY DEF Proceed, WorkerState

\* A coroutine that caught an exception goes to _mark_failed with the same job.
LEMMA FailWithEffect ==
  ASSUME worker \in [Workers -> WorkerState], NEW w \in Workers, NEW e \in ErrorCodes,
         FailWith(w, e)
  PROVE  /\ worker' \in [Workers -> WorkerState]
         /\ \A v \in Workers : v # w => worker'[v] = worker[v]
         /\ worker'[w].phase = "fail"
         /\ worker'[w].error = e
         /\ \A v \in Workers : /\ worker'[v].job = worker[v].job
                               /\ worker'[v].version = worker[v].version
                               /\ worker'[v].owns = worker[v].owns
  BY DEF FailWith, WorkerState, WorkerPhases

\* The INSERT of create_sync_job makes one row queued.
LEMMA InsertRowEffect ==
  ASSUME jobs \in [Jobs -> JobRow], NEW j \in Jobs, NEW v \in 0 .. MaxVersion,
         jobs' = [jobs EXCEPT ![j].status = "queued", ![j].asOf = v]
  PROVE  /\ jobs' \in [Jobs -> JobRow]
         /\ \A k \in Jobs : k # j => jobs'[k] = jobs[k]
         /\ jobs'[j].status = "queued"
         /\ jobs'[j].asOf = v
         /\ jobs'[j].error = jobs[j].error
  BY DEF JobRow, Statuses

\* The UPDATE of _mark_running makes one row running.
LEMMA ClaimRowEffect ==
  ASSUME jobs \in [Jobs -> JobRow], NEW j \in Jobs,
         jobs' = [jobs EXCEPT ![j].status = "running"]
  PROVE  /\ jobs' \in [Jobs -> JobRow]
         /\ \A k \in Jobs : k # j => jobs'[k] = jobs[k]
         /\ \A k \in Jobs : jobs'[k].asOf = jobs[k].asOf
         /\ jobs'[j].status = "running"
         /\ jobs'[j].error = jobs[j].error
  BY DEF JobRow, Statuses

\* The UPDATE of _mark_succeeded makes one row succeeded.
LEMMA SucceedRowEffect ==
  ASSUME jobs \in [Jobs -> JobRow], NEW j \in Jobs,
         jobs' = [jobs EXCEPT ![j].status = "succeeded", ![j].counted = TRUE]
  PROVE  /\ jobs' \in [Jobs -> JobRow]
         /\ \A k \in Jobs : k # j => jobs'[k] = jobs[k]
         /\ \A k \in Jobs : jobs'[k].asOf = jobs[k].asOf
         /\ jobs'[j].status = "succeeded"
         /\ jobs'[j].error = jobs[j].error
  BY DEF JobRow, Statuses

\* A worker that is done, cancelled or dead holds nothing.
LEMMA IdleEffect ==
  ASSUME worker \in [Workers -> WorkerState], NEW w \in Workers,
         worker' = [worker EXCEPT ![w] = IdleWorker]
  PROVE  /\ worker' \in [Workers -> WorkerState]
         /\ \A v \in Workers : v # w => worker'[v] = worker[v]
         /\ worker'[w].phase = "idle"
         /\ worker'[w].job = NoJob
         /\ worker'[w].owns = FALSE
<1>1. IdleWorker \in WorkerState
  BY Bounds DEF IdleWorker, WorkerState, WorkerPhases, ErrorCodes
<1>2. IdleWorker.phase = "idle" /\ IdleWorker.job = NoJob /\ IdleWorker.owns = FALSE
  BY DEF IdleWorker
<1>3. QED
  BY <1>1, <1>2

\* A worker that receives a message holds its job and nothing else.
LEMMA TakeEffect ==
  ASSUME worker \in [Workers -> WorkerState], NEW w \in Workers, NEW j \in Jobs,
         worker' = [worker EXCEPT ![w] = Received(j)]
  PROVE  /\ worker' \in [Workers -> WorkerState]
         /\ \A v \in Workers : v # w => worker'[v] = worker[v]
         /\ worker'[w].phase = "load"
         /\ worker'[w].job = j
         /\ worker'[w].owns = TRUE
<1>1. Received(j) \in WorkerState
  BY Bounds DEF Received, WorkerState, WorkerPhases, ErrorCodes
<1>2. Received(j).phase = "load" /\ Received(j).job = j /\ Received(j).owns = TRUE
  BY DEF Received
<1>3. QED
  BY <1>1, <1>2

\* The fetch keeps the version it read from GitHub.
LEMMA FetchEffect ==
  ASSUME worker \in [Workers -> WorkerState], NEW w \in Workers, NEW v \in 0 .. MaxVersion,
         worker' = [worker EXCEPT ![w].phase = "persist", ![w].version = v]
  PROVE  /\ worker' \in [Workers -> WorkerState]
         /\ \A x \in Workers : x # w => worker'[x] = worker[x]
         /\ worker'[w].phase = "persist"
         /\ worker'[w].version = v
         /\ \A x \in Workers : /\ worker'[x].job = worker[x].job
                               /\ worker'[x].error = worker[x].error
                               /\ worker'[x].owns = worker[x].owns
  BY DEF WorkerState, WorkerPhases

\* Losing the message changes nothing else in the coroutine.
LEMMA DisownEffect ==
  ASSUME worker \in [Workers -> WorkerState], NEW w \in Workers,
         worker' = [worker EXCEPT ![w].owns = FALSE]
  PROVE  /\ worker' \in [Workers -> WorkerState]
         /\ \A v \in Workers : v # w => worker'[v] = worker[v]
         /\ worker'[w].owns = FALSE
         /\ \A v \in Workers : /\ worker'[v].phase = worker[v].phase
                               /\ worker'[v].job = worker[v].job
                               /\ worker'[v].version = worker[v].version
                               /\ worker'[v].error = worker[v].error
  BY DEF WorkerState

\* Neither does a restart of Redis.
LEMMA RedisLossEffect ==
  ASSUME worker \in [Workers -> WorkerState],
         worker' = [w \in Workers |-> [worker[w] EXCEPT !.owns = FALSE]]
  PROVE  /\ worker' \in [Workers -> WorkerState]
         /\ \A v \in Workers : /\ worker'[v].phase = worker[v].phase
                               /\ worker'[v].job = worker[v].job
                               /\ worker'[v].version = worker[v].version
                               /\ worker'[v].error = worker[v].error
                               /\ worker'[v].owns = FALSE
<1>1. \A v \in Workers : worker[v] \in WorkerState
  OBVIOUS
<1>2. \A v \in Workers : [worker[v] EXCEPT !.owns = FALSE] \in WorkerState
  BY <1>1 DEF WorkerState
<1>3. \A v \in Workers : LET x == [worker[v] EXCEPT !.owns = FALSE] IN
        /\ x.phase = worker[v].phase
        /\ x.job = worker[v].job
        /\ x.version = worker[v].version
        /\ x.error = worker[v].error
        /\ x.owns = FALSE
  BY <1>1 DEF WorkerState
<1>4. QED
  BY <1>2, <1>3

\* The death of the API process ends every handler that was at work.
LEMMA ApiCrashEffect ==
  ASSUME post \in [Jobs -> PostHandler], ApiCrash
  PROVE  /\ post' \in [Jobs -> PostHandler]
         /\ \A j \in Jobs : /\ post'[j].repo = post[j].repo
                            /\ \/ post'[j] = post[j]
                               \/ /\ post[j].phase \notin {"idle", "done"}
                                  /\ post'[j].phase = "done"
                                  /\ post'[j].answer = "lost"
<1>1. \A j \in Jobs : post[j] \in PostHandler
  OBVIOUS
<1>2. \A j \in Jobs : LET x == [post[j] EXCEPT !.phase = "done", !.answer = "lost"] IN
        /\ x \in PostHandler
        /\ x.repo = post[j].repo
        /\ x.phase = "done"
        /\ x.answer = "lost"
  BY <1>1 DEF PostHandler, PostPhases, Answers
<1>3. QED
  BY <1>1, <1>2 DEF ApiCrash

\* Deleting a repository deletes its jobs' rows and no other.
LEMMA DeleteEffect ==
  ASSUME jobs \in [Jobs -> JobRow], NEW r \in Repos, DeleteRepository(r)
  PROVE  /\ jobs' \in [Jobs -> JobRow]
         /\ \A j \in Jobs :
              /\ jobs'[j].asOf = jobs[j].asOf
              /\ jobs[j].status # "none" /\ post[j].repo = r => jobs'[j].status = "deleted"
              /\ jobs[j].status = "none" \/ post[j].repo # r => jobs'[j] = jobs[j]
<1>1. \A j \in Jobs : jobs[j] \in JobRow
  OBVIOUS
<1>2. \A j \in Jobs : LET x == [jobs[j] EXCEPT !.status = "deleted"] IN
        x \in JobRow /\ x.asOf = jobs[j].asOf /\ x.status = "deleted"
  BY <1>1 DEF JobRow, Statuses
<1>3. QED
  BY <1>1, <1>2 DEF DeleteRepository

\* The initial state is well typed.
LEMMA TypeInit == Init => TypeInv
  BY Bounds, NoJobIsNoJob
  DEF Init, TypeInv, TypeOK, HoldsJob, IdleWorker, JobRow, PostHandler,
      WorkerState, Statuses, ErrorCodes, PostPhases, Answers, WorkerPhases

\* Every step of the program and of its environment keeps the types.
LEMMA TypeStep == TypeInv /\ [Next]_vars => TypeInv'
<1> SUFFICES ASSUME TypeInv, [Next]_vars PROVE TypeInv'
  OBVIOUS
<1> USE Bounds, NoJobIsNoJob DEF TypeInv, TypeOK, HoldsJob, dbVars, workerUnchanged
<1>1. ASSUME NEW j \in Jobs, Submit(j) PROVE TypeInv'
  BY <1>1, GotoEffect, AnswerEffect DEF Submit, PostPhases, Answers
<1>2. ASSUME NEW j \in Jobs, GetRepository(j) PROVE TypeInv'
  BY <1>2, GotoEffect, AnswerEffect DEF GetRepository, PostPhases, Answers
<1>3. ASSUME NEW j \in Jobs, GetTracking(j) PROVE TypeInv'
  BY <1>3, GotoEffect, AnswerEffect DEF GetTracking, PostPhases, Answers
<1>4. ASSUME NEW j \in Jobs, Precheck(j) PROVE TypeInv'
  BY <1>4, GotoEffect, AnswerEffect DEF Precheck, PostPhases, Answers
<1>5. ASSUME NEW j \in Jobs, InsertFails(j) PROVE TypeInv'
  BY <1>5, GotoEffect, AnswerEffect DEF InsertFails, PostPhases, Answers
<1>6. ASSUME NEW j \in Jobs, Enqueue(j) PROVE TypeInv'
  BY <1>6, GotoEffect, AnswerEffect DEF Enqueue, PostPhases, Answers
<1>7. ASSUME NEW j \in Jobs, EnqueueFails(j) PROVE TypeInv'
  BY <1>7, GotoEffect, AnswerEffect DEF EnqueueFails, PostPhases, Answers
<1>8. ASSUME NEW j \in Jobs, MarkEnqueueFailedFails(j) PROVE TypeInv'
  BY <1>8, GotoEffect, AnswerEffect DEF MarkEnqueueFailedFails, PostPhases, Answers
<1>9. ASSUME NEW j \in Jobs, Redeliver(j) PROVE TypeInv'
  BY <1>9 DEF Redeliver
<1>10. ASSUME NEW j \in Jobs, Insert(j) PROVE TypeInv'
  <2>1. post[j].repo \in Repos
    BY DEF PostHandler
  <2>0. github[post[j].repo] \in 0 .. MaxVersion
    BY <2>1
  <2>2. jobs' \in [Jobs -> JobRow]
    BY <1>10, <2>1, <2>0, InsertRowEffect DEF Insert, Statuses
  <2>3. QED
    BY <1>10, <2>2, GotoEffect, AnswerEffect DEF Insert, PostPhases, Answers
<1>11. ASSUME NEW j \in Jobs, MarkEnqueueFailed(j) PROVE TypeInv'
  BY <1>11, AnswerEffect, SetStatusEffect DEF MarkEnqueueFailed, PostPhases, Answers, Statuses, ErrorCodes
<1>12. ASSUME NEW w \in Workers, LoadJob(w) PROVE TypeInv'
  BY <1>12, ProceedEffect, FailWithEffect DEF LoadJob, WorkerPhases, ErrorCodes
<1>13. ASSUME NEW w \in Workers, LoadRepository(w) PROVE TypeInv'
  BY <1>13, ProceedEffect, FailWithEffect DEF LoadRepository, WorkerPhases, ErrorCodes
<1>14. ASSUME NEW w \in Workers, LoadFails(w) PROVE TypeInv'
  BY <1>14, ProceedEffect, FailWithEffect DEF LoadFails, WorkerPhases, ErrorCodes
<1>15. ASSUME NEW w \in Workers, ClaimFails(w) PROVE TypeInv'
  BY <1>15, ProceedEffect, FailWithEffect DEF ClaimFails, WorkerPhases, ErrorCodes
<1>16. ASSUME NEW w \in Workers, FetchFails(w) PROVE TypeInv'
  BY <1>16, ProceedEffect, FailWithEffect DEF FetchFails, WorkerPhases, ErrorCodes
<1>17. ASSUME NEW w \in Workers, PersistFails(w) PROVE TypeInv'
  BY <1>17, ProceedEffect, FailWithEffect DEF PersistFails, WorkerPhases, ErrorCodes
<1>18. ASSUME NEW w \in Workers, MarkFails(w) PROVE TypeInv'
  BY <1>18, ProceedEffect, FailWithEffect DEF MarkFails, WorkerPhases, ErrorCodes
<1>19. ASSUME NEW w \in Workers, Claim(w) PROVE TypeInv'
  BY <1>19, ProceedEffect, FailWithEffect, ClaimRowEffect DEF Claim, WorkerPhases, ErrorCodes, Statuses
<1>20. ASSUME NEW w \in Workers, MarkSucceeded(w) PROVE TypeInv'
  BY <1>20, ProceedEffect, SucceedRowEffect DEF MarkSucceeded, WorkerPhases, Statuses
<1>21. ASSUME NEW w \in Workers, MarkFailed(w) PROVE TypeInv'
  <2>1. worker[w].error \in ErrorCodes
    BY DEF WorkerState
  <2>2. QED
    BY <1>21, <2>1, ProceedEffect, SetStatusEffect DEF MarkFailed, WorkerPhases, Statuses
<1>22. ASSUME NEW w \in Workers, Persist(w) PROVE TypeInv'
  <2>1. worker[w].version \in 0 .. MaxVersion
    BY DEF WorkerState
  <2>2. QED
    BY <1>22, <2>1, ProceedEffect, FailWithEffect DEF Persist, WorkerPhases, ErrorCodes
<1>23. ASSUME NEW w \in Workers, Take(w) PROVE TypeInv'
  <2>1. PICK j \in queue : worker' = [worker EXCEPT ![w] = Received(j)]
    BY <1>23 DEF Take
  <2>2. worker' \in [Workers -> WorkerState] /\ HoldsJob'
    BY <2>1, TakeEffect
  <2>3. QED
    BY <1>23, <2>2 DEF Take
<1>24. ASSUME NEW w \in Workers, WorkerCrash(w) PROVE TypeInv'
  <2>1. orphaned' \subseteq Jobs
    BY <1>24 DEF WorkerCrash
  <2>2. crashes' \in 0 .. MaxCrashes
    BY <1>24 DEF WorkerCrash
  <2>3. worker' \in [Workers -> WorkerState] /\ HoldsJob'
    BY <1>24, IdleEffect DEF WorkerCrash
  <2>4. QED
    BY <1>24, <2>1, <2>2, <2>3 DEF WorkerCrash
<1>25. ASSUME NEW w \in Workers, Ack(w) PROVE TypeInv'
  BY <1>25, IdleEffect DEF Ack
<1>26. ASSUME NEW w \in Workers, Interrupt(w) PROVE TypeInv'
  BY <1>26, IdleEffect DEF Interrupt
<1>27. ASSUME NEW w \in Workers, PresumeDead(w) PROVE TypeInv'
  BY <1>27, DisownEffect DEF PresumeDead
<1>28. ASSUME NEW w \in Workers, Fetch(w) PROVE TypeInv'
  <2>1. TargetOf(w) \in Repos
    BY <1>28 DEF Fetch, TargetOf, PostHandler
  <2>2. github[TargetOf(w)] \in 0 .. MaxVersion
    BY <2>1
  <2>3. QED
    BY <1>28, <2>2, FetchEffect DEF Fetch
<1>29. ASSUME NEW r \in Repos, Publish(r) PROVE TypeInv'
  BY <1>29 DEF Publish
<1>30. ASSUME NEW r \in Repos, DeleteRepository(r) PROVE TypeInv'
  BY <1>30, DeleteEffect DEF DeleteRepository
<1>31. ASSUME NEW u \in Users, NEW r \in Repos, TrackRepository(u, r) PROVE TypeInv'
  BY <1>31 DEF TrackRepository
<1>32. ASSUME NEW u \in Users, NEW r \in Repos, UntrackRepository(u, r) PROVE TypeInv'
  BY <1>32 DEF UntrackRepository
<1>33. CASE ApiCrash
  BY <1>33, ApiCrashEffect DEF ApiCrash
<1>34. CASE RedisLoss
  BY <1>34, RedisLossEffect DEF RedisLoss
<1>35. CASE UNCHANGED vars
  BY <1>35 DEF vars
<1>36. QED
  BY <1>1, <1>2, <1>3, <1>4, <1>5, <1>6, <1>7, <1>8, <1>9, <1>10, <1>11, <1>12, <1>13, <1>14, <1>15, <1>16, <1>17, <1>18, <1>19, <1>20, <1>21, <1>22, <1>23, <1>24, <1>25, <1>26, <1>27, <1>28, <1>29, <1>30, <1>31, <1>32, <1>33, <1>34, <1>35
  DEF Next, HandlerStep, WorkerStep, Environment
-----------------------------------------------------------------------------

\* Every reachable state is well typed, whatever the faults: no handler and no
\* worker writes a status outside the CHECK constraint of sync_jobs or an error
\* code outside the fixed vocabulary (models/sync_job.py:18-41).
THEOREM TypeCorrect == Spec => []TypeOK
<1>1. TypeInv => TypeOK
  BY DEF TypeInv
<1>2. QED
  BY TypeInit, TypeStep, <1>1, PTL DEF Spec
=============================================================================
