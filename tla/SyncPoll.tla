------------------------------ MODULE SyncPoll ------------------------------
(***************************************************************************)
(* One browser tab on a repository's page: RepositoryDetailPage, SyncPanel *)
(* and the hook useSyncJob.  The server is known only by its contract.     *)
(*                                                                         *)
(* Requests are answered by the server in one step and their answers reach *)
(* the tab in another, in any order.  A page or panel that is left keeps   *)
(* its asynchronous continuations: they run on, and only what they show is *)
(* lost.  Every mounting of the panel is a hook of its own; the last one   *)
(* is the one on the screen, if any is.                                    *)
(***************************************************************************)
EXTENDS Naturals, Sequences, SequencesExt, FiniteSets

CONSTANTS Repository,   \* the repository of the page
          Jobs,
          Nothing,
          MaxVersion,
          MaxPolls,     \* MAX_POLLS, 60 in the code
          MaxVisits     \* bound: how often the page is opened

ASSUME PollAssumption == MaxPolls \in Nat \ {0} /\ MaxVisits \in Nat /\ MaxVersion \in Nat
ASSUME NothingIsNothing == Nothing \notin Nat \cup Jobs

VARIABLES repositories, github, stored, status, repo, asOf, \* of the contract
          enabled,      \* BACKGROUND_SYNC_ENABLED of this deployment
          page,         \* the page and what it shows
          hooks,        \* the hooks mounted so far, in order
          timers,       \* the window's armed timers
          calls,        \* POST .../sync and GET /me/sync-jobs/{id} under way
          refreshes     \* GET .../metrics, in the order they were sent

backend == <<repositories, github, stored, status, repo, asOf>>
tab == <<page, hooks, timers, calls, refreshes>>
vars == <<backend, enabled, tab>>

Backend == INSTANCE SyncContract WITH Repos <- {Repository}

\* Mutant: only the POST disables the button.
BusyStarting == {"starting"}

Busy == {"starting", "queued", "running"}

Settled == {"idle", "succeeded", "failed", "timed-out", "conflict", "unavailable", "error"}

Timer == [hook : 1 .. Len(hooks), job : Jobs]

Hook == [state : Busy \cup Settled,
         result : Jobs \cup {Nothing},       \* the job shown as succeeded or failed
         job : Jobs \cup {Nothing},          \* the job of the last accepted start
         count : 0 .. MaxPolls,              \* pollCountRef
         timer : Timer \cup {Nothing},       \* timerRef
         visit : 1 .. MaxVisits]             \* whose refresh it calls on success

Page == [visit : 0 .. MaxVisits,
         open : BOOLEAN,
         metrics : (0 .. MaxVersion) \cup {Nothing},
         from : 0 .. Len(refreshes),         \* the request that brought them
         error : BOOLEAN]

Call == [kind : {"sync", "job"},
         hook : 1 .. Len(hooks),
         job : Jobs \cup {Nothing},
         answer : Busy \cup Settled \cup {"pending", "accepted"}]

Refresh == [visit : 1 .. MaxVisits,
            answer : {"pending", "metrics", "error", "over"},
            version : 0 .. MaxVersion]

TypeOK ==
    /\ enabled \in BOOLEAN
    /\ page \in Page
    /\ \A i \in DOMAIN hooks : hooks[i] \in Hook
    /\ timers \subseteq Timer
    /\ calls \subseteq Call
    /\ \A n \in DOMAIN refreshes : refreshes[n] \in Refresh

NewPage(visit, open) ==
    [visit |-> visit, open |-> open, metrics |-> Nothing, from |-> 0, error |-> FALSE]

NewHook(visit) == [state |-> "idle", result |-> Nothing, job |-> Nothing,
                   count |-> 0, timer |-> Nothing, visit |-> visit]

NewRefresh(visit) == [visit |-> visit, answer |-> "pending", version |-> 0]

\* The page renders its panel only when it has metrics and no error.
HasPanel(p) == p.open /\ p.metrics # Nothing /\ ~p.error

\* The hook whose state is on the screen.
OnScreen(i) == HasPanel(page) /\ i = Len(hooks)

Init ==
    /\ Backend!Init
    /\ enabled \in BOOLEAN
    /\ page = NewPage(0, FALSE)
    /\ hooks = <<>>
    /\ timers = {}
    /\ calls = {}
    /\ refreshes = <<>>

-----------------------------------------------------------------------------
(* The page. *)

\* Rendering the page anew: its panel is mounted, kept, or unmounted, and
\* unmounting it clears the timer its hook knows of.
Render(p) ==
    /\ page' = p
    /\ CASE HasPanel(p) /\ ~HasPanel(page) ->
              /\ hooks' = Append(hooks, NewHook(p.visit))
              /\ UNCHANGED timers
         [] HasPanel(page) /\ ~HasPanel(p) ->
              /\ timers' = timers \ {Last(hooks).timer}
              /\ UNCHANGED hooks
         [] OTHER -> UNCHANGED <<hooks, timers>>

Open ==
    /\ ~page.open
    /\ page.visit < MaxVisits
    /\ Render(NewPage(page.visit + 1, TRUE))
    /\ refreshes' = Append(refreshes, NewRefresh(page'.visit))
    /\ UNCHANGED <<backend, enabled, calls>>

Leave ==
    /\ page.open
    /\ Render([page EXCEPT !.open = FALSE])
    /\ UNCHANGED <<backend, enabled, calls, refreshes>>

AnswerRefresh(n) ==
    /\ refreshes[n].answer = "pending"
    /\ \/ /\ Repository \in repositories
          /\ refreshes' = [refreshes EXCEPT ![n].answer = "metrics",
                                            ![n].version = stored[Repository]]
       \/ refreshes' = [refreshes EXCEPT ![n].answer = "error"]
    /\ UNCHANGED <<backend, enabled, page, hooks, timers, calls>>

\* setMetrics and setError of a page that was left change nothing.
DeliverRefresh(n) ==
    /\ refreshes[n].answer \in {"metrics", "error"}
    /\ refreshes' = [refreshes EXCEPT ![n].answer = "over", ![n].version = 0]
    /\ IF ~page.open \/ refreshes[n].visit # page.visit
       THEN UNCHANGED <<page, hooks, timers>>
       ELSE IF refreshes[n].answer = "metrics"
            THEN Render([page EXCEPT !.metrics = refreshes[n].version, !.from = n, !.error = FALSE])
            ELSE Render([page EXCEPT !.error = TRUE])
    /\ UNCHANGED <<backend, enabled, calls>>

-----------------------------------------------------------------------------
(* The hook. *)

\* setState, without effect once the hook's panel is gone.
Show(h, i, state) == IF OnScreen(i) THEN [h EXCEPT ![i].state = state] ELSE h

ShowResult(h, i, state, j) ==
    IF OnScreen(i) THEN [h EXCEPT ![i].state = state, ![i].result = j] ELSE h

\* Mutant: the count of the previous start is not reset.
StartCounting(i) ==
    /\ OnScreen(i)
    /\ hooks[i].state \notin Busy
    /\ hooks' = [hooks EXCEPT ![i].state = "starting"]
    /\ calls' = calls \cup {[kind |-> "sync", hook |-> i, job |-> Nothing, answer |-> "pending"]}
    /\ UNCHANGED <<backend, enabled, page, timers, refreshes>>

\* "Sync now": the button is disabled while the panel is busy.
Start(i) ==
    /\ OnScreen(i)
    /\ hooks[i].state \notin Busy
    /\ hooks' = [hooks EXCEPT ![i].state = "starting", ![i].count = 0]
    /\ calls' = calls \cup {[kind |-> "sync", hook |-> i, job |-> Nothing, answer |-> "pending"]}
    /\ UNCHANGED <<backend, enabled, page, timers, refreshes>>

Answered(c, answer, j) ==
    /\ calls' = (calls \ {c}) \cup {[c EXCEPT !.answer = answer, !.job = j]}
    /\ UNCHANGED <<enabled, page, hooks, timers, refreshes>>

\* The server creates a job, whose id may be lost with the answer, or refuses.
AnswerSync(c) ==
    /\ c.kind = "sync" /\ c.answer = "pending"
    /\ \/ \E j \in Jobs : /\ enabled
                          /\ Backend!Create(j)
                          /\ Answered(c, "accepted", j) \/ Answered(c, "error", Nothing)
       \/ /\ enabled
          /\ \E j \in Jobs : Backend!Active(j)
          /\ Answered(c, "conflict", Nothing)
          /\ UNCHANGED backend
       \/ /\ ~enabled
          /\ Answered(c, "unavailable", Nothing)
          /\ UNCHANGED backend
       \/ /\ Answered(c, "error", Nothing)
          /\ UNCHANGED backend

AnswerJob(c) ==
    /\ c.kind = "job" /\ c.answer = "pending"
    /\ \/ status[c.job] # "deleted" /\ Answered(c, status[c.job], c.job)
       \/ Answered(c, "error", c.job)
    /\ UNCHANGED backend

\* Mutant: poll resets the count, as start does.
PollResets(h, i, j) ==
    LET t == [hook |-> i, job |-> j]
    IN  /\ hooks' = [h EXCEPT ![i].timer = t, ![i].count = 0]
        /\ timers' = timers \cup {t}

\* poll(jobId) arms a timer and remembers it, whether or not the panel is there.
Poll(h, i, j) ==
    LET t == [hook |-> i, job |-> j]
    IN  /\ hooks' = [h EXCEPT ![i].timer = t]
        /\ timers' = timers \cup {t}

FireTimer(t) ==
    /\ timers' = timers \ {t}
    /\ hooks' = [hooks EXCEPT ![t.hook].count = @ + 1]
    /\ calls' = calls \cup {[kind |-> "job", hook |-> t.hook, job |-> t.job, answer |-> "pending"]}
    /\ UNCHANGED <<backend, enabled, page, refreshes>>

DeliverSync(c) ==
    /\ c.kind = "sync" /\ c.answer # "pending"
    /\ calls' = calls \ {c}
    /\ IF c.answer = "accepted"
       THEN Poll([Show(hooks, c.hook, "queued") EXCEPT ![c.hook].job = c.job], c.hook, c.job)
       ELSE hooks' = Show(hooks, c.hook, c.answer) /\ UNCHANGED timers
    /\ UNCHANGED <<backend, enabled, page, refreshes>>

Delivered(c, answers) ==
    /\ c.kind = "job" /\ c.answer \in answers
    /\ calls' = calls \ {c}
    /\ UNCHANGED <<backend, enabled, page>>

\* Mutant: nothing is fetched again when the sync has succeeded.
JobSucceededOnly(c) ==
    /\ Delivered(c, {"succeeded"})
    /\ hooks' = ShowResult(hooks, c.hook, "succeeded", c.job)
    /\ UNCHANGED <<timers, refreshes>>

JobSucceeded(c) ==
    /\ Delivered(c, {"succeeded"})
    /\ hooks' = ShowResult(hooks, c.hook, "succeeded", c.job)
    /\ refreshes' = Append(refreshes, NewRefresh(hooks[c.hook].visit))
    /\ UNCHANGED timers

JobFailed(c) ==
    /\ Delivered(c, {"failed"})
    /\ hooks' = ShowResult(hooks, c.hook, "failed", c.job)
    /\ UNCHANGED <<timers, refreshes>>

PollFailed(c) ==
    /\ Delivered(c, {"error"})
    /\ hooks' = Show(hooks, c.hook, "error")
    /\ UNCHANGED <<timers, refreshes>>

\* Mutant: the return after "timed-out" is missing.
JobPendingGoesOn(c) ==
    /\ Delivered(c, {"queued", "running"})
    /\ Poll(Show(hooks, c.hook, IF hooks[c.hook].count >= MaxPolls THEN "timed-out" ELSE c.answer),
            c.hook, c.job)
    /\ UNCHANGED refreshes

JobPending(c) ==
    /\ Delivered(c, {"queued", "running"})
    /\ IF hooks[c.hook].count >= MaxPolls
       THEN hooks' = Show(hooks, c.hook, "timed-out") /\ UNCHANGED timers
       ELSE Poll(Show(hooks, c.hook, c.answer), c.hook, c.job)
    /\ UNCHANGED refreshes

-----------------------------------------------------------------------------
\* Everything else the server does, for this tab's jobs and for others'.
BackendStep ==
    /\ \/ Backend!Publish(Repository)
       \/ Backend!Delete(Repository)
       \/ \E j \in Jobs : \/ enabled /\ Backend!Create(j)
                          \/ Backend!Start(j)
                          \/ \E v \in 0 .. MaxVersion : Backend!Ingest(j, v)
                          \/ Backend!Succeed(j)
                          \/ Backend!Fail(j)
    /\ UNCHANGED <<enabled, tab>>

\* The next step of what hook i has under way.
ChainStep(i) ==
    \/ \E t \in timers : t.hook = i /\ FireTimer(t)
    \/ \E c \in calls : /\ c.hook = i
                        /\ \/ AnswerSync(c)
                           \/ AnswerJob(c)
                           \/ DeliverSync(c)
                           \/ JobSucceeded(c)
                           \/ JobFailed(c)
                           \/ PollFailed(c)
                           \/ JobPending(c)

Next ==
    \/ BackendStep
    \/ Open
    \/ Leave
    \/ \E i \in DOMAIN hooks : Start(i) \/ ChainStep(i)
    \/ \E n \in DOMAIN refreshes : AnswerRefresh(n) \/ DeliverRefresh(n)

Spec == Init /\ [][Next]_vars

\* A panel is mounted by a visit, or again by the metrics a success fetches.
HookIds == 1 .. MaxVisits + Cardinality(Jobs)

\* The browser runs its timers and every request is answered or fails; nobody
\* has to click, and no job has to end.
Fairness == \A i \in HookIds : WF_vars(ChainStep(i))

FairSpec == Spec /\ Fairness

-----------------------------------------------------------------------------
(* Properties *)

\* What keeps hook i going: a timer, or a request whose answer it awaits.
Chain(i) == {t \in timers : t.hook = i} \cup {c \in calls : c.hook = i}

\* A panel looks busy exactly while one chain of timer and request is at work
\* for it: its button never stays disabled with nothing left to enable it, and
\* a panel that looks idle is not polling (useSyncJob.ts:50-106,
\* SyncPanel.tsx:18).
BusyMeansOneChain ==
    \A i \in DOMAIN hooks :
        OnScreen(i) => Cardinality(Chain(i)) = IF hooks[i].state \in Busy THEN 1 ELSE 0

\* The end a panel shows is the end of the job its own last start created,
\* never that of an earlier one (useSyncJob.ts:55-64).
OutcomeIsOwn ==
    \A i \in DOMAIN hooks :
        OnScreen(i) /\ hooks[i].state \in {"succeeded", "failed"} =>
            /\ hooks[i].result = hooks[i].job
            /\ status[hooks[i].result] \in {hooks[i].state, "deleted"}

\* No older metrics arrived after those that were asked for last.
InOrder == \A n \in DOMAIN refreshes : refreshes[n].visit = page.visit => n <= page.from

\* Once everything is answered, and unless an older answer came last, the
\* metrics next to "succeeded" are those of a repository synchronised no
\* earlier than the sync was asked for (useSyncJob.ts:57,
\* RepositoryDetailPage.tsx:66).
FreshAfterSuccess ==
    \A i \in DOMAIN hooks :
        /\ OnScreen(i) /\ hooks[i].state = "succeeded"
        /\ \A n \in DOMAIN refreshes : refreshes[n].answer = "over"
        /\ InOrder
        => page.metrics >= asOf[hooks[i].result]

\* Whatever becomes of the job, polling stops: also for a job that never ends,
\* and also after the panel is gone (MAX_POLLS, useSyncJob.ts:65).
PollingEnds == \A i \in HookIds : (i \in DOMAIN hooks /\ Chain(i) # {}) ~> (Chain(i) = {})
=============================================================================
