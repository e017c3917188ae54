-------------------------- MODULE SyncPoll_proofs ---------------------------
(***************************************************************************)
(* Proofs about SyncPoll: type correctness; a panel looks busy exactly     *)
(* while one chain of timer and request works for it; the outcome it shows *)
(* is that of its own sync, next to metrics that include it.               *)
(***************************************************************************)
EXTENDS SyncPoll, FiniteSetTheorems, TLAPS

\* The types of records whose bounds depend on the state, without the bounds.
AnyTimer == [hook : Nat, job : Jobs]

AnyHook == [state : Busy \cup Settled,
            result : Jobs \cup {Nothing},
            job : Jobs \cup {Nothing},
            count : 0 .. MaxPolls,
            timer : AnyTimer \cup {Nothing},
            visit : 1 .. MaxVisits]

AnyPage == [visit : 0 .. MaxVisits,
            open : BOOLEAN,
            metrics : (0 .. MaxVersion) \cup {Nothing},
            from : Nat,
            error : BOOLEAN]

Created(j) == j \in Jobs /\ status[j] # "none"

\* The job is over and was as the panel or an answer says; what it ingested is
\* no older than what it was asked for.
EndedAs(j, end) ==
    /\ Created(j)
    /\ status[j] \in {end, "deleted"}
    /\ end = "succeeded" => stored[Repository] >= asOf[j]

ServerHolds ==
    /\ github \in [{Repository} -> 0 .. MaxVersion]
    /\ stored \in [{Repository} -> 0 .. MaxVersion]
    /\ stored[Repository] =< github[Repository]
    /\ status \in [Jobs -> {"none", "queued", "running", "succeeded", "failed", "deleted"}]
    /\ repo \in [Jobs -> {Repository}]
    /\ asOf \in [Jobs -> 0 .. MaxVersion]
    /\ \A j \in Jobs : status[j] = "succeeded" => stored[Repository] >= asOf[j]

HooksHold ==
    /\ hooks \in Seq(AnyHook)
    /\ \A i \in DOMAIN hooks : hooks[i].timer \in Timer \cup {Nothing}

PageHolds ==
    /\ page \in AnyPage
    /\ page.from =< Len(refreshes)
    /\ page.open => page.visit >= 1
    /\ HasPanel(page) => Len(hooks) >= 1 /\ hooks[Len(hooks)].visit = page.visit

RefreshesHold == refreshes \in Seq(Refresh)

\* The metrics shown were brought by a request of this visit.
ShowsItsOwn ==
    page.metrics # Nothing =>
        /\ page.from \in DOMAIN refreshes
        /\ refreshes[page.from].visit = page.visit
        /\ refreshes[page.from].answer = "over"

TimerHolds(t) ==
    /\ t \in Timer
    /\ Created(t.job)
    /\ t.job = hooks[t.hook].job
    /\ hooks[t.hook].count < MaxPolls

SyncCallHolds(c) ==
    /\ hooks[c.hook].count = 0
    /\ c.answer \in {"pending", "accepted", "conflict", "unavailable", "error"}
    /\ c.answer = "accepted" => Created(c.job)

JobCallHolds(c) ==
    /\ Created(c.job)
    /\ c.job = hooks[c.hook].job
    /\ c.answer \in {"pending", "queued", "running", "succeeded", "failed", "error"}
    /\ c.answer \in {"succeeded", "failed"} => EndedAs(c.job, c.answer)

CallHolds(c) ==
    /\ c \in Call
    /\ c.kind = "sync" => SyncCallHolds(c)
    /\ c.kind = "job" => JobCallHolds(c)

TimersHold == \A t \in timers : TimerHolds(t)
CallsHold == \A c \in calls : CallHolds(c)

TypeInv ==
    /\ enabled \in BOOLEAN
    /\ ServerHolds
    /\ HooksHold
    /\ PageHolds
    /\ RefreshesHold
    /\ ShowsItsOwn
    /\ TimersHold
    /\ CallsHold

\* A hook has one timer or one request under way, also after its panel is gone.
OneChain ==
    /\ \A t, u \in timers : t.hook = u.hook => t = u
    /\ \A c, d \in calls : c.hook = d.hook => c = d
    /\ \A t \in timers, c \in calls : t.hook # c.hook

AtWork(i) == (\E t \in timers : t.hook = i) \/ (\E c \in calls : c.hook = i)

BusyAtWork ==
    HasPanel(page) => (hooks[Len(hooks)].state \in Busy <=> AtWork(Len(hooks)))

Core == TypeInv /\ OneChain /\ BusyAtWork

OutcomeHolds ==
    LET h == hooks[Len(hooks)] IN
    HasPanel(page) /\ h.state \in {"succeeded", "failed"} =>
        h.result = h.job /\ EndedAs(h.job, h.state)

\* The last request for the metrics of this visit.
Latest(n) ==
    /\ n \in DOMAIN refreshes
    /\ refreshes[n].visit = page.visit
    /\ \A m \in DOMAIN refreshes : refreshes[m].visit = page.visit => m =< n

\* It was sent after the success that the panel shows.
LatestIsFresh ==
    LET h == hooks[Len(hooks)] IN
    HasPanel(page) /\ h.state = "succeeded" =>
        \A n \in DOMAIN refreshes : Latest(n) =>
            /\ refreshes[n].answer = "metrics" => refreshes[n].version >= asOf[h.job]
            /\ page.from = n => page.metrics >= asOf[h.job]

-----------------------------------------------------------------------------
(* The server. *)

\* What the tab can rely on whatever the server does: jobs do not disappear,
\* an end stays an end, and data only become more recent.
Advances ==
    /\ ServerHolds'
    /\ stored'[Repository] >= stored[Repository]
    /\ \A j \in Jobs : status[j] # "none" => status'[j] # "none" /\ asOf'[j] = asOf[j]
    /\ \A j \in Jobs : status[j] \in {"succeeded", "failed", "deleted"} =>
                            status'[j] \in {status[j], "deleted"}

LEMMA ServerStays ==
  ASSUME ServerHolds, UNCHANGED backend
  PROVE  Advances
  BY DEF ServerHolds, Advances, backend

LEMMA CreateAdvances ==
  ASSUME ServerHolds, NEW j \in Jobs, Backend!Create(j)
  PROVE  Advances /\ Created(j)'
<1>1. /\ status[j] = "none"
      /\ status' = [status EXCEPT ![j] = "queued"]
      /\ asOf' = [asOf EXCEPT ![j] = github[repo[j]]]
      /\ UNCHANGED <<repositories, github, stored, repo>>
  BY DEF Backend!Create
<1>2. repo[j] = Repository
  BY DEF ServerHolds
<1>3. QED
  BY <1>1, <1>2 DEF ServerHolds, Advances, Created

LEMMA BackendAdvances ==
  ASSUME ServerHolds, BackendStep
  PROVE  Advances
<1>0. /\ MaxVersion \in Nat
      /\ github[Repository] \in 0 .. MaxVersion
      /\ stored[Repository] \in 0 .. MaxVersion
      /\ stored[Repository] =< github[Repository]
      /\ \A j \in Jobs : repo[j] = Repository /\ asOf[j] \in 0 .. MaxVersion
  BY PollAssumption DEF ServerHolds
<1>1. CASE Backend!Publish(Repository)
  <2>1. /\ github[Repository] < MaxVersion
        /\ github' = [github EXCEPT ![Repository] = @ + 1]
        /\ UNCHANGED <<repositories, stored, status, repo, asOf>>
    BY <1>1 DEF Backend!Publish
  <2>2. QED
    BY <1>0, <2>1 DEF ServerHolds, Advances
<1>2. CASE Backend!Delete(Repository)
  <2>1. /\ status' = [j \in Jobs |-> IF status[j] # "none" /\ repo[j] = Repository
                                     THEN "deleted" ELSE status[j]]
        /\ UNCHANGED <<github, stored, repo, asOf>>
    BY <1>2 DEF Backend!Delete
  <2>2. QED
    BY <1>0, <2>1 DEF ServerHolds, Advances
<1>3. ASSUME NEW j \in Jobs, Backend!Create(j) PROVE Advances
  BY <1>3, CreateAdvances
<1>4. ASSUME NEW j \in Jobs, Backend!Start(j) PROVE Advances
  <2>1. /\ status[j] = "queued"
        /\ status' = [status EXCEPT ![j] = "running"]
        /\ UNCHANGED <<repositories, github, stored, repo, asOf>>
    BY <1>4 DEF Backend!Start
  <2>2. QED
    BY <1>0, <2>1 DEF ServerHolds, Advances
<1>5. ASSUME NEW j \in Jobs, NEW v \in 0 .. MaxVersion, Backend!Ingest(j, v) PROVE Advances
  <2>1. /\ v >= stored[Repository] /\ v =< github[Repository]
        /\ stored' = [stored EXCEPT ![Repository] = v]
        /\ UNCHANGED <<repositories, github, status, repo, asOf>>
    BY <1>0, <1>5 DEF Backend!Ingest
  <2>2. stored' \in [{Repository} -> 0 .. MaxVersion] /\ stored'[Repository] = v
    BY <2>1 DEF ServerHolds
  <2>3. \A k \in Jobs : status[k] = "succeeded" => v >= asOf[k]
    BY <1>0, <2>1 DEF ServerHolds
  <2>4. QED
    BY <1>0, <2>1, <2>2, <2>3 DEF ServerHolds, Advances
<1>6. ASSUME NEW j \in Jobs, Backend!Succeed(j) PROVE Advances
  <2>1. /\ status[j] = "running" /\ stored[Repository] >= asOf[j]
        /\ status' = [status EXCEPT ![j] = "succeeded"]
        /\ UNCHANGED <<repositories, github, stored, repo, asOf>>
    BY <1>0, <1>6 DEF Backend!Succeed
  <2>2. QED
    BY <1>0, <2>1 DEF ServerHolds, Advances
<1>7. ASSUME NEW j \in Jobs, Backend!Fail(j) PROVE Advances
  <2>1. /\ status[j] \in {"queued", "running"}
        /\ status' = [status EXCEPT ![j] = "failed"]
        /\ UNCHANGED <<repositories, github, stored, repo, asOf>>
    BY <1>7 DEF Backend!Fail, Backend!Active
  <2>2. QED
    BY <1>0, <2>1 DEF ServerHolds, Advances
<1>8. QED
  BY <1>1, <1>2, <1>3, <1>4, <1>5, <1>6, <1>7 DEF BackendStep

\* What has ended stays as it ended, or is deleted.
LEMMA EndStays ==
  ASSUME ServerHolds, Advances, NEW j, NEW end \in {"succeeded", "failed"}, EndedAs(j, end)
  PROVE  EndedAs(j, end)'
<1>1. j \in Jobs /\ stored[Repository] \in Nat /\ stored'[Repository] \in Nat
      /\ stored'[Repository] >= stored[Repository] /\ asOf[j] \in Nat
      /\ asOf'[j] = asOf[j]
  BY DEF ServerHolds, Advances, EndedAs, Created
<1>2. QED
  BY <1>1 DEF Advances, EndedAs, Created

LEMMA CreatedStays ==
  ASSUME Advances, NEW j, Created(j)
  PROVE  Created(j)'
  BY DEF Advances, Created

-----------------------------------------------------------------------------
(* Chains of timers and requests. *)

LEMMA ChainStarts ==
  ASSUME OneChain, NEW c, ~AtWork(c.hook), calls' = calls \cup {c}, timers' = timers
  PROVE  OneChain' /\ AtWork(c.hook)' /\ \A k : k # c.hook => (AtWork(k)' <=> AtWork(k))
  BY DEF OneChain, AtWork

LEMMA ChainFires ==
  ASSUME OneChain, NEW t \in timers, NEW c, c.hook = t.hook,
         timers' = timers \ {t}, calls' = calls \cup {c}
  PROVE  OneChain' /\ \A k : AtWork(k)' <=> AtWork(k)
  BY DEF OneChain, AtWork

LEMMA ChainAnswers ==
  ASSUME OneChain, NEW c \in calls, NEW d, d.hook = c.hook,
         timers' = timers, calls' = (calls \ {c}) \cup {d}
  PROVE  OneChain' /\ \A k : AtWork(k)' <=> AtWork(k)
  BY DEF OneChain, AtWork

LEMMA ChainPolls ==
  ASSUME OneChain, NEW c \in calls, NEW t, t.hook = c.hook,
         timers' = timers \cup {t}, calls' = calls \ {c}
  PROVE  OneChain' /\ \A k : AtWork(k)' <=> AtWork(k)
  BY DEF OneChain, AtWork

LEMMA ChainEnds ==
  ASSUME OneChain, NEW c \in calls, timers' = timers, calls' = calls \ {c}
  PROVE  OneChain' /\ ~AtWork(c.hook)' /\ \A k : k # c.hook => (AtWork(k)' <=> AtWork(k))
  BY DEF OneChain, AtWork

-----------------------------------------------------------------------------
(* Hooks. *)

\* A step of hook i leaves the others alone, and the number of hooks.
Touches(i) ==
    /\ HooksHold'
    /\ Len(hooks') = Len(hooks)
    /\ \A k \in DOMAIN hooks : k # i => hooks'[k] = hooks[k]
    /\ hooks'[i].visit = hooks[i].visit

LEMMA HookUpdate ==
  ASSUME HooksHold, NEW i \in DOMAIN hooks, NEW h \in AnyHook, h.timer \in Timer \cup {Nothing},
         h.visit = hooks[i].visit, hooks' = [hooks EXCEPT ![i] = h]
  PROVE  Touches(i) /\ hooks'[i] = h
<1>1. hooks' \in Seq(AnyHook) /\ Len(hooks') = Len(hooks) /\ DOMAIN hooks' = DOMAIN hooks
  BY DEF HooksHold
<1>2. hooks'[i] = h /\ \A k \in DOMAIN hooks : k # i => hooks'[k] = hooks[k]
  BY DEF HooksHold
<1>3. Timer' = Timer
  BY <1>1 DEF Timer
<1>4. HooksHold'
  BY <1>1, <1>2, <1>3 DEF HooksHold
<1>5. QED
  BY <1>1, <1>2, <1>4 DEF Touches

LEMMA HookType ==
  ASSUME HooksHold, NEW i \in DOMAIN hooks
  PROVE  /\ hooks[i] \in AnyHook
         /\ hooks[i].timer \in Timer \cup {Nothing}
         /\ Len(hooks) \in Nat /\ i \in 1 .. Len(hooks)
         /\ [hooks EXCEPT ![i] = hooks[i]] = hooks
  BY DEF HooksHold

\* Showing a state, if the hook's panel is on the screen.
LEMMA ShowTouches ==
  ASSUME HooksHold, NEW i \in DOMAIN hooks, NEW s \in Busy \cup Settled,
         hooks' = Show(hooks, i, s)
  PROVE  /\ Touches(i)
         /\ hooks'[i].state = IF OnScreen(i) THEN s ELSE hooks[i].state
         /\ hooks'[i].result = hooks[i].result
         /\ hooks'[i].job = hooks[i].job
         /\ hooks'[i].count = hooks[i].count
<1> DEFINE h == [hooks[i] EXCEPT !.state = s]
<1>1. CASE OnScreen(i)
  <2>1. hooks' = [hooks EXCEPT ![i] = h]
    BY <1>1 DEF Show
  <2>2. hooks[i] \in AnyHook /\ hooks[i].timer \in Timer \cup {Nothing}
    BY HookType
  <2>3. h \in AnyHook /\ h.state = s /\ h.result = hooks[i].result /\ h.job = hooks[i].job
        /\ h.count = hooks[i].count /\ h.timer = hooks[i].timer /\ h.visit = hooks[i].visit
    BY <2>2 DEF AnyHook
  <2> HIDE DEF h
  <2>4. QED
    BY <1>1, <2>1, <2>2, <2>3, HookUpdate
<1>2. CASE ~OnScreen(i)
  <2>1. hooks' = hooks
    BY <1>2 DEF Show
  <2>2. QED
    BY <1>2, <2>1, HookType, HookUpdate
<1>3. QED
  BY <1>1, <1>2

LEMMA ShowResultTouches ==
  ASSUME HooksHold, NEW i \in DOMAIN hooks, NEW s \in Settled, NEW j \in Jobs,
         hooks' = ShowResult(hooks, i, s, j)
  PROVE  /\ Touches(i)
         /\ hooks'[i].state = IF OnScreen(i) THEN s ELSE hooks[i].state
         /\ OnScreen(i) => hooks'[i].result = j
         /\ hooks'[i].job = hooks[i].job
         /\ hooks'[i].count = hooks[i].count
<1> DEFINE h == [hooks[i] EXCEPT !.state = s, !.result = j]
<1>1. CASE OnScreen(i)
  <2>1. hooks' = [hooks EXCEPT ![i] = h]
    BY <1>1 DEF ShowResult
  <2>2. hooks[i] \in AnyHook /\ hooks[i].timer \in Timer \cup {Nothing}
    BY HookType
  <2>3. h \in AnyHook /\ h.state = s /\ h.result = j /\ h.job = hooks[i].job
        /\ h.count = hooks[i].count /\ h.timer = hooks[i].timer /\ h.visit = hooks[i].visit
    BY <2>2 DEF AnyHook
  <2> HIDE DEF h
  <2>4. QED
    BY <1>1, <2>1, <2>2, <2>3, HookUpdate
<1>2. CASE ~OnScreen(i)
  <2>1. hooks' = hooks
    BY <1>2 DEF ShowResult
  <2>2. QED
    BY <1>2, <2>1, HookType, HookUpdate
<1>3. QED
  BY <1>1, <1>2

\* Arming a timer: the job polled for is, or becomes, the hook's own.
LEMMA PollTouches ==
  ASSUME HooksHold, NEW i \in DOMAIN hooks, NEW s \in Busy \cup Settled, NEW j \in Jobs,
         \/ Poll([Show(hooks, i, s) EXCEPT ![i].job = j], i, j)
         \/ Poll(Show(hooks, i, s), i, j) /\ j = hooks[i].job
  PROVE  /\ Touches(i)
         /\ hooks'[i].state = IF OnScreen(i) THEN s ELSE hooks[i].state
         /\ hooks'[i].result = hooks[i].result
         /\ hooks'[i].job = j
         /\ hooks'[i].count = hooks[i].count
         /\ timers' = timers \cup {[hook |-> i, job |-> j]}
<1> DEFINE t == [hook |-> i, job |-> j]
           e == IF OnScreen(i) THEN s ELSE hooks[i].state
           h == [hooks[i] EXCEPT !.state = e, !.job = j, !.timer = t]
<1>0. hooks[i] \in AnyHook /\ Len(hooks) \in Nat /\ i \in 1 .. Len(hooks) /\ hooks \in Seq(AnyHook)
  BY HookType DEF HooksHold
<1>1. t \in Timer /\ t \in AnyTimer
  BY <1>0 DEF Timer, AnyTimer
<1>2. e \in Busy \cup Settled
  BY <1>0 DEF AnyHook
<1>3. timers' = timers \cup {t}
  BY DEF Poll
<1>4. hooks' = [hooks EXCEPT ![i] = h]
  <2> DEFINE g == [hooks EXCEPT ![i] = [hooks[i] EXCEPT !.state = e]]
  <2>1. Show(hooks, i, s) = g
    <3>1. CASE OnScreen(i)
      BY <3>1 DEF Show
    <3>2. CASE ~OnScreen(i)
      <4>1. [hooks[i] EXCEPT !.state = hooks[i].state] = hooks[i]
        BY <1>0 DEF AnyHook
      <4>2. QED
        BY <1>0, <3>2, <4>1 DEF Show
    <3>3. QED
      BY <3>1, <3>2
  <2>2. \/ hooks' = [[g EXCEPT ![i].job = j] EXCEPT ![i].timer = t]
        \/ hooks' = [g EXCEPT ![i].timer = t] /\ j = hooks[i].job
    BY <2>1 DEF Poll
  <2> HIDE DEF t, e
  <2>3. [[g EXCEPT ![i].job = j] EXCEPT ![i].timer = t] = [hooks EXCEPT ![i] = h]
    BY <1>0
  <2>4. j = hooks[i].job => [g EXCEPT ![i].timer = t] = [hooks EXCEPT ![i] = h]
    <3>1. [g EXCEPT ![i].timer = t]
            = [hooks EXCEPT ![i] = [[hooks[i] EXCEPT !.state = e] EXCEPT !.timer = t]]
      BY <1>0
    <3>2. j = hooks[i].job => [[hooks[i] EXCEPT !.state = e] EXCEPT !.timer = t] = h
      BY <1>0 DEF AnyHook
    <3>3. QED
      BY <3>1, <3>2
  <2>5. QED
    BY <2>2, <2>3, <2>4
<1> HIDE DEF t, e
<1>5. h \in AnyHook /\ h.state = e /\ h.result = hooks[i].result /\ h.job = j
      /\ h.count = hooks[i].count /\ h.timer = t /\ h.visit = hooks[i].visit
  BY <1>0, <1>1, <1>2 DEF AnyHook
<1> HIDE DEF h
<1>6. QED
  BY <1>1, <1>3, <1>4, <1>5, HookUpdate DEF t, e

-----------------------------------------------------------------------------
(* What timers and requests rely on stays as it is. *)

LEMMA TimerStays ==
  ASSUME Advances, NEW t, TimerHolds(t), Len(hooks) \in Nat, Len(hooks') \in Nat,
         Len(hooks') >= Len(hooks),
         hooks'[t.hook].job = hooks[t.hook].job,
         hooks'[t.hook].count = hooks[t.hook].count
  PROVE  TimerHolds(t)'
<1>1. t \in Timer'
  BY DEF TimerHolds, Timer
<1>2. Created(t.job)'
  BY CreatedStays DEF TimerHolds
<1>3. QED
  BY <1>1, <1>2 DEF TimerHolds

LEMMA CallStays ==
  ASSUME ServerHolds, Advances, NEW c, CallHolds(c), Len(hooks) \in Nat, Len(hooks') \in Nat,
         Len(hooks') >= Len(hooks),
         hooks'[c.hook].job = hooks[c.hook].job,
         hooks'[c.hook].count = hooks[c.hook].count
  PROVE  CallHolds(c)'
<1>1. c \in Call'
  BY DEF CallHolds, Call
<1>2. c.kind = "sync" => SyncCallHolds(c)'
  BY CreatedStays DEF CallHolds, SyncCallHolds
<1>3. c.kind = "job" => JobCallHolds(c)'
  BY CreatedStays, EndStays DEF CallHolds, JobCallHolds
<1>4. QED
  BY <1>1, <1>2, <1>3 DEF CallHolds

\* A step of hook i disturbs no other hook's timer or request.
LEMMA OthersStay ==
  ASSUME TypeInv, Advances, NEW i \in DOMAIN hooks, Touches(i)
  PROVE  /\ \A t \in timers : t.hook # i => TimerHolds(t)'
         /\ \A c \in calls : c.hook # i => CallHolds(c)'
<1>1. Len(hooks) \in Nat /\ Len(hooks') = Len(hooks) /\ DOMAIN hooks = 1 .. Len(hooks)
  BY DEF TypeInv, HooksHold, Touches
<1>2. \A k \in DOMAIN hooks : k # i => hooks'[k] = hooks[k]
  BY DEF Touches
<1>3. ASSUME NEW t \in timers, t.hook # i PROVE TimerHolds(t)'
  <2>1. TimerHolds(t) /\ t.hook \in DOMAIN hooks
    BY <1>1 DEF TypeInv, TimersHold, TimerHolds, Timer
  <2>2. QED
    BY <1>1, <1>2, <1>3, <2>1, TimerStays
<1>4. ASSUME NEW c \in calls, c.hook # i PROVE CallHolds(c)'
  <2>1. CallHolds(c) /\ c.hook \in DOMAIN hooks
    BY <1>1 DEF TypeInv, CallsHold, CallHolds, Call
  <2>2. QED
    BY <1>1, <1>2, <1>4, <2>1, CallStays DEF TypeInv
<1>5. QED
  BY <1>3, <1>4

\* Requests for the metrics are only ever added.
RefreshesGrow ==
    \/ refreshes' = refreshes
    \/ \E v \in 1 .. MaxVisits : refreshes' = Append(refreshes, NewRefresh(v))

LEMMA RefreshesEffect ==
  ASSUME RefreshesHold, RefreshesGrow
  PROVE  /\ RefreshesHold'
         /\ Len(refreshes) \in Nat /\ Len(refreshes') \in Nat /\ Len(refreshes') >= Len(refreshes)
         /\ DOMAIN refreshes = 1 .. Len(refreshes) /\ DOMAIN refreshes' = 1 .. Len(refreshes')
         /\ \A n \in DOMAIN refreshes : refreshes'[n] = refreshes[n]
<1>1. CASE refreshes' = refreshes
  BY <1>1 DEF RefreshesHold, Refresh
<1>2. ASSUME NEW v \in 1 .. MaxVisits, refreshes' = Append(refreshes, NewRefresh(v))
      PROVE  /\ RefreshesHold'
             /\ Len(refreshes') = Len(refreshes) + 1
             /\ \A n \in DOMAIN refreshes : refreshes'[n] = refreshes[n]
  <2>1. NewRefresh(v) \in Refresh
    BY PollAssumption DEF NewRefresh, Refresh
  <2>2. refreshes' \in Seq(Refresh)
    BY <1>2, <2>1 DEF RefreshesHold
  <2>3. QED
    BY <1>2, <2>2 DEF RefreshesHold, Refresh
<1>3. QED
  BY <1>1, <1>2 DEF RefreshesGrow, RefreshesHold

\* The page's own type does not depend on the step of a hook.
LEMMA PageStays ==
  ASSUME TypeInv, NEW i \in DOMAIN hooks, Touches(i), page' = page, RefreshesGrow
  PROVE  PageHolds' /\ RefreshesHold' /\ ShowsItsOwn'
<1>0. /\ RefreshesHold' /\ Len(refreshes') >= Len(refreshes)
      /\ Len(refreshes) \in Nat /\ Len(refreshes') \in Nat
      /\ DOMAIN refreshes = 1 .. Len(refreshes) /\ DOMAIN refreshes' = 1 .. Len(refreshes')
      /\ \A n \in DOMAIN refreshes : refreshes'[n] = refreshes[n]
  BY RefreshesEffect DEF TypeInv
<1>1. Len(hooks') = Len(hooks) /\ \A k \in DOMAIN hooks : hooks'[k].visit = hooks[k].visit
  BY DEF Touches
<1>2. DOMAIN hooks = 1 .. Len(hooks) /\ Len(hooks) \in Nat
  BY DEF TypeInv, HooksHold
<1>3. HasPanel(page)' = HasPanel(page)
  BY DEF HasPanel
<1>4. PageHolds'
  <2>1. page.from \in Nat /\ page.from =< Len(refreshes')
    BY <1>0 DEF TypeInv, PageHolds, AnyPage
  <2>2. QED
    BY <1>1, <1>2, <1>3, <2>1 DEF TypeInv, PageHolds
<1>5. ShowsItsOwn'
  BY <1>0 DEF TypeInv, ShowsItsOwn
<1>6. QED
  BY <1>0, <1>4, <1>5

\* Timers and requests name hooks that exist.
LEMMA ChainHooks ==
  ASSUME TypeInv
  PROVE  /\ \A t \in timers : t.hook \in DOMAIN hooks /\ t.job \in Jobs
         /\ \A c \in calls : c.hook \in DOMAIN hooks
<1>1. DOMAIN hooks = 1 .. Len(hooks)
  BY DEF TypeInv, HooksHold
<1>2. QED
  BY <1>1 DEF TypeInv, TimersHold, TimerHolds, Timer, CallsHold, CallHolds, Call

\* How a hook that looks busy or not fits its chain, after a step of hook i
\* that leaves the page alone.
LEMMA BusyStep ==
  ASSUME Core, NEW i \in DOMAIN hooks, Touches(i), page' = page,
         \A k : k # i => (AtWork(k)' <=> AtWork(k)),
         OnScreen(i) => (hooks'[i].state \in Busy <=> AtWork(i)')
  PROVE  BusyAtWork'
<1>1. Len(hooks') = Len(hooks) /\ HasPanel(page)' = HasPanel(page)
  BY DEF Touches, HasPanel
<1> SUFFICES ASSUME HasPanel(page)
             PROVE  hooks'[Len(hooks)].state \in Busy <=> AtWork(Len(hooks))'
  <2>1. AtWork(Len(hooks))' <=> (\E t \in timers' : t.hook = Len(hooks')) \/ (\E c \in calls' : c.hook = Len(hooks'))
    BY DEF AtWork
  <2>2. QED
    BY <1>1, <2>1 DEF BusyAtWork, AtWork
<1>2. PICK k \in DOMAIN hooks : k = Len(hooks)
  BY DEF Core, TypeInv, HooksHold, PageHolds
<1>3. (hooks[k].state \in Busy <=> AtWork(k))
  BY <1>2 DEF Core, BusyAtWork
<1>4. CASE k = i
  <2>1. OnScreen(i)
    BY <1>2, <1>4 DEF OnScreen
  <2>2. QED
    BY <1>1, <1>2, <1>4, <2>1 DEF AtWork
<1>5. CASE k # i
  <2>1. hooks'[k] = hooks[k]
    BY <1>5 DEF Touches
  <2>2. QED
    BY <1>1, <1>2, <1>3, <1>5, <2>1 DEF AtWork
<1>6. QED
  BY <1>4, <1>5

-----------------------------------------------------------------------------
(* The inductive invariant: what a hook has under way. *)

LEMMA StartCore ==
  ASSUME Core, NEW i \in DOMAIN hooks, Start(i)
  PROVE  /\ Core' /\ Advances /\ Touches(i)
         /\ page' = page /\ refreshes' = refreshes
         /\ hooks'[i].state = "starting" /\ hooks'[i].job = hooks[i].job
<1> DEFINE h == [hooks[i] EXCEPT !.state = "starting", !.count = 0]
           c == [kind |-> "sync", hook |-> i, job |-> Nothing, answer |-> "pending"]
<1>0. /\ hooks[i] \in AnyHook /\ hooks[i].timer \in Timer \cup {Nothing}
      /\ Len(hooks) \in Nat /\ i \in 1 .. Len(hooks)
  BY HookType DEF Core, TypeInv
<1>1. /\ OnScreen(i) /\ hooks[i].state \notin Busy
      /\ hooks' = [hooks EXCEPT ![i].state = "starting", ![i].count = 0]
      /\ calls' = calls \cup {c}
      /\ UNCHANGED <<backend, enabled, page, timers, refreshes>>
  BY DEF Start
<1>2. hooks' = [hooks EXCEPT ![i] = h]
  BY <1>1
<1>3. h \in AnyHook /\ h.state = "starting" /\ h.job = hooks[i].job
      /\ h.count = 0 /\ h.timer = hooks[i].timer /\ h.visit = hooks[i].visit
  <2>1. "starting" \in Busy \cup Settled /\ 0 \in 0 .. MaxPolls
    BY PollAssumption DEF Busy
  <2>2. QED
    BY <1>0, <2>1 DEF AnyHook
<1>4. c \in Call' /\ c.kind = "sync" /\ c.answer = "pending" /\ c.hook = i
  <2>1. Len(hooks') = Len(hooks)
    BY <1>1
  <2>2. QED
    BY <1>0, <2>1 DEF Call
<1> HIDE DEF h, c
<1>5. Touches(i) /\ hooks'[i] = h
  BY <1>0, <1>2, <1>3, HookUpdate DEF Core, TypeInv
<1>6. Advances
  BY <1>1, ServerStays DEF Core, TypeInv
<1>7. ~AtWork(i)
  BY <1>1 DEF OnScreen, Core, BusyAtWork
<1>8. OneChain' /\ AtWork(i)' /\ \A k : k # i => (AtWork(k)' <=> AtWork(k))
  BY <1>1, <1>4, <1>7, ChainStarts DEF Core
<1>9. BusyAtWork'
  BY <1>1, <1>3, <1>5, <1>8, BusyStep DEF Busy
<1>10. TimersHold'
  BY <1>1, <1>5, <1>6, <1>7, OthersStay DEF Core, TimersHold, AtWork
<1>11. CallsHold'
  <2>1. CallHolds(c)'
    BY <1>3, <1>4, <1>5 DEF CallHolds, SyncCallHolds
  <2>2. \A d \in calls : CallHolds(d)'
    BY <1>5, <1>6, <1>7, OthersStay DEF Core, AtWork
  <2>3. QED
    BY <1>1, <2>1, <2>2 DEF CallsHold
<1>12. PageHolds' /\ RefreshesHold' /\ ShowsItsOwn'
  BY <1>1, <1>5, PageStays DEF Core, RefreshesGrow
<1>13. TypeInv'
  BY <1>1, <1>5, <1>6, <1>10, <1>11, <1>12 DEF Core, TypeInv, Touches, Advances
<1>14. QED
  BY <1>1, <1>3, <1>5, <1>6, <1>8, <1>9, <1>13 DEF Core

LEMMA FireCore ==
  ASSUME Core, NEW t \in timers, FireTimer(t)
  PROVE  /\ Core' /\ Advances /\ Touches(t.hook)
         /\ page' = page /\ refreshes' = refreshes
         /\ hooks'[t.hook].state = hooks[t.hook].state
         /\ hooks'[t.hook].job = hooks[t.hook].job
         /\ hooks'[t.hook].result = hooks[t.hook].result
<1> DEFINE i == t.hook
           n == hooks[i].count + 1
           h == [hooks[i] EXCEPT !.count = n]
           c == [kind |-> "job", hook |-> i, job |-> t.job, answer |-> "pending"]
<1>0. i \in DOMAIN hooks /\ TimerHolds(t) /\ t.job \in Jobs
  BY ChainHooks DEF Core, TypeInv, TimersHold
<1>1. /\ hooks[i] \in AnyHook /\ hooks[i].timer \in Timer \cup {Nothing}
      /\ Len(hooks) \in Nat /\ i \in 1 .. Len(hooks)
  BY <1>0, HookType DEF Core, TypeInv
<1>2. /\ timers' = timers \ {t}
      /\ hooks' = [hooks EXCEPT ![i] = h]
      /\ calls' = calls \cup {c}
      /\ UNCHANGED <<backend, enabled, page, refreshes>>
  BY DEF FireTimer
<1>3. n \in 0 .. MaxPolls
  BY <1>0, <1>1, PollAssumption DEF AnyHook, TimerHolds
<1>4. c \in Call' /\ c.kind = "job" /\ c.answer = "pending" /\ c.hook = i /\ c.job = t.job
  <2>1. Len(hooks') = Len(hooks)
    BY <1>2
  <2>2. QED
    BY <1>0, <1>1, <2>1 DEF Call
<1> HIDE DEF i, n, c
<1>5. h \in AnyHook /\ h.state = hooks[i].state /\ h.job = hooks[i].job /\ h.result = hooks[i].result
      /\ h.timer = hooks[i].timer /\ h.visit = hooks[i].visit
  BY <1>1, <1>3 DEF AnyHook
<1> HIDE DEF h
<1>6. Touches(i) /\ hooks'[i] = h
  BY <1>0, <1>1, <1>2, <1>5, HookUpdate DEF Core, TypeInv
<1>7. Advances
  BY <1>2, ServerStays DEF Core, TypeInv
<1>8. OneChain' /\ \A k : AtWork(k)' <=> AtWork(k)
  BY <1>2, <1>4, ChainFires DEF Core, i
<1>9. BusyAtWork'
  <2>1. OnScreen(i) => (hooks[i].state \in Busy <=> AtWork(i))
    BY DEF Core, BusyAtWork, OnScreen
  <2>2. QED
    BY <1>0, <1>2, <1>5, <1>6, <1>8, <2>1, BusyStep DEF i
<1>10. /\ \A u \in timers' : u.hook # i
       /\ \A d \in calls : d.hook # i
  BY <1>2 DEF Core, OneChain, i
<1>11. TimersHold'
  BY <1>0, <1>2, <1>6, <1>7, <1>10, OthersStay DEF Core, TimersHold, i
<1>12. CallsHold'
  <2>1. Created(c.job)' /\ c.job = hooks'[i].job
    BY <1>0, <1>4, <1>5, <1>6, <1>7, CreatedStays DEF TimerHolds, i
  <2>2. CallHolds(c)'
    BY <1>4, <2>1 DEF CallHolds, JobCallHolds
  <2>3. \A d \in calls : CallHolds(d)'
    BY <1>0, <1>6, <1>7, <1>10, OthersStay DEF Core, i
  <2>4. QED
    BY <1>2, <2>2, <2>3 DEF CallsHold
<1>13. PageHolds' /\ RefreshesHold' /\ ShowsItsOwn'
  BY <1>0, <1>2, <1>6, PageStays DEF Core, i, RefreshesGrow
<1>14. TypeInv'
  BY <1>2, <1>6, <1>7, <1>11, <1>12, <1>13 DEF Core, TypeInv, Touches, Advances
<1>15. QED
  BY <1>2, <1>5, <1>6, <1>7, <1>8, <1>9, <1>14 DEF Core, i

LEMMA AnswerCore ==
  ASSUME Core, NEW c \in calls, NEW d, d.hook = c.hook, CallHolds(d)', Advances,
         calls' = (calls \ {c}) \cup {d},
         UNCHANGED <<enabled, page, hooks, timers, refreshes>>
  PROVE  Core' /\ Touches(c.hook)
<1> DEFINE i == c.hook
<1>0. i \in DOMAIN hooks
  BY ChainHooks DEF Core
<1>1. hooks[i] \in AnyHook /\ hooks[i].timer \in Timer \cup {Nothing} /\ hooks' = [hooks EXCEPT ![i] = hooks[i]]
  BY <1>0, HookType DEF Core, TypeInv
<1> HIDE DEF i
<1>2. Touches(i)
  BY <1>0, <1>1, HookUpdate DEF Core, TypeInv
<1>3. OneChain' /\ \A k : AtWork(k)' <=> AtWork(k)
  BY ChainAnswers DEF Core
<1>4. BusyAtWork'
  <2>1. OnScreen(i) => (hooks[i].state \in Busy <=> AtWork(i))
    BY DEF Core, BusyAtWork, OnScreen
  <2>2. QED
    BY <1>0, <1>2, <1>3, <2>1, BusyStep
<1>5. \A t \in timers : t.hook # i
  BY DEF Core, OneChain, i
<1>6. TimersHold'
  BY <1>0, <1>2, <1>5, OthersStay DEF Core, TimersHold
<1>7. CallsHold'
  <2>1. \A e \in calls \ {c} : e.hook # i
    BY DEF Core, OneChain, i
  <2>2. \A e \in calls \ {c} : CallHolds(e)'
    BY <1>0, <1>2, <2>1, OthersStay DEF Core
  <2>3. QED
    BY <2>2 DEF CallsHold
<1>8. PageHolds' /\ RefreshesHold' /\ ShowsItsOwn'
  BY <1>0, <1>2, PageStays DEF Core, RefreshesGrow
<1>9. TypeInv'
  BY <1>2, <1>6, <1>7, <1>8 DEF Core, TypeInv, Touches, Advances
<1>10. QED
  BY <1>2, <1>3, <1>4, <1>9 DEF Core, i

LEMMA AnswerSyncCore ==
  ASSUME Core, NEW c \in calls, AnswerSync(c)
  PROVE  Core' /\ Advances /\ Touches(c.hook) /\ hooks' = hooks
<1>1. c.kind = "sync" /\ UNCHANGED <<enabled, page, hooks, timers, refreshes>>
  BY DEF AnswerSync, Answered
<1>2. CallHolds(c) /\ ServerHolds
  BY DEF Core, TypeInv, CallsHold
<1>3. PICK answer \in {"accepted", "conflict", "unavailable", "error"}, j \in Jobs \cup {Nothing} :
        /\ Answered(c, answer, j)
        /\ Advances
        /\ answer = "accepted" => Created(j)'
  BY <1>2, CreateAdvances, ServerStays DEF AnswerSync
<1> DEFINE d == [c EXCEPT !.answer = answer, !.job = j]
<1>4. /\ d \in Call /\ d.kind = "sync" /\ d.hook = c.hook /\ d.answer = answer /\ d.job = j
  <2>1. c \in Call /\ answer \in Busy \cup Settled \cup {"pending", "accepted"}
    BY <1>2 DEF CallHolds, Settled
  <2>2. QED
    BY <1>1, <2>1 DEF Call
<1>5. calls' = (calls \ {c}) \cup {d}
  BY <1>3 DEF Answered
<1> HIDE DEF d
<1>6. CallHolds(d)'
  <2>1. Call' = Call
    BY <1>1 DEF Call
  <2>2. SyncCallHolds(d)'
    BY <1>1, <1>2, <1>3, <1>4 DEF CallHolds, SyncCallHolds
  <2>3. QED
    BY <1>4, <2>1, <2>2 DEF CallHolds
<1>7. QED
  BY <1>1, <1>3, <1>4, <1>5, <1>6, AnswerCore

LEMMA AnswerJobCore ==
  ASSUME Core, NEW c \in calls, AnswerJob(c)
  PROVE  Core' /\ Advances /\ Touches(c.hook) /\ hooks' = hooks
<1>1. c.kind = "job" /\ UNCHANGED <<backend, enabled, page, hooks, timers, refreshes>>
  BY DEF AnswerJob, Answered
<1>2. CallHolds(c) /\ ServerHolds /\ Advances
  BY <1>1, ServerStays DEF Core, TypeInv, CallsHold
<1>3. Created(c.job) /\ c.job = hooks[c.hook].job
  BY <1>1, <1>2 DEF CallHolds, JobCallHolds
<1>4. PICK answer \in {"queued", "running", "succeeded", "failed", "error"} :
        /\ Answered(c, answer, c.job)
        /\ answer \in {"succeeded", "failed"} => status[c.job] = answer
  BY <1>2, <1>3 DEF AnswerJob, ServerHolds, Created
<1> DEFINE d == [c EXCEPT !.answer = answer, !.job = c.job]
<1>5. /\ d \in Call /\ d.kind = "job" /\ d.hook = c.hook /\ d.answer = answer /\ d.job = c.job
  <2>1. c \in Call /\ answer \in Busy \cup Settled \cup {"pending", "accepted"}
    BY <1>2 DEF CallHolds, Settled, Busy
  <2>2. QED
    BY <1>1, <2>1 DEF Call
<1>6. calls' = (calls \ {c}) \cup {d}
  BY <1>4 DEF Answered
<1> HIDE DEF d
<1>7. answer \in {"succeeded", "failed"} => EndedAs(c.job, answer)
  BY <1>2, <1>3, <1>4 DEF EndedAs, ServerHolds, Created
<1>8. CallHolds(d)'
  <2>1. Call' = Call
    BY <1>1 DEF Call
  <2>2. Created(c.job)' /\ (answer \in {"succeeded", "failed"} => EndedAs(c.job, answer)')
    BY <1>1, <1>2, <1>3, <1>7, CreatedStays, EndStays
  <2>3. JobCallHolds(d)'
    <3>1. d.job = hooks'[d.hook].job
      BY <1>1, <1>3, <1>5
    <3>2. Created(d.job)' /\ (d.answer \in {"succeeded", "failed"} => EndedAs(d.job, d.answer)')
      BY <1>5, <2>2
    <3>3. QED
      BY <1>4, <1>5, <3>1, <3>2 DEF JobCallHolds
  <2>4. QED
    BY <1>5, <2>1, <2>3 DEF CallHolds
<1>9. QED
  BY <1>1, <1>2, <1>5, <1>6, <1>8, AnswerCore

\* The end of a chain: the panel shows a settled state, if it is there.
LEMMA EndCore ==
  ASSUME Core, NEW c \in calls, NEW s \in Settled, Advances, Touches(c.hook),
         hooks'[c.hook].state = (IF OnScreen(c.hook) THEN s ELSE hooks[c.hook].state),
         hooks'[c.hook].job = hooks[c.hook].job,
         hooks'[c.hook].count = hooks[c.hook].count,
         calls' = calls \ {c}, UNCHANGED <<enabled, page, timers>>, RefreshesGrow
  PROVE  Core'
<1> DEFINE i == c.hook
<1>0. i \in DOMAIN hooks
  BY ChainHooks DEF Core
<1>1. OneChain' /\ ~AtWork(i)' /\ \A k : k # i => (AtWork(k)' <=> AtWork(k))
  BY ChainEnds DEF Core
<1>2. BusyAtWork'
  <2>1. s \notin Busy
    BY DEF Busy, Settled
  <2>2. QED
    BY <1>0, <1>1, <2>1, BusyStep
<1>3. /\ \A t \in timers : t.hook # i
      /\ \A e \in calls \ {c} : e.hook # i
  BY DEF Core, OneChain
<1>4. TimersHold'
  BY <1>0, <1>3, OthersStay DEF Core, TimersHold
<1>5. CallsHold'
  BY <1>0, <1>3, OthersStay DEF Core, CallsHold
<1>6. PageHolds' /\ RefreshesHold' /\ ShowsItsOwn'
  BY <1>0, PageStays DEF Core
<1>7. TypeInv'
  BY <1>4, <1>5, <1>6 DEF Core, TypeInv, Touches, Advances
<1>8. QED
  BY <1>1, <1>2, <1>7 DEF Core

\* Going on polling.
LEMMA PollCore ==
  ASSUME Core, NEW c \in calls, NEW s \in Busy, NEW j \in Jobs, Created(j), Advances,
         Touches(c.hook),
         hooks'[c.hook].state = (IF OnScreen(c.hook) THEN s ELSE hooks[c.hook].state),
         hooks'[c.hook].job = j,
         hooks'[c.hook].count < MaxPolls,
         timers' = timers \cup {[hook |-> c.hook, job |-> j]},
         calls' = calls \ {c}, UNCHANGED <<enabled, page, refreshes>>
  PROVE  Core'
<1> DEFINE i == c.hook
           t == [hook |-> i, job |-> j]
<1>0. i \in DOMAIN hooks /\ Len(hooks) \in Nat /\ DOMAIN hooks = 1 .. Len(hooks) /\ Len(hooks') = Len(hooks)
  BY ChainHooks DEF Core, TypeInv, HooksHold, Touches
<1>1. t.hook = i /\ t.job = j /\ t \in Timer'
  BY <1>0 DEF Timer
<1>2. TimerHolds(t)'
  BY <1>1, CreatedStays DEF TimerHolds
<1> HIDE DEF t
<1>3. OneChain' /\ \A k : AtWork(k)' <=> AtWork(k)
  BY <1>1, ChainPolls DEF Core, t
<1>4. BusyAtWork'
  <2>1. AtWork(i)
    BY DEF AtWork
  <2>2. OnScreen(i) => hooks'[i].state \in Busy
    OBVIOUS
  <2>3. QED
    BY <1>0, <1>3, <2>1, <2>2, BusyStep
<1>5. /\ \A u \in timers : u.hook # i
      /\ \A e \in calls \ {c} : e.hook # i
  BY DEF Core, OneChain
<1>6. TimersHold'
  <2>1. \A u \in timers : TimerHolds(u)'
    BY <1>0, <1>5, OthersStay DEF Core
  <2>2. QED
    BY <1>2, <2>1 DEF TimersHold, t
<1>7. CallsHold'
  BY <1>0, <1>5, OthersStay DEF Core, CallsHold
<1>8. PageHolds' /\ RefreshesHold' /\ ShowsItsOwn'
  BY <1>0, PageStays DEF Core, RefreshesGrow
<1>9. TypeInv'
  BY <1>6, <1>7, <1>8 DEF Core, TypeInv, Touches, Advances
<1>10. QED
  BY <1>3, <1>4, <1>9 DEF Core

\* What an answer that arrives does to its hook.
Delivers(c, s) ==
    /\ Advances
    /\ Touches(c.hook)
    /\ page' = page
    /\ hooks'[c.hook].state = (IF OnScreen(c.hook) THEN s ELSE hooks[c.hook].state)

LEMMA DeliverSyncCore ==
  ASSUME Core, NEW c \in calls, DeliverSync(c)
  PROVE  /\ Core' /\ refreshes' = refreshes
         /\ \E s \in {"queued", "conflict", "unavailable", "error"} : Delivers(c, s)
<1> DEFINE i == c.hook
<1>0. /\ i \in DOMAIN hooks /\ CallHolds(c) /\ HooksHold /\ ServerHolds
  BY ChainHooks DEF Core, TypeInv, CallsHold
<1>1. /\ c.kind = "sync" /\ c.answer # "pending" /\ calls' = calls \ {c}
      /\ UNCHANGED <<backend, enabled, page, refreshes>>
  BY DEF DeliverSync
<1>2. SyncCallHolds(c)
  BY <1>0, <1>1 DEF CallHolds
<1>3. Advances
  BY <1>0, <1>1, ServerStays
<1>4. CASE c.answer = "accepted"
  <2>1. Created(c.job) /\ c.job \in Jobs
    BY <1>2, <1>4 DEF SyncCallHolds, Created
  <2>2. Poll([Show(hooks, i, "queued") EXCEPT ![i].job = c.job], i, c.job)
    BY <1>4 DEF DeliverSync
  <2>3. "queued" \in Busy /\ "queued" \in Busy \cup Settled
    BY DEF Busy
  <2>4. /\ Touches(i)
        /\ hooks'[i].state = (IF OnScreen(i) THEN "queued" ELSE hooks[i].state)
        /\ hooks'[i].job = c.job
        /\ hooks'[i].count = hooks[i].count
        /\ timers' = timers \cup {[hook |-> i, job |-> c.job]}
    BY <1>0, <2>1, <2>2, <2>3, PollTouches
  <2>5. hooks'[i].count < MaxPolls
    BY <1>2, <2>4, PollAssumption DEF SyncCallHolds
  <2>6. Core'
    BY <1>1, <1>3, <2>1, <2>3, <2>4, <2>5, PollCore
  <2>7. QED
    BY <1>1, <1>3, <2>4, <2>6 DEF Delivers
<1>5. CASE c.answer # "accepted"
  <2>1. c.answer \in {"conflict", "unavailable", "error"} /\ c.answer \in Settled
    BY <1>1, <1>2, <1>5 DEF SyncCallHolds, Settled
  <2>2. hooks' = Show(hooks, i, c.answer) /\ timers' = timers
    BY <1>5 DEF DeliverSync
  <2>3. /\ Touches(i)
        /\ hooks'[i].state = (IF OnScreen(i) THEN c.answer ELSE hooks[i].state)
        /\ hooks'[i].job = hooks[i].job
        /\ hooks'[i].count = hooks[i].count
    BY <1>0, <2>1, <2>2, ShowTouches
  <2>4. Core'
    BY <1>1, <1>3, <2>1, <2>2, <2>3, EndCore DEF RefreshesGrow
  <2>5. QED
    BY <1>1, <1>3, <2>1, <2>3, <2>4 DEF Delivers
<1>6. QED
  BY <1>4, <1>5

LEMMA JobEndCore ==
  ASSUME Core, NEW c \in calls, NEW s \in {"succeeded", "failed"}, Delivered(c, {s}),
         hooks' = ShowResult(hooks, c.hook, s, c.job),
         UNCHANGED <<backend, timers>>, RefreshesGrow
  PROVE  /\ Core' /\ Delivers(c, s)
         /\ hooks'[c.hook].job = c.job
         /\ OnScreen(c.hook) => hooks'[c.hook].result = c.job
         /\ EndedAs(c.job, s)
<1> DEFINE i == c.hook
<1>0. /\ i \in DOMAIN hooks /\ CallHolds(c) /\ HooksHold /\ ServerHolds
  BY ChainHooks DEF Core, TypeInv, CallsHold
<1>1. /\ c.kind = "job" /\ c.answer = s /\ calls' = calls \ {c}
      /\ UNCHANGED <<enabled, page>>
  BY DEF Delivered
<1>2. JobCallHolds(c)
  BY <1>0, <1>1 DEF CallHolds
<1>3. Advances
  BY <1>0, ServerStays
<1>4. EndedAs(c.job, s) /\ c.job \in Jobs /\ c.job = hooks[i].job
  BY <1>1, <1>2 DEF JobCallHolds, Created
<1>5. s \in Settled
  BY DEF Settled
<1>6. /\ Touches(i)
      /\ hooks'[i].state = (IF OnScreen(i) THEN s ELSE hooks[i].state)
      /\ OnScreen(i) => hooks'[i].result = c.job
      /\ hooks'[i].job = hooks[i].job
      /\ hooks'[i].count = hooks[i].count
  BY <1>0, <1>4, <1>5, ShowResultTouches
<1>7. Core'
  BY <1>1, <1>3, <1>5, <1>6, EndCore
<1>8. QED
  BY <1>1, <1>3, <1>4, <1>6, <1>7 DEF Delivers

LEMMA JobSucceededCore ==
  ASSUME Core, NEW c \in calls, JobSucceeded(c)
  PROVE  /\ Core' /\ Delivers(c, "succeeded")
         /\ hooks'[c.hook].job = c.job
         /\ OnScreen(c.hook) => hooks'[c.hook].result = c.job
         /\ EndedAs(c.job, "succeeded")
         /\ hooks[c.hook].visit \in 1 .. MaxVisits
         /\ refreshes' = Append(refreshes, NewRefresh(hooks[c.hook].visit))
         /\ UNCHANGED backend
<1>1. /\ Delivered(c, {"succeeded"})
      /\ hooks' = ShowResult(hooks, c.hook, "succeeded", c.job)
      /\ refreshes' = Append(refreshes, NewRefresh(hooks[c.hook].visit))
      /\ UNCHANGED <<backend, timers>>
  BY DEF JobSucceeded, Delivered
<1>2. hooks[c.hook].visit \in 1 .. MaxVisits
  BY ChainHooks, HookType DEF Core, TypeInv, AnyHook
<1>3. RefreshesGrow
  BY <1>1, <1>2 DEF RefreshesGrow
<1>4. QED
  BY <1>1, <1>2, <1>3, JobEndCore

LEMMA JobFailedCore ==
  ASSUME Core, NEW c \in calls, JobFailed(c)
  PROVE  /\ Core' /\ Delivers(c, "failed") /\ refreshes' = refreshes
         /\ hooks'[c.hook].job = c.job
         /\ OnScreen(c.hook) => hooks'[c.hook].result = c.job
         /\ EndedAs(c.job, "failed")
<1>1. /\ Delivered(c, {"failed"})
      /\ hooks' = ShowResult(hooks, c.hook, "failed", c.job)
      /\ UNCHANGED <<backend, timers, refreshes>>
  BY DEF JobFailed, Delivered
<1>2. QED
  BY <1>1, JobEndCore DEF RefreshesGrow

LEMMA PollFailedCore ==
  ASSUME Core, NEW c \in calls, PollFailed(c)
  PROVE  Core' /\ Delivers(c, "error") /\ refreshes' = refreshes
<1> DEFINE i == c.hook
<1>0. /\ i \in DOMAIN hooks /\ HooksHold /\ ServerHolds
  BY ChainHooks DEF Core, TypeInv
<1>1. /\ calls' = calls \ {c} /\ hooks' = Show(hooks, i, "error")
      /\ UNCHANGED <<backend, enabled, page, timers, refreshes>>
  BY DEF PollFailed, Delivered
<1>2. Advances
  BY <1>0, <1>1, ServerStays
<1>3. "error" \in Settled /\ "error" \in Busy \cup Settled
  BY DEF Settled
<1>4. /\ Touches(i)
      /\ hooks'[i].state = (IF OnScreen(i) THEN "error" ELSE hooks[i].state)
      /\ hooks'[i].job = hooks[i].job
      /\ hooks'[i].count = hooks[i].count
  BY <1>0, <1>1, <1>3, ShowTouches
<1>5. Core'
  BY <1>1, <1>2, <1>3, <1>4, EndCore DEF RefreshesGrow
<1>6. QED
  BY <1>1, <1>2, <1>4, <1>5 DEF Delivers

LEMMA JobPendingCore ==
  ASSUME Core, NEW c \in calls, JobPending(c)
  PROVE  /\ Core' /\ refreshes' = refreshes
         /\ \E s \in {"queued", "running", "timed-out"} : Delivers(c, s)
<1> DEFINE i == c.hook
<1>0. /\ i \in DOMAIN hooks /\ CallHolds(c) /\ HooksHold /\ ServerHolds
  BY ChainHooks DEF Core, TypeInv, CallsHold
<1>1. /\ c.kind = "job" /\ c.answer \in {"queued", "running"} /\ calls' = calls \ {c}
      /\ UNCHANGED <<backend, enabled, page, refreshes>>
  BY DEF JobPending, Delivered
<1>2. Advances
  BY <1>0, <1>1, ServerStays
<1>3. Created(c.job) /\ c.job \in Jobs /\ c.job = hooks[i].job
  BY <1>0, <1>1 DEF CallHolds, JobCallHolds, Created
<1>4. CASE hooks[i].count >= MaxPolls
  <2>1. "timed-out" \in Settled /\ "timed-out" \in Busy \cup Settled
    BY DEF Settled
  <2>2. hooks' = Show(hooks, i, "timed-out") /\ timers' = timers
    BY <1>4 DEF JobPending
  <2>3. /\ Touches(i)
        /\ hooks'[i].state = (IF OnScreen(i) THEN "timed-out" ELSE hooks[i].state)
        /\ hooks'[i].job = hooks[i].job
        /\ hooks'[i].count = hooks[i].count
    BY <1>0, <2>1, <2>2, ShowTouches
  <2>4. Core'
    BY <1>1, <1>2, <2>1, <2>2, <2>3, EndCore DEF RefreshesGrow
  <2>5. QED
    BY <1>1, <1>2, <2>3, <2>4 DEF Delivers
<1>5. CASE ~(hooks[i].count >= MaxPolls)
  <2>1. c.answer \in Busy /\ c.answer \in Busy \cup Settled
    BY <1>1 DEF Busy
  <2>2. Poll(Show(hooks, i, c.answer), i, c.job)
    BY <1>5 DEF JobPending
  <2>3. /\ Touches(i)
        /\ hooks'[i].state = (IF OnScreen(i) THEN c.answer ELSE hooks[i].state)
        /\ hooks'[i].job = c.job
        /\ hooks'[i].count = hooks[i].count
        /\ timers' = timers \cup {[hook |-> i, job |-> c.job]}
    BY <1>0, <1>3, <2>1, <2>2, PollTouches
  <2>4. hooks'[i].count < MaxPolls
    BY <1>0, <1>5, <2>3, HookType, PollAssumption DEF AnyHook
  <2>5. Core'
    BY <1>1, <1>2, <1>3, <2>1, <2>3, <2>4, PollCore
  <2>6. QED
    BY <1>1, <1>2, <2>3, <2>5 DEF Delivers
<1>6. QED
  BY <1>4, <1>5

-----------------------------------------------------------------------------
(* The inductive invariant: what the page and the server do. *)

\* Rendering the page, or leaving it as it is: a panel that is mounted has a
\* new hook with nothing under way, and one that stays keeps its hook.
LEMMA RenderCore ==
  ASSUME Core, NEW p \in AnyPage, Render(p), Advances, UNCHANGED <<enabled, calls>>,
         p.from =< Len(refreshes'), p.open => p.visit >= 1,
         HasPanel(p) /\ HasPanel(page) => p.visit = page.visit,
         RefreshesHold', ShowsItsOwn'
  PROVE  /\ Core'
         /\ HasPanel(page)' => \/ hooks'[Len(hooks')].state = "idle"
                               \/ hooks' = hooks /\ HasPanel(page)
<1>0. /\ HooksHold /\ PageHolds /\ ServerHolds /\ Len(hooks) \in Nat
      /\ DOMAIN hooks = 1 .. Len(hooks)
      /\ page' = p /\ (HasPanel(page)' <=> HasPanel(p))
  BY DEF Core, TypeInv, HooksHold, Render, HasPanel
<1>1. ASSUME HooksHold', Len(hooks') \in Nat, Len(hooks') >= Len(hooks),
             \A k \in DOMAIN hooks : hooks'[k] = hooks[k],
             timers' \subseteq timers
      PROVE  TimersHold' /\ CallsHold' /\ OneChain'
  <2>1. ASSUME NEW t \in timers PROVE TimerHolds(t)'
    <3>1. TimerHolds(t) /\ t.hook \in DOMAIN hooks
      BY ChainHooks DEF Core, TypeInv, TimersHold
    <3>2. QED
      BY <1>0, <1>1, <3>1, TimerStays
  <2>2. ASSUME NEW c \in calls PROVE CallHolds(c)'
    <3>1. CallHolds(c) /\ c.hook \in DOMAIN hooks
      BY ChainHooks DEF Core, TypeInv, CallsHold
    <3>2. QED
      BY <1>0, <1>1, <3>1, CallStays
  <2>3. QED
    BY <1>1, <2>1, <2>2 DEF TimersHold, CallsHold, Core, OneChain
<1>2. CASE HasPanel(p) /\ ~HasPanel(page)
  <2> DEFINE h == NewHook(p.visit)
  <2>1. hooks' = Append(hooks, h) /\ timers' = timers
    BY <1>2 DEF Render
  <2>2. h \in AnyHook /\ h.timer = Nothing /\ h.state = "idle" /\ h.visit = p.visit
    <3>1. "idle" \in Busy \cup Settled /\ 0 \in 0 .. MaxPolls
      BY PollAssumption DEF Settled
    <3>2. p.visit \in 1 .. MaxVisits
      BY <1>2 DEF AnyPage, HasPanel
    <3>3. QED
      BY <3>1, <3>2 DEF AnyHook, NewHook
  <2> HIDE DEF h
  <2>3. /\ hooks' \in Seq(AnyHook) /\ Len(hooks') = Len(hooks) + 1
        /\ hooks'[Len(hooks')] = h
        /\ \A k \in DOMAIN hooks : hooks'[k] = hooks[k]
        /\ DOMAIN hooks' = 1 .. Len(hooks) + 1
    BY <1>0, <2>1, <2>2 DEF HooksHold
  <2>4. HooksHold'
    <3>1. Timer \subseteq Timer'
      BY <1>0, <2>3 DEF Timer
    <3>2. ASSUME NEW k \in DOMAIN hooks' PROVE hooks'[k].timer \in Timer' \cup {Nothing}
      <4>1. CASE k \in DOMAIN hooks
        BY <1>0, <2>3, <3>1, <4>1 DEF HooksHold
      <4>2. CASE k \notin DOMAIN hooks
        BY <1>0, <2>2, <2>3, <4>2
      <4>3. QED
        BY <4>1, <4>2
    <3>3. QED
      BY <2>3, <3>2 DEF HooksHold
  <2>5. TimersHold' /\ CallsHold' /\ OneChain'
    BY <1>0, <1>1, <2>1, <2>3, <2>4
  <2>6. PageHolds'
    BY <1>0, <2>2, <2>3 DEF PageHolds
  <2>7. BusyAtWork'
    <3>1. /\ \A t \in timers' : t.hook # Len(hooks')
          /\ \A c \in calls' : c.hook # Len(hooks')
      BY <1>0, <2>1, <2>3, ChainHooks DEF Core
    <3>2. hooks'[Len(hooks')].state \notin Busy
      BY <2>2, <2>3 DEF Busy
    <3>3. QED
      BY <3>1, <3>2 DEF BusyAtWork, AtWork
  <2>8. QED
    BY <1>0, <2>2, <2>3, <2>4, <2>5, <2>6, <2>7 DEF Core, TypeInv, Advances
<1>3. CASE ~(HasPanel(p) /\ ~HasPanel(page))
  <2>1. /\ hooks' = hooks /\ timers' \subseteq timers
        /\ HasPanel(p) => HasPanel(page) /\ timers' = timers
    BY <1>3 DEF Render
  <2>2. HooksHold'
    BY <1>0, <2>1 DEF HooksHold, Timer
  <2>3. TimersHold' /\ CallsHold' /\ OneChain'
    BY <1>0, <1>1, <2>1, <2>2
  <2>4. PageHolds'
    BY <1>0, <2>1 DEF PageHolds
  <2>5. BusyAtWork'
    BY <1>0, <2>1 DEF Core, BusyAtWork, AtWork
  <2>6. QED
    BY <1>0, <2>1, <2>2, <2>3, <2>4, <2>5 DEF Core, TypeInv, Advances
<1>4. QED
  BY <1>2, <1>3

LEMMA SamePage ==
  ASSUME UNCHANGED <<page, hooks, timers>>
  PROVE  Render(page)
  BY DEF Render

\* The requests for the metrics: one is answered, or its answer arrives.
LEMMA RefreshType ==
  ASSUME RefreshesHold, NEW n \in DOMAIN refreshes, NEW r \in Refresh,
         r.visit = refreshes[n].visit, refreshes' = [refreshes EXCEPT ![n] = r]
  PROVE  /\ RefreshesHold'
         /\ Len(refreshes) \in Nat /\ Len(refreshes') = Len(refreshes)
         /\ DOMAIN refreshes = 1 .. Len(refreshes) /\ DOMAIN refreshes' = DOMAIN refreshes
         /\ refreshes'[n] = r
         /\ \A m \in DOMAIN refreshes : m # n => refreshes'[m] = refreshes[m]
         /\ \A m \in DOMAIN refreshes : refreshes'[m].visit = refreshes[m].visit
  BY DEF RefreshesHold

LEMMA AnswerRefreshEffect ==
  ASSUME Core, NEW n \in DOMAIN refreshes, AnswerRefresh(n)
  PROVE  \E r \in Refresh : /\ r.visit = refreshes[n].visit
                            /\ refreshes' = [refreshes EXCEPT ![n] = r]
                            /\ r.answer \in {"metrics", "error"}
                            /\ r.answer = "metrics" => r.version = stored[Repository]
<1>0. refreshes[n] \in Refresh /\ stored[Repository] \in 0 .. MaxVersion
  BY DEF Core, TypeInv, RefreshesHold, ServerHolds
<1>1. CASE refreshes' = [refreshes EXCEPT ![n].answer = "metrics", ![n].version = stored[Repository]]
  <2> DEFINE r == [refreshes[n] EXCEPT !.answer = "metrics", !.version = stored[Repository]]
  <2>1. refreshes' = [refreshes EXCEPT ![n] = r]
    BY <1>1
  <2>2. r \in Refresh /\ r.visit = refreshes[n].visit /\ r.answer = "metrics" /\ r.version = stored[Repository]
    BY <1>0 DEF Refresh
  <2> HIDE DEF r
  <2>3. QED
    BY <2>1, <2>2
<1>2. CASE refreshes' = [refreshes EXCEPT ![n].answer = "error"]
  <2> DEFINE r == [refreshes[n] EXCEPT !.answer = "error"]
  <2>1. refreshes' = [refreshes EXCEPT ![n] = r]
    BY <1>2
  <2>2. r \in Refresh /\ r.visit = refreshes[n].visit /\ r.answer = "error"
    BY <1>0 DEF Refresh
  <2> HIDE DEF r
  <2>3. QED
    BY <2>1, <2>2
<1>3. QED
  BY <1>1, <1>2 DEF AnswerRefresh

LEMMA DeliverRefreshEffect ==
  ASSUME Core, NEW n \in DOMAIN refreshes, DeliverRefresh(n)
  PROVE  \E r \in Refresh : /\ r.visit = refreshes[n].visit
                            /\ refreshes' = [refreshes EXCEPT ![n] = r]
                            /\ r.answer = "over"
<1> DEFINE r == [refreshes[n] EXCEPT !.answer = "over", !.version = 0]
<1>1. refreshes[n] \in Refresh /\ 0 \in 0 .. MaxVersion
  BY PollAssumption DEF Core, TypeInv, RefreshesHold
<1>2. refreshes' = [refreshes EXCEPT ![n] = r]
  BY DEF DeliverRefresh
<1>3. r \in Refresh /\ r.visit = refreshes[n].visit /\ r.answer = "over"
  BY <1>1 DEF Refresh
<1> HIDE DEF r
<1>4. QED
  BY <1>2, <1>3

LEMMA OpenCore ==
  ASSUME Core, Open
  PROVE  Core' /\ ~HasPanel(page)'
<1>1. /\ ~page.open /\ page.visit < MaxVisits
      /\ Render(NewPage(page.visit + 1, TRUE))
      /\ page' = NewPage(page.visit + 1, TRUE)
      /\ refreshes' = Append(refreshes, NewRefresh(page'.visit))
      /\ UNCHANGED <<backend, enabled, calls>>
  BY DEF Open, Render
<1>2. page.visit \in 0 .. MaxVisits /\ RefreshesHold /\ ServerHolds
  BY DEF Core, TypeInv, PageHolds, AnyPage
<1>3. PICK v \in 1 .. MaxVisits : v = page.visit + 1
  BY <1>1, <1>2, PollAssumption
<1>4. PICK p : p = NewPage(v, TRUE)
  OBVIOUS
<1>5. p \in AnyPage /\ p.from = 0 /\ p.visit = v /\ p.metrics = Nothing /\ ~HasPanel(p)
  BY <1>4, PollAssumption DEF AnyPage, NewPage, HasPanel
<1>6. page' = p /\ Render(p) /\ refreshes' = Append(refreshes, NewRefresh(v))
  BY <1>1, <1>3, <1>4, <1>5
<1>7. RefreshesHold' /\ Len(refreshes') \in Nat
  BY <1>2, <1>6, RefreshesEffect DEF RefreshesGrow
<1>8. ShowsItsOwn'
  BY <1>5, <1>6 DEF ShowsItsOwn
<1>9. Advances
  BY <1>1, <1>2, ServerStays
<1>10. p.from =< Len(refreshes') /\ p.visit >= 1
  BY <1>5, <1>7, PollAssumption
<1>11. Core'
  BY <1>1, <1>5, <1>6, <1>7, <1>8, <1>9, <1>10, RenderCore
<1>12. QED
  BY <1>5, <1>6, <1>11 DEF HasPanel

LEMMA LeaveCore ==
  ASSUME Core, Leave
  PROVE  Core' /\ ~HasPanel(page)'
<1>0. page \in AnyPage /\ page.from =< Len(refreshes) /\ RefreshesHold /\ ServerHolds
  BY DEF Core, TypeInv, PageHolds
<1>1. PICK p : p = [page EXCEPT !.open = FALSE]
  OBVIOUS
<1>2. /\ p \in AnyPage /\ ~p.open /\ p.metrics = page.metrics /\ p.from = page.from
      /\ p.visit = page.visit
  BY <1>0, <1>1 DEF AnyPage
<1>3. /\ Render(p) /\ page' = p /\ UNCHANGED <<backend, enabled, calls, refreshes>>
  BY <1>1 DEF Leave, Render
<1>4. RefreshesHold' /\ ShowsItsOwn'
  BY <1>2, <1>3, RefreshesEffect DEF Core, TypeInv, ShowsItsOwn, RefreshesGrow
<1>5. Advances /\ ~HasPanel(p)
  BY <1>0, <1>2, <1>3, ServerStays DEF HasPanel
<1>6. Core'
  BY <1>0, <1>2, <1>3, <1>4, <1>5, RenderCore
<1>7. QED
  BY <1>3, <1>5, <1>6 DEF HasPanel

\* A step that leaves the tab alone, but for an answer to one of its requests.
LEMMA IdleCore ==
  ASSUME Core, Advances, UNCHANGED <<enabled, page, hooks, timers, calls>>,
         RefreshesHold', Len(refreshes') = Len(refreshes), ShowsItsOwn'
  PROVE  Core'
<1>1. PICK p : p = page
  OBVIOUS
<1>2. p \in AnyPage /\ p.from =< Len(refreshes) /\ (p.open => p.visit >= 1) /\ Render(p)
  BY <1>1, SamePage DEF Core, TypeInv, PageHolds
<1>3. QED
  BY <1>1, <1>2, RenderCore

LEMMA BackendCore ==
  ASSUME Core, BackendStep
  PROVE  Core' /\ Advances /\ tab' = tab
<1>1. Advances /\ tab' = tab /\ enabled' = enabled
  BY BackendAdvances DEF Core, TypeInv, BackendStep
<1>2. RefreshesHold' /\ ShowsItsOwn'
  BY <1>1 DEF tab, Core, TypeInv, ShowsItsOwn, RefreshesHold, Refresh
<1>3. QED
  BY <1>1, <1>2, IdleCore DEF tab

LEMMA StutterCore ==
  ASSUME Core, UNCHANGED vars
  PROVE  Core' /\ Advances /\ tab' = tab
<1>1. Advances /\ tab' = tab /\ enabled' = enabled
  BY ServerStays DEF Core, TypeInv, vars
<1>2. RefreshesHold' /\ ShowsItsOwn'
  BY <1>1 DEF tab, Core, TypeInv, ShowsItsOwn, RefreshesHold, Refresh
<1>3. QED
  BY <1>1, <1>2, IdleCore DEF tab

LEMMA AnswerRefreshCore ==
  ASSUME Core, NEW n \in DOMAIN refreshes, AnswerRefresh(n)
  PROVE  Core' /\ Advances
<1>1. PICK r \in Refresh : /\ r.visit = refreshes[n].visit
                           /\ refreshes' = [refreshes EXCEPT ![n] = r]
  BY AnswerRefreshEffect
<1>2. /\ refreshes[n].answer = "pending"
      /\ UNCHANGED <<backend, enabled, page, hooks, timers, calls>>
  BY DEF AnswerRefresh
<1>3. /\ RefreshesHold' /\ Len(refreshes') = Len(refreshes)
      /\ DOMAIN refreshes' = DOMAIN refreshes
      /\ \A m \in DOMAIN refreshes : m # n => refreshes'[m] = refreshes[m]
  BY <1>1, RefreshType DEF Core, TypeInv
<1>4. ShowsItsOwn'
  BY <1>2, <1>3 DEF Core, TypeInv, ShowsItsOwn
<1>5. Advances
  BY <1>2, ServerStays DEF Core, TypeInv
<1>6. QED
  BY <1>2, <1>3, <1>4, <1>5, IdleCore

LEMMA DeliverRefreshCore ==
  ASSUME Core, NEW n \in DOMAIN refreshes, DeliverRefresh(n)
  PROVE  /\ Core' /\ Advances
         /\ HasPanel(page)' => \/ hooks'[Len(hooks')].state = "idle"
                               \/ hooks' = hooks /\ HasPanel(page)
         /\ \/ page' = page
            \/ page'.from = n /\ page'.metrics = refreshes[n].version
               /\ page'.visit = page.visit /\ refreshes[n].visit = page.visit
               /\ refreshes[n].answer = "metrics"
            \/ ~HasPanel(page)'
<1>1. PICK r \in Refresh : /\ r.visit = refreshes[n].visit
                           /\ refreshes' = [refreshes EXCEPT ![n] = r]
                           /\ r.answer = "over"
  BY DeliverRefreshEffect
<1>2. /\ RefreshesHold' /\ Len(refreshes') = Len(refreshes) /\ Len(refreshes) \in Nat
      /\ DOMAIN refreshes' = DOMAIN refreshes /\ DOMAIN refreshes = 1 .. Len(refreshes)
      /\ refreshes'[n] = r
      /\ \A m \in DOMAIN refreshes : m # n => refreshes'[m] = refreshes[m]
      /\ \A m \in DOMAIN refreshes : refreshes'[m].visit = refreshes[m].visit
  BY <1>1, RefreshType DEF Core, TypeInv
<1>3. /\ page \in AnyPage /\ page.from =< Len(refreshes)
      /\ page.open => page.visit >= 1
      /\ refreshes[n] \in Refresh
  BY DEF Core, TypeInv, PageHolds, RefreshesHold
<1>4. PICK p \in AnyPage :
        /\ Render(p)
        /\ p.from =< Len(refreshes) /\ p.visit = page.visit /\ p.open = page.open
        /\ \/ p = page
           \/ /\ p.from = n /\ p.metrics = refreshes[n].version
              /\ refreshes[n].visit = page.visit /\ refreshes[n].answer = "metrics"
           \/ ~HasPanel(p) /\ p.from = page.from /\ p.metrics = page.metrics
  <2>1. CASE ~page.open \/ refreshes[n].visit # page.visit
    <3>1. UNCHANGED <<page, hooks, timers>>
      BY <2>1 DEF DeliverRefresh
    <3>2. QED
      BY <1>3, <3>1, SamePage
  <2>2. CASE page.open /\ refreshes[n].visit = page.visit /\ refreshes[n].answer = "metrics"
    <3> DEFINE q == [page EXCEPT !.metrics = refreshes[n].version, !.from = n, !.error = FALSE]
    <3>1. Render(q)
      BY <2>2 DEF DeliverRefresh
    <3>2. refreshes[n].version \in 0 .. MaxVersion /\ n \in Nat
      BY <1>2, <1>3 DEF Refresh
    <3>3. q \in AnyPage /\ q.from = n /\ q.visit = page.visit /\ q.metrics = refreshes[n].version
      BY <1>3, <3>2 DEF AnyPage
    <3>4. q.open = page.open
      BY <1>3 DEF AnyPage
    <3>5. q.from =< Len(refreshes)
      BY <1>2, <3>3
    <3> HIDE DEF q
    <3>6. QED
      BY <2>2, <3>1, <3>3, <3>4, <3>5
  <2>3. CASE page.open /\ refreshes[n].visit = page.visit /\ refreshes[n].answer # "metrics"
    <3> DEFINE q == [page EXCEPT !.error = TRUE]
    <3>1. Render(q)
      BY <2>3 DEF DeliverRefresh
    <3>2. q \in AnyPage /\ q.from = page.from /\ q.visit = page.visit /\ q.metrics = page.metrics
      BY <1>3 DEF AnyPage
    <3>3. q.open = page.open
      BY <1>3 DEF AnyPage
    <3>4. ~HasPanel(q)
      BY <1>3 DEF AnyPage, HasPanel
    <3> HIDE DEF q
    <3>5. QED
      BY <1>3, <3>1, <3>2, <3>3, <3>4
  <2>4. QED
    BY <2>1, <2>2, <2>3
<1>5. page' = p /\ UNCHANGED <<backend, enabled, calls>> /\ (HasPanel(page)' <=> HasPanel(p))
  BY <1>4 DEF DeliverRefresh, Render, HasPanel
<1>6. ShowsItsOwn'
  BY <1>1, <1>2, <1>4, <1>5 DEF Core, TypeInv, ShowsItsOwn
<1>7. Advances
  BY <1>5, ServerStays DEF Core, TypeInv
<1>8. /\ Core'
      /\ HasPanel(page)' => \/ hooks'[Len(hooks')].state = "idle"
                            \/ hooks' = hooks /\ HasPanel(page)
  BY <1>2, <1>3, <1>4, <1>5, <1>6, <1>7, RenderCore
<1>9. QED
  BY <1>4, <1>5, <1>7, <1>8

-----------------------------------------------------------------------------
(* Type correctness, and one chain for a panel that looks busy. *)

LEMMA InitCore ==
  ASSUME Init
  PROVE  Core /\ ~HasPanel(page)
<1>1. /\ hooks = <<>> /\ timers = {} /\ calls = {} /\ refreshes = <<>>
      /\ page = NewPage(0, FALSE) /\ enabled \in BOOLEAN
  BY DEF Init
<1>2. page \in AnyPage /\ page.from = 0 /\ ~page.open /\ page.metrics = Nothing /\ ~HasPanel(page)
  BY <1>1, PollAssumption DEF AnyPage, NewPage, HasPanel
<1>3. ServerHolds
  <2>1. /\ github = [r \in {Repository} |-> 0]
        /\ stored = [r \in {Repository} |-> 0]
        /\ status = [j \in Jobs |-> "none"]
        /\ repo \in [Jobs -> {Repository}]
        /\ asOf = [j \in Jobs |-> 0]
    BY DEF Init, Backend!Init
  <2>2. QED
    BY <2>1, PollAssumption DEF ServerHolds
<1>4. PageHolds /\ ShowsItsOwn
  <2>1. Len(refreshes) = 0
    BY <1>1
  <2>2. PageHolds
    BY <1>2, <2>1 DEF PageHolds
  <2>3. ShowsItsOwn
    BY <1>2 DEF ShowsItsOwn
  <2>4. QED
    BY <2>2, <2>3
<1>5. HooksHold /\ RefreshesHold
  BY <1>1 DEF HooksHold, RefreshesHold
<1>6. TypeInv
  BY <1>1, <1>3, <1>4, <1>5 DEF TypeInv, TimersHold, CallsHold
<1>7. OneChain /\ BusyAtWork
  BY <1>1, <1>2 DEF OneChain, BusyAtWork
<1>8. QED
  BY <1>2, <1>6, <1>7 DEF Core

LEMMA CoreStep ==
  ASSUME Core, [Next]_vars
  PROVE  Core'
<1>1. CASE BackendStep
  BY <1>1, BackendCore
<1>2. CASE Open
  BY <1>2, OpenCore
<1>3. CASE Leave
  BY <1>3, LeaveCore
<1>4. ASSUME NEW i \in DOMAIN hooks, Start(i) PROVE Core'
  BY <1>4, StartCore
<1>5. ASSUME NEW i \in DOMAIN hooks, ChainStep(i) PROVE Core'
  <2>1. ASSUME NEW t \in timers, FireTimer(t) PROVE Core'
    BY <2>1, FireCore
  <2>2. ASSUME NEW c \in calls,
               AnswerSync(c) \/ AnswerJob(c) \/ DeliverSync(c) \/ JobSucceeded(c)
                 \/ JobFailed(c) \/ PollFailed(c) \/ JobPending(c)
        PROVE  Core'
    BY <2>2, AnswerSyncCore, AnswerJobCore, DeliverSyncCore, JobSucceededCore,
       JobFailedCore, PollFailedCore, JobPendingCore
  <2>3. QED
    BY <1>5, <2>1, <2>2 DEF ChainStep
<1>6. ASSUME NEW n \in DOMAIN refreshes, AnswerRefresh(n) \/ DeliverRefresh(n) PROVE Core'
  BY <1>6, AnswerRefreshCore, DeliverRefreshCore
<1>7. CASE UNCHANGED vars
  BY <1>7, StutterCore
<1>8. QED
  BY <1>1, <1>2, <1>3, <1>4, <1>5, <1>6, <1>7 DEF Next

\* The invariant says what TypeOK does, and more.
LEMMA CoreTypes ==
  ASSUME Core
  PROVE  TypeOK
<1>1. page \in Page
  <2>1. page \in AnyPage /\ page.from =< Len(refreshes) /\ Len(refreshes) \in Nat
    BY DEF Core, TypeInv, PageHolds, RefreshesHold
  <2>2. QED
    BY <2>1 DEF AnyPage, Page
<1>2. \A i \in DOMAIN hooks : hooks[i] \in Hook
  <2>1. ASSUME NEW i \in DOMAIN hooks PROVE hooks[i] \in Hook
    <3>1. hooks[i] \in AnyHook /\ hooks[i].timer \in Timer \cup {Nothing}
      BY HookType DEF Core, TypeInv
    <3>2. QED
      BY <3>1 DEF AnyHook, Hook
  <2>2. QED
    BY <2>1
<1>3. timers \subseteq Timer /\ calls \subseteq Call
  BY DEF Core, TypeInv, TimersHold, TimerHolds, CallsHold, CallHolds
<1>4. enabled \in BOOLEAN /\ \A n \in DOMAIN refreshes : refreshes[n] \in Refresh
  BY DEF Core, TypeInv, RefreshesHold
<1>5. QED
  BY <1>1, <1>2, <1>3, <1>4 DEF TypeOK

\* Every hook, timer, request and answer has its type in every reachable
\* state: no poll is counted past MAX_POLLS, no timer or request names a hook
\* that was never mounted (useSyncJob.ts:25-106, RepositoryDetailPage.tsx:13).
THEOREM TypeCorrect == Spec => []TypeOK
<1>1. Init => Core
  BY InitCore
<1>2. Core /\ [Next]_vars => Core'
  BY CoreStep
<1>3. Core => TypeOK
  BY CoreTypes
<1>4. QED
  BY <1>1, <1>2, <1>3, PTL DEF Spec

LEMMA CoreMeansOneChain ==
  ASSUME Core
  PROVE  BusyMeansOneChain
<1> SUFFICES ASSUME NEW i \in DOMAIN hooks, OnScreen(i)
             PROVE  Cardinality(Chain(i)) = IF hooks[i].state \in Busy THEN 1 ELSE 0
  BY DEF BusyMeansOneChain
<1>1. hooks[i].state \in Busy <=> AtWork(i)
  BY DEF OnScreen, Core, BusyAtWork
<1>2. CASE ~AtWork(i)
  <2>1. Chain(i) = {}
    BY <1>2 DEF Chain, AtWork
  <2>2. QED
    BY <1>1, <1>2, <2>1, FS_EmptySet
<1>3. CASE AtWork(i)
  <2>1. PICK x : Chain(i) = {x}
    <3>1. CASE \E t \in timers : t.hook = i
      <4>1. PICK t \in timers : t.hook = i
        BY <3>1
      <4>2. Chain(i) = {t}
        BY <4>1 DEF Chain, Core, OneChain
      <4>3. QED
        BY <4>2
    <3>2. CASE \E c \in calls : c.hook = i
      <4>1. PICK c \in calls : c.hook = i
        BY <3>2
      <4>2. Chain(i) = {c}
        BY <4>1 DEF Chain, Core, OneChain
      <4>3. QED
        BY <4>2
    <3>3. QED
      BY <1>3, <3>1, <3>2 DEF AtWork
  <2>2. Cardinality(Chain(i)) = 1
    BY <2>1, FS_Singleton
  <2>3. QED
    BY <1>1, <1>3, <2>2
<1>4. QED
  BY <1>2, <1>3

\* The button of a panel is disabled exactly while one timer or one request of
\* its hook is under way, however often the page is left and opened, whatever
\* the server answers and whichever answers are late (useSyncJob.ts:50-106,
\* SyncPanel.tsx:18).
THEOREM OneChainWhileBusy == Spec => []BusyMeansOneChain
<1>1. Init => Core
  BY InitCore
<1>2. Core /\ [Next]_vars => Core'
  BY CoreStep
<1>3. Core => BusyMeansOneChain
  BY CoreMeansOneChain
<1>4. QED
  BY <1>1, <1>2, <1>3, PTL DEF Spec

-----------------------------------------------------------------------------
(* The outcome shown is that of the hook's own job. *)

\* An end that is shown stays that of its job while the server moves on.
LEMMA OutcomeStays ==
  ASSUME ServerHolds, Advances, NEW h, h.state \in {"succeeded", "failed"}, EndedAs(h.job, h.state)
  PROVE  EndedAs(h.job, h.state)'
<1>1. PICK j : j = h.job
  OBVIOUS
<1>2. PICK s \in {"succeeded", "failed"} : s = h.state
  OBVIOUS
<1>3. EndedAs(j, s)'
  BY <1>1, <1>2, EndStays
<1>4. QED
  BY <1>1, <1>2, <1>3

LEMMA OutcomeHook ==
  ASSUME Core, OutcomeHolds, Advances, NEW i \in DOMAIN hooks, Touches(i), page' = page,
         OnScreen(i) /\ hooks'[i].state \in {"succeeded", "failed"} =>
             /\ hooks'[i].result = hooks'[i].job
             /\ EndedAs(hooks[i].job, hooks[i].state)'
  PROVE  OutcomeHolds'
<1>1. Len(hooks') = Len(hooks) /\ HasPanel(page)' = HasPanel(page)
  BY DEF Touches, HasPanel
<1> SUFFICES ASSUME NEW k, k = Len(hooks), HasPanel(page),
                    hooks'[k].state \in {"succeeded", "failed"}
             PROVE  hooks'[k].result = hooks'[k].job /\ EndedAs(hooks[k].job, hooks[k].state)'
  BY <1>1 DEF OutcomeHolds, EndedAs, Created
<1>2. k \in DOMAIN hooks
  BY DEF Core, TypeInv, HooksHold, PageHolds
<1>3. CASE k = i
  BY <1>3 DEF OnScreen
<1>4. CASE k # i
  <2>1. hooks'[k] = hooks[k]
    BY <1>2, <1>4 DEF Touches
  <2>2. PICK h : h = hooks[k]
    OBVIOUS
  <2>3. h.state \in {"succeeded", "failed"} /\ h.result = h.job /\ EndedAs(h.job, h.state)
    BY <2>1, <2>2 DEF OutcomeHolds
  <2>4. EndedAs(h.job, h.state)'
    BY <2>3, OutcomeStays DEF Core, TypeInv
  <2>5. QED
    BY <2>1, <2>2, <2>3, <2>4
<1>5. QED
  BY <1>3, <1>4

\* What the panel shows when the page has rendered: as before, or nothing yet.
KeepsPanel ==
    HasPanel(page)' => \/ hooks'[Len(hooks')].state = "idle"
                       \/ hooks' = hooks /\ HasPanel(page)

LEMMA OutcomePage ==
  ASSUME Core, OutcomeHolds, Advances, KeepsPanel
  PROVE  OutcomeHolds'
<1> SUFFICES ASSUME NEW h, h = hooks'[Len(hooks')], HasPanel(page)',
                    h.state \in {"succeeded", "failed"}
             PROVE  h.result = h.job /\ EndedAs(h.job, h.state)'
  BY DEF OutcomeHolds, EndedAs, Created
<1>1. hooks' = hooks /\ HasPanel(page)
  BY DEF KeepsPanel
<1>2. h.result = h.job /\ EndedAs(h.job, h.state)
  BY <1>1 DEF OutcomeHolds
<1>3. QED
  BY <1>2, OutcomeStays DEF Core, TypeInv

\* A hook with something under way does not show an end.
LEMMA NoOutcomeAtWork ==
  ASSUME Core, NEW i, AtWork(i), OnScreen(i)
  PROVE  hooks[i].state \notin {"succeeded", "failed"}
  BY DEF Core, BusyAtWork, OnScreen, Busy

LEMMA SameTab ==
  ASSUME tab' = tab
  PROVE  KeepsPanel
  BY DEF tab, KeepsPanel, HasPanel

LEMMA OutcomeStep ==
  ASSUME Core, OutcomeHolds, [Next]_vars
  PROVE  OutcomeHolds'
<1>1. CASE BackendStep \/ UNCHANGED vars
  BY <1>1, BackendCore, StutterCore, SameTab, OutcomePage
<1>2. CASE Open \/ Leave
  BY <1>2, OpenCore, LeaveCore DEF OutcomeHolds
<1>3. ASSUME NEW i \in DOMAIN hooks, Start(i) PROVE OutcomeHolds'
  BY <1>3, StartCore, OutcomeHook
<1>4. ASSUME NEW t \in timers, FireTimer(t) PROVE OutcomeHolds'
  <2>1. AtWork(t.hook) /\ t.hook \in DOMAIN hooks
    BY ChainHooks DEF AtWork, Core
  <2>2. QED
    BY <1>4, <2>1, NoOutcomeAtWork, FireCore, OutcomeHook
<1>5. ASSUME NEW c \in calls PROVE AtWork(c.hook) /\ c.hook \in DOMAIN hooks
  BY ChainHooks DEF AtWork, Core
<1>6. ASSUME NEW c \in calls, AnswerSync(c) \/ AnswerJob(c) PROVE OutcomeHolds'
  <2>1. page' = page
    BY <1>6 DEF AnswerSync, AnswerJob, Answered
  <2>2. QED
    BY <1>5, <1>6, <2>1, NoOutcomeAtWork, AnswerSyncCore, AnswerJobCore, OutcomeHook
<1>7. ASSUME NEW c \in calls, DeliverSync(c) \/ JobPending(c) \/ PollFailed(c)
      PROVE  OutcomeHolds'
  <2>1. PICK s \in {"queued", "running", "timed-out", "conflict", "unavailable", "error"} :
           Delivers(c, s)
    BY <1>7, DeliverSyncCore, JobPendingCore, PollFailedCore
  <2>2. OnScreen(c.hook) => hooks'[c.hook].state \notin {"succeeded", "failed"}
    BY <2>1 DEF Delivers
  <2>3. QED
    BY <1>5, <2>1, <2>2, OutcomeHook DEF Delivers
<1>8. ASSUME NEW c \in calls, JobSucceeded(c) \/ JobFailed(c) PROVE OutcomeHolds'
  <2>1. PICK s \in {"succeeded", "failed"} :
          /\ Delivers(c, s)
          /\ hooks'[c.hook].job = c.job
          /\ OnScreen(c.hook) => hooks'[c.hook].result = c.job
          /\ EndedAs(c.job, s)
    BY <1>8, JobSucceededCore, JobFailedCore
  <2>2. EndedAs(c.job, s)'
    BY <2>1, EndStays DEF Delivers, Core, TypeInv
  <2>3. OnScreen(c.hook) => EndedAs(hooks[c.hook].job, hooks[c.hook].state)'
    BY <2>1, <2>2 DEF Delivers, EndedAs, Created
  <2>4. QED
    BY <1>5, <2>1, <2>3, OutcomeHook DEF Delivers
<1>9. ASSUME NEW n \in DOMAIN refreshes, AnswerRefresh(n) \/ DeliverRefresh(n)
      PROVE  OutcomeHolds'
  <2>1. Advances /\ KeepsPanel
    BY <1>9, AnswerRefreshCore, DeliverRefreshCore DEF AnswerRefresh, KeepsPanel, HasPanel
  <2>2. QED
    BY <2>1, OutcomePage
<1>10. QED
  BY <1>1, <1>2, <1>3, <1>4, <1>6, <1>7, <1>8, <1>9 DEF Next, ChainStep

\* What a panel shows as succeeded or failed is what became of the job that
\* its own last start created: the answers of jobs it polled for before, and
\* of panels that are gone, never reach it (useSyncJob.ts:55-64).
THEOREM OwnOutcome == Spec => []OutcomeIsOwn
<1>1. Init => Core /\ OutcomeHolds
  BY InitCore DEF OutcomeHolds
<1>2. Core /\ OutcomeHolds /\ [Next]_vars => (Core /\ OutcomeHolds)'
  BY CoreStep, OutcomeStep
<1>3. Core /\ OutcomeHolds => OutcomeIsOwn
  BY DEF OutcomeHolds, OutcomeIsOwn, OnScreen, EndedAs
<1>4. QED
  BY <1>1, <1>2, <1>3, PTL DEF Spec

-----------------------------------------------------------------------------
(* The metrics next to a success include it. *)

\* What LatestIsFresh says of one request, and of the job that succeeded.
FreshFor(n, j) ==
    /\ refreshes[n].answer = "metrics" => refreshes[n].version >= asOf[j]
    /\ page.from = n => page.metrics >= asOf[j]

\* A success that was on the screen, and is after this step.
LEMMA SuccessStays ==
  ASSUME Core, OutcomeHolds, LatestIsFresh, Advances, HasPanel(page),
         hooks[Len(hooks)].state = "succeeded"
  PROVE  \E j \in Jobs : /\ j = hooks[Len(hooks)].job
                         /\ EndedAs(j, "succeeded")
                         /\ asOf'[j] = asOf[j]
                         /\ \A n \in DOMAIN refreshes : Latest(n) => FreshFor(n, j)
<1>1. PICK j : j = hooks[Len(hooks)].job
  OBVIOUS
<1>2. EndedAs(j, "succeeded")
  BY <1>1 DEF OutcomeHolds
<1>3. j \in Jobs /\ asOf'[j] = asOf[j]
  BY <1>2 DEF EndedAs, Created, Advances
<1>4. \A n \in DOMAIN refreshes : Latest(n) => FreshFor(n, j)
  BY <1>1 DEF LatestIsFresh, FreshFor
<1>5. QED
  BY <1>1, <1>2, <1>3, <1>4

\* Steps that leave the requests and the metrics shown as they are.
LEMMA FreshKeeps ==
  ASSUME Core, OutcomeHolds, LatestIsFresh, Advances, refreshes' = refreshes, page' = page,
         HasPanel(page) /\ hooks'[Len(hooks')].state = "succeeded" =>
            hooks'[Len(hooks')] = hooks[Len(hooks)]
  PROVE  LatestIsFresh'
<1> SUFFICES ASSUME HasPanel(page), hooks'[Len(hooks')].state = "succeeded",
                    NEW n \in DOMAIN refreshes, Latest(n)
             PROVE  /\ refreshes[n].answer = "metrics" =>
                           refreshes[n].version >= asOf'[hooks'[Len(hooks')].job]
                    /\ page.from = n => page.metrics >= asOf'[hooks'[Len(hooks')].job]
  BY DEF LatestIsFresh, Latest, HasPanel
<1>1. hooks'[Len(hooks')] = hooks[Len(hooks)]
  OBVIOUS
<1>2. PICK j \in Jobs : /\ j = hooks[Len(hooks)].job
                        /\ asOf'[j] = asOf[j]
                        /\ FreshFor(n, j)
  BY <1>1, SuccessStays
<1>3. QED
  BY <1>1, <1>2 DEF FreshFor

LEMMA FreshHook ==
  ASSUME Core, OutcomeHolds, LatestIsFresh, NEW i \in DOMAIN hooks, Advances, Touches(i),
         refreshes' = refreshes, page' = page,
         OnScreen(i) => hooks'[i].state # "succeeded"
  PROVE  LatestIsFresh'
<1>1. Len(hooks') = Len(hooks) /\ \A k \in DOMAIN hooks : k # i => hooks'[k] = hooks[k]
  BY DEF Touches
<1>2. HasPanel(page) => Len(hooks) \in DOMAIN hooks
  BY DEF Core, TypeInv, HooksHold, PageHolds
<1>3. HasPanel(page) /\ hooks'[Len(hooks)].state = "succeeded" => i # Len(hooks)
  BY DEF OnScreen
<1>4. QED
  BY <1>1, <1>2, <1>3, FreshKeeps

\* The success sends for new metrics, which no one has seen yet.
LEMMA FreshSuccess ==
  ASSUME Core, OutcomeHolds, LatestIsFresh, NEW c \in calls, JobSucceeded(c)
  PROVE  LatestIsFresh'
<1> DEFINE v == hooks[c.hook].visit
           N == Len(refreshes)
<1>1. /\ Delivers(c, "succeeded") /\ v \in 1 .. MaxVisits
      /\ refreshes' = Append(refreshes, NewRefresh(v))
  BY JobSucceededCore
<1>2. /\ c.hook \in DOMAIN hooks /\ Advances /\ Touches(c.hook) /\ page' = page
  BY <1>1, ChainHooks DEF Delivers, Core
<1>3. /\ N \in Nat /\ DOMAIN refreshes = 1 .. N /\ DOMAIN refreshes' = 1 .. N + 1
      /\ \A n \in DOMAIN refreshes : refreshes'[n] = refreshes[n]
      /\ refreshes'[N + 1] = NewRefresh(v)
      /\ page.from =< N
  BY <1>1 DEF Core, TypeInv, RefreshesHold, PageHolds
<1>4. refreshes'[N + 1].answer = "pending" /\ refreshes'[N + 1].visit = v
  BY <1>3 DEF NewRefresh
<1>5. Len(hooks') = Len(hooks) /\ (HasPanel(page)' <=> HasPanel(page))
      /\ \A k \in DOMAIN hooks : k # c.hook => hooks'[k] = hooks[k]
  BY <1>2 DEF Touches, HasPanel
<1> HIDE DEF v, N
<1> SUFFICES ASSUME HasPanel(page), hooks'[Len(hooks)].state = "succeeded",
                    NEW n \in 1 .. N + 1,
                    refreshes'[n].visit = page.visit,
                    \A m \in 1 .. N + 1 : refreshes'[m].visit = page.visit => m =< n
             PROVE  /\ refreshes'[n].answer = "metrics" =>
                           refreshes'[n].version >= asOf'[hooks'[Len(hooks)].job]
                    /\ page.from = n => page.metrics >= asOf'[hooks'[Len(hooks)].job]
  BY <1>2, <1>3, <1>5 DEF LatestIsFresh, Latest
<1>6. CASE n = N + 1
  <2>1. page.from # n
    BY <1>3, <1>6 DEF Core, TypeInv, PageHolds, AnyPage
  <2>2. QED
    BY <1>4, <1>6, <2>1
<1>7. CASE n # N + 1
  <2>1. n \in DOMAIN refreshes /\ n < N + 1
    BY <1>3, <1>7
  <2>2. v # page.visit
    BY <1>3, <1>4, <2>1
  <2>3. c.hook # Len(hooks) /\ Len(hooks) \in DOMAIN hooks
    BY <2>2 DEF v, Core, TypeInv, HooksHold, PageHolds
  <2>4. hooks'[Len(hooks)] = hooks[Len(hooks)]
    BY <1>5, <2>3
  <2>5. Latest(n)
    BY <1>3, <2>1 DEF Latest
  <2>6. PICK j \in Jobs : /\ j = hooks[Len(hooks)].job
                          /\ asOf'[j] = asOf[j]
                          /\ FreshFor(n, j)
    BY <1>2, <2>1, <2>4, <2>5, SuccessStays
  <2>7. QED
    BY <1>3, <2>1, <2>4, <2>6 DEF FreshFor
<1>8. QED
  BY <1>6, <1>7

\* A request is answered with what is stored, or its answer is shown.
LEMMA FreshAnswer ==
  ASSUME Core, OutcomeHolds, LatestIsFresh, NEW n \in DOMAIN refreshes,
         AnswerRefresh(n) \/ DeliverRefresh(n)
  PROVE  LatestIsFresh'
<1>1. PICK r \in Refresh :
        /\ r.visit = refreshes[n].visit
        /\ refreshes' = [refreshes EXCEPT ![n] = r]
        /\ r.answer = "metrics" => AnswerRefresh(n) /\ r.version = stored[Repository]
  BY AnswerRefreshEffect, DeliverRefreshEffect
<1>2. /\ DOMAIN refreshes' = DOMAIN refreshes
      /\ refreshes'[n] = r
      /\ \A m \in DOMAIN refreshes : m # n => refreshes'[m] = refreshes[m]
      /\ \A m \in DOMAIN refreshes : refreshes'[m].visit = refreshes[m].visit
  BY <1>1, RefreshType DEF Core, TypeInv
<1>3. /\ Core' /\ Advances
      /\ HasPanel(page)' => \/ hooks'[Len(hooks')].state = "idle"
                            \/ hooks' = hooks /\ HasPanel(page)
      /\ \/ page' = page
         \/ page'.from = n /\ page'.metrics = refreshes[n].version
            /\ page'.visit = page.visit /\ refreshes[n].visit = page.visit
            /\ refreshes[n].answer = "metrics"
         \/ ~HasPanel(page)'
  <2>1. CASE AnswerRefresh(n)
    BY <2>1, AnswerRefreshCore DEF AnswerRefresh, HasPanel
  <2>2. CASE DeliverRefresh(n)
    BY <2>2, DeliverRefreshCore
  <2>3. QED
    BY <2>1, <2>2
<1> SUFFICES ASSUME HasPanel(page)', hooks'[Len(hooks')].state = "succeeded",
                    NEW m \in DOMAIN refreshes, Latest(m)'
             PROVE  /\ refreshes'[m].answer = "metrics" =>
                           refreshes'[m].version >= asOf'[hooks'[Len(hooks')].job]
                    /\ page'.from = m => page'.metrics >= asOf'[hooks'[Len(hooks')].job]
  BY <1>2 DEF LatestIsFresh
<1>4. hooks' = hooks /\ HasPanel(page)
  BY <1>3
<1>5. page'.visit = page.visit
  BY <1>3
<1>6. Latest(m)
  BY <1>2, <1>5 DEF Latest
<1>7. PICK j \in Jobs : /\ j = hooks[Len(hooks)].job
                        /\ EndedAs(j, "succeeded")
                        /\ asOf'[j] = asOf[j]
                        /\ FreshFor(m, j)
  BY <1>3, <1>4, <1>6, SuccessStays
<1>8. refreshes'[m].answer = "metrics" => refreshes'[m].version >= asOf[j]
  <2>1. CASE m = n
    BY <1>1, <1>2, <1>7, <2>1 DEF EndedAs
  <2>2. CASE m # n
    BY <1>2, <1>7, <2>2 DEF FreshFor
  <2>3. QED
    BY <2>1, <2>2
<1>9. page'.from = m => page'.metrics >= asOf[j]
  BY <1>3, <1>7 DEF FreshFor
<1>10. QED
  BY <1>4, <1>7, <1>8, <1>9

LEMMA FreshStep ==
  ASSUME Core, OutcomeHolds, LatestIsFresh, [Next]_vars
  PROVE  LatestIsFresh'
<1>1. CASE BackendStep \/ UNCHANGED vars
  <2>1. Advances /\ tab' = tab
    BY <1>1, BackendCore, StutterCore
  <2>2. QED
    BY <2>1, FreshKeeps DEF tab
<1>2. CASE Open \/ Leave
  BY <1>2, OpenCore, LeaveCore DEF LatestIsFresh
<1>3. ASSUME NEW i \in DOMAIN hooks, Start(i) PROVE LatestIsFresh'
  BY <1>3, StartCore, FreshHook
<1>4. ASSUME NEW t \in timers, FireTimer(t) PROVE LatestIsFresh'
  <2>1. AtWork(t.hook) /\ t.hook \in DOMAIN hooks
    BY ChainHooks DEF AtWork, Core
  <2>2. QED
    BY <1>4, <2>1, NoOutcomeAtWork, FireCore, FreshHook
<1>5. ASSUME NEW c \in calls PROVE AtWork(c.hook) /\ c.hook \in DOMAIN hooks
  BY ChainHooks DEF AtWork, Core
<1>6. ASSUME NEW c \in calls, AnswerSync(c) \/ AnswerJob(c) PROVE LatestIsFresh'
  <2>1. page' = page /\ refreshes' = refreshes
    BY <1>6 DEF AnswerSync, AnswerJob, Answered
  <2>2. QED
    BY <1>5, <1>6, <2>1, NoOutcomeAtWork, AnswerSyncCore, AnswerJobCore, FreshHook
<1>7. ASSUME NEW c \in calls,
             DeliverSync(c) \/ JobPending(c) \/ PollFailed(c) \/ JobFailed(c)
      PROVE  LatestIsFresh'
  <2>1. refreshes' = refreshes /\
        \E s \in {"queued", "running", "timed-out", "conflict", "unavailable", "error", "failed"} :
           Delivers(c, s)
    BY <1>7, DeliverSyncCore, JobPendingCore, PollFailedCore, JobFailedCore
  <2>2. OnScreen(c.hook) => hooks'[c.hook].state # "succeeded"
    BY <2>1 DEF Delivers
  <2>3. QED
    BY <1>5, <2>1, <2>2, FreshHook DEF Delivers
<1>8. ASSUME NEW c \in calls, JobSucceeded(c) PROVE LatestIsFresh'
  BY <1>8, FreshSuccess
<1>9. ASSUME NEW n \in DOMAIN refreshes, AnswerRefresh(n) \/ DeliverRefresh(n)
      PROVE  LatestIsFresh'
  BY <1>9, FreshAnswer
<1>10. QED
  BY <1>1, <1>2, <1>3, <1>4, <1>6, <1>7, <1>8, <1>9 DEF Next, ChainStep

LEMMA FreshMeans ==
  ASSUME Core, OutcomeHolds, LatestIsFresh
  PROVE  FreshAfterSuccess
<1> SUFFICES ASSUME NEW i \in DOMAIN hooks, OnScreen(i), hooks[i].state = "succeeded", InOrder
             PROVE  page.metrics >= asOf[hooks[i].result]
  BY DEF FreshAfterSuccess
<1>1. HasPanel(page) /\ i = Len(hooks) /\ hooks[i].result = hooks[i].job
  BY DEF OnScreen, OutcomeHolds
<1>2. /\ page.from \in DOMAIN refreshes
      /\ refreshes[page.from].visit = page.visit
  BY <1>1 DEF HasPanel, Core, TypeInv, ShowsItsOwn
<1>3. PICK n \in DOMAIN refreshes : n = page.from /\ Latest(n)
  BY <1>2 DEF InOrder, Latest
<1>4. page.metrics >= asOf[hooks[i].job]
  BY <1>1, <1>3 DEF LatestIsFresh
<1>5. QED
  BY <1>1, <1>4

\* Unless an older answer came last, the metrics shown next to "succeeded" are
\* of a repository synchronised no earlier than the sync was asked for: the
\* panel sends for them only after the server has stored what the job fetched
\* (useSyncJob.ts:57, RepositoryDetailPage.tsx:66).
THEOREM FreshMetrics == Spec => []FreshAfterSuccess
<1>1. Init => Core /\ OutcomeHolds /\ LatestIsFresh
  BY InitCore DEF OutcomeHolds, LatestIsFresh
<1>2. Core /\ OutcomeHolds /\ LatestIsFresh /\ [Next]_vars =>
          (Core /\ OutcomeHolds /\ LatestIsFresh)'
  BY CoreStep, OutcomeStep, FreshStep
<1>3. Core /\ OutcomeHolds /\ LatestIsFresh => FreshAfterSuccess
  BY FreshMeans
<1>4. QED
  BY <1>1, <1>2, <1>3, PTL DEF Spec
=============================================================================
