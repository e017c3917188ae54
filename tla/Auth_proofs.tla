---------------------------- MODULE Auth_proofs ----------------------------
(***************************************************************************)
(* Proofs about Auth: type correctness, one row of users per account, the  *)
(* pairing of a login's cookies, sign-out that stays in effect, and that   *)
(* the program implements SignIn.                                          *)
(***************************************************************************)
EXTENDS Auth, FiniteSetTheorems, TLAPS

\* What a page shows or waits for.
TabsPlaced ==
    \A t \in Tabs :
        /\ tabs[t].page \in {"github", "detail"} => tabs[t].at \in Logins
        /\ tabs[t].page = "callback" =>
              tabs[t].at \in Callbacks /\ callbacks[tabs[t].at].phase # "unsent"
        /\ tabs[t].page \in {"loading", "landing", "signing-out", "signed-out"} =>
              tabs[t].at \in Callbacks \cup {Nothing}

\* GitHub knows an account exactly for the logins that were approved.
LoginsDecided ==
    \A l \in Logins :
        IF logins[l].stage \in {"approved", "redeemed"}
        THEN logins[l].account \in Accounts ELSE logins[l].account = Nothing

\* How far callback k has come, what it holds and the row it will write.
HandlerHolds(k) ==
    LET c == callbacks[k]
    IN  /\ c.phase # "unsent" => c.login \in Logins
        /\ c.phase \in Handling \ {"exchange"} => logins[c.login].stage = "redeemed"
        /\ c.phase \in {"select", "flush", "commit"} => c.name \in Names
        /\ c.phase \in {"flush", "commit"} =>
              IF c.change = "insert" THEN c.user = k
              ELSE c.user \in UserIds /\ users[c.user] \in User /\ users[c.user].account = Account(k)

HandlersHold == \A k \in Callbacks : HandlerHolds(k)

Open(k) == callbacks[k].phase \in {"unsent"} \cup Handling

\* A callback's row and session are there only after its commit, and the
\* session belongs to the row of the account that approved its login.
RowsFollowCommit ==
    \A k \in Callbacks :
        /\ users[k] # Nothing => ~Open(k)
        /\ sessions[k].status # "none" =>
              /\ ~Open(k)
              /\ logins[callbacks[k].login].stage = "redeemed"
              /\ sessions[k].user \in UserIds
              /\ users[sessions[k].user] \in User
              /\ users[sessions[k].user].account = Account(k)

\* A session that a cookie, an answer or a sign-out names has its row.
SessionNamed ==
    /\ cookies.session # Nothing => sessions[cookies.session].status # "none"
    /\ \A k \in Callbacks : At(k, "signed-in") => sessions[k].status # "none"
    /\ \A t \in Tabs :
          tabs[t].page \in {"signing-out", "signed-out", "landing"} /\ tabs[t].at # Nothing =>
              sessions[tabs[t].at].status # "none"

TypeInv ==
    TypeOK /\ TabsPlaced /\ LoginsDecided /\ HandlersHold /\ RowsFollowCommit /\ SessionNamed

-----------------------------------------------------------------------------
(* What each update touches. *)

LEMMA Bounds ==
  /\ MaxLogins \in Nat \ {0} /\ MaxCallbacks \in Nat \ {0} /\ MaxRenames \in Nat
  /\ Callbacks \subseteq UserIds
  /\ 0 \in UserIds /\ 0 \notin Callbacks
  /\ Nothing \notin Callbacks
  /\ Returning \in Accounts
  BY AuthAssumption, NothingIsNothing DEF Callbacks, UserIds

\* A navigation moves one tab.
LEMMA GoToEffect ==
  ASSUME tabs \in [Tabs -> Tab], NEW t \in Tabs, NEW page, NEW at,
         [page |-> page, at |-> at] \in Tab, GoTo(t, page, at)
  PROVE  /\ tabs' \in [Tabs -> Tab]
         /\ tabs'[t].page = page
         /\ tabs'[t].at = at
         /\ \A u \in Tabs : u # t => tabs'[u] = tabs[u]
  BY DEF GoTo

\* A step of one callback touches no other.
LEMMA ProceedEffect ==
  ASSUME callbacks \in [Callbacks -> Callback], NEW k \in Callbacks, NEW c \in Callback,
         Proceed(k, c)
  PROVE  /\ callbacks' \in [Callbacks -> Callback]
         /\ callbacks'[k] = c
         /\ \A j \in Callbacks : j # k => callbacks'[j] = callbacks[j]
  BY DEF Proceed

\* A callback of which only the query is left.
LEMMA QueryType ==
  ASSUME NEW phase \in {"done", "unsent"} \cup Handling \cup Answers, NEW l \in Logins \cup {Nothing}
  PROVE  /\ Query(phase, l) \in Callback
         /\ Query(phase, l).phase = phase
         /\ Query(phase, l).login = l
         /\ Query(phase, l).verifier = Nothing
         /\ Query(phase, l).change = "none"
  BY DEF Query, Unhandled, Callback

\* An answered callback keeps its query and nothing else.
LEMMA AnswerEffect ==
  ASSUME callbacks \in [Callbacks -> Callback], NEW k \in Callbacks, NEW a \in Answers,
         Answer(k, a)
  PROVE  /\ callbacks' \in [Callbacks -> Callback]
         /\ callbacks'[k].phase \in {a, "done"}
         /\ callbacks'[k].login = callbacks[k].login
         /\ callbacks'[k].verifier = Nothing
         /\ callbacks'[k].change = "none"
         /\ \A j \in Callbacks : j # k => callbacks'[j] = callbacks[j]
<1> DEFINE p == IF Awaited(k) THEN a ELSE "done"
<1>1. callbacks[k].login \in Logins \cup {Nothing}
  BY DEF Callback
<1>2. p \in {"done", "unsent"} \cup Handling \cup Answers /\ p \in {a, "done"}
  BY DEF Answers
<1>3. Proceed(k, Query(p, callbacks[k].login))
  BY DEF Answer
<1>. HIDE DEF p
<1>4. QED
  BY <1>1, <1>2, <1>3, QueryType, ProceedEffect

\* A callback is sent with the query of its login, admitted only past the check
\* of its state, and then with the verifier's cookie of the moment.
LEMMA SendEffect ==
  ASSUME callbacks \in [Callbacks -> Callback], tabs \in [Tabs -> Tab], cookies \in Cookies,
         NEW t \in Tabs, NEW l \in Logins, NEW stage, SendCallback(t, l, stage)
  PROVE  \E k \in Callbacks :
           /\ callbacks[k].phase = "unsent"
           /\ callbacks' \in [Callbacks -> Callback]
           /\ callbacks'[k].phase \in {"refused", "cancelled", "exchange"}
           /\ callbacks'[k].login = l
           /\ callbacks'[k].change = "none"
           /\ callbacks'[k].phase = "exchange" =>
                callbacks'[k].verifier = cookies.verifier /\ cookies.state = l
           /\ \A j \in Callbacks : j # k => callbacks'[j] = callbacks[j]
           /\ tabs' \in [Tabs -> Tab]
           /\ tabs'[t].page = "callback" /\ tabs'[t].at = k
           /\ \A u \in Tabs : u # t => tabs'[u] = tabs[u]
<1> DEFINE p == Admitted(l, stage)
           c == Query(p, l)
           d == IF c.phase = "exchange" THEN [c EXCEPT !.verifier = cookies.verifier] ELSE c
<1>1. p \in {"refused", "cancelled", "exchange"} /\ (p = "exchange" => cookies.state = l)
  BY DEF Admitted
<1>2. c \in Callback /\ c.phase = p /\ c.login = l /\ c.change = "none"
  BY <1>1, QueryType DEF Handling, Answers
<1>3. cookies.verifier \in Logins \cup {Nothing}
  BY DEF Cookies
<1>4. /\ d \in Callback
      /\ d.phase = p /\ d.login = l /\ d.change = "none"
      /\ p = "exchange" => d.verifier = cookies.verifier
  <2> HIDE DEF c, p
  <2>1. QED
    BY <1>2, <1>3 DEF Callback
<1>5. PICK k \in Callbacks :
        callbacks[k].phase = "unsent" /\ Proceed(k, d) /\ GoTo(t, "callback", k)
  BY DEF SendCallback, Proceed
<1>6. [page |-> "callback", at |-> k] \in Tab
  BY DEF Tab
<1>. HIDE DEF p, c, d
<1>7. QED
  BY <1>1, <1>4, <1>5, <1>6, ProceedEffect, GoToEffect

-----------------------------------------------------------------------------
(* Type correctness. *)

LEMMA TypeInit == Init => TypeInv
<1> SUFFICES ASSUME Init PROVE TypeInv
  OBVIOUS
<1> USE Bounds
<1>1. names \in [Accounts -> Names]
  BY NamesAssumption DEF Init
<1>2. TypeOK
  <2>1. [account |-> Returning, login |-> names[Returning]] \in User
    BY <1>1 DEF User
  <2>2. Unhandled \in Callback
    BY DEF Unhandled, Callback
  <2>3. users \in [UserIds -> User \cup {Nothing}]
    BY <2>1 DEF Init
  <2>4. QED
    BY <1>1, <2>2, <2>3 DEF Init, TypeOK, Login, Session, Cookies, Tab
<1>3. TabsPlaced
  BY DEF Init, TabsPlaced
<1>4. LoginsDecided
  BY DEF Init, LoginsDecided
<1>5. HandlersHold
  BY DEF Init, HandlersHold, HandlerHolds, Unhandled, Handling
<1>6. RowsFollowCommit
  BY DEF Init, RowsFollowCommit
<1>7. SessionNamed
  BY DEF Init, SessionNamed, At, Unhandled
<1>8. QED
  BY <1>2, <1>3, <1>4, <1>5, <1>6, <1>7 DEF TypeInv

\* A step that leaves the logins, the tables and the callbacks alone.
LEMMA TabStep ==
  ASSUME TypeInv, UNCHANGED <<github, database, callbacks>>,
         cookies' \in Cookies, tabs' \in [Tabs -> Tab], TabsPlaced', SessionNamed'
  PROVE  TypeInv'
<1> USE DEF TypeInv, github, database
<1>1. TypeOK'
  BY DEF TypeOK
<1>2. LoginsDecided' /\ RowsFollowCommit'
  BY DEF LoginsDecided, RowsFollowCommit, Open, Account
<1>3. HandlersHold'
  BY DEF HandlersHold, HandlerHolds, Account
<1>4. QED
  BY <1>1, <1>2, <1>3

\* One callback goes on, or ends without having committed.
LEMMA HandlerStep ==
  ASSUME TypeInv, NEW k \in Callbacks, UNCHANGED <<github, database, cookies, tabs>>,
         callbacks' \in [Callbacks -> Callback],
         callbacks[k].phase # "unsent", callbacks'[k].phase # "unsent",
         callbacks'[k].login = callbacks[k].login,
         Open(k)' => Open(k), callbacks'[k].phase # "signed-in",
         HandlerHolds(k)',
         \A j \in Callbacks : j # k => callbacks'[j] = callbacks[j]
  PROVE  TypeInv'
<1> USE DEF TypeInv, github, database
<1>1. TypeOK'
  BY DEF TypeOK
<1>2. LoginsDecided'
  BY DEF LoginsDecided
<1>3. RowsFollowCommit'
  BY DEF RowsFollowCommit, Open, Account
<1>4. TabsPlaced'
  BY DEF TabsPlaced
<1>5. HandlersHold'
  BY DEF HandlersHold, HandlerHolds, Account
<1>6. SessionNamed'
  BY DEF SessionNamed, At
<1>7. QED
  BY <1>1, <1>2, <1>3, <1>4, <1>5, <1>6

\* A callback that fails before its commit.
LEMMA FailStep ==
  ASSUME TypeInv, NEW k \in Callbacks, callbacks[k].phase # "unsent",
         Answer(k, "failed"), UNCHANGED <<github, database, cookies, tabs>>
  PROVE  TypeInv'
<1>1. callbacks \in [Callbacks -> Callback] /\ callbacks[k].login \in Logins
  BY DEF TypeInv, TypeOK, HandlersHold, HandlerHolds
<1>2. /\ callbacks' \in [Callbacks -> Callback]
      /\ callbacks'[k].phase \in {"failed", "done"}
      /\ callbacks'[k].login = callbacks[k].login
      /\ \A j \in Callbacks : j # k => callbacks'[j] = callbacks[j]
  BY <1>1, AnswerEffect DEF Answers
<1>3. HandlerHolds(k)' /\ callbacks'[k].phase # "unsent" /\ ~Open(k)'
  BY <1>1, <1>2 DEF HandlerHolds, Answers, Handling, Open
<1>4. QED
  BY <1>2, <1>3, HandlerStep

\* A commit adds one session, and the account's row unless it is there.
LEMMA CommitEffect ==
  ASSUME TypeInv, NEW k \in Callbacks, Commit(k)
  PROVE  /\ callbacks[k].phase = "commit"
         /\ callbacks[k].login \in Logins /\ logins[callbacks[k].login].stage = "redeemed"
         /\ Account(k) \in Accounts
         /\ callbacks[k].user \in UserIds
         /\ callbacks[k].change = "insert" => callbacks[k].user = k
         /\ callbacks[k].change # "insert" =>
              users[callbacks[k].user] \in User /\ users[callbacks[k].user].account = Account(k)
         /\ users' \in [UserIds -> User \cup {Nothing}]
         /\ users'[callbacks[k].user] \in User
         /\ users'[callbacks[k].user].account = Account(k)
         /\ \A v \in UserIds : v # callbacks[k].user => users'[v] = users[v]
         /\ \A v \in UserIds : users[v] \in User =>
              users'[v] \in User /\ users'[v].account = users[v].account
         /\ sessions' \in [Callbacks -> Session]
         /\ sessions[k].status = "none"
         /\ sessions'[k].user = callbacks[k].user /\ sessions'[k].status = "live"
         /\ \A j \in Callbacks : j # k => sessions'[j] = sessions[j]
         /\ callbacks' \in [Callbacks -> Callback]
         /\ callbacks'[k].phase \in {"signed-in", "failed", "done"}
         /\ callbacks'[k].login = callbacks[k].login
         /\ callbacks'[k].change = "none"
         /\ \A j \in Callbacks : j # k => callbacks'[j] = callbacks[j]
         /\ UNCHANGED <<github, cookies, tabs>>
<1> USE Bounds
<1>1. /\ callbacks \in [Callbacks -> Callback]
      /\ users \in [UserIds -> User \cup {Nothing}]
      /\ sessions \in [Callbacks -> Session]
      /\ LoginsDecided /\ HandlerHolds(k) /\ RowsFollowCommit
  BY DEF TypeInv, TypeOK, HandlersHold
<1>2. callbacks[k].phase = "commit"
  BY DEF Commit, At
<1>3. /\ callbacks[k].login \in Logins /\ logins[callbacks[k].login].stage = "redeemed"
      /\ Account(k) \in Accounts
      /\ callbacks[k].name \in Names
      /\ callbacks[k].user \in UserIds
      /\ callbacks[k].change = "insert" => callbacks[k].user = k
      /\ callbacks[k].change # "insert" =>
           users[callbacks[k].user] \in User /\ users[callbacks[k].user].account = Account(k)
  BY <1>1, <1>2 DEF HandlerHolds, Handling, LoginsDecided, Account
<1>4. users[k] = Nothing /\ sessions[k].status = "none"
  BY <1>1, <1>2 DEF RowsFollowCommit, Open, Handling
<1>5. /\ users' \in [UserIds -> User \cup {Nothing}]
      /\ users'[callbacks[k].user] \in User
      /\ users'[callbacks[k].user].account = Account(k)
      /\ \A v \in UserIds : v # callbacks[k].user => users'[v] = users[v]
  <2> DEFINE row == [account |-> Account(k), login |-> callbacks[k].name]
  <2>1. row \in User /\ row.account = Account(k)
    BY <1>3 DEF User
  <2>2. users' = IF callbacks[k].change = "none" THEN users
                 ELSE [users EXCEPT ![callbacks[k].user] = row]
    BY DEF Commit
  <2> HIDE DEF row
  <2>3. QED
    BY <1>1, <1>3, <2>1, <2>2
<1>6. \A v \in UserIds : users[v] \in User =>
        users'[v] \in User /\ users'[v].account = users[v].account
  BY <1>3, <1>4, <1>5, NothingIsNothing
<1>7. /\ sessions' \in [Callbacks -> Session]
      /\ sessions'[k].user = callbacks[k].user /\ sessions'[k].status = "live"
      /\ \A j \in Callbacks : j # k => sessions'[j] = sessions[j]
  BY <1>1, <1>3 DEF Commit, Session
<1>8. PICK answer \in {"signed-in", "failed"} : Answer(k, answer)
  BY DEF Commit
<1>9. QED
  BY <1>1, <1>2, <1>3, <1>4, <1>5, <1>6, <1>7, <1>8, AnswerEffect DEF Commit, Answers

\* Every step keeps the types, the places and the rows.
LEMMA TypeStep == TypeInv /\ [Next]_vars => TypeInv'
<1> SUFFICES ASSUME TypeInv, [Next]_vars PROVE TypeInv'
  OBVIOUS
<1> USE Bounds
<1>0. /\ tabs \in [Tabs -> Tab] /\ callbacks \in [Callbacks -> Callback] /\ cookies \in Cookies
      /\ logins \in [Logins -> Login]
      /\ TabsPlaced /\ LoginsDecided /\ HandlersHold /\ RowsFollowCommit
  BY DEF TypeInv, TypeOK
<1>n. SessionNamed
  BY DEF TypeInv
<1>1. ASSUME NEW t \in Tabs, Load(t) PROVE TypeInv'
  <2>1. [page |-> "loading", at |-> cookies.session] \in Tab
    BY <1>0 DEF Tab, Cookies
  <2>2. TabsPlaced' /\ SessionNamed'
    BY <1>n, <1>0, <1>1, <2>1, GoToEffect DEF Load, TabsPlaced, SessionNamed, At, database, Cookies
  <2>3. QED
    BY <1>0, <1>1, <2>1, <2>2, GoToEffect, TabStep DEF Load
<1>2. ASSUME NEW t \in Tabs, ShowMe(t) PROVE TypeInv'
  <2>1. PICK page \in {"dashboard", "landing"} : GoTo(t, page, Nothing)
    BY <1>2 DEF ShowMe
  <2>2. [page |-> page, at |-> Nothing] \in Tab
    BY DEF Tab
  <2>3. TabsPlaced' /\ SessionNamed'
    BY <1>n, <1>0, <1>2, <2>1, <2>2, GoToEffect DEF ShowMe, TabsPlaced, SessionNamed, At, database
  <2>4. QED
    BY <1>0, <1>2, <2>1, <2>2, <2>3, GoToEffect, TabStep DEF ShowMe
<1>3. ASSUME NEW t \in Tabs, NEW l \in Logins, StartLogin(t, l) PROVE TypeInv'
  <2>1. [page |-> "github", at |-> l] \in Tab
    BY DEF Tab
  <2>2. /\ tabs' \in [Tabs -> Tab] /\ cookies' \in Cookies /\ logins' \in [Logins -> Login]
        /\ logins[l].stage = "unused"
        /\ logins'[l].stage = "asked" /\ logins'[l].account = logins[l].account
        /\ \A m \in Logins : m # l => logins'[m] = logins[m]
    BY <1>0, <1>3, <2>1, GoToEffect DEF StartLogin, Cookies, Login
  <2>3. TypeOK'
    BY <1>3, <2>2 DEF TypeInv, TypeOK, StartLogin, database
  <2>4. TabsPlaced'
    BY <1>0, <1>3, <2>1, GoToEffect DEF StartLogin, TabsPlaced
  <2>5. LoginsDecided'
    BY <1>0, <2>2 DEF LoginsDecided
  <2>6. HandlersHold'
    BY <1>0, <1>3, <2>2 DEF HandlersHold, HandlerHolds, Account, StartLogin, database, Handling
  <2>7. RowsFollowCommit'
    BY <1>0, <1>3, <2>2 DEF RowsFollowCommit, Open, Account, StartLogin, database,
        HandlersHold, HandlerHolds
  <2>8. SessionNamed'
    BY <1>n, <1>0, <1>3, <2>1, GoToEffect DEF StartLogin, SessionNamed, At, database
  <2>9. QED
    BY <2>3, <2>4, <2>5, <2>6, <2>7, <2>8 DEF TypeInv
<1>4. ASSUME NEW t \in Tabs, NEW l \in Logins, NEW stage, SendCallback(t, l, stage),
             UNCHANGED <<names, renames, database, cookies>>,
             logins' \in [Logins -> Login], LoginsDecided',
             \A m \in Logins : logins[m].stage = "redeemed" => logins'[m] = logins[m]
      PROVE TypeInv'
  <2>1. PICK k \in Callbacks :
           /\ callbacks[k].phase = "unsent"
           /\ callbacks' \in [Callbacks -> Callback]
           /\ callbacks'[k].phase \in {"refused", "cancelled", "exchange"}
           /\ callbacks'[k].login = l
           /\ \A j \in Callbacks : j # k => callbacks'[j] = callbacks[j]
           /\ tabs' \in [Tabs -> Tab]
           /\ tabs'[t].page = "callback" /\ tabs'[t].at = k
           /\ \A u \in Tabs : u # t => tabs'[u] = tabs[u]
    BY <1>0, <1>4, SendEffect
  <2>2. TypeOK'
    BY <1>4, <2>1 DEF TypeInv, TypeOK, database
  <2>3. TabsPlaced'
    BY <1>0, <2>1 DEF TabsPlaced
  <2>4. HandlersHold'
    <3>1. HandlerHolds(k)'
      BY <2>1 DEF HandlerHolds, Handling
    <3>2. ASSUME NEW j \in Callbacks, j # k PROVE HandlerHolds(j)'
      BY <1>0, <1>4, <2>1, <3>2 DEF HandlersHold, HandlerHolds, Account, Handling, database
    <3>3. QED
      BY <3>1, <3>2 DEF HandlersHold
  <2>5. RowsFollowCommit'
    BY <1>0, <1>4, <2>1 DEF RowsFollowCommit, Open, Account, HandlersHold, HandlerHolds, database
  <2>6. SessionNamed'
    BY <1>n, <1>0, <1>4, <2>1 DEF SessionNamed, At, database
  <2>7. QED
    BY <1>4, <2>2, <2>3, <2>4, <2>5, <2>6 DEF TypeInv
<1>5. ASSUME NEW t \in Tabs, NEW stage \in {"approved", "cancelled"},
             NEW a \in Accounts \cup {Nothing}, stage = "approved" <=> a \in Accounts,
             Decide(t, stage, a)
      PROVE TypeInv'
  <2> DEFINE l == tabs[t].at
  <2>1. l \in Logins /\ logins[l].stage = "asked"
    BY <1>0, <1>5 DEF Decide, TabsPlaced
  <2>2. /\ logins' = [logins EXCEPT ![l] = [stage |-> stage, account |-> a]]
        /\ SendCallback(t, l, stage)
        /\ UNCHANGED <<names, renames, database, cookies>>
    BY <1>5 DEF Decide
  <2> HIDE DEF l
  <2>3. logins' \in [Logins -> Login]
    BY <1>0, <2>2 DEF Login
  <2>4. LoginsDecided' /\ \A m \in Logins : logins[m].stage = "redeemed" => logins'[m] = logins[m]
    BY <1>0, <1>5, <2>1, <2>2 DEF LoginsDecided
  <2>5. QED
    BY <1>4, <2>1, <2>2, <2>3, <2>4
<1>6. ASSUME NEW t \in Tabs, Reload(t) PROVE TypeInv'
  <2>1. tabs[t].at \in Logins
    BY <1>0, <1>6 DEF Reload, TabsPlaced
  <2>2. LoginsDecided' /\ logins' \in [Logins -> Login]
    BY <1>0, <1>6 DEF Reload, github, LoginsDecided
  <2>3. QED
    BY <1>4, <1>6, <2>1, <2>2 DEF Reload, github
<1>7. CASE Rename
  <2>1. names' \in [Accounts -> Names] /\ renames' \in 0 .. MaxRenames
        /\ UNCHANGED <<logins, database, callbacks, cookies, tabs>>
    BY <1>7 DEF Rename, TypeInv, TypeOK
  <2>2. TypeOK'
    BY <2>1 DEF TypeInv, TypeOK, database
  <2>3. QED
    BY <1>0, <2>1, <2>2 DEF TypeInv, TabsPlaced, LoginsDecided, HandlersHold, HandlerHolds,
        RowsFollowCommit, Open, Account, database, SessionNamed, At
<1>8. ASSUME NEW k \in Callbacks, Exchange(k) PROVE TypeInv'
  <2> DEFINE l == callbacks[k].login
             accepted == logins[l].stage = "approved" /\ callbacks[k].verifier = l
  <2>1. callbacks[k].phase = "exchange" /\ l \in Logins
    BY <1>0, <1>8 DEF Exchange, At, HandlersHold, HandlerHolds
  <2>2. CASE ~accepted
    <3>1. Answer(k, "failed") /\ UNCHANGED <<github, database, cookies, tabs>>
      BY <1>8, <2>2 DEF Exchange, github
    <3>2. QED
      BY <2>1, <3>1, FailStep DEF Answers
  <2>3. CASE accepted
    <3>1. /\ Proceed(k, Query("profile", l))
          /\ logins' = [logins EXCEPT ![l].stage = "redeemed"]
          /\ UNCHANGED <<names, renames, database, cookies, tabs>>
      BY <1>8, <2>3 DEF Exchange
    <3>2. /\ callbacks' \in [Callbacks -> Callback]
          /\ callbacks'[k].phase = "profile" /\ callbacks'[k].login = l
          /\ \A j \in Callbacks : j # k => callbacks'[j] = callbacks[j]
      BY <1>0, <2>1, <3>1, QueryType, ProceedEffect DEF Handling
    <3>3. /\ logins' \in [Logins -> Login]
          /\ logins'[l].stage = "redeemed"
          /\ \A m \in Logins : logins'[m].account = logins[m].account
          /\ \A m \in Logins : m # l => logins'[m] = logins[m]
      BY <1>0, <2>1, <3>1 DEF Login
    <3>4. logins[l].stage = "approved"
      BY <2>3
    <3> HIDE DEF l
    <3>5. TypeOK'
      BY <3>1, <3>2, <3>3 DEF TypeInv, TypeOK, database
    <3>6. TabsPlaced'
      BY <1>0, <2>1, <3>1, <3>2 DEF TabsPlaced
    <3>7. LoginsDecided'
      BY <1>0, <2>1, <3>3, <3>4 DEF LoginsDecided
    <3>8. HandlersHold'
      <4>1. HandlerHolds(k)'
        BY <2>1, <3>2, <3>3 DEF HandlerHolds
      <4>2. ASSUME NEW j \in Callbacks, j # k PROVE HandlerHolds(j)'
        BY <1>0, <3>1, <3>2, <3>3, <4>2 DEF HandlersHold, HandlerHolds, Account, Handling, database
      <4>3. QED
        BY <4>1, <4>2 DEF HandlersHold
    <3>9. RowsFollowCommit'
      BY <1>0, <2>1, <3>1, <3>2, <3>3 DEF RowsFollowCommit, Open, Account, HandlersHold,
          HandlerHolds, database, Handling
    <3>10. SessionNamed'
      BY <1>n, <1>0, <3>1, <3>2 DEF SessionNamed, At, database
    <3>11. QED
      BY <3>5, <3>6, <3>7, <3>8, <3>9, <3>10 DEF TypeInv
  <2>4. QED
    BY <2>2, <2>3
<1>9. ASSUME NEW k \in Callbacks, Profile(k) PROVE TypeInv'
  <2>1. callbacks[k].phase = "profile" /\ HandlerHolds(k)
    BY <1>0, <1>9 DEF Profile, At, HandlersHold
  <2>2. callbacks[k].login \in Logins /\ Account(k) \in Accounts /\ names[Account(k)] \in Names
    BY <1>0, <2>1 DEF HandlerHolds, LoginsDecided, Account, Handling, TypeInv, TypeOK
  <2> DEFINE c == [callbacks[k] EXCEPT !.phase = "select", !.name = names[Account(k)]]
  <2>3. /\ c \in Callback /\ c.phase = "select" /\ c.login = callbacks[k].login
        /\ c.name \in Names
    BY <1>0, <2>2 DEF Callback, Handling
  <2>4. Proceed(k, c) /\ UNCHANGED <<github, database, cookies, tabs>>
    BY <1>9 DEF Profile
  <2> HIDE DEF c
  <2>5. /\ callbacks' \in [Callbacks -> Callback] /\ callbacks'[k] = c
        /\ \A j \in Callbacks : j # k => callbacks'[j] = callbacks[j]
    BY <1>0, <2>3, <2>4, ProceedEffect
  <2>6. HandlerHolds(k)'
    BY <2>1, <2>2, <2>3, <2>4, <2>5 DEF HandlerHolds, Handling, github
  <2>7. Open(k) /\ callbacks[k].phase # "unsent" /\ callbacks'[k].phase # "unsent"
    BY <2>1, <2>3, <2>5 DEF Open, Handling
  <2>8. QED
    BY <2>3, <2>4, <2>5, <2>6, <2>7, HandlerStep
<1>10. ASSUME NEW k \in Callbacks, Select(k) PROVE TypeInv'
  <2> DEFINE row == CHOOSE u \in Rows(k) : TRUE
             u == IF Rows(k) = {} THEN k ELSE row
             ch == IF Rows(k) = {} THEN "insert"
                   ELSE IF users[row].login # callbacks[k].name THEN "update" ELSE "none"
             c == [callbacks[k] EXCEPT !.phase = "flush", !.user = u, !.change = ch]
  <2>1. callbacks[k].phase = "select" /\ HandlerHolds(k)
    BY <1>0, <1>10 DEF Select, At, HandlersHold
  <2>2. Rows(k) # {} => row \in Rows(k)
    OBVIOUS
  <2>3. /\ ch \in {"insert", "update", "none"}
        /\ ch = "insert" <=> Rows(k) = {}
        /\ u \in UserIds
        /\ ch = "insert" => u = k
        /\ ch # "insert" => users[u] \in User /\ users[u].account = Account(k)
    <3> HIDE DEF row
    <3>1. QED
      BY <2>2 DEF Rows, TypeInv, TypeOK
  <2>4. Proceed(k, c) /\ UNCHANGED <<github, database, cookies, tabs>>
    BY <1>10 DEF Select
  <2> HIDE DEF u, ch
  <2>5. /\ c \in Callback /\ c.phase = "flush" /\ c.login = callbacks[k].login
        /\ c.name = callbacks[k].name /\ c.user = u /\ c.change = ch
    BY <1>0, <2>3 DEF Callback, Handling
  <2> HIDE DEF c
  <2>6. /\ callbacks' \in [Callbacks -> Callback] /\ callbacks'[k] = c
        /\ \A j \in Callbacks : j # k => callbacks'[j] = callbacks[j]
    BY <1>0, <2>4, <2>5, ProceedEffect
  <2>7. HandlerHolds(k)'
    BY <2>1, <2>3, <2>4, <2>5, <2>6 DEF HandlerHolds, Handling, github, database, Account
  <2>8. Open(k) /\ callbacks[k].phase # "unsent" /\ callbacks'[k].phase # "unsent"
    BY <2>1, <2>5, <2>6 DEF Open, Handling
  <2>9. QED
    BY <2>4, <2>5, <2>6, <2>7, <2>8, HandlerStep
<1>11. ASSUME NEW k \in Callbacks, Flush(k) PROVE TypeInv'
  <2>1. callbacks[k].phase = "flush" /\ HandlerHolds(k)
        /\ UNCHANGED <<github, database, cookies, tabs>>
    BY <1>0, <1>11 DEF Flush, At, HandlersHold
  <2>2. CASE Taken(k)
    BY <1>11, <2>1, <2>2, FailStep DEF Flush, Answers
  <2>3. CASE ~Taken(k)
    <3> DEFINE c == [callbacks[k] EXCEPT !.phase = "commit"]
    <3>1. /\ c \in Callback /\ c.phase = "commit" /\ c.login = callbacks[k].login
          /\ c.name = callbacks[k].name /\ c.user = callbacks[k].user
          /\ c.change = callbacks[k].change
      BY <1>0 DEF Callback, Handling
    <3>2. Proceed(k, c)
      BY <1>11, <2>3 DEF Flush
    <3> HIDE DEF c
    <3>3. /\ callbacks' \in [Callbacks -> Callback] /\ callbacks'[k] = c
          /\ \A j \in Callbacks : j # k => callbacks'[j] = callbacks[j]
      BY <1>0, <3>1, <3>2, ProceedEffect
    <3>4. HandlerHolds(k)'
      BY <2>1, <3>1, <3>3 DEF HandlerHolds, Handling, github, database, Account
    <3>5. Open(k) /\ callbacks[k].phase # "unsent" /\ callbacks'[k].phase # "unsent"
      BY <2>1, <3>1, <3>3 DEF Open, Handling
    <3>6. QED
      BY <2>1, <3>1, <3>3, <3>4, <3>5, HandlerStep
  <2>4. QED
    BY <2>2, <2>3
<1>12. ASSUME NEW k \in Callbacks, Fail(k) PROVE TypeInv'
  BY <1>12, FailStep DEF Fail, Handling, Answers
<1>13. ASSUME NEW k \in Callbacks, Commit(k) PROVE TypeInv'
  <2>1. TypeOK'
    <3>1. \A j \in Callbacks : sessions'[j].status # "none" => users'[sessions'[j].user] \in User
      BY <1>0, <1>13, CommitEffect DEF RowsFollowCommit
    <3>2. QED
      BY <1>13, <3>1, CommitEffect DEF TypeInv, TypeOK, github
  <2>2. TabsPlaced'
    BY <1>0, <1>13, CommitEffect DEF TabsPlaced
  <2>3. LoginsDecided'
    BY <1>0, <1>13, CommitEffect DEF LoginsDecided, github
  <2>4. HandlersHold'
    <3>1. HandlerHolds(k)'
      BY <1>13, CommitEffect DEF HandlerHolds, Handling
    <3>2. ASSUME NEW j \in Callbacks, j # k PROVE HandlerHolds(j)'
      <4>1. callbacks'[j] = callbacks[j] /\ logins' = logins
            /\ \A v \in UserIds : users[v] \in User =>
                 users'[v] \in User /\ users'[v].account = users[v].account
        BY <1>13, <3>2, CommitEffect DEF github
      <4>2. QED
        BY <1>0, <4>1 DEF HandlersHold, HandlerHolds, Account
    <3>3. QED
      BY <3>1, <3>2 DEF HandlersHold
  <2>5. RowsFollowCommit'
    <3>1. ~Open(k)' /\ \A j \in Callbacks : Open(j)' => Open(j)
      BY <1>13, CommitEffect DEF Open, Handling
    <3>2. ASSUME NEW j \in Callbacks, users'[j] # Nothing PROVE ~Open(j)'
      BY <1>0, <1>13, <3>1, <3>2, CommitEffect, NothingIsNothing DEF RowsFollowCommit
    <3>3. ASSUME NEW j \in Callbacks, sessions'[j].status # "none"
          PROVE  /\ ~Open(j)'
                 /\ logins'[callbacks'[j].login].stage = "redeemed"
                 /\ sessions'[j].user \in UserIds
                 /\ users'[sessions'[j].user] \in User
                 /\ users'[sessions'[j].user].account = Account(j)'
      <4>1. CASE j = k
        BY <1>13, <3>1, <4>1, CommitEffect DEF Account, github
      <4>2. CASE j # k
        BY <1>0, <1>13, <3>1, <3>3, <4>2, CommitEffect DEF RowsFollowCommit, Account, github
      <4>3. QED
        BY <4>1, <4>2
    <3>4. QED
      BY <3>2, <3>3 DEF RowsFollowCommit
  <2>6. SessionNamed'
    <3>1. \A j \in Callbacks : sessions[j].status # "none" => sessions'[j].status # "none"
      BY <1>13, CommitEffect
    <3>2. \A j \in Callbacks : j # k => callbacks'[j] = callbacks[j]
      BY <1>13, CommitEffect
    <3>3. sessions'[k].status # "none" /\ cookies' = cookies /\ tabs' = tabs
      BY <1>13, CommitEffect
    <3>4. cookies.session \in Callbacks \cup {Nothing}
      BY <1>0 DEF Cookies
    <3>5. QED
      BY <1>n, <1>0, <3>1, <3>2, <3>3, <3>4 DEF SessionNamed, At, TabsPlaced
  <2>7. QED
    BY <2>1, <2>2, <2>3, <2>4, <2>5, <2>6 DEF TypeInv
<1>14. ASSUME NEW t \in Tabs, LoseCallback(t) PROVE TypeInv'
  <2>0. PICK k \in Callbacks : k = tabs[t].at
    BY <1>0, <1>14 DEF LoseCallback, TabsPlaced
  <2> DEFINE c == callbacks[k]
             d == IF c.phase \in Answers THEN Query("done", c.login) ELSE c
  <2>1. c.phase # "unsent" /\ c.login \in Logins /\ HandlerHolds(k)
    BY <1>0, <1>14, <2>0 DEF LoseCallback, TabsPlaced, HandlersHold, HandlerHolds
  <2>2. /\ d \in Callback /\ d.login = c.login /\ d.phase # "unsent"
        /\ d.phase \in {"unsent"} \cup Handling => d = c
        /\ d.phase # "signed-in"
    BY <1>0, <2>1, QueryType DEF Handling, Answers
  <2>3. /\ GoTo(t, "detail", c.login) /\ Proceed(k, d)
        /\ UNCHANGED <<github, database, cookies>>
    BY <1>14, <2>0 DEF LoseCallback
  <2>4. [page |-> "detail", at |-> c.login] \in Tab
    BY <2>1 DEF Tab
  <2> HIDE DEF d
  <2>5. /\ callbacks' \in [Callbacks -> Callback] /\ callbacks'[k] = d
        /\ \A j \in Callbacks : j # k => callbacks'[j] = callbacks[j]
        /\ tabs' \in [Tabs -> Tab] /\ tabs'[t].page = "detail" /\ tabs'[t].at = c.login
        /\ \A u \in Tabs : u # t => tabs'[u] = tabs[u]
    BY <1>0, <2>1, <2>2, <2>3, <2>4, ProceedEffect, GoToEffect
  <2>6. TypeOK'
    BY <2>3, <2>5 DEF TypeInv, TypeOK, github, database
  <2>7. TabsPlaced'
    BY <1>0, <2>1, <2>2, <2>5 DEF TabsPlaced
  <2>8. LoginsDecided'
    BY <1>0, <2>3 DEF LoginsDecided, github
  <2>9. HandlersHold'
    <3>1. HandlerHolds(k)'
      BY <2>1, <2>2, <2>3, <2>5 DEF HandlerHolds, Handling, Account, github, database
    <3>2. ASSUME NEW j \in Callbacks, j # k PROVE HandlerHolds(j)'
      BY <1>0, <2>3, <2>5, <3>2 DEF HandlersHold, HandlerHolds, Account, github, database
    <3>3. QED
      BY <3>1, <3>2 DEF HandlersHold
  <2>10. RowsFollowCommit'
    BY <1>0, <2>2, <2>3, <2>5 DEF RowsFollowCommit, Open, Account, github, database
  <2>11. SessionNamed'
    BY <1>n, <1>0, <2>2, <2>3, <2>5 DEF SessionNamed, At, database, Answers
  <2>12. QED
    BY <2>6, <2>7, <2>8, <2>9, <2>10, <2>11 DEF TypeInv
<1>15. ASSUME NEW t \in Tabs, Deliver(t) PROVE TypeInv'
  <2>0. PICK k \in Callbacks : k = tabs[t].at
    BY <1>0, <1>15 DEF Deliver, TabsPlaced
  <2> DEFINE c == callbacks[k]
             d == Query("done", c.login)
             page == IF At(k, "signed-in") THEN "loading" ELSE "detail"
             at == IF At(k, "signed-in") THEN k ELSE c.login
  <2>1. c.phase \in Answers /\ c.login \in Logins
    BY <1>0, <1>15, <2>0 DEF Deliver, TabsPlaced, HandlersHold, HandlerHolds, Answers
  <2>2. d \in Callback /\ d.login = c.login /\ d.phase = "done"
    BY <2>1, QueryType
  <2>3. /\ GoTo(t, page, at) /\ Proceed(k, d) /\ cookies' = CookiesAfter(k)
        /\ UNCHANGED <<github, database>>
    BY <1>15, <2>0 DEF Deliver
  <2>4. [page |-> page, at |-> at] \in Tab /\ cookies' \in Cookies
    BY <1>0, <2>1, <2>3 DEF Tab, Cookies, CookiesAfter
  <2>4a. (page = "loading" /\ at = k) \/ (page = "detail" /\ at = c.login)
    OBVIOUS
  <2> HIDE DEF d, page, at
  <2>5. /\ callbacks' \in [Callbacks -> Callback] /\ callbacks'[k] = d
        /\ \A j \in Callbacks : j # k => callbacks'[j] = callbacks[j]
        /\ tabs' \in [Tabs -> Tab] /\ tabs'[t].page = page /\ tabs'[t].at = at
        /\ \A u \in Tabs : u # t => tabs'[u] = tabs[u]
    BY <1>0, <2>1, <2>2, <2>3, <2>4, ProceedEffect, GoToEffect
  <2>6. TypeOK'
    BY <2>3, <2>4, <2>5 DEF TypeInv, TypeOK, github, database
  <2>7. TabsPlaced'
    BY <1>0, <2>1, <2>2, <2>4a, <2>5 DEF TabsPlaced
  <2>8. LoginsDecided'
    BY <1>0, <2>3 DEF LoginsDecided, github
  <2>9. HandlersHold'
    <3>1. HandlerHolds(k)'
      BY <2>1, <2>2, <2>3, <2>5 DEF HandlerHolds, Handling
    <3>2. ASSUME NEW j \in Callbacks, j # k PROVE HandlerHolds(j)'
      BY <1>0, <2>3, <2>5, <3>2 DEF HandlersHold, HandlerHolds, Account, github, database
    <3>3. QED
      BY <3>1, <3>2 DEF HandlersHold
  <2>10. RowsFollowCommit'
    BY <1>0, <2>1, <2>2, <2>3, <2>5 DEF RowsFollowCommit, Open, Account, github, database, Handling
  <2>11. SessionNamed'
    BY <1>n, <1>0, <2>2, <2>3, <2>4a, <2>5 DEF SessionNamed, At, database, CookiesAfter
  <2>12. QED
    BY <2>6, <2>7, <2>8, <2>9, <2>10, <2>11 DEF TypeInv
<1>16. ASSUME NEW t \in Tabs, SignOut(t) PROVE TypeInv'
  <2>1. [page |-> "signing-out", at |-> cookies.session] \in Tab
    BY <1>0 DEF Tab, Cookies
  <2>2. TabsPlaced' /\ SessionNamed'
    BY <1>n, <1>0, <1>16, <2>1, GoToEffect DEF SignOut, TabsPlaced, SessionNamed, At, database, Cookies
  <2>3. QED
    BY <1>0, <1>16, <2>1, <2>2, GoToEffect, TabStep DEF SignOut
<1>17. ASSUME NEW t \in Tabs, LoseSignOut(t) PROVE TypeInv'
  <2>1. [page |-> "landing", at |-> Nothing] \in Tab
    BY DEF Tab
  <2>2. TabsPlaced' /\ SessionNamed'
    BY <1>n, <1>0, <1>17, <2>1, GoToEffect DEF LoseSignOut, TabsPlaced, SessionNamed, At, database
  <2>3. QED
    BY <1>0, <1>17, <2>1, <2>2, GoToEffect, TabStep DEF LoseSignOut
<1>18. ASSUME NEW t \in Tabs, EndSignOut(t) PROVE TypeInv'
  <2>1. tabs[t].at \in Callbacks \cup {Nothing} /\ cookies' \in Cookies
    BY <1>0, <1>18 DEF EndSignOut, TabsPlaced, Cookies
  <2>2. [page |-> "landing", at |-> tabs[t].at] \in Tab
    BY <2>1 DEF Tab
  <2>3. TabsPlaced' /\ SessionNamed'
    BY <1>n, <1>0, <1>18, <2>1, <2>2, GoToEffect DEF EndSignOut, TabsPlaced, SessionNamed, At, database
  <2>4. QED
    BY <1>0, <1>18, <2>1, <2>2, <2>3, GoToEffect, TabStep DEF EndSignOut
<1>19. CASE ExpireSessionCookie \/ ExpireLoginCookies
  <2>1. cookies' \in Cookies /\ UNCHANGED <<github, database, callbacks, tabs>>
    BY <1>0, <1>19 DEF ExpireSessionCookie, ExpireLoginCookies, Cookies
  <2>1a. cookies'.session = cookies.session \/ cookies'.session = Nothing
    BY <1>0, <1>19 DEF ExpireSessionCookie, ExpireLoginCookies, Cookies
  <2>2. TabsPlaced' /\ SessionNamed'
    BY <1>n, <1>0, <2>1, <2>1a DEF TabsPlaced, SessionNamed, At, database
  <2>3. QED
    BY <1>0, <2>1, <2>2, TabStep
<1>20. ASSUME sessions' \in [Callbacks -> Session],
              \A j \in Callbacks : sessions'[j].status = "none" <=> sessions[j].status = "none",
              \A j \in Callbacks : sessions'[j].user = sessions[j].user,
              UNCHANGED <<github, users, callbacks, cookies>>,
              tabs' \in [Tabs -> Tab], TabsPlaced', SessionNamed'
       PROVE  TypeInv'
  <2>1. TypeOK'
    BY <1>20 DEF TypeInv, TypeOK, github
  <2>2. LoginsDecided' /\ RowsFollowCommit'
    BY <1>0, <1>20 DEF LoginsDecided, RowsFollowCommit, Open, Account, github
  <2>3. HandlersHold'
    BY <1>0, <1>20 DEF HandlersHold, HandlerHolds, Account, github
  <2>4. QED
    BY <1>20, <2>1, <2>2, <2>3 DEF TypeInv
<1>21. ASSUME NEW k \in Callbacks, ExpireSession(k) PROVE TypeInv'
  <2>1. /\ sessions' \in [Callbacks -> Session]
        /\ \A j \in Callbacks : sessions'[j].status = "none" <=> sessions[j].status = "none"
        /\ \A j \in Callbacks : sessions'[j].user = sessions[j].user
    BY <1>21 DEF ExpireSession, Session, TypeInv, TypeOK
  <2>2. TabsPlaced' /\ SessionNamed'
    BY <1>n, <1>0, <1>21, <2>1 DEF ExpireSession, TabsPlaced, SessionNamed, At
  <2>3. QED
    BY <1>0, <1>20, <1>21, <2>1, <2>2 DEF ExpireSession
<1>22. ASSUME NEW t \in Tabs, ServeSignOut(t) PROVE TypeInv'
  <2>1. PICK k \in Callbacks \cup {Nothing} : k = tabs[t].at
    BY <1>0, <1>22 DEF ServeSignOut, TabsPlaced
  <2>2. [page |-> "signed-out", at |-> k] \in Tab
    BY <2>1 DEF Tab
  <2>3. /\ DeleteSession(k) /\ tabs[t].page = "signing-out" /\ GoTo(t, "signed-out", k)
        /\ UNCHANGED <<github, users, callbacks, cookies>>
    BY <1>22, <2>1 DEF ServeSignOut
  <2>4. k # Nothing => sessions[k].status # "none"
    BY <1>n, <1>0, <2>1, <2>3 DEF SessionNamed
  <2>5. /\ sessions' \in [Callbacks -> Session]
        /\ \A j \in Callbacks : sessions'[j].status = "none" <=> sessions[j].status = "none"
        /\ \A j \in Callbacks : sessions'[j].user = sessions[j].user
    BY <2>3, <2>4 DEF DeleteSession, Session, TypeInv, TypeOK
  <2>6. /\ tabs' \in [Tabs -> Tab] /\ tabs'[t].page = "signed-out" /\ tabs'[t].at = k
        /\ \A u \in Tabs : u # t => tabs'[u] = tabs[u]
    BY <1>0, <2>2, <2>3, GoToEffect
  <2>7. TabsPlaced'
    BY <1>0, <2>3, <2>6 DEF TabsPlaced
  <2>7a. cookies.session \in Callbacks \cup {Nothing}
    BY <1>0 DEF Cookies
  <2>7b. SessionNamed'
    BY <1>n, <1>0, <2>3, <2>4, <2>5, <2>6, <2>7a DEF SessionNamed, At, TabsPlaced
  <2>8. QED
    BY <1>20, <2>3, <2>5, <2>6, <2>7, <2>7b
<1>23. CASE UNCHANGED vars
  BY <1>n, <1>0, <1>23, TabStep DEF vars, TabsPlaced, SessionNamed, At, github, database
<1>24. QED
  BY <1>1, <1>2, <1>3, <1>5, <1>6, <1>7, <1>8, <1>9, <1>10, <1>11, <1>12, <1>13, <1>14, <1>15,
     <1>16, <1>17, <1>18, <1>19, <1>21, <1>22, <1>23, NothingIsNothing
  DEF Next, Approve, Cancel, Settle, Handle

\* Type correctness, of the tables too: a session's row of users is always
\* there, however logins overlap and fail (services/auth.py:62-101).
THEOREM TypeCorrect == Spec => []TypeOK
<1>1. TypeInv => TypeOK
  BY DEF TypeInv
<1>2. QED
  BY <1>1, TypeInit, TypeStep, PTL DEF Spec

\* The same of all that was used to prove it.
LEMMA TypeInvariant == Spec => []TypeInv
  BY TypeInit, TypeStep, PTL DEF Spec

-----------------------------------------------------------------------------
(* One row of users for an account. *)

Inserting(k) == At(k, "commit") /\ callbacks[k].change = "insert"

\* Of the open transactions that insert a row, each is for an account that has
\* no row yet, and no two are for the same account.
InsertsApart ==
    \A k \in Callbacks : Inserting(k) =>
        /\ Rows(k) = {}
        /\ \A j \in Callbacks : Inserting(j) /\ Account(j) = Account(k) => j = k

\* The steps of a callback, as another one or the page sees them.
LEMMA HandlerMoves ==
  ASSUME TypeInv, [Next]_vars, NEW k \in Callbacks
  PROVE  \/ callbacks'[k] = callbacks[k]
         \/ /\ callbacks[k].phase = "unsent"
            /\ callbacks'[k].phase \in {"refused", "cancelled", "exchange"}
            /\ callbacks'[k].phase = "exchange" =>
                 callbacks'[k].verifier = cookies.verifier /\ callbacks'[k].login = cookies.state
         \/ Exchange(k) \/ Profile(k) \/ Select(k) \/ Flush(k) \/ Commit(k)
         \/ /\ callbacks[k].phase # "unsent"
            /\ callbacks'[k].phase \in {"failed", "done"}
            /\ callbacks'[k].login = callbacks[k].login
            /\ UNCHANGED <<logins, database>>
<1>0. /\ tabs \in [Tabs -> Tab] /\ callbacks \in [Callbacks -> Callback] /\ cookies \in Cookies
      /\ TabsPlaced /\ HandlersHold
  BY DEF TypeInv, TypeOK
<1>1. ASSUME NEW j \in Callbacks, Exchange(j) \/ Profile(j) \/ Select(j) \/ Flush(j) \/ Commit(j)
      PROVE  callbacks'[k] = callbacks[k] \/ j = k
  BY <1>0, <1>1 DEF Exchange, Profile, Select, Flush, Commit, Answer, Proceed
<1>2. ASSUME NEW j \in Callbacks, Fail(j)
      PROVE  \/ callbacks'[k] = callbacks[k]
             \/ /\ callbacks[k].phase # "unsent"
                /\ callbacks'[k].phase \in {"failed", "done"}
                /\ callbacks'[k].login = callbacks[k].login
                /\ UNCHANGED <<logins, database>>
  BY <1>0, <1>2, AnswerEffect DEF Fail, Handling, Answers, github
<1>3. ASSUME NEW t \in Tabs, NEW l \in Logins, NEW stage, SendCallback(t, l, stage)
      PROVE  \/ callbacks'[k] = callbacks[k]
             \/ /\ callbacks[k].phase = "unsent"
                /\ callbacks'[k].phase \in {"refused", "cancelled", "exchange"}
                /\ callbacks'[k].phase = "exchange" =>
                     callbacks'[k].verifier = cookies.verifier /\ callbacks'[k].login = cookies.state
  BY <1>0, <1>3, SendEffect
<1>4. ASSUME NEW t \in Tabs, Deliver(t) \/ LoseCallback(t)
      PROVE  \/ callbacks'[k] = callbacks[k]
             \/ /\ callbacks[k].phase # "unsent"
                /\ callbacks'[k].phase \in {"failed", "done"}
                /\ callbacks'[k].login = callbacks[k].login
                /\ UNCHANGED <<logins, database>>
  <2>1. PICK j \in Callbacks : j = tabs[t].at
    BY <1>0, <1>4 DEF Deliver, LoseCallback, TabsPlaced
  <2>2. callbacks[j].phase # "unsent" /\ callbacks[j].login \in Logins
    BY <1>0, <1>4, <2>1 DEF Deliver, LoseCallback, TabsPlaced, HandlersHold, HandlerHolds
  <2>3. /\ Query("done", callbacks[j].login).phase = "done"
        /\ Query("done", callbacks[j].login).login = callbacks[j].login
    BY <2>2, QueryType
  <2>4. Proceed(j, Query("done", callbacks[j].login)) \/ Proceed(j, callbacks[j])
    BY <1>4, <2>1 DEF Deliver, LoseCallback
  <2>5. UNCHANGED <<logins, database>>
    BY <1>4 DEF Deliver, LoseCallback, github
  <2>6. QED
    BY <1>0, <2>2, <2>3, <2>4, <2>5 DEF Proceed
<1>5. ASSUME NEW t \in Tabs, Cancel(t) \/ Reload(t) \/ \E a \in Accounts : Approve(t, a)
      PROVE  tabs[t].at \in Logins /\ \E stage : SendCallback(t, tabs[t].at, stage)
  BY <1>0, <1>5 DEF Approve, Cancel, Decide, Reload, TabsPlaced
<1>6. QED
  BY <1>1, <1>2, <1>3, <1>4, <1>5
  DEF Next, Handle, Settle, vars, Load, ShowMe, StartLogin, Rename, SignOut, ServeSignOut, EndSignOut,
      LoseSignOut, ExpireSession, ExpireSessionCookie, ExpireLoginCookies

\* Where the steps of a handler lead.
LEMMA HandlerSteps ==
  ASSUME TypeInv, NEW k \in Callbacks
  PROVE  /\ Exchange(k) =>
              /\ callbacks[k].phase = "exchange" /\ callbacks'[k].login = callbacks[k].login
              /\ \/ callbacks'[k].phase \in {"failed", "done"} /\ UNCHANGED <<logins, sessions>>
                 \/ /\ callbacks'[k].phase = "profile" /\ UNCHANGED sessions
                    /\ logins[callbacks[k].login].stage = "approved"
                    /\ logins'[callbacks[k].login].stage = "redeemed"
         /\ Profile(k) =>
              /\ callbacks[k].phase = "profile" /\ callbacks'[k].login = callbacks[k].login
              /\ callbacks'[k].phase = "select" /\ UNCHANGED <<logins, sessions>>
         /\ Select(k) =>
              /\ callbacks[k].phase = "select" /\ callbacks'[k].login = callbacks[k].login
              /\ callbacks'[k].phase = "flush" /\ UNCHANGED <<logins, sessions>>
         /\ Flush(k) =>
              /\ callbacks[k].phase = "flush" /\ callbacks'[k].login = callbacks[k].login
              /\ callbacks'[k].phase \in {"commit", "failed", "done"}
              /\ UNCHANGED <<logins, sessions>>
<1>0. callbacks \in [Callbacks -> Callback] /\ HandlersHold /\ logins \in [Logins -> Login]
  BY DEF TypeInv, TypeOK
<1>1. ASSUME Exchange(k)
      PROVE  /\ callbacks[k].phase = "exchange" /\ callbacks'[k].login = callbacks[k].login
             /\ \/ callbacks'[k].phase \in {"failed", "done"} /\ UNCHANGED <<logins, sessions>>
                \/ /\ callbacks'[k].phase = "profile" /\ UNCHANGED sessions
                   /\ logins[callbacks[k].login].stage = "approved"
                   /\ logins'[callbacks[k].login].stage = "redeemed"
  <2>1. callbacks[k].phase = "exchange" /\ callbacks[k].login \in Logins
    BY <1>0, <1>1 DEF Exchange, At, HandlersHold, HandlerHolds
  <2>2. CASE Answer(k, "failed") /\ UNCHANGED logins
    BY <1>0, <1>1, <2>1, <2>2, AnswerEffect DEF Exchange, Answers, database
  <2>3. CASE ~(Answer(k, "failed") /\ UNCHANGED logins)
    <3>1. /\ Proceed(k, Query("profile", callbacks[k].login))
          /\ logins[callbacks[k].login].stage = "approved"
          /\ logins' = [logins EXCEPT ![callbacks[k].login].stage = "redeemed"]
          /\ UNCHANGED sessions
      BY <1>1, <2>3 DEF Exchange, database
    <3>2. /\ callbacks'[k].phase = "profile"
          /\ callbacks'[k].login = callbacks[k].login
      <4> DEFINE c == Query("profile", callbacks[k].login)
      <4>1. c \in Callback /\ c.phase = "profile" /\ c.login = callbacks[k].login
        BY <2>1, QueryType DEF Handling
      <4>2. Proceed(k, c)
        BY <3>1
      <4> HIDE DEF c
      <4>3. QED
        BY <1>0, <4>1, <4>2, ProceedEffect
    <3>3. logins'[callbacks[k].login].stage = "redeemed"
      BY <1>0, <2>1, <3>1 DEF Login
    <3>4. QED
      BY <2>1, <3>1, <3>2, <3>3
  <2>4. QED
    BY <2>2, <2>3
<1>2. ASSUME Profile(k) \/ Select(k)
      PROVE  callbacks'[k].login = callbacks[k].login /\ UNCHANGED <<logins, sessions>>
  BY <1>0, <1>2 DEF Profile, Select, Proceed, Callback, github, database
<1>3. ASSUME Profile(k)
      PROVE  callbacks[k].phase = "profile" /\ callbacks'[k].phase = "select"
  BY <1>0, <1>3 DEF Profile, Proceed, Callback, At
<1>4. ASSUME Select(k)
      PROVE  callbacks[k].phase = "select" /\ callbacks'[k].phase = "flush"
  BY <1>0, <1>4 DEF Select, Proceed, Callback, At
<1>5. ASSUME Flush(k)
      PROVE  /\ callbacks[k].phase = "flush" /\ callbacks'[k].login = callbacks[k].login
             /\ callbacks'[k].phase \in {"commit", "failed", "done"}
             /\ UNCHANGED <<logins, sessions>>
  <2>1. CASE Answer(k, "failed")
    BY <1>0, <1>5, <2>1, AnswerEffect DEF Flush, Answers, At, github, database
  <2>2. CASE ~Answer(k, "failed")
    BY <1>0, <1>5, <2>2 DEF Flush, Proceed, Callback, At, github, database
  <2>3. QED
    BY <2>1, <2>2
<1>6. QED
  BY <1>1, <1>2, <1>3, <1>4, <1>5

\* GitHub's view of a login changes with these steps only.
LEMMA LoginWritten ==
  ASSUME [Next]_vars
  PROVE  \/ UNCHANGED logins
         \/ \E k \in Callbacks : Exchange(k)
         \/ \E t \in Tabs, m \in Logins : StartLogin(t, m)
         \/ \E t \in Tabs : Cancel(t) \/ \E a \in Accounts : Approve(t, a)
  BY DEF Next, Handle, Settle, vars, github, Load, ShowMe, Rename, SignOut, ServeSignOut, EndSignOut,
      LoseSignOut, ExpireSession, ExpireSessionCookie, ExpireLoginCookies, Reload,
      Profile, Select, Flush, Commit, Fail, Deliver, LoseCallback

\* A login that is approved or decided otherwise stays so until its code is
\* redeemed, and then for good.
LEMMA LoginMoves ==
  ASSUME TypeInv, [Next]_vars, NEW l \in Logins
  PROVE  \/ logins'[l] = logins[l]
         \/ logins[l].stage = "unused" /\ logins'[l] = [logins[l] EXCEPT !.stage = "asked"]
         \/ /\ logins[l].stage = "asked"
            /\ \/ \E a \in Accounts : logins'[l] = [stage |-> "approved", account |-> a]
               \/ logins'[l] = [stage |-> "cancelled", account |-> Nothing]
         \/ /\ logins[l].stage = "approved"
            /\ logins'[l] = [logins[l] EXCEPT !.stage = "redeemed"]
            /\ \E k \in Callbacks : Exchange(k) /\ callbacks[k].login = l
<1>0. logins \in [Logins -> Login] /\ TabsPlaced /\ HandlersHold
  BY DEF TypeInv, TypeOK
<1>1. ASSUME NEW k \in Callbacks, Exchange(k)
      PROVE  \/ logins'[l] = logins[l]
             \/ /\ logins[l].stage = "approved" /\ callbacks[k].login = l
                /\ logins'[l] = [logins[l] EXCEPT !.stage = "redeemed"]
  BY <1>0, <1>1 DEF Exchange
<1>2. ASSUME NEW t \in Tabs, NEW m \in Logins, StartLogin(t, m)
      PROVE  \/ logins'[l] = logins[l]
             \/ logins[l].stage = "unused" /\ logins'[l] = [logins[l] EXCEPT !.stage = "asked"]
  BY <1>0, <1>2 DEF StartLogin
<1>3. ASSUME NEW t \in Tabs, NEW stage, NEW a, Decide(t, stage, a)
      PROVE  \/ logins'[l] = logins[l]
             \/ logins[l].stage = "asked" /\ logins'[l] = [stage |-> stage, account |-> a]
  BY <1>0, <1>3 DEF Decide
<1>4. ASSUME NEW t \in Tabs, NEW a \in Accounts, Approve(t, a)
      PROVE  \/ logins'[l] = logins[l]
             \/ logins[l].stage = "asked" /\ logins'[l] = [stage |-> "approved", account |-> a]
  BY <1>3, <1>4 DEF Approve
<1>5. ASSUME NEW t \in Tabs, Cancel(t)
      PROVE  \/ logins'[l] = logins[l]
             \/ logins[l].stage = "asked" /\ logins'[l] = [stage |-> "cancelled", account |-> Nothing]
  BY <1>3, <1>5 DEF Cancel
<1>6. QED
  BY <1>1, <1>2, <1>4, <1>5, LoginWritten

\* Users are written by commits only.
LEMMA UsersWritten ==
  ASSUME [Next]_vars
  PROVE  UNCHANGED users \/ \E k \in Callbacks : Commit(k)
  BY DEF Next, Handle, Settle, vars, database, Load, ShowMe, StartLogin, Approve, Cancel, Decide,
      Reload, Rename, SignOut, ServeSignOut, EndSignOut, LoseSignOut, ExpireSession,
      ExpireSessionCookie, ExpireLoginCookies, Exchange, Profile, Select, Flush, Fail, Deliver,
      LoseCallback

\* An open transaction that holds an insert held it before, unless it has just
\* got past the unique index and every lock.
LEMMA InsertingSteps ==
  ASSUME TypeInv, [Next]_vars, NEW k \in Callbacks, Inserting(k)'
  PROVE  /\ Account(k)' = Account(k)
         /\ \/ Inserting(k)
            \/ /\ callbacks[k].change = "insert" /\ ~Taken(k)
               /\ \A j \in Callbacks : ~Blocks(j, k)
               /\ UNCHANGED <<logins, users>>
               /\ \A j \in Callbacks : j # k => callbacks'[j] = callbacks[j]
<1>0. callbacks \in [Callbacks -> Callback] /\ logins \in [Logins -> Login] /\ HandlersHold
  BY DEF TypeInv, TypeOK
<1>1. CASE callbacks'[k] = callbacks[k]
  <2>1. Inserting(k) /\ HandlerHolds(k)
    BY <1>0, <1>1 DEF Inserting, At, HandlersHold
  <2>2. callbacks[k].login \in Logins /\ logins[callbacks[k].login].stage = "redeemed"
    BY <2>1 DEF HandlerHolds, Inserting, At, Handling
  <2>3. logins'[callbacks[k].login] = logins[callbacks[k].login]
    BY <2>2, LoginMoves
  <2>4. QED
    BY <1>1, <2>1, <2>3 DEF Account
<1>2. CASE Flush(k)
  <2>1. ~Taken(k)
    BY <1>0, <1>2, AnswerEffect DEF Flush, Inserting, At, Answers
  <2>2. /\ Proceed(k, [callbacks[k] EXCEPT !.phase = "commit"])
        /\ \A j \in Callbacks : ~Blocks(j, k)
        /\ UNCHANGED <<logins, users>>
    BY <1>2, <2>1 DEF Flush, github, database
  <2>3. /\ callbacks'[k].change = callbacks[k].change /\ callbacks'[k].login = callbacks[k].login
        /\ \A j \in Callbacks : j # k => callbacks'[j] = callbacks[j]
    BY <1>0, <2>2 DEF Proceed, Callback
  <2>4. QED
    BY <2>1, <2>2, <2>3 DEF Inserting, Account
<1>3. CASE Exchange(k) \/ Profile(k) \/ Select(k)
  BY <1>3, HandlerSteps DEF Inserting, At
<1>4. CASE Commit(k)
  BY <1>4, CommitEffect DEF Inserting, At
<1>5. QED
  BY <1>1, <1>2, <1>3, <1>4, HandlerMoves DEF Inserting, At

\* A commit makes no second row of its account.
LEMMA CommitKeepsRowsApart ==
  ASSUME TypeInv, InsertsApart, OneUserPerAccount, NEW k \in Callbacks, Commit(k),
         NEW v \in UserIds, users'[v] # Nothing, users'[v].account = Account(k)
  PROVE  v = callbacks[k].user
<1>1. SUFFICES ASSUME v # callbacks[k].user PROVE FALSE
  OBVIOUS
<1>2. users[v] # Nothing /\ users[v].account = Account(k)
  BY <1>1, CommitEffect
<1>3. CASE callbacks[k].change = "insert"
  <2>1. Rows(k) = {}
    BY <1>3, CommitEffect DEF InsertsApart, Inserting, At
  <2>2. QED
    BY <1>2, <2>1 DEF Rows
<1>4. CASE callbacks[k].change # "insert"
  BY <1>1, <1>2, <1>4, CommitEffect, NothingIsNothing DEF OneUserPerAccount
<1>5. QED
  BY <1>3, <1>4

LEMMA UsersStep == TypeInv /\ InsertsApart /\ OneUserPerAccount /\ [Next]_vars
                     => InsertsApart' /\ OneUserPerAccount'
<1> SUFFICES ASSUME TypeInv, InsertsApart, OneUserPerAccount, [Next]_vars
             PROVE  InsertsApart' /\ OneUserPerAccount'
  OBVIOUS
<1>1. OneUserPerAccount'
  <2>1. CASE UNCHANGED users
    BY <2>1 DEF OneUserPerAccount
  <2>2. ASSUME NEW k \in Callbacks, Commit(k) PROVE OneUserPerAccount'
    <3> SUFFICES ASSUME NEW u \in UserIds, NEW v \in UserIds, users'[u] # Nothing, users'[v] # Nothing,
                        users'[u].account = users'[v].account
                 PROVE  u = v
      BY DEF OneUserPerAccount
    <3>1. CASE u = callbacks[k].user \/ v = callbacks[k].user
      BY <2>2, <3>1, CommitEffect, CommitKeepsRowsApart
    <3>2. CASE u # callbacks[k].user /\ v # callbacks[k].user
      BY <2>2, <3>2, CommitEffect DEF OneUserPerAccount
    <3>3. QED
      BY <3>1, <3>2
  <2>3. QED
    BY <2>1, <2>2, UsersWritten
<1>2. ASSUME NEW k \in Callbacks, Inserting(k)' PROVE Rows(k)' = {}
  <2>1. Account(k)' = Account(k) /\ Rows(k) = {}
    BY <1>2, InsertingSteps DEF InsertsApart, Taken
  <2>2. CASE UNCHANGED users
    BY <2>1, <2>2 DEF Rows
  <2>3. ASSUME NEW m \in Callbacks, Commit(m) PROVE Rows(k)' = {}
    <3>1. callbacks'[m].phase # "commit"
      BY <2>3, CommitEffect
    <3>2. m # k /\ Inserting(k)
      BY <1>2, <2>3, <3>1, InsertingSteps, CommitEffect DEF Inserting, At
    <3>3. Account(m) # Account(k)
      <4>1. CASE callbacks[m].change = "insert"
        BY <2>3, <3>2, <4>1, CommitEffect DEF InsertsApart, Inserting, At
      <4>2. CASE callbacks[m].change # "insert"
        BY <2>1, <2>3, <4>2, CommitEffect, NothingIsNothing DEF Rows
      <4>3. QED
        BY <4>1, <4>2
    <3>4. ASSUME NEW v \in UserIds, users'[v] # Nothing, users'[v].account = Account(k) PROVE FALSE
      BY <2>1, <2>3, <3>3, <3>4, CommitEffect DEF Rows
    <3>5. QED
      BY <2>1, <3>4 DEF Rows
  <2>4. QED
    BY <2>2, <2>3, UsersWritten
<1>3. ASSUME NEW k \in Callbacks, NEW j \in Callbacks, Inserting(k)', Inserting(j)',
             Account(j)' = Account(k)'
      PROVE  j = k
  <2>1. Account(j) = Account(k)
    BY <1>3, InsertingSteps
  <2>2. CASE Inserting(k) /\ Inserting(j)
    BY <2>1, <2>2 DEF InsertsApart
  <2>3. CASE ~Inserting(k)
    <3>1. /\ callbacks[k].change = "insert" /\ ~Blocks(j, k)
          /\ j # k => callbacks'[j] = callbacks[j]
      BY <1>3, <2>3, InsertingSteps
    <3>2. QED
      BY <1>3, <2>1, <3>1 DEF Blocks, Inserting, At
  <2>4. CASE ~Inserting(j)
    <3>1. /\ callbacks[j].change = "insert" /\ ~Blocks(k, j)
          /\ j # k => callbacks'[k] = callbacks[k]
      BY <1>3, <2>4, InsertingSteps
    <3>2. QED
      BY <1>3, <2>1, <3>1 DEF Blocks, Inserting, At
  <2>5. QED
    BY <2>2, <2>3, <2>4
<1>4. QED
  BY <1>1, <1>2, <1>3 DEF InsertsApart

\* However its logins overlap, an account has one row of users: the locks an
\* open transaction holds on its unique keys are what makes it so
\* (services/auth.py:74-83, models/user.py:16).
THEOREM OneUser == Spec => []OneUserPerAccount
<1>1. Init => InsertsApart /\ OneUserPerAccount
  BY Bounds DEF Init, InsertsApart, Inserting, At, Unhandled, OneUserPerAccount
<1>2. QED
  BY <1>1, UsersStep, TypeInvariant, PTL DEF Spec

-----------------------------------------------------------------------------
(* The cookies of a login. *)

LEMMA CookiesWritten ==
  ASSUME [Next]_vars
  PROVE  \/ UNCHANGED cookies
         \/ \E t \in Tabs, l \in Logins : StartLogin(t, l)
         \/ \E t \in Tabs : Deliver(t) \/ EndSignOut(t)
         \/ ExpireSessionCookie \/ ExpireLoginCookies
  BY DEF Next, Handle, Settle, vars, Load, ShowMe, Approve, Cancel, Decide, Reload, Rename,
      SignOut, ServeSignOut, LoseSignOut, ExpireSession, Exchange, Profile, Select, Flush, Commit,
      Fail, LoseCallback

\* A callback's verifier is that of the last login of the browser, and so is
\* its state: the two cookies are never set or deleted apart
\* (api/routes/auth.py:46-63, api/errors.py:80-96).
THEOREM Paired == Spec => []CookiesPaired
<1>1. Init => CookiesPaired
  BY DEF Init, CookiesPaired, At, Unhandled
<1>2. TypeInv /\ CookiesPaired /\ [Next]_vars => CookiesPaired'
  <2> SUFFICES ASSUME TypeInv, CookiesPaired, [Next]_vars PROVE CookiesPaired'
    OBVIOUS
  <2>0. cookies \in Cookies /\ cookies.state = cookies.verifier
    BY DEF TypeInv, TypeOK, CookiesPaired
  <2>1. cookies'.state = cookies'.verifier
    <3>1. CASE UNCHANGED cookies
      BY <2>0, <3>1
    <3>2. ASSUME NEW t \in Tabs, NEW l \in Logins, StartLogin(t, l)
          PROVE  cookies'.state = cookies'.verifier
      BY <2>0, <3>2 DEF StartLogin, Cookies
    <3>3. ASSUME NEW t \in Tabs, Deliver(t)
          PROVE  cookies'.state = cookies'.verifier
      BY <2>0, <3>3 DEF Deliver, CookiesAfter
    <3>4. ASSUME NEW t \in Tabs, EndSignOut(t)
          PROVE  cookies'.state = cookies'.verifier
      BY <2>0, <3>4 DEF EndSignOut, Cookies
    <3>5. CASE ExpireSessionCookie \/ ExpireLoginCookies
      BY <2>0, <3>5 DEF ExpireSessionCookie, ExpireLoginCookies, Cookies
    <3>6. QED
      BY <3>1, <3>2, <3>3, <3>4, <3>5, CookiesWritten
  <2>2. ASSUME NEW k \in Callbacks, At(k, "exchange")'
        PROVE  callbacks'[k].verifier = callbacks'[k].login
    <3>1. callbacks'[k] # callbacks[k] =>
            callbacks'[k].verifier = cookies.verifier /\ callbacks'[k].login = cookies.state
      BY <2>2, HandlerMoves, HandlerSteps, CommitEffect DEF At
    <3>2. QED
      BY <2>0, <2>2, <3>1 DEF CookiesPaired, At
  <2>3. QED
    BY <2>1, <2>2 DEF CookiesPaired
<1>3. QED
  BY <1>1, <1>2, TypeInvariant, PTL DEF Spec

-----------------------------------------------------------------------------
(* Signing out, and logins that fail. *)

\* The server has deleted the session before its answer arrives.
SignOutServed == \A t \in Tabs : tabs[t].page = "signed-out" => ~Valid(tabs[t].at)

\* A session that is there becomes valid never again.
LEMMA SessionMoves ==
  ASSUME TypeInv, [Next]_vars, NEW k \in Callbacks
  PROVE  \/ sessions'[k] = sessions[k]
         \/ sessions[k].status = "none" /\ Commit(k)
         \/ /\ sessions[k].status # "none" /\ sessions'[k].status = "ended"
            /\ sessions'[k].user = sessions[k].user
            /\ UNCHANGED <<logins, users, callbacks>>
            /\ \A j \in Callbacks : j # k => sessions'[j] = sessions[j]
<1>0. sessions \in [Callbacks -> Session] /\ SessionNamed /\ TabsPlaced
  BY DEF TypeInv, TypeOK
<1>1. ASSUME NEW j \in Callbacks, Commit(j)
      PROVE  sessions'[k] = sessions[k] \/ (sessions[k].status = "none" /\ Commit(k))
  BY <1>1, CommitEffect
<1>2. ASSUME NEW j \in Callbacks, sessions[j].status # "none",
             sessions' = [sessions EXCEPT ![j].status = "ended"]
      PROVE  \/ sessions'[k] = sessions[k]
             \/ /\ sessions[k].status # "none" /\ sessions'[k].status = "ended"
                /\ sessions'[k].user = sessions[k].user
                /\ \A i \in Callbacks : i # k => sessions'[i] = sessions[i]
  BY <1>0, <1>2 DEF Session
<1>3. ASSUME NEW t \in Tabs, ServeSignOut(t)
      PROVE  \/ UNCHANGED sessions
             \/ /\ UNCHANGED <<logins, users, callbacks>>
                /\ \E j \in Callbacks : /\ sessions[j].status # "none"
                                        /\ sessions' = [sessions EXCEPT ![j].status = "ended"]
  BY <1>0, <1>3 DEF ServeSignOut, DeleteSession, TabsPlaced, SessionNamed, github
<1>4. ASSUME NEW j \in Callbacks, ExpireSession(j)
      PROVE  /\ UNCHANGED <<logins, users, callbacks>>
             /\ sessions[j].status # "none"
             /\ sessions' = [sessions EXCEPT ![j].status = "ended"]
  BY <1>4 DEF ExpireSession, github
<1>5. \/ UNCHANGED sessions
      \/ \E j \in Callbacks : Commit(j) \/ ExpireSession(j)
      \/ \E t \in Tabs : ServeSignOut(t)
  BY DEF Next, Handle, Settle, vars, database, Load, ShowMe, StartLogin, Approve, Cancel, Decide,
      Reload, Rename, SignOut, EndSignOut, LoseSignOut, ExpireSessionCookie, ExpireLoginCookies,
      Exchange, Profile, Select, Flush, Fail, Deliver, LoseCallback
<1>6. QED
  BY <1>1, <1>2, <1>3, <1>4, <1>5

\* A tab is moved by its own steps only.
LEMMA TabMoves ==
  ASSUME TypeInv, [Next]_vars, NEW t \in Tabs
  PROVE  \/ tabs'[t] = tabs[t]
         \/ Load(t) \/ LoseCallback(t) \/ SignOut(t) \/ Settle(t) \/ Cancel(t) \/ Reload(t)
         \/ \E l \in Logins : StartLogin(t, l)
         \/ \E a \in Accounts : Approve(t, a)
<1>0. tabs \in [Tabs -> Tab]
  BY DEF TypeInv, TypeOK
<1>1. ASSUME NEW u \in Tabs, NEW page, NEW at, GoTo(u, page, at)
      PROVE  t = u \/ tabs'[t] = tabs[t]
  BY <1>0, <1>1 DEF GoTo
<1>2. ASSUME NEW u \in Tabs,
             \/ Load(u) \/ LoseCallback(u) \/ SignOut(u) \/ Cancel(u) \/ Reload(u)
             \/ \E l \in Logins : StartLogin(u, l)
             \/ \E a \in Accounts : Approve(u, a)
      PROVE  t = u \/ tabs'[t] = tabs[t]
  BY <1>1, <1>2 DEF Load, LoseCallback, SignOut, Cancel, Approve, Decide, Reload, SendCallback, StartLogin
<1>3. ASSUME NEW u \in Tabs, Settle(u)
      PROVE  t = u \/ tabs'[t] = tabs[t]
  BY <1>1, <1>3 DEF Settle, ShowMe, Deliver, ServeSignOut, EndSignOut, LoseSignOut
<1>4. \/ UNCHANGED tabs
      \/ \E u \in Tabs : \/ Load(u) \/ LoseCallback(u) \/ SignOut(u) \/ Cancel(u) \/ Reload(u)
                        \/ \E l \in Logins : StartLogin(u, l)
                        \/ \E a \in Accounts : Approve(u, a)
      \/ \E u \in Tabs : Settle(u)
  BY DEF Next, Handle, vars, Rename, ExpireSession, ExpireSessionCookie, ExpireLoginCookies,
      Exchange, Profile, Select, Flush, Commit, Fail
<1>5. QED
  BY <1>2, <1>3, <1>4

\* How a tab comes to the pages of a sign-out that was served.
LEMMA SignOutPages ==
  ASSUME TypeInv, [Next]_vars, NEW t \in Tabs, tabs'[t].page \in {"signed-out", "landing"},
         tabs'[t].at # Nothing
  PROVE  \/ tabs'[t] = tabs[t]
         \/ ServeSignOut(t) /\ tabs'[t].page = "signed-out" /\ tabs'[t].at = tabs[t].at
         \/ EndSignOut(t) /\ tabs'[t].page = "landing" /\ tabs'[t].at = tabs[t].at
<1>0. tabs \in [Tabs -> Tab]
  BY DEF TypeInv, TypeOK
<1>1. ASSUME NEW page, NEW at, GoTo(t, page, at) PROVE tabs'[t].page = page /\ tabs'[t].at = at
  BY <1>0, <1>1 DEF GoTo
<1>2. ASSUME \/ Load(t) \/ LoseCallback(t) \/ SignOut(t) \/ Cancel(t) \/ Reload(t)
             \/ \E l \in Logins : StartLogin(t, l)
             \/ \E a \in Accounts : Approve(t, a)
      PROVE  FALSE
  <2>1. CASE Cancel(t) \/ Reload(t) \/ \E a \in Accounts : Approve(t, a)
    <3>1. PICK k \in Callbacks : GoTo(t, "callback", k)
      BY <2>1 DEF Cancel, Approve, Decide, Reload, SendCallback
    <3>2. QED
      BY <1>1, <3>1
  <2>2. CASE LoseCallback(t)
    BY <1>1, <2>2 DEF LoseCallback
  <2>3. CASE Load(t) \/ SignOut(t)
    BY <1>1, <2>3 DEF Load, SignOut
  <2>4. CASE \E l \in Logins : StartLogin(t, l)
    BY <1>1, <2>4 DEF StartLogin
  <2>5. QED
    BY <1>2, <2>1, <2>2, <2>3, <2>4
<1>3. ASSUME ShowMe(t) \/ Deliver(t) \/ LoseSignOut(t) PROVE FALSE
  BY <1>1, <1>3 DEF ShowMe, Deliver, LoseSignOut
<1>4. ASSUME ServeSignOut(t) PROVE tabs'[t].page = "signed-out" /\ tabs'[t].at = tabs[t].at
  BY <1>1, <1>4 DEF ServeSignOut
<1>5. ASSUME EndSignOut(t) PROVE tabs'[t].page = "landing" /\ tabs'[t].at = tabs[t].at
  BY <1>1, <1>5 DEF EndSignOut
<1>6. tabs'[t] = tabs[t] \/ Settle(t)
  BY <1>2, TabMoves
<1>7. Settle(t) => ServeSignOut(t) \/ EndSignOut(t)
  BY <1>3 DEF Settle
<1>8. QED
  BY <1>4, <1>5, <1>6, <1>7

LEMMA SignedOutStep == TypeInv /\ SignOutServed /\ SignedOutStaysOut /\ [Next]_vars
                         => SignOutServed' /\ SignedOutStaysOut'
<1> SUFFICES ASSUME TypeInv, SignOutServed, SignedOutStaysOut, [Next]_vars,
                    NEW t \in Tabs, tabs'[t].page \in {"signed-out", "landing"}
             PROVE  ~Valid(tabs[t].at)'
  BY DEF SignOutServed, SignedOutStaysOut
<1>0. /\ sessions \in [Callbacks -> Session] /\ SessionNamed
      /\ \A u \in Tabs : tabs[u].page \in {"signing-out", "signed-out", "landing"} =>
            tabs[u].at \in Callbacks \cup {Nothing}
  BY DEF TypeInv, TypeOK, TabsPlaced
<1>1. CASE tabs'[t].at = Nothing
  BY <1>1 DEF Valid
<1>2. CASE tabs'[t].at # Nothing
  <2>1. CASE tabs'[t] = tabs[t]
    <3>1. PICK k \in Callbacks : k = tabs[t].at
      BY <1>0, <1>2, <2>1
    <3>2. sessions[k].status # "none" /\ sessions[k].status # "live"
      BY <1>0, <1>2, <2>1, <3>1 DEF SessionNamed, SignOutServed, SignedOutStaysOut, Valid
    <3>3. sessions'[k].status # "live"
      BY <3>2, SessionMoves
    <3>4. QED
      BY <2>1, <3>1, <3>3 DEF Valid
  <2>2. CASE ServeSignOut(t) /\ tabs'[t].at = tabs[t].at
    <3>1. PICK k \in Callbacks : k = tabs[t].at
      BY <1>0, <1>2, <2>2 DEF ServeSignOut
    <3>2. sessions' = [sessions EXCEPT ![k].status = "ended"]
      BY <1>2, <2>2, <3>1 DEF ServeSignOut, DeleteSession
    <3>3. sessions'[k].status = "ended"
      BY <1>0, <3>2 DEF Session
    <3>4. QED
      BY <2>2, <3>1, <3>3 DEF Valid
  <2>3. CASE EndSignOut(t) /\ tabs'[t].at = tabs[t].at
    <3>1. PICK k \in Callbacks : k = tabs[t].at
      BY <1>0, <1>2, <2>3 DEF EndSignOut
    <3>2. sessions[k].status # "live" /\ UNCHANGED sessions
      BY <1>2, <2>3, <3>1 DEF EndSignOut, SignOutServed, Valid, database
    <3>3. QED
      BY <2>3, <3>1, <3>2 DEF Valid
  <2>4. QED
    BY <1>2, <2>1, <2>2, <2>3, SignOutPages
<1>3. QED
  BY <1>1, <1>2

\* What a tab signed out of stays ended, for the token a sign-out is sent with
\* is of a session whose row was there, and no commit makes a row anew
\* (services/auth.py:104-108, api/routes/auth.py:125-132).
THEOREM SignedOut == Spec => []SignedOutStaysOut
<1>1. Init => SignOutServed /\ SignedOutStaysOut
  BY DEF Init, SignOutServed, SignedOutStaysOut
<1>2. QED
  BY <1>1, SignedOutStep, TypeInvariant, PTL DEF Spec

\* A callback that is refused, cancelled or fails leaves the session's cookie
\* as it was (api/errors.py:80-96).
THEOREM FailedLogin == Spec => FailedLoginKeepsSession
<1>1. ASSUME TypeInv, [Next]_vars, NEW t \in Tabs,
             tabs[t].page = "callback", tabs'[t].page = "detail"
      PROVE  cookies'.session = cookies.session
  <2>0. tabs \in [Tabs -> Tab] /\ cookies \in Cookies
    BY <1>1 DEF TypeInv, TypeOK
  <2>1. ASSUME NEW page, NEW at, GoTo(t, page, at) PROVE tabs'[t].page = page
    BY <2>0, <2>1 DEF GoTo
  <2>2. LoseCallback(t) \/ Deliver(t)
    <3>1. ~Load(t) /\ ~SignOut(t) /\ ~Cancel(t) /\ ~Reload(t)
      BY <1>1 DEF Load, Waiting, SignOut, Cancel, Decide, Reload
    <3>2. ~(\E l \in Logins : StartLogin(t, l)) /\ ~(\E a \in Accounts : Approve(t, a))
      BY <1>1 DEF StartLogin, Approve, Decide
    <3>3. ~ShowMe(t) /\ ~ServeSignOut(t) /\ ~EndSignOut(t) /\ ~LoseSignOut(t)
      BY <1>1 DEF ShowMe, ServeSignOut, EndSignOut, LoseSignOut
    <3>4. tabs'[t] # tabs[t]
      BY <1>1
    <3>5. QED
      BY <1>1, <3>1, <3>2, <3>3, <3>4, TabMoves DEF Settle
  <2>3. CASE LoseCallback(t)
    BY <2>3 DEF LoseCallback
  <2>4. CASE Deliver(t)
    <3>1. ~At(tabs[t].at, "signed-in")
      BY <1>1, <2>1, <2>4 DEF Deliver
    <3>2. QED
      BY <2>4, <3>1 DEF Deliver, CookiesAfter
  <2>5. QED
    BY <2>2, <2>3, <2>4
<1>2. TypeInv /\ [Next]_vars =>
        [(\E t \in Tabs : tabs[t].page = "callback" /\ tabs'[t].page = "detail")
           => cookies'.session = cookies.session]_vars
  BY <1>1
<1>3. QED
  BY <1>2, TypeInvariant, PTL DEF Spec, FailedLoginKeepsSession

-----------------------------------------------------------------------------
(* What a login promises. *)

\* A callback whose code GitHub has redeemed.
Redeemed(k) ==
    callbacks[k].phase \in {"profile", "select", "flush", "commit"} \/ sessions[k].status # "none"

\* A code is redeemed for one callback, however often it is sent.
RedeemedOnce ==
    \A j, k \in Callbacks :
        Redeemed(j) /\ Redeemed(k) /\ callbacks[j].login = callbacks[k].login => j = k

\* A callback that was sent keeps its login.
LEMMA LoginStays ==
  ASSUME TypeInv, [Next]_vars, NEW k \in Callbacks, callbacks[k].phase # "unsent"
  PROVE  callbacks'[k].login = callbacks[k].login
  BY HandlerMoves, HandlerSteps, CommitEffect

\* A callback's code is redeemed when GitHub accepts it.
LEMMA RedeemedSteps ==
  ASSUME TypeInv, [Next]_vars, NEW k \in Callbacks, Redeemed(k)'
  PROVE  \/ Redeemed(k)
         \/ /\ Exchange(k) /\ callbacks[k].phase = "exchange" /\ callbacks'[k].phase = "profile"
            /\ logins[callbacks[k].login].stage = "approved"
<1>1. CASE callbacks'[k] = callbacks[k]
  <2>1. sessions'[k] = sessions[k] \/ sessions[k].status # "none" \/ Commit(k)
    BY SessionMoves
  <2>2. QED
    BY <1>1, <2>1, CommitEffect DEF Redeemed
<1>2. CASE Commit(k)
  BY <1>2, CommitEffect DEF Redeemed
<1>3. CASE sessions'[k].status # "none" /\ ~Commit(k)
  BY <1>3, SessionMoves DEF Redeemed
<1>4. CASE callbacks'[k].phase \in {"profile", "select", "flush", "commit"} /\ ~Commit(k)
  BY <1>1, <1>4, HandlerMoves, HandlerSteps DEF Redeemed
<1>5. QED
  BY <1>2, <1>3, <1>4 DEF Redeemed

LEMMA RedeemedOnceStep == TypeInv /\ RedeemedOnce /\ [Next]_vars => RedeemedOnce'
<1> SUFFICES ASSUME TypeInv, RedeemedOnce, [Next]_vars,
                    NEW j \in Callbacks, NEW k \in Callbacks, Redeemed(j)', Redeemed(k)',
                    callbacks'[j].login = callbacks'[k].login
             PROVE  j = k
  BY DEF RedeemedOnce
<1>0. callbacks \in [Callbacks -> Callback] /\ HandlersHold /\ RowsFollowCommit
  BY DEF TypeInv, TypeOK
<1>1. ASSUME NEW i \in Callbacks, Redeemed(i)
      PROVE  callbacks[i].phase # "unsent" /\ logins[callbacks[i].login].stage = "redeemed"
  BY <1>0, <1>1 DEF Redeemed, HandlersHold, HandlerHolds, RowsFollowCommit, Open, Handling
<1>2. ASSUME NEW i \in Callbacks, Redeemed(i)' PROVE callbacks'[i].login = callbacks[i].login
  BY <1>1, <1>2, RedeemedSteps, LoginStays
<1>3. callbacks[j].login = callbacks[k].login
  BY <1>2
<1>4. CASE Redeemed(j) /\ Redeemed(k)
  BY <1>3, <1>4 DEF RedeemedOnce
<1>5. CASE ~Redeemed(j) /\ Redeemed(k)
  BY <1>1, <1>3, <1>5, RedeemedSteps
<1>6. CASE Redeemed(j) /\ ~Redeemed(k)
  BY <1>1, <1>3, <1>6, RedeemedSteps
<1>7. CASE ~Redeemed(j) /\ ~Redeemed(k)
  <2>1. Exchange(j) /\ callbacks[k].phase = "exchange" /\ callbacks'[k].phase = "profile"
    BY <1>7, RedeemedSteps
  <2>2. j # k => callbacks'[k] = callbacks[k]
    BY <1>0, <2>1 DEF Exchange, Answer, Proceed
  <2>3. QED
    BY <2>1, <2>2
<1>8. QED
  BY <1>4, <1>5, <1>6, <1>7

\* How many sessions a login has yielded, and whose.
Yield ==
    \A l \in Logins :
        /\ Cardinality(Made(l)) = IF Made(l) = {} THEN 0 ELSE 1
        /\ Holder(l) = IF Made(l) = {} THEN Nothing ELSE logins[l].account
        /\ Made(l) # {} => logins[l].account \in Accounts

LEMMA OneSession ==
  ASSUME TypeInv, RedeemedOnce, NEW k \in Callbacks, sessions[k].status # "none"
  PROVE  callbacks[k].login \in Logins /\ Made(callbacks[k].login) = {k}
<1>1. callbacks[k].login \in Logins
  BY DEF TypeInv, RowsFollowCommit, Open, HandlersHold, HandlerHolds
<1>2. QED
  BY <1>1 DEF Made, RedeemedOnce, Redeemed

LEMMA YieldHolds == TypeInv /\ RedeemedOnce => Yield
<1> SUFFICES ASSUME TypeInv, RedeemedOnce, NEW l \in Logins
             PROVE  /\ Cardinality(Made(l)) = IF Made(l) = {} THEN 0 ELSE 1
                    /\ Holder(l) = IF Made(l) = {} THEN Nothing ELSE logins[l].account
                    /\ Made(l) # {} => logins[l].account \in Accounts
  BY DEF Yield
<1>1. CASE Made(l) = {}
  BY <1>1, FS_EmptySet DEF Holder
<1>2. CASE Made(l) # {}
  <2>1. PICK k \in Made(l) : TRUE
    BY <1>2
  <2>2. k \in Callbacks /\ callbacks[k].login = l /\ sessions[k].status # "none"
    BY <2>1 DEF Made
  <2>3. Made(l) = {k}
    BY <2>2, OneSession
  <2>4. Cardinality(Made(l)) = 1
    BY <2>3, FS_Singleton
  <2>5. (CHOOSE j \in Made(l) : TRUE) = k
    BY <2>3
  <2>6. /\ users[sessions[k].user].account = logins[l].account
        /\ logins[l].stage = "redeemed"
    BY <2>2 DEF TypeInv, RowsFollowCommit, Account
  <2>7. logins[l].account \in Accounts
    BY <2>6 DEF TypeInv, LoginsDecided
  <2>8. Holder(l) = logins[l].account
    BY <1>2, <2>5, <2>6 DEF Holder
  <2>9. QED
    BY <1>2, <2>4, <2>7, <2>8
<1>3. QED
  BY <1>1, <1>2

\* An account comes to a login by its approval, once.
LEMMA ApproverMoves ==
  ASSUME TypeInv, [Next]_vars
  PROVE  \/ \A l \in Logins : logins'[l].account = logins[l].account
         \/ \E l \in Logins, a \in Accounts :
              /\ logins[l].account = Nothing
              /\ logins'[l].account = a
              /\ \A m \in Logins : m # l => logins'[m] = logins[m]
              /\ UNCHANGED database
<1>0. logins \in [Logins -> Login] /\ LoginsDecided /\ TabsPlaced
  BY DEF TypeInv, TypeOK
<1>1. ASSUME NEW k \in Callbacks, Exchange(k)
      PROVE  \A l \in Logins : logins'[l].account = logins[l].account
  <2>1. UNCHANGED logins \/ logins' = [logins EXCEPT ![callbacks[k].login].stage = "redeemed"]
    BY <1>1 DEF Exchange
  <2>2. QED
    BY <1>0, <2>1 DEF Login
<1>2. ASSUME NEW t \in Tabs, NEW m \in Logins, StartLogin(t, m)
      PROVE  \A l \in Logins : logins'[l].account = logins[l].account
  BY <1>0, <1>2 DEF StartLogin, Login
<1>3. ASSUME NEW t \in Tabs, NEW stage, NEW a, Decide(t, stage, a)
      PROVE  \E l \in Logins :
               /\ logins[l].account = Nothing
               /\ logins'[l].account = a
               /\ \A m \in Logins : m # l => logins'[m] = logins[m]
               /\ UNCHANGED database
  <2>1. PICK l \in Logins : l = tabs[t].at
    BY <1>0, <1>3 DEF Decide, TabsPlaced
  <2>2. /\ logins[l].stage = "asked" /\ UNCHANGED database
        /\ logins' = [logins EXCEPT ![l] = [stage |-> stage, account |-> a]]
    BY <1>3, <2>1 DEF Decide
  <2>3. logins[l].account = Nothing
    BY <1>0, <2>2 DEF LoginsDecided
  <2>4. logins'[l].account = a /\ \A m \in Logins : m # l => logins'[m] = logins[m]
    BY <1>0, <2>2
  <2>5. QED
    BY <2>2, <2>3, <2>4
<1>4. ASSUME NEW t \in Tabs, Cancel(t)
      PROVE  \A l \in Logins : logins'[l].account = logins[l].account
  BY <1>3, <1>4 DEF Cancel
<1>5. ASSUME NEW t \in Tabs, NEW a \in Accounts, Approve(t, a)
      PROVE  \E l \in Logins :
               /\ logins[l].account = Nothing
               /\ logins'[l].account = a
               /\ \A m \in Logins : m # l => logins'[m] = logins[m]
               /\ UNCHANGED database
  BY <1>3, <1>5 DEF Approve
<1>6. QED
  BY <1>1, <1>2, <1>4, <1>5, LoginWritten

ValidLogins == {l \in Logins : \E k \in Made(l) : Valid(k)}

\* A session that is there stays the session of its login.
LEMMA MadeMoves ==
  ASSUME TypeInv, [Next]_vars, NEW l \in Logins, NEW k \in Callbacks, sessions[k].status # "none"
  PROVE  sessions'[k].status # "none" /\ (k \in Made(l)' <=> k \in Made(l))
<1>1. callbacks[k].phase # "unsent"
  BY DEF TypeInv, RowsFollowCommit, Open
<1>2. callbacks'[k].login = callbacks[k].login /\ sessions'[k].status # "none"
  BY <1>1, LoginStays, SessionMoves
<1>3. QED
  BY <1>2 DEF Made

\* A step that neither adds nor ends a session.
LEMMA NoSessionMoves ==
  ASSUME TypeInv, [Next]_vars, \A k \in Callbacks : sessions'[k] = sessions[k]
  PROVE  /\ \A l \in Logins : Made(l)' = Made(l)
         /\ ValidLogins' = ValidLogins
<1>1. ASSUME NEW l \in Logins PROVE Made(l)' = Made(l)
  <2>1. ASSUME NEW k \in Callbacks PROVE k \in Made(l)' <=> k \in Made(l)
    <3>1. CASE sessions[k].status # "none"
      BY <3>1, MadeMoves
    <3>2. CASE sessions[k].status = "none"
      BY <3>2 DEF Made
    <3>3. QED
      BY <3>1, <3>2
  <2>2. QED
    BY <2>1 DEF Made
<1>2. \A k \in Callbacks : Valid(k)' <=> Valid(k)
  BY DEF Valid
<1>3. \A l \in Logins : (\E k \in Made(l)' : Valid(k)') <=> (\E k \in Made(l) : Valid(k))
  BY <1>1, <1>2 DEF Made
<1>4. QED
  BY <1>1, <1>3 DEF ValidLogins

\* A commit gives the login of its callback the one session it will ever have.
LEMMA CommitMoves ==
  ASSUME TypeInv, RedeemedOnce, [Next]_vars, NEW k \in Callbacks, Commit(k),
         NEW l \in Logins, callbacks[k].login = l
  PROVE  /\ logins[l].account \in Accounts
         /\ Made(l) = {} /\ Made(l)' # {}
         /\ \A m \in Logins : m # l => Made(m)' = Made(m)
         /\ ValidLogins' = ValidLogins \cup {l}
         /\ UNCHANGED logins
<1>0. /\ Account(k) \in Accounts
      /\ callbacks[k].phase = "commit" /\ sessions[k].status = "none"
      /\ sessions'[k].status = "live"
      /\ callbacks'[k].login = callbacks[k].login
      /\ \A j \in Callbacks : j # k => sessions'[j] = sessions[j] /\ callbacks'[j] = callbacks[j]
      /\ UNCHANGED logins
  BY CommitEffect DEF github
<1>1. Made(l) = {}
  BY <1>0 DEF Made, RedeemedOnce, Redeemed
<1>2. k \in Made(l)'
  BY <1>0 DEF Made
<1>3. \A m \in Logins : m # l => Made(m)' = Made(m)
  BY <1>0 DEF Made
<1>4. Valid(k)' /\ \A j \in Callbacks : j # k => (Valid(j)' <=> Valid(j))
  BY <1>0, Bounds DEF Valid
<1>5. \A m \in Logins : m # l =>
        ((\E j \in Made(m)' : Valid(j)') <=> (\E j \in Made(m) : Valid(j)))
  BY <1>0, <1>3, <1>4 DEF Made
<1>6. ValidLogins' = ValidLogins \cup {l}
  BY <1>0, <1>2, <1>4, <1>5 DEF ValidLogins
<1>7. QED
  BY <1>0, <1>1, <1>2, <1>3, <1>6 DEF Account

\* A session that ends is that of one login.
LEMMA EndMoves ==
  ASSUME TypeInv, RedeemedOnce, [Next]_vars, NEW k \in Callbacks,
         sessions[k].status # "none", sessions'[k].status = "ended",
         UNCHANGED <<logins, users, callbacks>>,
         \A j \in Callbacks : j # k => sessions'[j] = sessions[j]
  PROVE  /\ callbacks[k].login \in Logins
         /\ \A l \in Logins : Made(l)' = Made(l)
         /\ ValidLogins' = ValidLogins \ {callbacks[k].login}
<1>1. callbacks[k].login \in Logins /\ Made(callbacks[k].login) = {k}
  BY OneSession
<1>2. ASSUME NEW l \in Logins PROVE Made(l)' = Made(l)
  BY DEF Made
<1>3. ~Valid(k)' /\ \A j \in Callbacks : j # k => (Valid(j)' <=> Valid(j))
  BY DEF Valid
<1>4. \A l \in Logins : l # callbacks[k].login => k \notin Made(l)
  BY DEF Made
<1>5. \A l \in Logins : l # callbacks[k].login =>
        ((\E j \in Made(l)' : Valid(j)') <=> (\E j \in Made(l) : Valid(j)))
  BY <1>2, <1>3, <1>4 DEF Made
<1>6. ~\E j \in Made(callbacks[k].login)' : Valid(j)'
  BY <1>1, <1>2, <1>3
<1>7. ValidLogins' = ValidLogins \ {callbacks[k].login}
  BY <1>1, <1>5, <1>6 DEF ValidLogins
<1>8. QED
  BY <1>1, <1>2, <1>7

\* The program's view of its logins, as SignIn sees them.
ApproverView == [l \in Logins |-> logins[l].account]
MadeView == [l \in Logins |-> Cardinality(Made(l))]
HolderView == [l \in Logins |-> Holder(l)]

\* What SignIn sees of a step that leaves the sessions alone.
LEMMA SameSessions ==
  ASSUME TypeInv, Yield, Yield', [Next]_vars, \A k \in Callbacks : sessions'[k] = sessions[k]
  PROVE  UNCHANGED <<MadeView, HolderView, ValidLogins>>
<1>1. (\A l \in Logins : Made(l)' = Made(l)) /\ ValidLogins' = ValidLogins
  BY NoSessionMoves
<1>2. \A l \in Logins : Cardinality(Made(l))' = Cardinality(Made(l))
  BY <1>1
<1>3. \A l \in Logins : Made(l) # {} => logins'[l].account = logins[l].account
  BY ApproverMoves, NothingIsNothing DEF Yield
<1>4. \A l \in Logins : Holder(l)' = Holder(l)
  BY <1>1, <1>3 DEF Yield
<1>5. QED
  BY <1>1, <1>2, <1>4 DEF MadeView, HolderView

\* Each step of the program is a step of SignIn, or invisible to it.
LEMMA SignInStep ==
  ASSUME TypeInv, TypeInv', RedeemedOnce, Yield, Yield', [Next]_vars
  PROVE  [Promise!Next]_(Promise!vars)
<1>1. CASE \A k \in Callbacks : sessions'[k] = sessions[k]
  <2>1. UNCHANGED <<MadeView, HolderView, ValidLogins>>
    BY <1>1, SameSessions
  <2>2. CASE \A l \in Logins : logins'[l].account = logins[l].account
    <3>1. UNCHANGED ApproverView
      BY <2>2 DEF ApproverView
    <3>2. QED
      BY <2>1, <3>1 DEF Promise!vars, ApproverView, MadeView, HolderView, ValidLogins
  <2>3. ASSUME NEW l \in Logins, NEW a \in Accounts, logins[l].account = Nothing,
               logins'[l].account = a, \A m \in Logins : m # l => logins'[m] = logins[m]
        PROVE  Promise!Approve(l, a)
    <3>1. ApproverView' = [ApproverView EXCEPT ![l] = a] /\ ApproverView[l] = Nothing
      BY <2>3 DEF ApproverView
    <3>2. QED
      BY <2>1, <3>1 DEF Promise!Approve, ApproverView, MadeView, HolderView, ValidLogins
  <2>4. QED
    BY <2>2, <2>3, ApproverMoves DEF Promise!Next
<1>2. ASSUME NEW k \in Callbacks, Commit(k) PROVE Promise!Next
  <2>1. PICK l \in Logins : callbacks[k].login = l
    BY <1>2, CommitEffect
  <2>2. /\ logins[l].account \in Accounts /\ UNCHANGED logins
        /\ Made(l) = {} /\ Made(l)' # {}
        /\ \A m \in Logins : m # l => Made(m)' = Made(m)
        /\ ValidLogins' = ValidLogins \cup {l}
    BY <1>2, <2>1, CommitMoves
  <2>3. MadeView' = [MadeView EXCEPT ![l] = 1] /\ MadeView[l] = 0
    BY <2>2 DEF MadeView, Yield
  <2>4. HolderView' = [HolderView EXCEPT ![l] = ApproverView[l]]
    BY <2>2 DEF HolderView, ApproverView, Yield
  <2>5. ApproverView' = ApproverView /\ ApproverView[l] # Nothing
    BY <2>2, NothingIsNothing DEF ApproverView
  <2>6. QED
    <3>1. Promise!Grant(l)
      BY <2>2, <2>3, <2>4, <2>5 DEF Promise!Grant, ApproverView, MadeView, HolderView, ValidLogins
    <3>2. QED
      BY <3>1 DEF Promise!Next
<1>3. ASSUME NEW k \in Callbacks, sessions[k].status # "none", sessions'[k].status = "ended",
             UNCHANGED <<logins, users, callbacks>>,
             \A j \in Callbacks : j # k => sessions'[j] = sessions[j]
      PROVE  [Promise!Next]_(Promise!vars)
  <2>1. PICK l \in Logins : l = callbacks[k].login
    BY <1>3, EndMoves
  <2>2. /\ \A m \in Logins : Made(m)' = Made(m)
        /\ ValidLogins' = ValidLogins \ {l}
    BY <1>3, <2>1, EndMoves
  <2>3. UNCHANGED <<ApproverView, MadeView, HolderView>>
    BY <1>3, <2>2 DEF ApproverView, MadeView, HolderView, Yield
  <2>4. CASE l \in ValidLogins
    <3>1. Promise!End(l)
      BY <2>2, <2>3, <2>4 DEF Promise!End, ApproverView, MadeView, HolderView, ValidLogins
    <3>2. QED
      BY <3>1 DEF Promise!Next
  <2>5. CASE l \notin ValidLogins
    <3>1. UNCHANGED ValidLogins
      BY <2>2, <2>5
    <3>2. QED
      BY <2>3, <3>1 DEF Promise!vars, ApproverView, MadeView, HolderView, ValidLogins
  <2>6. QED
    BY <2>4, <2>5
<1>4. \/ \A k \in Callbacks : sessions'[k] = sessions[k]
      \/ \E k \in Callbacks : Commit(k)
      \/ \E k \in Callbacks :
           /\ sessions[k].status # "none" /\ sessions'[k].status = "ended"
           /\ UNCHANGED <<logins, users, callbacks>>
           /\ \A j \in Callbacks : j # k => sessions'[j] = sessions[j]
  BY SessionMoves
<1>5. QED
  BY <1>1, <1>2, <1>3, <1>4

LEMMA SignInInit == Init => Promise!Init
<1> SUFFICES ASSUME Init PROVE Promise!Init
  OBVIOUS
<1>1. \A l \in Logins : Made(l) = {}
  BY DEF Init, Made
<1>2. \A l \in Logins : Cardinality(Made(l)) = 0 /\ Holder(l) = Nothing /\ logins[l].account = Nothing
  BY <1>1, FS_EmptySet DEF Holder, Init
<1>3. QED
  BY <1>1, <1>2 DEF Promise!Init

\* A login yields at most one session, of the account that approved it, and a
\* session that has ended is never valid again: the routes of the login, its
\* transactions, cookies and tabs implement SignIn (services/auth.py:62-108,
\* api/routes/auth.py:33-132).
THEOREM Refinement == Spec => ImplementsSignIn
<1>1. Init => RedeemedOnce
  BY DEF Init, RedeemedOnce, Redeemed, Unhandled
<1>2. Spec => [](TypeInv /\ RedeemedOnce /\ Yield)
  BY <1>1, RedeemedOnceStep, YieldHolds, TypeInvariant, PTL DEF Spec
<1>3. TypeInv /\ RedeemedOnce /\ Yield /\ TypeInv' /\ Yield' /\ [Next]_vars
        => [Promise!Next]_(Promise!vars)
  BY SignInStep
<1>4. QED
  BY <1>2, <1>3, SignInInit, PTL DEF Spec, ImplementsSignIn, Promise!Spec
=============================================================================
