-------------------------------- MODULE Auth --------------------------------
(***************************************************************************)
(* Signing in with GitHub and signing out: the routes under /auth, the     *)
(* tables users and sessions, and one browser whose tabs share the cookies *)
(* session, oauth_state and pkce_verifier.                                 *)
(*                                                                         *)
(* A login is named by the state it generated, which stands for its        *)
(* verifier and, once approved, for its code as well.  A callback is one   *)
(* request to /auth/github/callback: it names the user row it inserts and  *)
(* the session (row and token) it creates.  The steps of a callback are    *)
(* those between its awaits; other requests run in between, and it runs on *)
(* when its tab no longer waits for it.                                    *)
(***************************************************************************)
EXTENDS Naturals, FiniteSets

CONSTANTS Tabs,
          Accounts,      \* of GitHub
          Returning,     \* the account that has signed in before
          Names,         \* the login names of accounts, which GitHub reassigns
          Nothing,
          MaxLogins,     \* bound: logins started
          MaxCallbacks,  \* bound: callbacks sent
          MaxRenames     \* bound: how often the names change

ASSUME AuthAssumption ==
    /\ Returning \in Accounts
    /\ MaxLogins \in Nat \ {0}
    /\ MaxCallbacks \in Nat \ {0}
    /\ MaxRenames \in Nat

Logins == 1 .. MaxLogins
Callbacks == 1 .. MaxCallbacks

\* The row 0 is there at first.
UserIds == 0 .. MaxCallbacks

VARIABLES names, renames,  \* GitHub: the name of each account; renames so far
          logins,          \* GitHub: what has become of each login
          users, sessions, \* the tables
          callbacks,       \* the requests to /auth/github/callback
          cookies,         \* the browser's
          tabs             \* the page each tab is on

github == <<names, renames, logins>>
database == <<users, sessions>>
vars == <<github, database, callbacks, cookies, tabs>>

\* The places of a callback inside its handler, and the answers it ends with:
\* 302 to the front page, 400, 200 "cancelled", 5xx.
Handling == {"exchange", "profile", "select", "flush", "commit"}
Answers == {"signed-in", "refused", "cancelled", "failed"}

User == [account : Accounts, login : Names]

\* NULL, an unset cookie, no row.
ASSUME NothingIsNothing ==
    Nothing \notin Accounts /\ Nothing \notin UserIds /\ Nothing \notin Logins /\ Nothing \notin User

\* "ended": the row is deleted or past its expires_at, which nobody can tell apart.
Session == [user : UserIds \cup {Nothing},
            status : {"none", "live", "ended"}]

Login == [stage : {"unused", "asked", "cancelled", "approved", "redeemed"},
          account : Accounts \cup {Nothing}]

Callback == [phase : {"unsent", "done"} \cup Handling \cup Answers,
             login : Logins \cup {Nothing},     \* the state and code of its query
             verifier : Logins \cup {Nothing},  \* the cookie it carried
             name : Names \cup {Nothing},       \* of the profile it read
             user : UserIds \cup {Nothing},     \* the row it found or inserts
             change : {"none", "insert", "update"}]

Cookies == [session : Callbacks \cup {Nothing},
            state : Logins \cup {Nothing},
            verifier : Logins \cup {Nothing}]

\* "signing-out": the POST is on its way; "signed-out": its answer is.
Tab == [page : {"loading", "landing", "dashboard", "github", "callback", "detail",
                "signing-out", "signed-out"},
        at : Logins \cup Callbacks \cup {Nothing}]

TypeOK ==
    /\ names \in [Accounts -> Names]
    /\ renames \in 0 .. MaxRenames
    /\ logins \in [Logins -> Login]
    /\ users \in [UserIds -> User \cup {Nothing}]
    /\ sessions \in [Callbacks -> Session]
    /\ callbacks \in [Callbacks -> Callback]
    /\ cookies \in Cookies
    /\ tabs \in [Tabs -> Tab]
    /\ \A k \in Callbacks : sessions[k].status # "none" => users[sessions[k].user] \in User

Unhandled == [phase |-> "unsent", login |-> Nothing, verifier |-> Nothing,
              name |-> Nothing, user |-> Nothing, change |-> "none"]

Query(phase, l) == [Unhandled EXCEPT !.phase = phase, !.login = l]

Distinct(f) == \A a, b \in Accounts : f[a] = f[b] => a = b

\* GitHub has a name for every account.
ASSUME NamesAssumption == \E f \in [Accounts -> Names] : Distinct(f)

Init ==
    /\ names = CHOOSE f \in [Accounts -> Names] : Distinct(f)
    /\ renames = 0
    /\ logins = [l \in Logins |-> [stage |-> "unused", account |-> Nothing]]
    /\ users = [u \in UserIds |->
           IF u = 0 THEN [account |-> Returning, login |-> names[Returning]] ELSE Nothing]
    /\ sessions = [k \in Callbacks |-> [user |-> Nothing, status |-> "none"]]
    /\ callbacks = [k \in Callbacks |-> Unhandled]
    /\ cookies = [session |-> Nothing, state |-> Nothing, verifier |-> Nothing]
    /\ tabs = [t \in Tabs |-> [page |-> "loading", at |-> Nothing]]

GoTo(t, page, at) == tabs' = [tabs EXCEPT ![t] = [page |-> page, at |-> at]]

-----------------------------------------------------------------------------
(* The application shell: useAuth, App, LandingPage. *)

Waiting(t) == tabs[t].page \in {"loading", "callback", "signing-out", "signed-out"}

\* "/" is opened or reloaded, on any page that awaits nothing; GET /auth/me carries the
\* session cookie.
Load(t) ==
    /\ ~Waiting(t)
    /\ GoTo(t, "loading", cookies.session)
    /\ UNCHANGED <<github, database, callbacks, cookies>>

Valid(k) == k # Nothing /\ sessions[k].status = "live"

\* Mutant: a refused or failed /auth/me is not caught, and loading stays true.
ShowMeUncaught(t) ==
    /\ tabs[t].page = "loading"
    /\ Valid(tabs[t].at)
    /\ GoTo(t, "dashboard", Nothing)
    /\ UNCHANGED <<github, database, callbacks, cookies>>

\* /auth/me answers: with the user, or with 401, or it fails; in one step with
\* the page shown, as neither changes what others see.
ShowMe(t) ==
    /\ tabs[t].page = "loading"
    /\ \/ Valid(tabs[t].at) /\ GoTo(t, "dashboard", Nothing)
       \/ GoTo(t, "landing", Nothing)
    /\ UNCHANGED <<github, database, callbacks, cookies>>

-----------------------------------------------------------------------------
(* GET /auth/github/login, and GitHub's consent page. *)

\* Mutant: the verifier's cookie is set only when there is none yet.
StartLoginKeepsVerifier(t, l) ==
    /\ tabs[t].page = "landing"
    /\ logins[l].stage = "unused"
    /\ \A m \in Logins : m < l => logins[m].stage # "unused"
    /\ logins' = [logins EXCEPT ![l].stage = "asked"]
    /\ cookies' = [cookies EXCEPT !.state = l,
                                  !.verifier = IF @ = Nothing THEN l ELSE @]
    /\ GoTo(t, "github", l)
    /\ UNCHANGED <<names, renames, database, callbacks>>

\* The link of the landing page; the answer sets both cookies and redirects.
StartLogin(t, l) ==
    /\ tabs[t].page = "landing"
    /\ logins[l].stage = "unused"
    /\ \A m \in Logins : m < l => logins[m].stage # "unused"
    /\ logins' = [logins EXCEPT ![l].stage = "asked"]
    /\ cookies' = [cookies EXCEPT !.state = l, !.verifier = l]
    /\ GoTo(t, "github", l)
    /\ UNCHANGED <<names, renames, database, callbacks>>

\* The callback's request carries the cookies of this moment, and is validated
\* before its first await: the state first, then "denied", then the verifier.
Admitted(l, stage) ==
    IF cookies.state # l THEN "refused"
    ELSE IF stage = "cancelled" THEN "cancelled"
    ELSE IF cookies.verifier = Nothing THEN "refused"
    ELSE "exchange"

SendCallback(t, l, stage) ==
    \E k \in Callbacks :
        /\ callbacks[k].phase = "unsent"
        /\ \A j \in Callbacks : j < k => callbacks[j].phase # "unsent"
        /\ LET c == Query(Admitted(l, stage), l)
           IN  callbacks' = [callbacks EXCEPT ![k] =
                   IF c.phase = "exchange" THEN [c EXCEPT !.verifier = cookies.verifier] ELSE c]
        /\ GoTo(t, "callback", k)

Decide(t, stage, account) ==
    LET l == tabs[t].at
    IN  /\ tabs[t].page = "github"
        /\ logins[l].stage = "asked"
        /\ logins' = [logins EXCEPT ![l] = [stage |-> stage, account |-> account]]
        /\ SendCallback(t, l, stage)
        /\ UNCHANGED <<names, renames, database, cookies>>

Approve(t, a) == Decide(t, "approved", a)

Cancel(t) == Decide(t, "cancelled", Nothing)

\* The JSON page of a callback that failed is reloaded: the same query again.
Reload(t) ==
    LET l == tabs[t].at
    IN  /\ tabs[t].page = "detail"
        /\ SendCallback(t, l, logins[l].stage)
        /\ UNCHANGED <<github, database, cookies>>

\* Accounts take other names, also one that was another's.
Rename ==
    /\ renames < MaxRenames
    /\ names' \in {f \in [Accounts -> Names] : Distinct(f) /\ f # names}
    /\ renames' = renames + 1
    /\ UNCHANGED <<logins, database, callbacks, cookies, tabs>>

-----------------------------------------------------------------------------
(* GET /auth/github/callback: complete_github_login. *)

At(k, phase) == callbacks[k].phase = phase

Account(k) == logins[callbacks[k].login].account

Proceed(k, c) == callbacks' = [callbacks EXCEPT ![k] = c]

Awaited(k) == \E t \in Tabs : tabs[t].page = "callback" /\ tabs[t].at = k

\* What is left of a callback that is answered, to its tab or to nobody.
Answer(k, answer) ==
    Proceed(k, Query(IF Awaited(k) THEN answer ELSE "done", callbacks[k].login))

\* GitHub redeems a code once, and only for the verifier of its challenge.
Exchange(k) ==
    LET l == callbacks[k].login
        accepted == logins[l].stage = "approved" /\ callbacks[k].verifier = l
    IN  /\ At(k, "exchange")
        /\ IF accepted
           THEN /\ Proceed(k, Query("profile", l))
                /\ logins' = [logins EXCEPT ![l].stage = "redeemed"]
           ELSE Answer(k, "failed") /\ UNCHANGED logins
        /\ UNCHANGED <<names, renames, database, cookies, tabs>>

Profile(k) ==
    /\ At(k, "profile")
    /\ Proceed(k, [callbacks[k] EXCEPT !.phase = "select", !.name = names[Account(k)]])
    /\ UNCHANGED <<github, database, cookies, tabs>>

\* Mutant: a user is recognised by the name, which GitHub may reassign.
RowsByName(k) == {u \in UserIds : users[u] # Nothing /\ users[u].login = callbacks[k].name}

\* The rows a login of this account finds: at most one, github_id being unique.
Rows(k) == {u \in UserIds : users[u] # Nothing /\ users[u].account = Account(k)}

Select(k) ==
    LET c == callbacks[k]
        row == CHOOSE u \in Rows(k) : TRUE
    IN  /\ At(k, "select")
        /\ Proceed(k,
             [c EXCEPT !.phase = "flush",
                       !.user = IF Rows(k) = {} THEN k ELSE row,
                       !.change = IF Rows(k) = {} THEN "insert"
                                  ELSE IF users[row].login # c.name THEN "update"
                                  ELSE "none"])
        /\ UNCHANGED <<github, database, cookies, tabs>>

\* Mutant: there is no unique index on github_id.
NeverTaken(k) == FALSE

\* The unique index refuses a second row of an account.
Taken(k) == callbacks[k].change = "insert" /\ Rows(k) # {}

\* A write waits for an open transaction that inserted a row of the same
\* account or updated the same row.
Blocks(j, k) ==
    /\ j # k
    /\ At(j, "commit")
    /\ \/ callbacks[j].change = "insert" /\ callbacks[k].change = "insert" /\ Account(j) = Account(k)
       \/ callbacks[j].change = "update" /\ callbacks[k].change = "update"
          /\ callbacks[j].user = callbacks[k].user

\* The IntegrityError is caught nowhere: the answer is 500.
Flush(k) ==
    /\ At(k, "flush")
    /\ \A j \in Callbacks : ~Blocks(j, k)
    /\ IF Taken(k)
       THEN Answer(k, "failed")
       ELSE Proceed(k, [callbacks[k] EXCEPT !.phase = "commit"])
    /\ UNCHANGED <<github, database, cookies, tabs>>

\* Mutant: the session is inserted but the new user is not flushed with it.
CommitSession(k) ==
    /\ At(k, "commit")
    /\ sessions' = [sessions EXCEPT ![k] = [user |-> callbacks[k].user, status |-> "live"]]
    /\ \E answer \in {"signed-in", "failed"} : Answer(k, answer)
    /\ UNCHANGED <<github, users, cookies, tabs>>

\* User and session become visible together.  The answer is 500 when the
\* refresh after the commit fails: the session is then in no cookie.
Commit(k) ==
    LET c == callbacks[k]
    IN  /\ At(k, "commit")
        /\ users' = IF c.change = "none" THEN users
                    ELSE [users EXCEPT ![c.user] = [account |-> Account(k), login |-> c.name]]
        /\ sessions' = [sessions EXCEPT ![k] = [user |-> c.user, status |-> "live"]]
        /\ \E answer \in {"signed-in", "failed"} : Answer(k, answer)
        /\ UNCHANGED <<github, cookies, tabs>>

\* GitHub or the database fails, at any of the awaits; get_db rolls back.
Fail(k) ==
    /\ callbacks[k].phase \in Handling
    /\ Answer(k, "failed")
    /\ UNCHANGED <<github, database, cookies, tabs>>

\* Mutant: any answer but a 5xx sets the session's cookie anew.
CookiesAfterAnySession(k) ==
    IF At(k, "failed") THEN cookies
    ELSE [session |-> IF At(k, "signed-in") THEN k ELSE Nothing,
          state |-> Nothing, verifier |-> Nothing]

\* Signing in sets the session; it, a refusal and a cancellation delete the two
\* other cookies; the answers of the generic handler touch none.
CookiesAfter(k) ==
    IF At(k, "failed") THEN cookies
    ELSE [session |-> IF At(k, "signed-in") THEN k ELSE cookies.session,
          state |-> Nothing, verifier |-> Nothing]

\* The answer reaches its tab: a redirect to "/", or a page of JSON.
Deliver(t) ==
    LET k == tabs[t].at
    IN  /\ tabs[t].page = "callback"
        /\ callbacks[k].phase \in Answers
        /\ cookies' = CookiesAfter(k)
        /\ IF At(k, "signed-in")
           THEN GoTo(t, "loading", k)
           ELSE GoTo(t, "detail", callbacks[k].login)
        /\ Proceed(k, Query("done", callbacks[k].login))
        /\ UNCHANGED <<github, database>>

\* The connection of a callback is lost, or given up by leaving the page, which
\* its handler does not notice.
LoseCallback(t) ==
    LET c == callbacks[tabs[t].at]
    IN  /\ tabs[t].page = "callback"
        /\ GoTo(t, "detail", c.login)
        /\ Proceed(tabs[t].at, IF c.phase \in Answers THEN Query("done", c.login) ELSE c)
        /\ UNCHANGED <<github, database, cookies>>

-----------------------------------------------------------------------------
(* Signing out, and what ends by itself. *)

SignOut(t) ==
    /\ tabs[t].page = "dashboard"
    /\ GoTo(t, "signing-out", cookies.session)
    /\ UNCHANGED <<github, database, callbacks, cookies>>

\* Mutant: signing out only clears the cookie.
Forget(k) == UNCHANGED sessions

\* delete_session: of any row there is, whether or not it has expired.
DeleteSession(k) ==
    sessions' = IF k = Nothing THEN sessions ELSE [sessions EXCEPT ![k].status = "ended"]

ServeSignOut(t) ==
    /\ tabs[t].page = "signing-out"
    /\ DeleteSession(tabs[t].at)
    /\ GoTo(t, "signed-out", tabs[t].at)
    /\ UNCHANGED <<github, users, callbacks, cookies>>

\* The answer deletes the cookie, whatever session it names by now.
EndSignOut(t) ==
    /\ tabs[t].page = "signed-out"
    /\ cookies' = [cookies EXCEPT !.session = Nothing]
    /\ GoTo(t, "landing", tabs[t].at)
    /\ UNCHANGED <<github, database, callbacks>>

\* The request or its answer is lost, or it fails: the landing page as well.
LoseSignOut(t) ==
    /\ tabs[t].page \in {"signing-out", "signed-out"}
    /\ GoTo(t, "landing", Nothing)
    /\ UNCHANGED <<github, database, callbacks, cookies>>

ExpireSession(k) ==
    /\ sessions[k].status = "live"
    /\ sessions' = [sessions EXCEPT ![k].status = "ended"]
    /\ UNCHANGED <<github, users, callbacks, cookies, tabs>>

\* A session's cookie is set after its row and for the same time: it outlives it.
ExpireSessionCookie ==
    /\ cookies.session # Nothing
    /\ sessions[cookies.session].status = "ended"
    /\ cookies' = [cookies EXCEPT !.session = Nothing]
    /\ UNCHANGED <<github, database, callbacks, tabs>>

ExpireLoginCookies ==
    /\ <<cookies.state, cookies.verifier>> # <<Nothing, Nothing>>
    /\ cookies' = [cookies EXCEPT !.state = Nothing, !.verifier = Nothing]
    /\ UNCHANGED <<github, database, callbacks, tabs>>

-----------------------------------------------------------------------------
Handle(k) == Exchange(k) \/ Profile(k) \/ Select(k) \/ Flush(k) \/ Commit(k)

\* What a tab shows next once the answer it waits for is there or lost.
Settle(t) ==
    \/ ShowMe(t)
    \/ Deliver(t)
    \/ ServeSignOut(t)
    \/ EndSignOut(t)
    \/ LoseSignOut(t)

Next ==
    \/ \E t \in Tabs : \/ Load(t)
                      \/ \E l \in Logins : StartLogin(t, l)
                      \/ \E a \in Accounts : Approve(t, a)
                      \/ Cancel(t)
                      \/ Reload(t)
                      \/ LoseCallback(t)
                      \/ SignOut(t)
                      \/ Settle(t)
    \/ \E k \in Callbacks : Handle(k) \/ Fail(k) \/ ExpireSession(k)
    \/ Rename
    \/ ExpireSessionCookie
    \/ ExpireLoginCookies

Spec == Init /\ [][Next]_vars

\* Every await of a handler ends (httpx has timeouts, the database answers) and
\* the browser shows what it is answered; nobody has to click.
Fairness ==
    /\ \A k \in Callbacks : WF_vars(Handle(k))
    /\ \A t \in Tabs : WF_vars(Settle(t))

FairSpec == Spec /\ Fairness

-----------------------------------------------------------------------------
(* Properties *)

\* However its logins overlap, an account has one row of users, to which all
\* its sessions belong (services/auth.py:74-81 and the unique index).
OneUserPerAccount ==
    \A u, v \in UserIds :
        users[u] # Nothing /\ users[v] # Nothing /\ users[u].account = users[v].account => u = v

\* The two cookies of a login are set and deleted by five different answers of
\* several tabs, yet always belong to one login, so that no callback that
\* passes the check of its state is refused by GitHub for its verifier
\* (routes/auth.py:46-63, 73-117, errors.py:88-94).
CookiesPaired ==
    /\ cookies.state = cookies.verifier
    /\ \A k \in Callbacks : At(k, "exchange") => callbacks[k].verifier = callbacks[k].login

\* A tab whose sign-out was answered leaves no session behind that a later
\* request with the old token could use, whatever other tabs were doing with
\* the same session meanwhile (services/auth.py:104-108).
SignedOutStaysOut ==
    \A t \in Tabs : tabs[t].page = "landing" => ~Valid(tabs[t].at)

\* A login that is refused, cancelled or fails leaves the session's cookie as it
\* was, through each of the three handlers that answer it
\* (routes/auth.py:73-117, errors.py:80-94).
FailedLoginKeepsSession ==
    [][(\E t \in Tabs : tabs[t].page = "callback" /\ tabs'[t].page = "detail")
         => cookies'.session = cookies.session]_vars

\* No tab is left with a spinner: also when /auth/me, a callback or a sign-out
\* fails (useAuth.ts:20-31, DashboardPage.tsx:41-51).
TabsSettle == \A t \in Tabs : Waiting(t) ~> ~Waiting(t)

\* The sessions made by the callbacks of login l.
Made(l) == {k \in Callbacks : callbacks[k].login = l /\ sessions[k].status # "none"}

Holder(l) ==
    IF Made(l) = {} THEN Nothing ELSE users[sessions[CHOOSE k \in Made(l) : TRUE].user].account

Promise == INSTANCE SignIn WITH
    approver <- [l \in Logins |-> logins[l].account],
    made <- [l \in Logins |-> Cardinality(Made(l))],
    holder <- [l \in Logins |-> Holder(l)],
    valid <- {l \in Logins : \E k \in Made(l) : Valid(k)}

\* A code that is sent twice, logins that overlap and names that change hands
\* notwithstanding, a login yields at most one session, of the account that
\* approved it, and no session is valid again once it has ended
\* (services/auth.py:62-108).
ImplementsSignIn == Promise!Spec
=============================================================================
