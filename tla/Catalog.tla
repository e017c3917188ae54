------------------------------ MODULE Catalog ------------------------------
(***************************************************************************)
(* The global catalog of repositories and who tracks what:                 *)
(* POST and DELETE /me/repositories (app/services/repositories.py) over    *)
(* the tables repositories and user_repositories.                          *)
(*                                                                         *)
(* A tracking request runs in one database transaction at READ COMMITTED,  *)
(* opened by its first SELECT and ended by its commit or by a rollback.    *)
(* Every statement is one step.  A row that a transaction has flushed and  *)
(* not committed is invisible to the others, but their INSERT of a row     *)
(* with the same unique key waits for it.                                  *)
(*                                                                         *)
(* The id of a row is that of the request that inserts it: ids come from a *)
(* sequence, and a request inserts at most one row.  GitHub's canonical    *)
(* spelling of a name and the one submitted are not told apart.            *)
(***************************************************************************)
EXTENDS Naturals, FiniteSets

CONSTANTS
    Users,
    Requests,    \* POST and DELETE requests, and the ids of the rows they insert
    GithubIds,   \* GitHub's numeric repository ids
    Names,       \* owner/name, the submitted and the canonical one
    Nothing,     \* no GitHub repository, no row
    MaxRenames,  \* bound: repositories created or renamed on GitHub
    DbMayFail    \* whether database statements may fail

ASSUME NothingIsNothing == Nothing \notin GithubIds \cup Requests
ASSUME CatalogBounds    == MaxRenames \in Nat /\ DbMayFail \in BOOLEAN

VARIABLES
    github,    \* what GitHub serves under each name
    renames,   \* creations and renames on GitHub so far
    catalog,   \* committed rows of repositories
    tracking,  \* committed rows of user_repositories
    request    \* the handler of each request

vars == <<github, renames, catalog, tracking, request>>

Row == [id: Requests, github_id: GithubIds, full_name: Names]

Phases == {"idle", "fetch", "select", "flush", "recover", "check", "insert",
           "refresh", "find", "delete", "done"}
Answers == {"none", "201", "204", "404", "409", "500", "502"}

\* `github_id` is what GitHub answered, `row` the repository at hand, `pending`
\* whether this transaction has flushed that row, `loaded` whether the
\* attributes of the User object are loaded (a rollback expires them).
Handler == [phase: Phases, user: Users \cup {Nothing}, full_name: Names \cup {Nothing},
            github_id: GithubIds \cup {Nothing}, row: Requests \cup {Nothing},
            pending: BOOLEAN, loaded: BOOLEAN, answer: Answers]

NewHandler == [phase |-> "idle", user |-> Nothing, full_name |-> Nothing,
               github_id |-> Nothing, row |-> Nothing, pending |-> FALSE,
               loaded |-> TRUE, answer |-> "none"]

Init ==
    /\ github \in {g \in [Names -> GithubIds \cup {Nothing}] :
                     \A m, n \in Names : g[m] = g[n] /\ m # n => g[m] = Nothing}
    /\ renames = 0
    /\ catalog = {}
    /\ tracking = {}
    /\ request = [q \in Requests |-> NewHandler]

Goto(q, phase) == request' = [request EXCEPT ![q].phase = phase]

\* The answer ends the request: an open transaction is rolled back, and the
\* locals of the handler are gone.
Answer(q, code) ==
    request' = [request EXCEPT ![q] = [NewHandler EXCEPT !.phase = "done", !.answer = code]]

\* The row request q would insert, or has flushed.
NewRow(q) == [id |-> q, github_id |-> request[q].github_id,
              full_name |-> request[q].full_name]

\* The two unique constraints of repositories.
Clash(r, s) == r.github_id = s.github_id \/ r.full_name = s.full_name

Tracked(q) == <<request[q].user, request[q].row>> \in tracking

-----------------------------------------------------------------------------
(* POST /me/repositories *)

SubmitTrack(q) ==
    /\ request[q].phase = "idle"
    /\ \E u \in Users, n \in Names :
        request' = [request EXCEPT ![q].phase = "fetch", ![q].user = u, ![q].full_name = n]
    /\ UNCHANGED <<github, renames, catalog, tracking>>

Fetch(q) ==
    /\ request[q].phase = "fetch"
    /\ LET g == github[request[q].full_name] IN
        IF g = Nothing THEN Answer(q, "404")
        ELSE request' = [request EXCEPT ![q].phase = "select", ![q].github_id = g]
    /\ UNCHANGED <<github, renames, catalog, tracking>>

FetchFails(q) ==
    /\ request[q].phase = "fetch"
    /\ Answer(q, "502")
    /\ UNCHANGED <<github, renames, catalog, tracking>>

\* Mutant: GitHub's id of the repository is taken for the id of its row.
SelectGithubId(q) ==
    /\ request[q].phase = "select"
    /\ LET found == {r \in catalog : r.github_id = request[q].github_id} IN
        IF found = {} THEN Goto(q, "flush")
        ELSE \E r \in found :
                request' = [request EXCEPT ![q].phase = "check", ![q].row = r.github_id]
    /\ UNCHANGED <<github, renames, catalog, tracking>>

\* Mutant: the row is looked up by its name, which may be another's by now.
SelectByName(q) ==
    /\ request[q].phase = "select"
    /\ LET found == {r \in catalog : r.full_name = request[q].full_name} IN
        IF found = {} THEN Goto(q, "flush")
        ELSE \E r \in found :
                request' = [request EXCEPT ![q].phase = "check", ![q].row = r.id]
    /\ UNCHANGED <<github, renames, catalog, tracking>>

Select(q) ==
    /\ request[q].phase = "select"
    /\ LET found == {r \in catalog : r.github_id = request[q].github_id} IN
        IF found = {} THEN Goto(q, "flush")
        ELSE \E r \in found :
                request' = [request EXCEPT ![q].phase = "check", ![q].row = r.id]
    /\ UNCHANGED <<github, renames, catalog, tracking>>

\* Mutant: the name is not unique.
FlushByGithubId(q) ==
    /\ request[q].phase = "flush"
    /\ \A p \in Requests : request[p].pending =>
            request[p].github_id # request[q].github_id
    /\ IF \E r \in catalog : r.github_id = request[q].github_id
       THEN request' = [request EXCEPT ![q].phase = "recover", ![q].loaded = FALSE]
       ELSE request' = [request EXCEPT ![q].phase = "check", ![q].row = q,
                                       ![q].pending = TRUE]
    /\ UNCHANGED <<github, renames, catalog, tracking>>

\* Mutant: the new row is committed at once.
FlushCommits(q) ==
    /\ request[q].phase = "flush"
    /\ IF \E r \in catalog : Clash(r, NewRow(q))
       THEN /\ request' = [request EXCEPT ![q].phase = "recover", ![q].loaded = FALSE]
            /\ UNCHANGED catalog
       ELSE /\ request' = [request EXCEPT ![q].phase = "check", ![q].row = q]
            /\ catalog' = catalog \cup {NewRow(q)}
    /\ UNCHANGED <<github, renames, tracking>>

\* The INSERT waits for every open transaction that holds one of its keys.  A
\* committed row that clashes is an IntegrityError: the transaction is rolled
\* back, which expires every object of the session, the User among them.
Flush(q) ==
    /\ request[q].phase = "flush"
    /\ \A p \in Requests : request[p].pending => ~Clash(NewRow(p), NewRow(q))
    /\ IF \E r \in catalog : Clash(r, NewRow(q))
       THEN request' = [request EXCEPT ![q].phase = "recover", ![q].loaded = FALSE]
       ELSE request' = [request EXCEPT ![q].phase = "check", ![q].row = q,
                                       ![q].pending = TRUE]
    /\ UNCHANGED <<github, renames, catalog, tracking>>

\* Mutant: the insert is tried again instead.
RecoverRetries(q) ==
    /\ request[q].phase = "recover"
    /\ Goto(q, "flush")
    /\ UNCHANGED <<github, renames, catalog, tracking>>

\* Whichever committed row has the id or the name; the SELECT has no ORDER BY.
Recover(q) ==
    /\ request[q].phase = "recover"
    /\ LET found == {r \in catalog : Clash(r, NewRow(q))} IN
        IF found = {} THEN Answer(q, "500")
        ELSE \E r \in found :
                request' = [request EXCEPT ![q].phase = "check", ![q].row = r.id]
    /\ UNCHANGED <<github, renames, catalog, tracking>>

\* Mutant: the question is asked of every user.
CheckAnyUser(q) ==
    /\ request[q].phase = "check"
    /\ IF \E u \in Users : <<u, request[q].row>> \in tracking
       THEN Answer(q, "409") ELSE Goto(q, "insert")
    /\ UNCHANGED <<github, renames, catalog, tracking>>

\* user.id is read to build the SELECT.  On an expired object that is an
\* implicit query outside of any await, which SQLAlchemy's asyncio extension
\* refuses with MissingGreenlet; no handler is registered for it.
Check(q) ==
    /\ request[q].phase = "check"
    /\ \/ ~request[q].loaded /\ Answer(q, "500")
       \/ request[q].loaded /\ Tracked(q) /\ Answer(q, "409")
       \/ request[q].loaded /\ ~Tracked(q) /\ Goto(q, "insert")
    /\ UNCHANGED <<github, renames, catalog, tracking>>

\* The INSERT of the tracking row and the COMMIT of both rows, before which
\* nobody else sees either.  The primary key of user_repositories rejects the
\* second of two concurrent requests.
Insert(q) ==
    /\ request[q].phase = "insert"
    /\ IF Tracked(q)
       THEN Answer(q, "409") /\ UNCHANGED <<catalog, tracking>>
       ELSE /\ catalog' = IF request[q].pending THEN catalog \cup {NewRow(q)} ELSE catalog
            /\ tracking' = tracking \cup {<<request[q].user, request[q].row>>}
            /\ request' = [request EXCEPT ![q].phase = "refresh", ![q].pending = FALSE]
    /\ UNCHANGED <<github, renames>>

\* The row is read again, in a transaction of its own, for the answer.
Refresh(q) ==
    /\ request[q].phase = "refresh"
    /\ Answer(q, "201")
    /\ UNCHANGED <<github, renames, catalog, tracking>>

\* Any statement may fail: get_db rolls back the transaction that is open, and
\* the answer is 500.  After the COMMIT, at the refresh, both rows stay.
DbFails(q) ==
    /\ DbMayFail
    /\ request[q].phase \in {"select", "flush", "recover", "check", "insert", "refresh",
                            "find", "delete"}
    /\ Answer(q, "500")
    /\ UNCHANGED <<github, renames, catalog, tracking>>

-----------------------------------------------------------------------------
(* DELETE /me/repositories/{id} *)

SubmitUntrack(q) ==
    /\ request[q].phase = "idle"
    /\ \E u \in Users, r \in catalog :
        request' = [request EXCEPT ![q].phase = "find", ![q].user = u, ![q].row = r.id]
    /\ UNCHANGED <<github, renames, catalog, tracking>>

FindTracking(q) ==
    /\ request[q].phase = "find"
    /\ IF Tracked(q) THEN Goto(q, "delete") ELSE Answer(q, "204")
    /\ UNCHANGED <<github, renames, catalog, tracking>>

\* Deleting a row that a concurrent request has deleted is no error.
DeleteTracking(q) ==
    /\ request[q].phase = "delete"
    /\ tracking' = tracking \ {<<request[q].user, request[q].row>>}
    /\ Answer(q, "204")
    /\ UNCHANGED <<github, renames, catalog>>

-----------------------------------------------------------------------------

HandlerStep(q) ==
    \/ Fetch(q) \/ FetchFails(q) \/ Select(q) \/ Flush(q) \/ Recover(q)
    \/ Check(q) \/ Insert(q) \/ Refresh(q)
    \/ FindTracking(q) \/ DeleteTracking(q) \/ DbFails(q)

\* A repository appears under a name, new or moved from another one; the one
\* that had the name, if any, is no longer served under it.
Rename(g, n) ==
    /\ renames < MaxRenames
    /\ github[n] # g
    /\ github' = [m \in Names |-> IF m = n THEN g
                                  ELSE IF github[m] = g THEN Nothing ELSE github[m]]
    /\ renames' = renames + 1
    /\ UNCHANGED <<catalog, tracking, request>>

Next ==
    \/ \E q \in Requests : SubmitTrack(q) \/ SubmitUntrack(q) \/ HandlerStep(q)
    \/ \E g \in GithubIds, n \in Names : Rename(g, n)

Spec == Init /\ [][Next]_vars

\* The event loop drives every admitted handler, and PostgreSQL wakes a waiting
\* INSERT when the transaction it waits for has ended.
Fairness == \A q \in Requests : WF_vars(HandlerStep(q))

FairSpec == Spec /\ Fairness

-----------------------------------------------------------------------------
(* Properties *)

TypeOK ==
    /\ github \in [Names -> GithubIds \cup {Nothing}]
    /\ renames \in 0 .. MaxRenames
    /\ catalog \subseteq Row
    /\ tracking \subseteq Users \X Requests
    /\ request \in [Requests -> Handler]

\* The catalog is deduplicated: no two rows share a GitHub id or a name, and no
\* open transaction is about to commit a second one, however requests for the
\* same or for a renamed repository overlap.
CatalogIsKeyed ==
    LET rows == catalog \cup {NewRow(q) : q \in {p \in Requests : request[p].pending}}
    IN  \A r, s \in rows : Clash(r, s) => r = s

\* A request tracks, for its own user, the GitHub repository that the submitted
\* name stood for when it was fetched; or, as resolve_repository's docstring
\* admits, a row that merely has the name, but only when no row has the id.
TracksWhatWasAsked ==
    [][\A q \in Requests, x \in tracking' \ tracking : request'[q] # request[q] =>
        \E r \in catalog' :
            /\ x = <<request[q].user, r.id>>
            /\ \/ r.github_id = request[q].github_id
               \/ /\ r.full_name = request[q].full_name
                  /\ \A s \in catalog : s.github_id # request[q].github_id]_vars

\* A catalog row is committed only together with the tracking row of the
\* request that inserted it: whatever is refused or fails before the COMMIT
\* leaves no row behind that nobody tracks.
RowsComeTracked ==
    [][\A r \in catalog' \ catalog : <<request[r.id].user, r.id>> \in tracking']_vars

\* A 409 is answered only to a user who tracks that very repository: somebody
\* else's tracking row is never a conflict.
ConflictIsOwn ==
    [][\A q \in Requests : request[q].answer # "409" /\ request'[q].answer = "409" =>
        \E r \in catalog : /\ r.github_id = request[q].github_id
                           /\ <<request[q].user, r.id>> \in tracking]_vars

\* Transactions never wait for one another in a circle, and every request is
\* answered.
RequestsEnd == \A q \in Requests : request[q].phase \notin {"idle", "done"} ~> request[q].phase = "done"

\* Losing the race to create a repository's row is transparent: as long as the
\* database works, no request is answered 500.
RaceIsTransparent == \A q \in Requests : request[q].answer # "500"
=============================================================================
