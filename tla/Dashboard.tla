----------------------------- MODULE Dashboard ------------------------------
(***************************************************************************)
(* DashboardPage with its list of tracked repositories, the form that      *)
(* tracks one and the buttons that untrack one, and the server's routes    *)
(* under /me/repositories.                                                 *)
(*                                                                         *)
(* The server keeps a log of the sets of repositories this user tracked; a *)
(* revision is a place in it.  A request is served in one step and its     *)
(* answer reaches the tab in another, in no particular order.  A dashboard *)
(* that was left runs its continuations on; a return mounts a new one.     *)
(***************************************************************************)
EXTENDS Naturals, Sequences

CONSTANTS Repos,
          Initially,    \* those the user tracks at first
          Nothing,
          MaxMounts,    \* bound: dashboards mounted
          MaxWrites,    \* bound: requests that track or untrack
          MaxElsewhere  \* bound: changes made by other tabs of the user

ASSUME DashboardAssumption ==
    /\ Initially \subseteq Repos
    /\ MaxMounts \in Nat \ {0}
    /\ MaxWrites \in Nat
    /\ MaxElsewhere \in Nat
    /\ Nothing \notin Nat

VARIABLES log,        \* server: the sets of repositories tracked so far
          elsewhere,  \* the changes made by other tabs so far
          board,      \* the dashboard and what it shows
          writes,     \* POST and DELETE under /me/repositories
          lists       \* GET /me/repositories

vars == <<log, elsewhere, board, writes, lists>>

Mounts == 1 .. MaxMounts
WriteIds == 1 .. MaxWrites

\* A mount sends one and so does every successful write, in the order of their numbers.
ListIds == 1 .. MaxMounts + MaxWrites
Revisions == 1 .. MaxWrites + MaxElsewhere + 1

Board == [mount : Mounts,
          open : BOOLEAN,
          list : Revisions \cup {Nothing},  \* the revision it shows
          from : ListIds \cup {Nothing},    \* the request that brought it
          error : BOOLEAN,                  \* the message above the list
          submitting : BOOLEAN,             \* of the form
          confirming : SUBSET Repos,        \* the rows that ask "Stop tracking?"
          done : Revisions]                 \* the last change it was told of

Write == [kind : {"track", "untrack"},
          repo : Repos \cup {Nothing},
          mount : Mounts,
          stage : {"unsent", "pending", "success", "error", "over"},
          revision : Revisions]

List == [mount : Mounts,
         stage : {"unsent", "pending", "success", "error", "over"},
         revision : Revisions]

Revision == Len(log)

Tracked == log[Revision]

\* RepositoryList: one row for each repository of the list shown.
Rows(b) == IF b.list = Nothing THEN {} ELSE log[b.list]

TypeOK ==
    /\ Revision \in Revisions
    /\ \A n \in DOMAIN log : log[n] \subseteq Repos
    /\ elsewhere \in 0 .. MaxElsewhere
    /\ board \in Board
    /\ board.confirming \subseteq Rows(board)
    /\ writes \in [WriteIds -> Write]
    /\ lists \in [ListIds -> List]

\* The next request to be sent.
NextUnsent(requests, n) ==
    /\ requests[n].stage = "unsent"
    /\ \A i \in DOMAIN requests : i < n => requests[i].stage # "unsent"

\* A request for the list, sent by a dashboard, which may have been left.
Refresh(mount) ==
    \E n \in ListIds :
        /\ NextUnsent(lists, n)
        /\ lists' = [lists EXCEPT ![n].stage = "pending", ![n].mount = mount]

NewBoard(mount) ==
    [mount |-> mount, open |-> TRUE, list |-> Nothing, from |-> Nothing, error |-> FALSE,
     submitting |-> FALSE, confirming |-> {}, done |-> 1]

Init ==
    /\ log = <<Initially>>
    /\ elsewhere = 0
    /\ board = NewBoard(1)
    /\ writes = [n \in WriteIds |-> [kind |-> "track", repo |-> Nothing, mount |-> 1,
                                     stage |-> "unsent", revision |-> 1]]
    /\ lists = [n \in ListIds |-> [mount |-> 1, revision |-> 1,
                                   stage |-> IF n = 1 THEN "pending" ELSE "unsent"]]

-----------------------------------------------------------------------------
(* Leaving by a row's link, and coming back. *)

OpenRepository(r) ==
    /\ board.open
    /\ r \in Rows(board)
    /\ board' = [NewBoard(board.mount) EXCEPT !.open = FALSE]
    /\ UNCHANGED <<log, elsewhere, writes, lists>>

BackToDashboard ==
    /\ ~board.open
    /\ board.mount < MaxMounts
    /\ board' = NewBoard(board.mount + 1)
    /\ Refresh(board.mount + 1)
    /\ UNCHANGED <<log, elsewhere, writes>>

-----------------------------------------------------------------------------
(* The list. *)

\* The request is served, or it fails.
AnswerList(n) ==
    /\ lists[n].stage = "pending"
    /\ \/ lists' = [lists EXCEPT ![n].stage = "success", ![n].revision = Revision]
       \/ lists' = [lists EXCEPT ![n].stage = "error"]
    /\ UNCHANGED <<log, elsewhere, board, writes>>

\* Is the dashboard that asked still the one on the screen?
Mounted(mount) == board.open /\ board.mount = mount

ListOver(n) == lists' = [lists EXCEPT ![n].stage = "over", ![n].revision = 1]

\* Mutant: a failed request is not caught.
DeliverListUncaught(n) ==
    /\ lists[n].stage \in {"success", "error"}
    /\ board' = IF ~Mounted(lists[n].mount) \/ lists[n].stage = "error" THEN board
                ELSE [board EXCEPT !.list = lists[n].revision, !.from = n, !.error = FALSE,
                                   !.confirming = @ \cap log[lists[n].revision]]
    /\ ListOver(n)
    /\ UNCHANGED <<log, elsewhere, writes>>

\* Mutant: the rows have no key, and a question asked stays where it was.
DeliverListUnkeyed(n) ==
    /\ lists[n].stage \in {"success", "error"}
    /\ board' = IF ~Mounted(lists[n].mount) THEN board
                ELSE IF lists[n].stage = "error" THEN [board EXCEPT !.error = TRUE]
                ELSE [board EXCEPT !.list = lists[n].revision, !.from = n, !.error = FALSE]
    /\ ListOver(n)
    /\ UNCHANGED <<log, elsewhere, writes>>

\* The rows are keyed by their repository: those that stay keep their question.
DeliverList(n) ==
    /\ lists[n].stage \in {"success", "error"}
    /\ board' = IF ~Mounted(lists[n].mount) THEN board
                ELSE IF lists[n].stage = "error" THEN [board EXCEPT !.error = TRUE]
                ELSE [board EXCEPT !.list = lists[n].revision, !.from = n, !.error = FALSE,
                                   !.confirming = @ \cap log[lists[n].revision]]
    /\ ListOver(n)
    /\ UNCHANGED <<log, elsewhere, writes>>

-----------------------------------------------------------------------------
(* Tracking and untracking. *)

Send(n, kind, r) ==
    /\ NextUnsent(writes, n)
    /\ writes' = [writes EXCEPT ![n] = [@ EXCEPT !.kind = kind, !.repo = r,
                                                 !.mount = board.mount, !.stage = "pending"]]

\* The form is disabled while a submission is under way.
Track(n, r) ==
    /\ board.open
    /\ ~board.submitting
    /\ Send(n, "track", r)
    /\ board' = [board EXCEPT !.submitting = TRUE]
    /\ UNCHANGED <<log, elsewhere, lists>>

\* ConfirmButton: "Untrack", then "Yes" or "Cancel".
Ask(r) ==
    /\ board.open
    /\ r \in Rows(board) \ board.confirming
    /\ board' = [board EXCEPT !.confirming = @ \cup {r}]
    /\ UNCHANGED <<log, elsewhere, writes, lists>>

Cancel(r) ==
    /\ board.open
    /\ r \in board.confirming
    /\ board' = [board EXCEPT !.confirming = @ \ {r}]
    /\ UNCHANGED <<log, elsewhere, writes, lists>>

\* The row stays, and its button enabled, until the list is fetched again:
\* several may be under way, for the same repository too.
Untrack(n, r) ==
    /\ board.open
    /\ r \in board.confirming
    /\ Send(n, "untrack", r)
    /\ board' = [board EXCEPT !.confirming = @ \ {r}]
    /\ UNCHANGED <<log, elsewhere, lists>>

\* POST refuses what is tracked already; DELETE of what is not changes nothing.
After(w) == IF w.kind = "track" THEN Tracked \cup {w.repo} ELSE Tracked \ {w.repo}

Refused(w) == w.kind = "track" /\ w.repo \in Tracked

Apply(w) == log' = IF After(w) = Tracked THEN log ELSE Append(log, After(w))

\* A failure may be one of the answer only, the change having been made.
AnswerWrite(n) ==
    /\ writes[n].stage = "pending"
    /\ \/ /\ ~Refused(writes[n])
          /\ Apply(writes[n])
          /\ writes' = [writes EXCEPT ![n].stage = "success", ![n].revision = Len(log')]
       \/ /\ Apply(writes[n]) \/ UNCHANGED log
          /\ writes' = [writes EXCEPT ![n].stage = "error"]
    /\ UNCHANGED <<elsewhere, board, lists>>

Elsewhere(r) ==
    /\ elsewhere < MaxElsewhere
    /\ elsewhere' = elsewhere + 1
    /\ log' = Append(log, IF r \in Tracked THEN Tracked \ {r} ELSE Tracked \cup {r})
    /\ UNCHANGED <<board, writes, lists>>

Told(w) == IF w.stage = "success" /\ w.revision > board.done THEN w.revision ELSE board.done

\* Mutant: the form is enabled again only by a success.
ShownWithoutFinally(w) ==
    IF ~Mounted(w.mount) THEN board
    ELSE [board EXCEPT
            !.submitting = @ /\ ~(w.kind = "track" /\ w.stage = "success"),
            !.error = @ \/ (w.kind = "untrack" /\ w.stage = "error"),
            !.done = Told(w)]

\* What the outcome of a write changes on its dashboard, if that is still there.
Shown(w) ==
    IF ~Mounted(w.mount) THEN board
    ELSE [board EXCEPT
            !.submitting = @ /\ w.kind # "track",
            !.error = @ \/ (w.kind = "untrack" /\ w.stage = "error"),
            !.done = Told(w)]

WriteOver(n) ==
    writes' = [writes EXCEPT ![n].stage = "over", ![n].repo = Nothing, ![n].revision = 1]

\* Mutant: the row untracked is trusted to the list that tracking fetches.
DeliverWriteNoRefresh(n) ==
    /\ writes[n].stage \in {"success", "error"}
    /\ board' = Shown(writes[n])
    /\ IF writes[n].stage = "success" /\ writes[n].kind = "track"
       THEN Refresh(writes[n].mount) ELSE UNCHANGED lists
    /\ WriteOver(n)
    /\ UNCHANGED <<log, elsewhere>>

\* A success fetches the list again, also for a dashboard that was left.
DeliverWrite(n) ==
    /\ writes[n].stage \in {"success", "error"}
    /\ board' = Shown(writes[n])
    /\ IF writes[n].stage = "success" THEN Refresh(writes[n].mount) ELSE UNCHANGED lists
    /\ WriteOver(n)
    /\ UNCHANGED <<log, elsewhere>>

-----------------------------------------------------------------------------
Next ==
    \/ BackToDashboard
    \/ \E r \in Repos : OpenRepository(r) \/ Ask(r) \/ Cancel(r) \/ Elsewhere(r)
    \/ \E n \in WriteIds, r \in Repos : Track(n, r) \/ Untrack(n, r)
    \/ \E n \in WriteIds : AnswerWrite(n) \/ DeliverWrite(n)
    \/ \E n \in ListIds : AnswerList(n) \/ DeliverList(n)

Spec == Init /\ [][Next]_vars

\* Every request is answered or fails, and its continuation runs.
Fairness ==
    /\ \A n \in WriteIds : WF_vars(AnswerWrite(n) \/ DeliverWrite(n))
    /\ \A n \in ListIds : WF_vars(AnswerList(n) \/ DeliverList(n))

FairSpec == Spec /\ Fairness

-----------------------------------------------------------------------------
(* Properties *)

Sent(mount) == {n \in ListIds : lists[n].mount = mount /\ lists[n].stage # "unsent"}

\* Nothing is under way that this dashboard will show.
Quiet ==
    /\ board.open
    /\ \A n \in Sent(board.mount) : lists[n].stage = "over"

\* No older answer arrived after that of the last request.
InOrder == \A n \in Sent(board.mount) : board.from # Nothing /\ n <= board.from

\* However writes, refreshes and other tabs interleave, a dashboard at rest,
\* without an error and not overtaken by an older answer, shows a list no older
\* than any change it was told had succeeded (DashboardPage.tsx:18-38,
\* TrackRepositoryForm.tsx:20-33).
FreshList == Quiet /\ InOrder /\ ~board.error => board.list # Nothing /\ board.list >= board.done

\* The form is enabled again, whatever becomes of the submission
\* (TrackRepositoryForm.tsx:30-32).
FormComesBack == \A mount \in Mounts :
    Mounted(mount) /\ board.submitting ~> ~(Mounted(mount) /\ board.submitting)

\* A dashboard does not load for ever without a word: there is a list, or a
\* message of what failed (DashboardPage.tsx:19-26).
LoadingEnds == \A mount \in Mounts :
    Mounted(mount) ~> (~Mounted(mount) \/ board.list # Nothing \/ board.error)
=============================================================================
