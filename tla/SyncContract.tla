---------------------------- MODULE SyncContract ----------------------------
(***************************************************************************)
(* What background synchronisation promises, with no request handler, no   *)
(* queue, no worker and no failed call in sight: a sync job belongs to one *)
(* repository, is started once, ends once, and an end of "succeeded" means *)
(* the stored pull requests are at least as recent as GitHub was when the  *)
(* sync was asked for.  Stored data never goes back in time.               *)
(***************************************************************************)
EXTENDS Naturals

CONSTANTS Repos,       \* rows of the repositories table
          Jobs,        \* sync job ids
          MaxVersion   \* bound: changes published per repository, a natural number

VARIABLES repositories, \* the repositories that exist
          github,       \* per repository: the version published on GitHub
          stored,       \* per repository: the version ingested
          status,       \* per job: its status
          repo,         \* per job: the repository it is for
          asOf          \* per job: GitHub's version when it was created

vars == <<repositories, github, stored, status, repo, asOf>>

Active(j) == status[j] \in {"queued", "running"}

Init ==
    /\ repositories = Repos
    /\ github = [r \in Repos |-> 0]
    /\ stored = [r \in Repos |-> 0]
    /\ status = [j \in Jobs |-> "none"]
    /\ repo \in [Jobs -> Repos]
    /\ asOf = [j \in Jobs |-> 0]

Publish(r) ==
    /\ github[r] < MaxVersion
    /\ github' = [github EXCEPT ![r] = @ + 1]
    /\ UNCHANGED <<repositories, stored, status, repo, asOf>>

\* Ask for a sync: only while no other sync of this repository is pending.
Create(j) ==
    /\ repo[j] \in repositories
    /\ status[j] = "none"
    /\ \A k \in Jobs : Active(k) => repo[k] # repo[j]
    /\ status' = [status EXCEPT ![j] = "queued"]
    /\ asOf' = [asOf EXCEPT ![j] = github[repo[j]]]
    /\ UNCHANGED <<repositories, github, stored, repo>>

Start(j) ==
    /\ status[j] = "queued"
    /\ status' = [status EXCEPT ![j] = "running"]
    /\ UNCHANGED <<repositories, github, stored, repo, asOf>>

\* Only a running job writes data, and what it writes is neither older than
\* what is stored nor older than the request it serves.
Ingest(j, version) ==
    /\ status[j] = "running"
    /\ version >= stored[repo[j]]
    /\ version >= asOf[j]
    /\ version =< github[repo[j]]
    /\ stored' = [stored EXCEPT ![repo[j]] = version]
    /\ UNCHANGED <<repositories, github, status, repo, asOf>>

Succeed(j) ==
    /\ status[j] = "running"
    /\ stored[repo[j]] >= asOf[j]
    /\ status' = [status EXCEPT ![j] = "succeeded"]
    /\ UNCHANGED <<repositories, github, stored, repo, asOf>>

Fail(j) ==
    /\ Active(j)
    /\ status' = [status EXCEPT ![j] = "failed"]
    /\ UNCHANGED <<repositories, github, stored, repo, asOf>>

\* Deleting a repository takes its jobs with it.
Delete(r) ==
    /\ r \in repositories
    /\ repositories' = repositories \ {r}
    /\ status' = [j \in Jobs |->
                    IF status[j] # "none" /\ repo[j] = r THEN "deleted" ELSE status[j]]
    /\ UNCHANGED <<github, stored, repo, asOf>>

Next ==
    \/ \E r \in Repos : Publish(r) \/ Delete(r)
    \/ \E j \in Jobs : \/ Create(j)
                       \/ Start(j)
                       \/ \E v \in 0 .. MaxVersion : Ingest(j, v)
                       \/ Succeed(j)
                       \/ Fail(j)

Spec == Init /\ [][Next]_vars
=============================================================================
