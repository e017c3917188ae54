----------------------------- MODULE MCSyncJobs -----------------------------
(***************************************************************************)
(* Instances of SyncJobs for TLC.  Each set of faults is the environment   *)
(* under which a group of properties is claimed.                           *)
(***************************************************************************)
EXTENDS SyncJobs, TLC

\* Ids are compared for equality only, so they may be permuted.
Symmetry == Permutations(Jobs) \cup Permutations(Workers)

\* What the application is written to handle: a call fails cleanly, and the
\* failure can be recorded.
HandledFaults ==
    {"db_insert", "db_load", "db_claim", "db_persist", "github_error", "enqueue_error"}

\* Processes die, rows vanish and the recording of an outcome fails, but no
\* message is delivered to two live workers.
CrashFaults ==
    {"worker_crash", "api_crash", "repository_deleted", "github_error", "enqueue_error",
     "db_claim", "db_persist", "db_mark_succeeded", "db_mark_enqueue_failed"}

\* The queue misbehaves: messages are lost, kept although the send failed, or
\* delivered again while their first holder is still at work.
DeliveryFaults ==
    {"worker_crash", "worker_stall", "worker_interrupt", "redis_loss",
     "enqueue_error", "enqueue_ambiguous", "db_load", "db_claim", "db_mark_failed"}
=============================================================================
