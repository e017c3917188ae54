----------------------------- MODULE MCCatalog -----------------------------
(***************************************************************************)
(* Instances of Catalog for TLC.                                           *)
(***************************************************************************)
EXTENDS Catalog

\* Every name is served at first, each by a repository of its own.  Ids and
\* names are interchangeable, so one such GitHub stands for all of them; names
\* that stand for nothing come with Rename.
MCInit ==
    /\ Init
    /\ github = CHOOSE g \in [Names -> GithubIds] : \A m, n \in Names : g[m] = g[n] => m = n

Turn == CHOOSE f \in [Requests -> 1 .. Cardinality(Requests)] :
            \A p, q \in Requests : f[p] = f[q] => p = q

\* Requests are interchangeable until they are submitted, so they may be taken
\* in a fixed order.  Symmetry of TLC would do as much, but not for liveness.
InTurn ==
    \A p, q \in Requests :
        Turn[p] < Turn[q] /\ request'[p].phase = "idle" => request'[q].phase = "idle"

MCSpec == MCInit /\ [][Next /\ InTurn]_vars /\ Fairness
=============================================================================
