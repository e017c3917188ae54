------------------------------- MODULE SignIn -------------------------------
(***************************************************************************)
(* What a login with GitHub promises, whatever the pages, cookies,         *)
(* requests and transactions do: it yields at most one session, for the    *)
(* account that approved it and for no other, and once the session has     *)
(* ended it is never valid again.                                          *)
(***************************************************************************)
EXTENDS Naturals

CONSTANTS Logins, Accounts, Nothing

VARIABLES approver,  \* the account that approved a login at GitHub, or Nothing
          made,      \* how many sessions a login has yielded
          holder,    \* whose session a login has yielded, or Nothing
          valid      \* the logins whose session the server accepts

vars == <<approver, made, holder, valid>>

Init ==
    /\ approver = [l \in Logins |-> Nothing]
    /\ made = [l \in Logins |-> 0]
    /\ holder = [l \in Logins |-> Nothing]
    /\ valid = {}

Approve(l, a) ==
    /\ approver[l] = Nothing
    /\ approver' = [approver EXCEPT ![l] = a]
    /\ UNCHANGED <<made, holder, valid>>

Grant(l) ==
    /\ approver[l] # Nothing
    /\ made[l] = 0
    /\ made' = [made EXCEPT ![l] = 1]
    /\ holder' = [holder EXCEPT ![l] = approver[l]]
    /\ valid' = valid \cup {l}
    /\ UNCHANGED approver

\* By sign-out or by expiry.
End(l) ==
    /\ l \in valid
    /\ valid' = valid \ {l}
    /\ UNCHANGED <<approver, made, holder>>

Next == \E l \in Logins : (\E a \in Accounts : Approve(l, a)) \/ Grant(l) \/ End(l)

Spec == Init /\ [][Next]_vars
=============================================================================
