SPECIFICATION FairSpec
CONSTANTS
    Tabs = {t1, t2}
    Accounts = {a1, a2}
    Returning = a1
    Names = {n1, n2}
    Nothing = Nothing
    MaxLogins = 2
    MaxCallbacks = 2
    MaxRenames = 1
INVARIANTS
    TypeOK
    OneUserPerAccount
    CookiesPaired
    SignedOutStaysOut
PROPERTIES
    FailedLoginKeepsSession
    TabsSettle
    ImplementsSignIn
CHECK_DEADLOCK FALSE
