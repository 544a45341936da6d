CONSTANTS
    RoleNames = {admin}
    Groups = {g1, g2}
    Scopes = {s1}
    Emails = {e1, e2}
    admin = admin
    g1 = g1
    g2 = g2
    s1 = s1
    e1 = e1
    e2 = e2
    Blank = Blank
    NoRole = NoRole
    NoExpiry = NoExpiry
    NoRow = NoRow
    NoAccount = NoAccount
    NoSubject = NoSubject
    GroupMap <- OneRole
    ScopesOf <- AdminScopes
    Subjects = {u1, u2}
    Accounts <- SomeAccounts
    States = {st1, st2}
    Callbacks = {c1, c2}
    StateTTL = 1
    MaxTime = 2
    MaxEdits = 1
SPECIFICATION Spec
SYMMETRY CallbackSymmetry
INVARIANTS TypeOK StateSpentOnce SessionsHaveUsers EmailTakenOnlyIfShared
PROPERTY SpentInTime
