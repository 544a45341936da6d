CONSTANTS
    Users = {u1, u2}
    Scopes = {profile, llm}
    llm = llm
    u1 = u1
    u2 = u2
    Profile = profile
    Grants <- OneRoleEach
    Jtis = {p1}
    Requests = {r1, r2}
    NoRow = NoRow
    NoClaims = NoClaims
    SessionTTL = 1
    MinTTL = 1
    MaxTTL = 1
    DefaultTTL = 1
    MaxTime = 1
SPECIFICATION Spec
SYMMETRY RequestSymmetry
INVARIANTS TypeOK HeldIsRecorded RefusedOnlyIfDead RevokedIsRefused ScopesAreGranted
PROPERTIES OwnersManage
