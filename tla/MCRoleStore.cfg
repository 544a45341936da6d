CONSTANTS
    RoleNames = {admin, user}
    Groups = {g1, g2}
    Scopes = {s1}
    admin = admin
    user = user
    g1 = g1
    g2 = g2
    s1 = s1
    Blank = Blank
    NoRole = NoRole
    Settings <- SomeSettings
    Documents <- SomeDocuments
    Memberships <- SomeMemberships
SPECIFICATION StoreSpec
INVARIANTS RoleIsOfFirstGroup RoleIsStable
