----------------------------- MODULE MCRoleStore -----------------------------
(***************************************************************************)
(* Instances of RoleStore for TLC.                                         *)
(***************************************************************************)
EXTENDS RoleStore

CONSTANTS admin, user, g1, g2, s1

Mappings ==
    {Item("mapping", role, groups) :
        role \in {admin, user}, groups \in {<<g1>>, <<g2>>, <<Blank, g1, g2>>, <<Blank>>}}
Others ==
    {Item("mapping", Blank, <<g1>>), Item("blank", Blank, <<>>), Item("no separator", Blank, <<>>)}
SomeItems == Mappings \union Others

SomeSettings == {<<>>} \union {<<i>> : i \in SomeItems} \union {<<i, j>> : i, j \in SomeItems}

\* The second file defines "user" twice, the third leaves it without scopes,
\* and the others are refused.
SomeDocuments ==
    {Document(user, <<Entry(admin, <<s1>>), Entry(user, <<s1, s1>>)>>),
     Document(user, <<Entry(admin, <<s1>>), Entry(user, <<Blank>>), Entry(user, <<s1>>)>>),
     Document(admin, <<Entry(admin, <<s1>>), Entry(user, <<Blank>>)>>),
     Document(user, <<>>),
     Document(Blank, <<Entry(user, <<s1>>)>>),
     Document(user, <<Entry(user, <<>>)>>),
     Document(user, <<Entry(admin, <<s1>>)>>)}

SomeMemberships == {<<g1>>, <<Blank, g1>>, <<g2, g1>>, <<g1, g2>>, <<Blank>>}
=============================================================================
