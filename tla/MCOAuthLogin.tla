---------------------------- MODULE MCOAuthLogin ----------------------------
(***************************************************************************)
(* An instance of OAuthLogin for TLC.                                        *)
(***************************************************************************)
EXTENDS OAuthLogin

CONSTANTS admin, g1, g2, s1, e1, e2

OneRole == [r \in {admin} |-> <<g1>>]
AdminScopes == [r \in {admin} |-> <<s1>>]

\* Of group g2 nobody has a role.
SomeAccounts ==
    {[email |-> e1, groups |-> <<g1>>], [email |-> e2, groups |-> <<g1>>],
     [email |-> e1, groups |-> <<g2>>]}

CallbackSymmetry == Permutations(Callbacks) \union Permutations(States)
=============================================================================
