--------------------------- MODULE MCPatLifecycle ---------------------------
(***************************************************************************)
(* An instance of PatLifecycle for TLC.                                    *)
(***************************************************************************)
EXTENDS PatLifecycle, TLC

CONSTANTS llm, u1, u2

\* An administrator and a user.
OneRoleEach == [u \in Users |-> IF u = u1 THEN {{Profile, llm}} ELSE {{Profile}}]

RequestSymmetry == Permutations(Requests)
=============================================================================
