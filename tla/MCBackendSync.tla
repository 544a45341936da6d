---------------------------- MODULE MCBackendSync ----------------------------
(***************************************************************************)
(* Instances of BackendSync for TLC.                                       *)
(***************************************************************************)
EXTENDS BackendSync

CONSTANTS a1, a2, w1

Def(id, address) == [id |-> id, address |-> address]

\* Both backends; one at the address the other had, in a file that is refused
\* at its second definition; none.
Reconfigurations ==
    { <<Def(1, a1), Def(2, a2)>>,
      <<Def(2, a1), Def(1, Blank)>>,
      <<>> }

\* A backend is removed while the other one moves.
Removal == { <<Def(1, a1), Def(2, a2)>>, <<Def(1, a2)>> }
=============================================================================
