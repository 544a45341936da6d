--------------------------- MODULE BackendRegistry ---------------------------
(***************************************************************************)
(* What the rest of Llamero may assume of the backend registry, whoever    *)
(* writes it: BackendSync implements this specification, and the modules   *)
(* that read the registry are composed with it.                            *)
(*                                                                         *)
(* Before the server serves, records are configured and removed at will.   *)
(* While it serves, records are only refreshed: none is removed, and one   *)
(* that says healthy says so of an address that answered.                  *)
(***************************************************************************)
EXTENDS BackendStore

VARIABLES
    serving,   \* the server accepts requests
    synced     \* and its synchronisation at start went through

registryVars == <<index, meta, serving, synced>>

RegistryTypeOK ==
    /\ StoreTypeOK
    /\ serving \in BOOLEAN
    /\ synced \in BOOLEAN

Init ==
    /\ StoreInit
    /\ serving = FALSE
    /\ synced = FALSE

\* A backend's record is written from a definition.
Configure(id, status) ==
    /\ ~serving
    /\ SaveBackend(id, status)
    /\ UNCHANGED <<serving, synced>>

Remove(id) ==
    /\ ~serving
    /\ DeleteBackend(id)
    /\ UNCHANGED <<serving, synced>>

\* A backend's record is written after a ping.
Refresh(id, status) ==
    /\ status.healthy => status.observedAt = status.address
    /\ SaveBackend(id, status)
    /\ UNCHANGED <<serving, synced>>

StartServing(clean) ==
    /\ ~serving
    /\ clean => \A id \in Ids : Observed(id)
    /\ serving' = TRUE
    /\ synced' = clean
    /\ UNCHANGED storeVars

StopServing ==
    /\ serving
    /\ serving' = FALSE
    /\ synced' = FALSE
    /\ UNCHANGED storeVars

Next ==
    \/ \E id \in Ids :
          \/ \E status \in BackendStatus : Configure(id, status) \/ Refresh(id, status)
          \/ Remove(id)
    \/ \E clean \in BOOLEAN : StartServing(clean)
    \/ StopServing

Spec == Init /\ [][Next]_registryVars
=============================================================================
