--------------------------- MODULE BackendService ---------------------------
(***************************************************************************)
(* Requests, composed with the registration and the synchronisation that   *)
(* maintain the registry they read (internal/service/backends.go as a      *)
(* whole): RequestRouting assumes the abstract registry, here is the one   *)
(* that a starting server and workers write call by call.                  *)
(***************************************************************************)
EXTENDS BackendSync

CONSTANTS Clients, NoRoute, NoWant   \* as in RequestRouting

VARIABLES phase, want, asked, found, route, code, seen

Requests ==
    INSTANCE RequestRouting
        WITH serving <- pc[Server] = "serving",
             synced  <- pc[Server] = "serving" /\ bootSynced,
             todo    <- asked,
             got     <- found

requestVars == <<phase, want, asked, found, route, code>>
serviceVars == <<vars, requestVars, seen>>

ServiceInit == Init /\ Requests!Init

\* A server that exits while it serves ends its requests; to the others only
\* what the registry says may change.
Maintain ==
    /\ Next
    /\ IF pc[Server] = "serving" /\ pc'[Server] # "serving"
       THEN Requests!RequestsEnd
       ELSE /\ IF Registry!registryVars' = Registry!registryVars THEN seen' = seen
               ELSE Requests!Watch
            /\ UNCHANGED requestVars

ServeRequest(c) == UNCHANGED vars /\ Requests!RequestStep(c)

ServiceNext == Maintain \/ \E c \in Clients : ServeRequest(c)

ServiceSpec == ServiceInit /\ [][ServiceNext]_serviceVars

(***************************************************************************)
(* The whole behaves as the requests alone do over the abstract registry:  *)
(* what holds of every request there holds here, however the server and    *)
(* the workers interleave.                                                 *)
(***************************************************************************)
ImplementsRouting == Requests!Spec

(***************************************************************************)
(* What is promised of requests, for requests over the registry as it is   *)
(* kept: one for a model goes to an address that answered once the start   *)
(* was clean, to the model if some backend had it all along, and is        *)
(* refused only if none was healthy; one for a backend finds it if it is   *)
(* registered.                                                             *)
(***************************************************************************)
RequestsServed ==
    /\ Requests!RoutedToObserved
    /\ Requests!PrefersModel
    /\ Requests!UnavailableOnlyIfUnhealthy
    /\ Requests!LookupFindsRegistered

\* As RequestRouting assumes.
RequestsAssumption ==
    /\ Models \intersect Ids = {} /\ NoWant \notin Models \union Ids
    /\ NoRoute \notin [id : Ids, status : BackendStatus]
=============================================================================
