--------------------------- MODULE RequestRouting ---------------------------
(***************************************************************************)
(* How the server finds the backend a request is proxied to                *)
(* (internal/service/backends.go, internal/handler/llm_proxy.go and        *)
(* internal/handler/backends.go), composed with the abstract registry.     *)
(*                                                                         *)
(* An LLM request names a model and goes to a healthy backend, preferably  *)
(* one that has the model loaded or at least installed; an administrative  *)
(* request names a backend.  Both list the registry, one Redis call per    *)
(* backend, while workers go on refreshing it.                             *)
(***************************************************************************)
EXTENDS BackendStore

CONSTANTS
    Clients,   \* requests that may be in progress at once
    NoRoute,   \* no backend chosen
    NoWant     \* nothing asked for

ASSUME WantsAssumption == Models \intersect Ids = {} /\ NoWant \notin Models \union Ids
ASSUME NoRouteAssumption == NoRoute \notin [id : Ids, status : BackendStatus]

VARIABLES
    serving, synced,   \* of the registry
    phase,             \* what the handler of each request is doing
    want,              \* the model, or the backend, it asks for
    todo,              \* IDs that ListBackends has still to load
    got,               \* the statuses it has loaded
    route,             \* the backend chosen, and the status it was chosen by
    code,              \* the answer's status code
    seen               \* history: what held all the time it was listing

Registry == INSTANCE BackendRegistry

registryVars == <<index, meta, serving, synced>>
requestVars == <<phase, want, todo, got, route, code>>
vars == <<index, meta, serving, synced, phase, want, todo, got, route, code, seen>>

Phases == {"idle", "selecting", "looking", "proxying", "done"}
Routes == [id : Ids, status : BackendStatus]
NoRecords == [id \in Ids |-> NoStatus]

\* The IDs listed when the request began and, of all IDs, those whose record
\* said at every moment since that the backend was healthy, that it had the
\* model installed or loaded, and that it had it loaded.
Seen ==
    [listed : SUBSET Ids, usable : SUBSET Ids, installed : SUBSET Ids, loaded : SUBSET Ids]
NothingSeen == [listed |-> {}, usable |-> {}, installed |-> {}, loaded |-> {}]

TypeOK ==
    /\ StoreTypeOK
    /\ serving \in BOOLEAN
    /\ synced \in BOOLEAN
    /\ phase \in [Clients -> Phases]
    /\ want \in [Clients -> Models \union Ids \union {NoWant}]
    /\ todo \in [Clients -> SUBSET Ids]
    /\ got \in [Clients -> [Ids -> BackendStatus \union {NoStatus}]]
    /\ route \in [Clients -> Routes \union {NoRoute}]
    /\ code \in [Clients -> {0, 200, 404, 413, 502, 503}]
    /\ seen \in [Clients -> Seen]

Init ==
    /\ Registry!Init
    /\ phase = [c \in Clients |-> "idle"]
    /\ want = [c \in Clients |-> NoWant]
    /\ todo = [c \in Clients |-> {}]
    /\ got = [c \in Clients |-> NoRecords]
    /\ route = [c \in Clients |-> NoRoute]
    /\ code = [c \in Clients |-> 0]
    /\ seen = [c \in Clients |-> NothingSeen]

-----------------------------------------------------------------------------
(* What a record says of a backend.                                        *)

Usable(status) == status # NoStatus /\ status.healthy
HasLoaded(status, model) == Usable(status) /\ model \in status.loaded
HasModel(status, model) == Usable(status) /\ model \in status.loaded \union status.models

-----------------------------------------------------------------------------
(* A request arrives: ZRANGE.                                              *)

Listing(c, state, wanted) ==
    /\ serving
    /\ phase[c] = "idle"
    /\ phase' = [phase EXCEPT ![c] = state]
    /\ want' = [want EXCEPT ![c] = wanted]
    /\ todo' = [todo EXCEPT ![c] = index]
    /\ seen' = [seen EXCEPT ![c] =
          [listed    |-> index,
           usable    |-> {id \in Ids : Usable(meta[id])},
           installed |-> {id \in Ids : HasModel(meta[id], wanted)},
           loaded    |-> {id \in Ids : HasLoaded(meta[id], wanted)}]]
    /\ UNCHANGED <<registryVars, got, route, code>>

\* The handlers refuse a request without a model before they route it.
StartRouting(c, model) == Listing(c, "selecting", model)

StartLookup(c, id) == Listing(c, "looking", id)

\* Mutant: the IDs are listed again after each call.
LoadBackendStatusAndList(c) ==
    /\ \E id \in Ids :
          /\ IsFirst(id, todo[c])
          /\ todo' = [todo EXCEPT ![c] = index \ {id}]
          /\ got' = [got EXCEPT ![c][id] = meta[id]]
    /\ UNCHANGED <<registryVars, phase, want, route, code, seen>>

\* HGETALL of the next ID; a hash that is gone is skipped.
LoadBackendStatus(c) ==
    /\ \E id \in Ids :
          /\ IsFirst(id, todo[c])
          /\ todo' = [todo EXCEPT ![c] = @ \ {id}]
          /\ got' = [got EXCEPT ![c][id] = meta[id]]
    /\ UNCHANGED <<registryVars, phase, want, route, code, seen>>

Answer(c, status) ==
    /\ phase' = [phase EXCEPT ![c] = "done"]
    /\ code' = [code EXCEPT ![c] = status]
    /\ todo' = [todo EXCEPT ![c] = {}]
    /\ got' = [got EXCEPT ![c] = NoRecords]
    /\ UNCHANGED <<registryVars, want, route, seen>>

Proxy(c, id) ==
    /\ phase' = [phase EXCEPT ![c] = "proxying"]
    /\ route' = [route EXCEPT ![c] = [id |-> id, status |-> got[c][id]]]
    /\ got' = [got EXCEPT ![c] = NoRecords]
    /\ UNCHANGED <<registryVars, want, todo, code, seen>>

-----------------------------------------------------------------------------
(* selectBackend                                                           *)

\* Mutant: backends that are not healthy are taken, too.
HealthyOrNot(c) == {id \in Ids : got[c][id] # NoStatus}

Healthy(c) == {id \in Ids : Usable(got[c][id])}
LoadedHits(c) == {id \in Healthy(c) : want[c] \in got[c][id].loaded}
ModelHits(c) == {id \in Healthy(c) \ LoadedHits(c) : want[c] \in got[c][id].models}

\* Mutant: a backend with the model loaded has no precedence.
PreferredAny(c) == LoadedHits(c) \union ModelHits(c) \union Healthy(c)

Preferred(c) ==
    IF LoadedHits(c) # {} THEN LoadedHits(c)
    ELSE IF ModelHits(c) # {} THEN ModelHits(c)
    ELSE Healthy(c)

SelectBackend(c) ==
    /\ phase[c] = "selecting"
    /\ todo[c] = {}
    /\ \E id \in Ids : IsFirst(id, Preferred(c)) /\ Proxy(c, id)

\* Mutant: a model that is nowhere installed is refused.
NoBackendsWithModel(c) ==
    /\ phase[c] = "selecting"
    /\ todo[c] = {}
    /\ LoadedHits(c) \union ModelHits(c) = {}
    /\ Answer(c, 503)

NoHealthyBackends(c) ==
    /\ phase[c] = "selecting"
    /\ todo[c] = {}
    /\ Healthy(c) = {}
    /\ Answer(c, 503)

-----------------------------------------------------------------------------
(* LookupBackendRoute, which takes a backend healthy or not                *)

\* Mutant: a backend is proxied to without having been found.
LookupBackendRouteUnchecked(c) ==
    /\ phase[c] = "looking"
    /\ todo[c] = {}
    /\ Proxy(c, want[c])

LookupBackendRoute(c) ==
    /\ phase[c] = "looking"
    /\ todo[c] = {}
    /\ got[c][want[c]] # NoStatus
    /\ Proxy(c, want[c])

\* Mutant: a backend that is not healthy is not found.
BackendNotFoundHealthy(c) ==
    /\ phase[c] = "looking"
    /\ todo[c] = {}
    /\ ~Usable(got[c][want[c]])
    /\ Answer(c, 404)

BackendNotFound(c) ==
    /\ phase[c] = "looking"
    /\ todo[c] = {}
    /\ got[c][want[c]] = NoStatus
    /\ Answer(c, 404)

\* Redis fails while the registry is listed.
ListingFails(c) ==
    /\ phase[c] \in {"selecting", "looking"}
    /\ Answer(c, 502)

-----------------------------------------------------------------------------
(* The request is proxied, once.                                           *)

\* Whatever the backend answers is relayed; 200 stands for it.
BackendAnswers(c) == phase[c] = "proxying" /\ Answer(c, 200)

BackendFails(c) == phase[c] = "proxying" /\ Answer(c, 502)

\* The payload of an administrative request is read once its backend is
\* found: one that is too large, or cannot be read, is not proxied.
PayloadRefused(c) == phase[c] = "proxying" /\ want[c] \in Ids /\ Answer(c, 413)

\* The client has its answer; another request may take its place.
Finish(c) ==
    /\ phase[c] = "done"
    /\ phase' = [phase EXCEPT ![c] = "idle"]
    /\ want' = [want EXCEPT ![c] = NoWant]
    /\ route' = [route EXCEPT ![c] = NoRoute]
    /\ code' = [code EXCEPT ![c] = 0]
    /\ seen' = [seen EXCEPT ![c] = NothingSeen]
    /\ UNCHANGED <<registryVars, todo, got>>

-----------------------------------------------------------------------------
(* The registry moves.                                                     *)

\* What still holds of the requests that are listing.
Watch ==
    seen' = [c \in Clients |->
        IF phase[c] \in {"selecting", "looking"}
        THEN [listed    |-> seen[c].listed,
              usable    |-> {id \in seen[c].usable : Usable(meta'[id])},
              installed |-> {id \in seen[c].installed : HasModel(meta'[id], want[c])},
              loaded    |-> {id \in seen[c].loaded : HasLoaded(meta'[id], want[c])}]
        ELSE seen[c]]

RegistryMoves ==
    /\ \/ \E id \in Ids :
             \/ \E status \in BackendStatus :
                   Registry!Configure(id, status) \/ Registry!Refresh(id, status)
             \/ Registry!Remove(id)
       \/ \E clean \in BOOLEAN : Registry!StartServing(clean)
    /\ Watch
    /\ UNCHANGED requestVars

\* The server exits, and the requests it was handling with it.
RequestsEnd ==
    /\ phase' = [c \in Clients |-> "idle"]
    /\ want' = [c \in Clients |-> NoWant]
    /\ todo' = [c \in Clients |-> {}]
    /\ got' = [c \in Clients |-> NoRecords]
    /\ route' = [c \in Clients |-> NoRoute]
    /\ code' = [c \in Clients |-> 0]
    /\ seen' = [c \in Clients |-> NothingSeen]

ServerStops == Registry!StopServing /\ RequestsEnd

-----------------------------------------------------------------------------

HandlerStep(c) ==
    \/ LoadBackendStatus(c)
    \/ SelectBackend(c)
    \/ NoHealthyBackends(c)
    \/ LookupBackendRoute(c)
    \/ BackendNotFound(c)

RequestStep(c) ==
    \/ \E model \in Models : StartRouting(c, model)
    \/ \E id \in Ids : StartLookup(c, id)
    \/ HandlerStep(c)
    \/ ListingFails(c)
    \/ BackendAnswers(c)
    \/ BackendFails(c)
    \/ PayloadRefused(c)
    \/ Finish(c)

Next ==
    \/ RegistryMoves
    \/ ServerStops
    \/ \E c \in Clients : RequestStep(c)

Spec == Init /\ [][Next]_vars

\* A handler goes on with the listing it began.  Nothing makes a backend
\* answer: the proxy's HTTP client has no timeout.
FairSpec == Spec /\ \A c \in Clients : WF_vars(HandlerStep(c))

-----------------------------------------------------------------------------
(* Properties                                                              *)

Routed(c) == phase[c] = "proxying" /\ want[c] \in Models

(***************************************************************************)
(* Once the server has synchronised the registry, an LLM request is        *)
(* proxied only to an address that has answered a ping, although the       *)
(* record it was chosen by may have been replaced since.                   *)
(***************************************************************************)
RoutedToObserved ==
    synced => \A c \in Clients : Routed(c) =>
        /\ route[c].status.healthy
        /\ route[c].status.observedAt = route[c].status.address

(***************************************************************************)
(* An LLM request goes to a backend with the model loaded if some backend  *)
(* was healthy with the model loaded all the time the registry was being   *)
(* listed, and to one with the model installed if some backend was healthy *)
(* with the model installed all that time.                                 *)
(***************************************************************************)
PrefersModel ==
    \A c \in Clients : Routed(c) =>
        /\ seen[c].loaded # {} => HasLoaded(route[c].status, want[c])
        /\ seen[c].installed # {} => HasModel(route[c].status, want[c])

(***************************************************************************)
(* The server answers 503 only if no backend was healthy all the time the  *)
(* registry was being listed, whatever was saved between the two Redis     *)
(* calls of a listing.                                                     *)
(***************************************************************************)
UnavailableOnlyIfUnhealthy ==
    \A c \in Clients : code[c] = 503 => seen[c].usable = {}

(***************************************************************************)
(* The server answers 404 only for a backend that was not registered when  *)
(* the request began, and proxies an administrative request only to the    *)
(* backend it names.                                                       *)
(***************************************************************************)
LookupFindsRegistered ==
    \A c \in Clients :
        /\ code[c] = 404 => want[c] \notin seen[c].listed
        /\ phase[c] = "proxying" /\ want[c] \in Ids => route[c].id = want[c]

(***************************************************************************)
(* A listing ends, however often workers save records meanwhile.           *)
(***************************************************************************)
ListingEnds ==
    \A c \in Clients :
        phase[c] \in {"selecting", "looking"} ~> phase[c] \notin {"selecting", "looking"}

(***************************************************************************)
(* What README.md calls Llamero, a load balancer: of backends that all     *)
(* have the model loaded for good, each is sent some of the requests for   *)
(* it, if they keep coming.                                                *)
(***************************************************************************)
SpreadsLoad ==
    \A model \in Models, id \in Ids :
        /\ <>[](\A other \in Ids : HasLoaded(meta[other], model))
        /\ []<>(\E c \in Clients : phase[c] = "selecting" /\ want[c] = model)
        /\ []<>(\E c \in Clients : phase[c] = "proxying" /\ want[c] = model)
        => []<>(\E c \in Clients : Routed(c) /\ want[c] = model /\ route[c].id = id)
=============================================================================
