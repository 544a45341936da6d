------------------------ MODULE RequestRoutingProofs ------------------------
(***************************************************************************)
(* Proofs of the safety properties of RequestRouting, for any number of    *)
(* backends, addresses, models and requests.                               *)
(***************************************************************************)
EXTENDS RequestRouting, FiniteSetTheorems, TLAPS

IsListing(c) == phase[c] \in {"selecting", "looking"}

(***************************************************************************)
(* The inductive invariant, part by part.                                  *)
(***************************************************************************)

\* While a synchronised server serves, every record has its evidence.
ServedIsObserved == synced => serving /\ \A id \in Ids : Observed(id)

\* What a request's state says of its variables.
PhaseInv(c) ==
    /\ phase[c] # "idle" => serving
    /\ phase[c] # "done" => code[c] = 0
    /\ ~IsListing(c) => todo[c] = {} /\ got[c] = NoRecords
    /\ phase[c] = "selecting" => want[c] \in Models
    /\ phase[c] = "looking" => want[c] \in Ids

\* What held all the time since a request began holds now ...
SeenHolds(c) ==
    IsListing(c) =>
        /\ seen[c].listed \subseteq index
        /\ \A id \in seen[c].usable : Usable(meta[id])
        /\ \A id \in seen[c].installed : HasModel(meta[id], want[c])
        /\ \A id \in seen[c].loaded : HasLoaded(meta[id], want[c])

\* ... and was so when it was read, if it was read.
SeenRead(c) ==
    IsListing(c) =>
        /\ \A id \in seen[c].listed : id \in todo[c] \/ got[c][id] # NoStatus
        /\ \A id \in seen[c].usable : id \in todo[c] \/ Usable(got[c][id])
        /\ \A id \in seen[c].installed : id \in todo[c] \/ HasModel(got[c][id], want[c])
        /\ \A id \in seen[c].loaded : id \in todo[c] \/ HasLoaded(got[c][id], want[c])

\* The records read from a synchronised registry have their evidence.
GotObserved(c) ==
    synced => \A id \in Ids :
        Usable(got[c][id]) => got[c][id].observedAt = got[c][id].address

\* The properties, of one request.
Outcome(c) ==
    /\ synced /\ Routed(c) =>
          route[c].status.healthy /\ route[c].status.observedAt = route[c].status.address
    /\ Routed(c) =>
          /\ seen[c].loaded # {} => HasLoaded(route[c].status, want[c])
          /\ seen[c].installed # {} => HasModel(route[c].status, want[c])
    /\ code[c] = 503 => seen[c].usable = {}
    /\ code[c] = 404 => want[c] \notin seen[c].listed
    /\ phase[c] = "proxying" /\ want[c] \in Ids => route[c].id = want[c]

ClientInv(c) ==
    /\ PhaseInv(c)
    /\ SeenHolds(c)
    /\ SeenRead(c)
    /\ GotObserved(c)
    /\ Outcome(c)

RoutingInv ==
    /\ IndexMatchesMeta
    /\ ServedIsObserved
    /\ \A c \in Clients : ClientInv(c)
-----------------------------------------------------------------------------
(* Steps of the registry.                                                  *)

\* A step of the registry saves a record, removes one, or writes nothing.
LEMMA RegistrySteps ==
  ASSUME TypeOK, RegistryMoves
  PROVE  \/ \E id \in Ids, status \in BackendStatus :
               /\ SaveBackend(id, status)
               /\ UNCHANGED <<serving, synced>>
               /\ serving /\ Usable(status) => status.observedAt = status.address
         \/ \E id \in Ids : DeleteBackend(id) /\ ~serving /\ UNCHANGED <<serving, synced>>
         \/ /\ UNCHANGED storeVars /\ ~serving /\ serving' = TRUE /\ synced' \in BOOLEAN
            /\ synced' => \A id \in Ids : Observed(id)
<1> USE DEF Registry!BackendStatus, BackendStatus, Registry!SaveBackend, SaveBackend
<1>1. ASSUME NEW id \in Ids, NEW status \in BackendStatus, Registry!Configure(id, status)
      PROVE  /\ SaveBackend(id, status)
             /\ UNCHANGED <<serving, synced>>
             /\ ~serving
  BY <1>1 DEF Registry!Configure
<1>2. ASSUME NEW id \in Ids, NEW status \in BackendStatus, Registry!Refresh(id, status)
      PROVE  /\ SaveBackend(id, status)
             /\ UNCHANGED <<serving, synced>>
             /\ status.healthy => status.observedAt = status.address
  BY <1>2 DEF Registry!Refresh
<1>3. ASSUME NEW id \in Ids, Registry!Remove(id)
      PROVE  DeleteBackend(id) /\ ~serving /\ UNCHANGED <<serving, synced>>
  BY <1>3 DEF Registry!Remove, Registry!DeleteBackend, DeleteBackend
<1>4. ASSUME NEW clean \in BOOLEAN, Registry!StartServing(clean)
      PROVE  /\ UNCHANGED storeVars /\ ~serving /\ serving' = TRUE /\ synced' \in BOOLEAN
             /\ synced' => \A id \in Ids : Observed(id)
  BY <1>4 DEF Registry!StartServing, Registry!storeVars, storeVars, Registry!Observed, Observed
<1> HIDE DEF SaveBackend, BackendStatus
<1> QED
  BY <1>1, <1>2, <1>3, <1>4 DEF RegistryMoves, Usable

-----------------------------------------------------------------------------
(* Type correctness.                                                       *)

LEMMA InitType == Init => TypeOK
<1> SUFFICES ASSUME Init PROVE TypeOK
  OBVIOUS
<1>1. StoreTypeOK
  BY DEF Init, Registry!Init, Registry!StoreInit, StoreTypeOK
<1>2. serving \in BOOLEAN /\ synced \in BOOLEAN
  BY DEF Init, Registry!Init
<1>3. NothingSeen \in Seen
  BY DEF NothingSeen, Seen
<1>4. /\ phase \in [Clients -> Phases]
      /\ want \in [Clients -> Models \union Ids \union {NoWant}]
      /\ todo \in [Clients -> SUBSET Ids]
      /\ got \in [Clients -> [Ids -> BackendStatus \union {NoStatus}]]
  BY DEF Init, Phases, NoRecords
<1>5. /\ route \in [Clients -> Routes \union {NoRoute}]
      /\ code \in [Clients -> {0, 200, 404, 413, 502, 503}]
      /\ seen \in [Clients -> Seen]
  BY <1>3 DEF Init
<1> QED
  BY <1>1, <1>2, <1>4, <1>5 DEF TypeOK

\* What a request does is confined to its own variables and well typed.
LEMMA ClientType ==
  ASSUME TypeOK, NEW c \in Clients,
         \/ \E model \in Models : StartRouting(c, model)
         \/ \E id \in Ids : StartLookup(c, id)
         \/ LoadBackendStatus(c)
         \/ \E status \in {200, 404, 413, 502, 503} : Answer(c, status)
         \/ Finish(c)
  PROVE  TypeOK'
<1> USE DEF registryVars
<1>1. ASSUME NEW wanted \in Models \union Ids, NEW state \in Phases, Listing(c, state, wanted)
      PROVE  TypeOK'
  <2>1. seen' \in [Clients -> Seen]
    BY <1>1 DEF Listing, TypeOK, StoreTypeOK, Seen
  <2> QED
    BY <1>1, <2>1 DEF Listing, TypeOK, StoreTypeOK
<1>2. CASE LoadBackendStatus(c)
  BY <1>2 DEF LoadBackendStatus, TypeOK, StoreTypeOK
<1>3. ASSUME NEW status \in {200, 404, 413, 502, 503}, Answer(c, status)
      PROVE  TypeOK'
  BY <1>3 DEF Answer, TypeOK, StoreTypeOK, NoRecords, Phases
<1>4. CASE Finish(c)
  BY <1>4 DEF Finish, TypeOK, StoreTypeOK, NothingSeen, Seen, Phases
<1> QED
  BY <1>1, <1>2, <1>3, <1>4 DEF StartRouting, StartLookup, Phases

LEMMA ProxyType ==
  ASSUME TypeOK, NEW c \in Clients, NEW id \in Ids, got[c][id] # NoStatus, Proxy(c, id)
  PROVE  TypeOK'
<1>1. route' \in [Clients -> Routes \union {NoRoute}]
  BY DEF Proxy, TypeOK, Routes
<1> QED
  BY <1>1 DEF Proxy, TypeOK, StoreTypeOK, registryVars, NoRecords, Phases

LEMMA RegistryType ==
  ASSUME TypeOK, RegistryMoves
  PROVE  TypeOK'
<1>1. StoreTypeOK'
  <2>1. ASSUME NEW id \in Ids, NEW status \in BackendStatus, SaveBackend(id, status)
        PROVE  StoreTypeOK'
    BY <2>1 DEF TypeOK, StoreTypeOK, SaveBackend
  <2>2. ASSUME NEW id \in Ids, DeleteBackend(id)
        PROVE  StoreTypeOK'
    BY <2>2 DEF TypeOK, StoreTypeOK, DeleteBackend
  <2>3. ASSUME UNCHANGED storeVars
        PROVE  StoreTypeOK'
    BY <2>3 DEF TypeOK, StoreTypeOK, storeVars
  <2> QED
    BY <2>1, <2>2, <2>3, RegistrySteps
<1>2. serving' \in BOOLEAN /\ synced' \in BOOLEAN
  <2>1. \/ UNCHANGED <<serving, synced>>
        \/ serving' = TRUE /\ synced' \in BOOLEAN
    BY RegistrySteps
  <2> QED
    BY <2>1 DEF TypeOK
<1>3. seen' \in [Clients -> Seen]
  BY DEF RegistryMoves, Watch, TypeOK, Seen
<1> QED
  BY <1>1, <1>2, <1>3 DEF RegistryMoves, requestVars, TypeOK

LEMMA StopType ==
  ASSUME TypeOK, ServerStops
  PROVE  TypeOK'
BY DEF ServerStops, RequestsEnd, Registry!StopServing, Registry!storeVars, TypeOK, StoreTypeOK, NoRecords,
       NothingSeen, Seen, Phases

\* The backend selectBackend takes is one of the healthy ones it read.
LEMMA PreferredIsHealthy ==
  ASSUME NEW c, NEW id \in Preferred(c)
  PROVE  id \in Ids /\ Usable(got[c][id])
BY DEF Preferred, Healthy, LoadedHits, ModelHits

\* What SelectBackend and LookupBackendRoute proxy to.
LEMMA ProxySteps ==
  ASSUME TypeOK, NEW c \in Clients, PhaseInv(c), SelectBackend(c) \/ LookupBackendRoute(c)
  PROVE  \E id \in Ids :
            /\ Proxy(c, id) /\ todo[c] = {} /\ got[c][id] # NoStatus
            /\ \/ phase[c] = "selecting" /\ id \in Preferred(c)
               \/ phase[c] = "looking" /\ id = want[c]
<1>1. CASE SelectBackend(c)
  BY <1>1, PreferredIsHealthy DEF SelectBackend, IsFirst, Usable
<1>2. CASE LookupBackendRoute(c)
  BY <1>2 DEF LookupBackendRoute, PhaseInv
<1> QED
  BY <1>1, <1>2

LEMMA NextType == TypeOK /\ RoutingInv /\ [Next]_vars => TypeOK'
<1> SUFFICES ASSUME TypeOK, RoutingInv, [Next]_vars PROVE TypeOK'
  OBVIOUS
<1>1. ASSUME NEW c \in Clients, SelectBackend(c) \/ LookupBackendRoute(c)
      PROVE  TypeOK'
  BY <1>1, ProxySteps, ProxyType DEF RoutingInv, ClientInv
<1>2. ASSUME NEW c \in Clients,
             \/ NoHealthyBackends(c) \/ BackendNotFound(c) \/ ListingFails(c)
             \/ BackendAnswers(c) \/ BackendFails(c) \/ PayloadRefused(c)
      PROVE  TypeOK'
  BY <1>2, ClientType DEF NoHealthyBackends, BackendNotFound, ListingFails, BackendAnswers, BackendFails,
     PayloadRefused
<1>3. CASE UNCHANGED vars
  BY <1>3 DEF vars, TypeOK, StoreTypeOK
<1> QED
  BY <1>1, <1>2, <1>3, ClientType, RegistryType, StopType DEF Next, RequestStep, HandlerStep
-----------------------------------------------------------------------------
(* The invariant: the registry's part.                                     *)

LEMMA RoutingInit == Init => RoutingInv
<1> SUFFICES ASSUME Init PROVE RoutingInv
  OBVIOUS
<1>1. IndexMatchesMeta /\ ServedIsObserved
  BY DEF Init, Registry!Init, Registry!StoreInit, IndexMatchesMeta, ServedIsObserved
<1>2. ASSUME NEW c \in Clients PROVE ClientInv(c)
  BY DEF Init, Registry!Init, ClientInv, PhaseInv, SeenHolds, SeenRead, GotObserved, Outcome, Routed,
     IsListing, NoRecords, Usable
<1> QED
  BY <1>1, <1>2 DEF RoutingInv

LEMMA RegistryInv ==
  ASSUME TypeOK, IndexMatchesMeta, ServedIsObserved, RegistryMoves
  PROVE  IndexMatchesMeta' /\ ServedIsObserved'
<1>1. ASSUME NEW id \in Ids, NEW status \in BackendStatus, SaveBackend(id, status),
             UNCHANGED <<serving, synced>>,
             serving /\ Usable(status) => status.observedAt = status.address
      PROVE  IndexMatchesMeta' /\ ServedIsObserved'
  <2>1. IndexMatchesMeta'
    BY <1>1, NoStatusAssumption DEF IndexMatchesMeta, SaveBackend, TypeOK, StoreTypeOK
  <2>2. ServedIsObserved'
    BY <1>1, NoStatusAssumption DEF ServedIsObserved, SaveBackend, Observed, Usable, TypeOK, StoreTypeOK
  <2> QED
    BY <2>1, <2>2
<1>2. ASSUME NEW id \in Ids, DeleteBackend(id), ~serving, UNCHANGED <<serving, synced>>
      PROVE  IndexMatchesMeta' /\ ServedIsObserved'
  BY <1>2 DEF IndexMatchesMeta, ServedIsObserved, DeleteBackend, TypeOK, StoreTypeOK
<1>3. ASSUME UNCHANGED storeVars, serving' = TRUE, synced' => \A id \in Ids : Observed(id)
      PROVE  IndexMatchesMeta' /\ ServedIsObserved'
  BY <1>3 DEF IndexMatchesMeta, ServedIsObserved, storeVars, Observed
<1> QED
  BY <1>1, <1>2, <1>3, RegistrySteps

\* While a request is listing, a step of the registry saves a record.
LEMMA RegistryClient ==
  ASSUME TypeOK, RoutingInv, RegistryMoves, NEW c \in Clients
  PROVE  ClientInv(c)'
<1>1. ClientInv(c) /\ UNCHANGED requestVars
  BY DEF RoutingInv, RegistryMoves
<1>2. CASE IsListing(c)
  <2>1. serving
    BY <1>1, <1>2 DEF ClientInv, PhaseInv, IsListing
  <2>2. PICK id \in Ids, status \in BackendStatus :
             SaveBackend(id, status) /\ UNCHANGED <<serving, synced>>
    BY <2>1, RegistrySteps
  <2>3. index \subseteq index'
    BY <2>2 DEF SaveBackend
  <2>4. /\ seen'[c].listed = seen[c].listed
        /\ \A i \in seen'[c].usable : i \in seen[c].usable /\ Usable(meta'[i])
        /\ \A i \in seen'[c].installed : i \in seen[c].installed /\ HasModel(meta'[i], want[c])
        /\ \A i \in seen'[c].loaded : i \in seen[c].loaded /\ HasLoaded(meta'[i], want[c])
    BY <1>2 DEF RegistryMoves, Watch, IsListing
  <2>5. SeenHolds(c)' /\ SeenRead(c)'
    BY <1>1, <2>3, <2>4 DEF ClientInv, SeenHolds, SeenRead, requestVars, IsListing
  <2>6. PhaseInv(c)' /\ GotObserved(c)'
    BY <1>1, <2>2 DEF ClientInv, PhaseInv, GotObserved, requestVars, IsListing
  <2>7. Outcome(c)'
    BY <1>1, <1>2 DEF ClientInv, PhaseInv, Outcome, Routed, requestVars, IsListing
  <2> QED
    BY <2>5, <2>6, <2>7 DEF ClientInv
<1>3. CASE ~IsListing(c)
  <2>1. seen'[c] = seen[c]
    BY <1>3 DEF RegistryMoves, Watch, IsListing
  <2>2. UNCHANGED <<serving, synced>> \/ (~serving /\ serving' = TRUE)
    BY RegistrySteps
  <2>3. PhaseInv(c)' /\ SeenHolds(c)' /\ SeenRead(c)'
    BY <1>1, <1>3, <2>2 DEF ClientInv, PhaseInv, SeenHolds, SeenRead, requestVars, IsListing
  <2>4. GotObserved(c)'
    BY <1>1, <1>3 DEF ClientInv, PhaseInv, GotObserved, requestVars, NoRecords, Usable
  <2>5. Outcome(c)'
    BY <1>1, <2>1, <2>2 DEF ClientInv, PhaseInv, Outcome, Routed, requestVars
  <2> QED
    BY <2>3, <2>4, <2>5 DEF ClientInv
<1> QED
  BY <1>2, <1>3

LEMMA StopInv ==
  ASSUME TypeOK, RoutingInv, ServerStops
  PROVE  RoutingInv'
<1>1. IndexMatchesMeta' /\ ServedIsObserved'
  BY DEF ServerStops, RequestsEnd, Registry!StopServing, Registry!storeVars, RoutingInv, IndexMatchesMeta, ServedIsObserved
<1>2. ASSUME NEW c \in Clients PROVE ClientInv(c)'
  BY DEF ServerStops, RequestsEnd, Registry!StopServing, ClientInv, PhaseInv, SeenHolds, SeenRead, GotObserved,
     Outcome, Routed, IsListing, NoRecords, Usable
<1> QED
  BY <1>1, <1>2 DEF RoutingInv
-----------------------------------------------------------------------------
(* The invariant: the steps of a request.                                  *)

\* A request that did not move, while the registry did not either.
LEMMA Frame ==
  ASSUME TypeOK, NEW c \in Clients, ClientInv(c), UNCHANGED registryVars,
         phase'[c] = phase[c], want'[c] = want[c], todo'[c] = todo[c], got'[c] = got[c],
         route'[c] = route[c], code'[c] = code[c], seen'[c] = seen[c]
  PROVE  ClientInv(c)'
BY DEF registryVars, ClientInv, PhaseInv, SeenHolds, SeenRead, GotObserved, Outcome, Routed, IsListing

\* A request that moved leaves the others alone.
LEMMA OthersInv ==
  ASSUME TypeOK, RoutingInv, UNCHANGED registryVars, NEW c \in Clients, ClientInv(c)',
         \A d \in Clients \ {c} :
            /\ phase'[d] = phase[d] /\ want'[d] = want[d] /\ todo'[d] = todo[d] /\ got'[d] = got[d]
            /\ route'[d] = route[d] /\ code'[d] = code[d] /\ seen'[d] = seen[d]
  PROVE  RoutingInv'
<1>1. \A d \in Clients \ {c} : ClientInv(d)'
  BY Frame DEF RoutingInv
<1>2. IndexMatchesMeta' /\ ServedIsObserved'
  BY DEF RoutingInv, IndexMatchesMeta, ServedIsObserved, Observed, registryVars
<1> QED
  BY <1>1, <1>2 DEF RoutingInv

LEMMA ListingInv ==
  ASSUME TypeOK, RoutingInv, NEW c \in Clients,
         \/ \E model \in Models : StartRouting(c, model)
         \/ \E id \in Ids : StartLookup(c, id)
  PROVE  RoutingInv'
<1>1. PICK wanted \in Models \union Ids, state \in {"selecting", "looking"} :
           /\ Listing(c, state, wanted)
           /\ state = "selecting" => wanted \in Models
           /\ state = "looking" => wanted \in Ids
  BY DEF StartRouting, StartLookup
<1>2. ClientInv(c) /\ UNCHANGED registryVars /\ serving /\ phase[c] = "idle"
  BY <1>1 DEF Listing, RoutingInv
<1>3. /\ phase'[c] = state /\ want'[c] = wanted /\ todo'[c] = index
      /\ got'[c] = NoRecords /\ code'[c] = 0
      /\ seen'[c] = [listed    |-> index,
                     usable    |-> {id \in Ids : Usable(meta[id])},
                     installed |-> {id \in Ids : HasModel(meta[id], wanted)},
                     loaded    |-> {id \in Ids : HasLoaded(meta[id], wanted)}]
  BY <1>1, <1>2 DEF Listing, TypeOK, ClientInv, PhaseInv, IsListing
<1>4. \A id \in Ids : Usable(meta[id]) => id \in index
  BY DEF RoutingInv, IndexMatchesMeta, Usable
<1>5. PhaseInv(c)' /\ SeenHolds(c)'
  BY <1>2, <1>3, <1>1 DEF PhaseInv, SeenHolds, IsListing, registryVars
<1>6. SeenRead(c)'
  BY <1>3, <1>4 DEF SeenRead, HasModel, HasLoaded
<1>7. GotObserved(c)' /\ Outcome(c)'
  BY <1>3, <1>1 DEF GotObserved, Outcome, Routed, NoRecords, Usable
<1> QED
  BY <1>1, <1>2, <1>5, <1>6, <1>7, OthersInv DEF Listing, TypeOK, ClientInv

LEMMA LoadInv ==
  ASSUME TypeOK, RoutingInv, NEW c \in Clients, LoadBackendStatus(c)
  PROVE  RoutingInv'
<1>1. PICK id \in Ids : /\ id \in todo[c]
                        /\ todo' = [todo EXCEPT ![c] = @ \ {id}]
                        /\ got' = [got EXCEPT ![c][id] = meta[id]]
  BY DEF LoadBackendStatus, IsFirst
<1>2. ClientInv(c) /\ UNCHANGED <<registryVars, phase, want, route, code, seen>>
  BY DEF LoadBackendStatus, RoutingInv
<1>3. IsListing(c)
  BY <1>1, <1>2 DEF ClientInv, PhaseInv
<1>4. PhaseInv(c)' /\ SeenHolds(c)' /\ Outcome(c)'
  BY <1>2, <1>3 DEF ClientInv, PhaseInv, SeenHolds, Outcome, Routed, IsListing, registryVars
<1>5. /\ todo'[c] = todo[c] \ {id}
      /\ got'[c][id] = meta[id]
      /\ \A other \in Ids \ {id} : got'[c][other] = got[c][other]
  BY <1>1 DEF TypeOK
<1>6. SeenRead(c)'
  <2>1. /\ seen[c].listed \subseteq Ids /\ seen[c].usable \subseteq Ids
        /\ seen[c].installed \subseteq Ids /\ seen[c].loaded \subseteq Ids
    BY DEF TypeOK, Seen
  <2>2. id \in seen[c].listed => meta[id] # NoStatus
    BY <1>2, <1>3 DEF ClientInv, SeenHolds, RoutingInv, IndexMatchesMeta
  <2>3. /\ \A i \in seen[c].listed : i \in todo'[c] \/ got'[c][i] # NoStatus
        /\ \A i \in seen[c].usable : i \in todo'[c] \/ Usable(got'[c][i])
    BY <1>2, <1>3, <1>5, <2>1, <2>2 DEF ClientInv, SeenHolds, SeenRead
  <2>4. /\ \A i \in seen[c].installed : i \in todo'[c] \/ HasModel(got'[c][i], want[c])
        /\ \A i \in seen[c].loaded : i \in todo'[c] \/ HasLoaded(got'[c][i], want[c])
    BY <1>2, <1>3, <1>5, <2>1 DEF ClientInv, SeenHolds, SeenRead
  <2> QED
    BY <1>2, <2>3, <2>4 DEF SeenRead
<1>7. GotObserved(c)'
  BY <1>2, <1>5 DEF ClientInv, GotObserved, RoutingInv, ServedIsObserved, Observed, Usable, registryVars
<1> QED
  BY <1>1, <1>2, <1>4, <1>6, <1>7, OthersInv DEF TypeOK, ClientInv

\* selectBackend prefers a loaded model to an installed one, and an
\* installed one to nothing.
LEMMA PreferredHas ==
  ASSUME TypeOK, NEW c \in Clients, NEW id \in Preferred(c), NEW best \in Ids
  PROVE  /\ HasLoaded(got[c][best], want[c]) => HasLoaded(got[c][id], want[c])
         /\ HasModel(got[c][best], want[c]) => HasModel(got[c][id], want[c])
BY DEF Preferred, Healthy, LoadedHits, ModelHits, HasLoaded, HasModel

LEMMA ProxyInv ==
  ASSUME TypeOK, RoutingInv, NEW c \in Clients, SelectBackend(c) \/ LookupBackendRoute(c)
  PROVE  RoutingInv'
<1>1. ClientInv(c)
  BY DEF RoutingInv
<1>2. PICK id \in Ids :
           /\ Proxy(c, id) /\ todo[c] = {} /\ got[c][id] # NoStatus
           /\ \/ phase[c] = "selecting" /\ id \in Preferred(c)
              \/ phase[c] = "looking" /\ id = want[c]
  BY <1>1, ProxySteps DEF ClientInv
<1>3. /\ phase'[c] = "proxying" /\ route'[c] = [id |-> id, status |-> got[c][id]]
      /\ got'[c] = NoRecords
      /\ UNCHANGED <<registryVars, want, todo, code, seen>>
  BY <1>2 DEF Proxy, TypeOK
<1>4. code[c] = 0 /\ serving
  BY <1>1, <1>2 DEF ClientInv, PhaseInv
<1>5. PhaseInv(c)' /\ SeenHolds(c)' /\ SeenRead(c)' /\ GotObserved(c)'
  BY <1>2, <1>3, <1>4 DEF PhaseInv, SeenHolds, SeenRead, GotObserved, IsListing, NoRecords, Usable, registryVars
<1>6. Outcome(c)'
  <2>1. CASE phase[c] = "selecting"
    <3>1. want[c] \in Models /\ want[c] \notin Ids
      BY <1>1, <2>1, WantsAssumption DEF ClientInv, PhaseInv
    <3>2. id \in Preferred(c) /\ Usable(got[c][id])
      BY <1>2, <2>1, PreferredIsHealthy
    <3>3. synced => got[c][id].healthy /\ got[c][id].observedAt = got[c][id].address
      BY <1>1, <3>2 DEF ClientInv, GotObserved, Usable
    <3>4. seen[c].loaded # {} => HasLoaded(got[c][id], want[c])
      BY <1>1, <1>2, <2>1, <3>2, PreferredHas DEF ClientInv, SeenRead, IsListing, TypeOK, Seen
    <3>5. seen[c].installed # {} => HasModel(got[c][id], want[c])
      BY <1>1, <1>2, <2>1, <3>2, PreferredHas DEF ClientInv, SeenRead, IsListing, TypeOK, Seen
    <3> QED
      BY <1>3, <1>4, <3>1, <3>3, <3>4, <3>5 DEF Outcome, registryVars
  <2>2. CASE phase[c] = "looking"
    <3>1. want[c] \in Ids /\ want[c] \notin Models /\ id = want[c]
      BY <1>1, <1>2, <2>2, WantsAssumption DEF ClientInv, PhaseInv
    <3> QED
      BY <1>3, <1>4, <3>1 DEF Outcome, Routed
  <2> QED
    BY <1>2, <2>1, <2>2
<1> QED
  BY <1>2, <1>3, <1>5, <1>6, OthersInv DEF Proxy, TypeOK, ClientInv
LEMMA AnswerInv ==
  ASSUME TypeOK, RoutingInv, NEW c \in Clients,
         \/ NoHealthyBackends(c) \/ BackendNotFound(c) \/ ListingFails(c)
         \/ BackendAnswers(c) \/ BackendFails(c) \/ PayloadRefused(c)
  PROVE  RoutingInv'
<1>1. PICK status \in {200, 404, 413, 502, 503} :
           /\ Answer(c, status)
           /\ phase[c] # "idle"
           /\ status = 503 => phase[c] = "selecting" /\ todo[c] = {} /\ Healthy(c) = {}
           /\ status = 404 => phase[c] = "looking" /\ todo[c] = {} /\ got[c][want[c]] = NoStatus
  BY DEF NoHealthyBackends, BackendNotFound, ListingFails, BackendAnswers, BackendFails,
     PayloadRefused
<1>2. ClientInv(c) /\ serving
  BY <1>1 DEF RoutingInv, ClientInv, PhaseInv
<1>3. /\ phase'[c] = "done" /\ code'[c] = status /\ todo'[c] = {} /\ got'[c] = NoRecords
      /\ UNCHANGED <<registryVars, want, route, seen>>
  BY <1>1 DEF Answer, TypeOK
<1>4. PhaseInv(c)' /\ SeenHolds(c)' /\ SeenRead(c)' /\ GotObserved(c)'
  BY <1>2, <1>3 DEF PhaseInv, SeenHolds, SeenRead, GotObserved, IsListing, NoRecords, Usable, registryVars
<1>5. status = 503 => seen[c].usable = {}
  BY <1>1, <1>2 DEF ClientInv, SeenRead, IsListing, Healthy, TypeOK, Seen
<1>6. status = 404 => want[c] \notin seen[c].listed
  BY <1>1, <1>2 DEF ClientInv, SeenRead, IsListing
<1>7. Outcome(c)'
  BY <1>3, <1>5, <1>6 DEF Outcome, Routed
<1> QED
  BY <1>1, <1>3, <1>4, <1>7, OthersInv DEF Answer, TypeOK, ClientInv

LEMMA FinishInv ==
  ASSUME TypeOK, RoutingInv, NEW c \in Clients, Finish(c)
  PROVE  RoutingInv'
<1>1. /\ phase'[c] = "idle" /\ code'[c] = 0
      /\ todo'[c] = {} /\ got'[c] = NoRecords
      /\ UNCHANGED registryVars
  BY DEF Finish, TypeOK, RoutingInv, ClientInv, PhaseInv, IsListing
<1>2. ClientInv(c)'
  BY <1>1 DEF ClientInv, PhaseInv, SeenHolds, SeenRead, GotObserved, Outcome, Routed, IsListing,
     NoRecords, Usable
<1> QED
  BY <1>1, <1>2, OthersInv DEF Finish, TypeOK

LEMMA RoutingStep == TypeOK /\ RoutingInv /\ [Next]_vars => RoutingInv'
<1> SUFFICES ASSUME TypeOK, RoutingInv, [Next]_vars PROVE RoutingInv'
  OBVIOUS
<1>1. CASE RegistryMoves
  BY <1>1, RegistryInv, RegistryClient DEF RoutingInv
<1>2. CASE UNCHANGED vars
  <2>1. \A c \in Clients : ClientInv(c)'
    BY <1>2, Frame DEF RoutingInv, vars, registryVars
  <2> QED
    BY <1>2, <2>1 DEF RoutingInv, IndexMatchesMeta, ServedIsObserved, Observed, vars
<1> QED
  BY <1>1, <1>2, StopInv, ListingInv, LoadInv, ProxyInv, AnswerInv, FinishInv DEF Next, RequestStep, HandlerStep

-----------------------------------------------------------------------------
(* What follows from the invariant.                                        *)

THEOREM Inductive == Spec => [](TypeOK /\ RoutingInv)
<1>1. Init => TypeOK /\ RoutingInv
  BY InitType, RoutingInit
<1>2. TypeOK /\ RoutingInv /\ [Next]_vars => TypeOK' /\ RoutingInv'
  BY NextType, RoutingStep
<1> QED
  BY <1>1, <1>2, PTL DEF Spec

(***************************************************************************)
(* Every state of the registry and the requests is well typed; no request  *)
(* is ever given a route without an address.                               *)
(***************************************************************************)
THEOREM TypeCorrect == Spec => []TypeOK
  BY Inductive, PTL

(***************************************************************************)
(* A synchronised server proxies LLM requests only to addresses that have  *)
(* answered a ping.                                                        *)
(***************************************************************************)
THEOREM RoutesToObserved == Spec => []RoutedToObserved
<1>1. RoutingInv => RoutedToObserved
  BY DEF RoutingInv, ClientInv, Outcome, RoutedToObserved
<1> QED
  BY <1>1, Inductive, PTL

(***************************************************************************)
(* A backend that kept the model loaded, or installed, is not passed over  *)
(* for one without.                                                        *)
(***************************************************************************)
THEOREM RoutesToModel == Spec => []PrefersModel
<1>1. RoutingInv => PrefersModel
  BY DEF RoutingInv, ClientInv, Outcome, PrefersModel
<1> QED
  BY <1>1, Inductive, PTL

(***************************************************************************)
(* No request is refused while a backend stays healthy.                    *)
(***************************************************************************)
THEOREM NoSpuriousRefusal == Spec => []UnavailableOnlyIfUnhealthy
<1>1. RoutingInv => UnavailableOnlyIfUnhealthy
  BY DEF RoutingInv, ClientInv, Outcome, UnavailableOnlyIfUnhealthy
<1> QED
  BY <1>1, Inductive, PTL

(***************************************************************************)
(* A registered backend is found, and only that one is used.               *)
(***************************************************************************)
THEOREM LookupsFind == Spec => []LookupFindsRegistered
<1>1. RoutingInv => LookupFindsRegistered
  BY DEF RoutingInv, ClientInv, Outcome, LookupFindsRegistered
<1> QED
  BY <1>1, Inductive, PTL

-----------------------------------------------------------------------------
(* What of ListingEnds is a matter of safety.                              *)

FiniteInv ==
    /\ IsFiniteSet(index)
    /\ \A c \in Clients : IsFiniteSet(todo[c])

\* The calls a listing has still to make, and the decision.
ListingWork(c) == Cardinality(todo[c]) + (IF IsListing(c) THEN 1 ELSE 0)

\* A listing is as long as the index was, and each step of its handler makes it
\* shorter; nobody makes it longer.
ListingRunsOut ==
    \A c \in Clients :
        /\ ListingWork(c) \in Nat
        /\ ~IsListing(c) => ListingWork(c)' <= Cardinality(index) + 1
        /\ IsListing(c) => ListingWork(c)' <= ListingWork(c)
        /\ HandlerStep(c) => ListingWork(c)' < ListingWork(c)

\* The guard of a step of HandlerStep holds for c: a record to load, a backend
\* to take or none, the backend named or not.
Decides(c) ==
    \/ \E id \in Ids : IsFirst(id, todo[c])
    \/ /\ phase[c] = "selecting" /\ todo[c] = {}
       /\ Healthy(c) = {} \/ \E id \in Ids : IsFirst(id, Preferred(c))
    \/ phase[c] = "looking" /\ todo[c] = {}

AllDecide == \A c \in Clients : IsListing(c) => Decides(c)

\* A set of IDs that is not empty has a first one in the order of ZRANGE.
LEMMA SomeFirst ==
  ASSUME NEW S \in SUBSET Ids, S # {}
  PROVE  \E id \in Ids : IsFirst(id, S)
<1> DEFINE Less == OpToRel(<, Nat)
<1>1. IsWellFoundedOn(Less, Nat)
  BY ONLY NatLessThanWellFounded
<1>2. \A m, n \in Nat : n < m => <<n, m>> \in Less
  BY SMT DEF OpToRel
<1> HIDE DEF Less
<1>3. S \subseteq Nat
  BY IdsAssumption
<1>4. \E m \in S : \A n \in S : ~ (<<n, m>> \in Less)
  BY <1>1, <1>3, WFMin
<1>5. PICK m \in S : \A n \in S : ~ (<<n, m>> \in Less)
  BY <1>4
<1>6. \A n \in S : ~ (n < m)
  BY <1>2, <1>3, <1>5, Zenon
<1> QED
  BY <1>3, <1>6 DEF IsFirst

(***************************************************************************)
(* A request that has listed the registry gets an answer from what it      *)
(* read: as long as any backend in it is healthy, one is preferred, and    *)
(* the preferred ones have a first.                                        *)
(***************************************************************************)
THEOREM EveryListingDecides == Spec => []AllDecide
<1>1. TypeOK => AllDecide
  <2> SUFFICES ASSUME TypeOK, NEW c \in Clients, IsListing(c) PROVE Decides(c)
    BY DEF AllDecide
  <2>1. todo[c] # {} => \E id \in Ids : IsFirst(id, todo[c])
    BY SomeFirst DEF TypeOK
  <2>2. Preferred(c) \in SUBSET Ids /\ (Healthy(c) # {} => Preferred(c) # {})
    BY DEF Preferred, LoadedHits, ModelHits, Healthy
  <2>3. Healthy(c) # {} => \E id \in Ids : IsFirst(id, Preferred(c))
    BY <2>2, SomeFirst
  <2> QED
    BY <2>1, <2>3 DEF Decides, IsListing
<1> QED
  BY <1>1, TypeCorrect, PTL

\* A step leaves a request as it is, is a step of its handler, ends it or
\* begins it.
LEMMA Moves ==
  ASSUME TypeOK, RoutingInv, [Next]_vars, NEW c \in Clients
  PROVE  \/ phase'[c] = phase[c] /\ todo'[c] = todo[c]
         \/ HandlerStep(c)
         \/ phase'[c] \in {"idle", "done"} /\ todo'[c] = {}
         \/ phase[c] = "idle" /\ todo'[c] = index
<1> USE DEF TypeOK
<1>1. CASE RegistryMoves \/ UNCHANGED vars
  BY <1>1 DEF RegistryMoves, requestVars, vars
<1>2. CASE ServerStops
  BY <1>2 DEF ServerStops, RequestsEnd
<1>3. ASSUME NEW d \in Clients,
             (\E model \in Models : StartRouting(d, model)) \/ (\E id \in Ids : StartLookup(d, id))
      PROVE  \/ phase'[c] = phase[c] /\ todo'[c] = todo[c]
             \/ phase[c] = "idle" /\ todo'[c] = index
  BY <1>3 DEF StartRouting, StartLookup, Listing
<1>4. ASSUME NEW d \in Clients \ {c}, HandlerStep(d)
      PROVE  phase'[c] = phase[c] /\ todo'[c] = todo[c]
  BY <1>4 DEF HandlerStep, LoadBackendStatus, SelectBackend, NoHealthyBackends, LookupBackendRoute,
              BackendNotFound, Proxy, Answer
<1>5. ASSUME NEW d \in Clients,
             ListingFails(d) \/ BackendAnswers(d) \/ BackendFails(d) \/ PayloadRefused(d)
      PROVE  \/ phase'[c] = phase[c] /\ todo'[c] = todo[c]
             \/ phase'[c] \in {"idle", "done"} /\ todo'[c] = {}
  BY <1>5 DEF ListingFails, BackendAnswers, BackendFails, PayloadRefused, Answer
<1>6. ASSUME NEW d \in Clients, Finish(d)
      PROVE  \/ phase'[c] = phase[c] /\ todo'[c] = todo[c]
             \/ phase'[c] \in {"idle", "done"} /\ todo'[c] = {}
  BY <1>6 DEF Finish, RoutingInv, ClientInv, PhaseInv, IsListing
<1> QED
  BY <1>1, <1>2, <1>3, <1>4, <1>5, <1>6 DEF Next, RequestStep

\* What Redis and the requests hold stays finite.
LEMMA MemoryIsFinite == Spec => []FiniteInv
<1>1. Init => FiniteInv
  BY FS_EmptySet DEF Init, Registry!Init, Registry!StoreInit, FiniteInv
<1>2. TypeOK /\ RoutingInv /\ FiniteInv /\ [Next]_vars => FiniteInv'
  <2> SUFFICES ASSUME TypeOK, RoutingInv, FiniteInv, [Next]_vars PROVE FiniteInv'
    OBVIOUS
  <2>1. IsFiniteSet(index')
    <3>1. CASE RegistryMoves
      <4>1. \/ \E id \in Ids : index' \in {index \union {id}, index \ {id}}
            \/ index' = index
        BY <3>1, RegistrySteps DEF SaveBackend, DeleteBackend, storeVars
      <4> QED
        BY <4>1, FS_AddElement, FS_RemoveElement DEF FiniteInv
    <3>2. CASE ~RegistryMoves
      <4>1. index' = index
        BY <3>2 DEF Next, RequestStep, vars, ServerStops, RequestsEnd, Registry!StopServing, Registry!storeVars, registryVars,
                    StartRouting, StartLookup, Listing, HandlerStep, LoadBackendStatus, SelectBackend,
                    NoHealthyBackends, LookupBackendRoute, BackendNotFound, Proxy, Answer,
                    ListingFails, BackendAnswers, BackendFails, PayloadRefused, Finish
      <4> QED
        BY <4>1 DEF FiniteInv
    <3> QED
      BY <3>1, <3>2
  <2>2. ASSUME NEW c \in Clients PROVE IsFiniteSet(todo'[c])
    <3>1. ASSUME HandlerStep(c) PROVE todo'[c] \subseteq todo[c]
      BY <3>1 DEF HandlerStep, LoadBackendStatus, SelectBackend, NoHealthyBackends,
                  LookupBackendRoute, BackendNotFound, Proxy, Answer, TypeOK
    <3>2. todo'[c] \subseteq todo[c] \/ todo'[c] = index
      BY <3>1, Moves
    <3>3. IsFiniteSet(todo[c]) /\ IsFiniteSet(index)
      BY DEF FiniteInv
    <3> QED
      BY <3>2, <3>3, FS_Subset
  <2> QED
    BY <2>1, <2>2 DEF FiniteInv
<1> QED
  BY <1>1, <1>2, Inductive, PTL DEF Spec

(***************************************************************************)
(* A listing takes at most one call for each backend that was registered   *)
(* when it began and then decides, however often records are saved         *)
(* meanwhile.  With EveryListingDecides, only fairness is missing of       *)
(* ListingEnds.                                                            *)
(***************************************************************************)
THEOREM ListingsRunOut == Spec => [][ListingRunsOut]_vars
<1>1. TypeOK /\ RoutingInv /\ FiniteInv /\ FiniteInv' /\ [Next]_vars => ListingRunsOut
  <2> SUFFICES ASSUME TypeOK, RoutingInv, FiniteInv, FiniteInv', [Next]_vars, NEW c \in Clients
               PROVE  /\ ListingWork(c) \in Nat
                      /\ ~IsListing(c) => ListingWork(c)' <= Cardinality(index) + 1
                      /\ IsListing(c) => ListingWork(c)' <= ListingWork(c)
                      /\ HandlerStep(c) => ListingWork(c)' < ListingWork(c)
    BY DEF ListingRunsOut
  <2>1. /\ Cardinality(index) \in Nat /\ Cardinality(todo[c]) \in Nat
        /\ Cardinality(todo'[c]) \in Nat
    BY FS_CardinalityType DEF FiniteInv
  <2>2. ListingWork(c) \in Nat /\ ListingWork(c)' \in Nat
    BY <2>1 DEF ListingWork
  <2>3. PhaseInv(c)
    BY DEF RoutingInv, ClientInv
  <2>4. ASSUME HandlerStep(c) PROVE IsListing(c) /\ ListingWork(c)' < ListingWork(c)
    <3>1. CASE LoadBackendStatus(c)
      <4>1. PICK id \in todo[c] : todo'[c] = todo[c] \ {id} /\ phase'[c] = phase[c]
        BY <3>1 DEF LoadBackendStatus, IsFirst, TypeOK
      <4>2. Cardinality(todo'[c]) = Cardinality(todo[c]) - 1
        BY <4>1, FS_RemoveElement DEF FiniteInv
      <4>3. IsListing(c) /\ IsListing(c)'
        BY <2>3, <4>1 DEF PhaseInv, IsListing
      <4> QED
        BY <2>1, <4>2, <4>3 DEF ListingWork
    <3>2. CASE ~LoadBackendStatus(c)
      <4>1. IsListing(c) /\ ~IsListing(c)' /\ todo[c] = {} /\ todo'[c] = {}
        BY <2>4, <3>2 DEF HandlerStep, SelectBackend, NoHealthyBackends, LookupBackendRoute,
                          BackendNotFound, Proxy, Answer, IsListing, TypeOK
      <4> QED
        BY <4>1, FS_EmptySet DEF ListingWork
    <3> QED
      BY <3>1, <3>2
  <2>5. ASSUME phase'[c] \in {"idle", "done"}, todo'[c] = {} PROVE ListingWork(c)' = 0
    BY <2>5, FS_EmptySet DEF ListingWork, IsListing
  <2>6. ASSUME phase'[c] = phase[c], todo'[c] = todo[c] PROVE ListingWork(c)' = ListingWork(c)
    BY <2>6 DEF ListingWork, IsListing
  <2>7. IsListing(c) => ListingWork(c)' <= ListingWork(c)
    BY <2>2, <2>4, <2>5, <2>6, Moves DEF IsListing
  <2>8. ~IsListing(c) => ListingWork(c)' <= Cardinality(index) + 1
    <3>1. ~IsListing(c) => ListingWork(c) = 0
      BY <2>3, FS_EmptySet DEF PhaseInv, ListingWork
    <3>2. todo'[c] = index => ListingWork(c)' <= Cardinality(index) + 1
      BY <2>1 DEF ListingWork
    <3> QED
      BY <2>1, <2>4, <2>5, <2>6, <3>1, <3>2, Moves
  <2> QED
    BY <2>2, <2>4, <2>7, <2>8
<1> QED
  BY <1>1, Inductive, MemoryIsFinite, PTL DEF Spec
=============================================================================
