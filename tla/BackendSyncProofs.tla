-------------------------- MODULE BackendSyncProofs --------------------------
(***************************************************************************)
(* Proofs of the safety properties of BackendSync, for any number of       *)
(* backends, addresses, models, workers and configurations.                *)
(***************************************************************************)
EXTENDS BackendService, SequenceTheorems, FiniteSetTheorems, TLAPS

(***************************************************************************)
(* The inductive invariant, part by part.                                  *)
(***************************************************************************)

\* A new start has not been synchronised yet.
NotYetSynced ==
    pc[Server] \in {"register", "sync", "ps", "save"} => ~bootSynced

\* During the synchronisation at start, a record without evidence is one the
\* server has still to load or to ping.
UnobservedPending ==
    pc[Server] \in {"sync", "ps", "save"} =>
        \A id \in Ids : Observed(id) \/ id \in todo[Server] \/ id \in Held(Server)

ObservedInv ==
    /\ IndexMatchesMeta
    /\ NotYetSynced
    /\ UnobservedPending
    /\ HealthIsObserved

\* Once RegisterBackends has returned, every definition has been handled.
AllHandled == Registered => pos = Len(conf) + 1

HandledRegistered == \A def \in Handled : def.id \in index

\* While the server registers, a busy worker has a listing from before.
BusyAreStale ==
    pc[Server] = "register" => \A w \in Workers : pc[w] # "idle" => w \in stale

IdleHoldNothing ==
    \A w \in Workers : pc[w] = "idle" => todo[w] = {} /\ got[w] = NoRecords

HandledAddresses ==
    pc[Server] # "down" /\ ~overlap =>
        \A def \in Handled : meta[def.id].address = def.address

\* While the server registers, a listed ID is one it has still to load, one
\* it holds, or a backend it has just saved.
ListedIsKnown ==
    pc[Server] = "register" /\ ~overlap =>
        \A id \in index : id \in todo[Server] \/ id \in Held(Server) \/ id \in Desired

\* Afterwards every listed backend is a configured one ...
ListedIsDesired == Registered /\ ~overlap => index \subseteq Desired

\* ... and what a process that listed since then holds has the address that
\* is in force.
HeldAddresses ==
    Registered /\ ~overlap =>
        \A p \in Procs \ stale : \A id \in Held(p) :
            id \in index /\ got[p][id].address = meta[id].address

ConfigInv ==
    /\ AllHandled
    /\ HandledRegistered
    /\ BusyAreStale
    /\ IdleHoldNothing
    /\ HandledAddresses
    /\ ListedIsKnown
    /\ ListedIsDesired
    /\ HeldAddresses

-----------------------------------------------------------------------------
(* Type correctness.                                                       *)

\* The definitions of the configuration in force.
LEMMA ConfIsSeq ==
  ASSUME TypeOK
  PROVE  /\ conf \in Seq(BackendDefinition)
         /\ Len(conf) \in Nat
         /\ \A i \in 1..Len(conf) : conf[i] \in BackendDefinition
<1>1. conf \in Seq(BackendDefinition)
  <2>1. <<>> \in Seq(BackendDefinition)
    OBVIOUS
  <2> QED
    BY <2>1, ConfigsAssumption DEF TypeOK
<1> QED
  BY <1>1, ElementOfSeq, LenProperties

\* A definition RegisterBackends does not refuse has an id and an address.
LEMMA AcceptedDefinition ==
  ASSUME TypeOK, pos <= Len(conf), ~Refused
  PROVE  /\ pos \in 1..Len(conf)
         /\ conf[pos].id \in Ids
         /\ conf[pos].address \in Addresses
<1>1. pos \in 1..Len(conf)
  BY ConfIsSeq DEF TypeOK
<1>2. conf[pos] \in BackendDefinition
  BY <1>1, ConfIsSeq
<1> QED
  BY <1>1, <1>2 DEF Refused, BackendDefinition

LEMMA ConfiguredType ==
  ASSUME TypeOK, NEW def, def.id \in Ids, def.address \in Addresses
  PROVE  Configured(def) \in BackendStatus
<1>1. got[Server][def.id] \in BackendStatus \union {NoStatus}
  BY DEF TypeOK, Procs
<1> QED
  BY <1>1 DEF Configured, BackendStatus

LEMMA RefreshedType ==
  ASSUME NEW status \in BackendStatus, NEW answer \in Reply
  PROVE  Refreshed(status, answer) \in BackendStatus
BY DEF Refreshed, BackendStatus, Reply

LEMMA SaveType ==
  ASSUME StoreTypeOK, NEW id \in Ids, NEW status \in BackendStatus, SaveBackend(id, status)
  PROVE  StoreTypeOK'
BY DEF StoreTypeOK, SaveBackend

\* The in-memory state of a process that starts to list, or stops.
LEMMA ListingType ==
  ASSUME TypeOK, NEW p \in Procs, NEW state, Listing(p, state)
  PROVE  /\ todo' \in [Procs -> SUBSET Ids]
         /\ got' \in [Procs -> [Ids -> BackendStatus \union {NoStatus}]]
         /\ reply' \in [Procs -> Reply]
BY DEF TypeOK, StoreTypeOK, Listing, NoRecords, Failed, Reply

LEMMA StopType ==
  ASSUME TypeOK, NEW p \in Procs, NEW state, Stop(p, state)
  PROVE  /\ todo' \in [Procs -> SUBSET Ids]
         /\ got' \in [Procs -> [Ids -> BackendStatus \union {NoStatus}]]
         /\ reply' \in [Procs -> Reply]
BY DEF TypeOK, Stop, NoRecords, Failed, Reply

\* pc keeps its type when one process moves to a state of its kind.
LEMMA PcType ==
  ASSUME TypeOK, NEW p \in Procs, NEW state, pc' = [pc EXCEPT ![p] = state],
         p = Server => state \in ServerStates,
         p # Server => state \in WorkerStates
  PROVE  /\ pc' \in [Procs -> ServerStates \union WorkerStates]
         /\ pc'[Server] \in ServerStates
         /\ \A w \in Workers : pc'[w] \in WorkerStates
BY ServerAssumption DEF TypeOK, Procs

LEMMA InitType == Init => TypeOK
<1> SUFFICES ASSUME Init PROVE TypeOK
  OBVIOUS
<1>1. StoreTypeOK
  BY DEF Init, StoreInit, StoreTypeOK
<1>2. /\ pc \in [Procs -> ServerStates \union WorkerStates]
      /\ pc[Server] \in ServerStates
      /\ \A w \in Workers : pc[w] \in WorkerStates
  BY ServerAssumption DEF Init, Procs, ServerStates, WorkerStates
<1>3. /\ todo \in [Procs -> SUBSET Ids]
      /\ got \in [Procs -> [Ids -> BackendStatus \union {NoStatus}]]
      /\ reply \in [Procs -> Reply]
  BY DEF Init, NoRecords, Reply, Failed
<1>4. conf \in Configs \union {<<>>} /\ pos \in 1..(Len(conf) + 1)
  BY DEF Init
<1> QED
  BY <1>1, <1>2, <1>3, <1>4 DEF TypeOK, Init

LEMMA SyncStepType ==
  ASSUME TypeOK, NEW p \in Procs, SyncStep(p)
  PROVE  TypeOK'
<1> USE DEF confVars, historyVars, storeVars, procVars
<1>1. CASE LoadBackendStatus(p)
  BY <1>1 DEF TypeOK, StoreTypeOK, LoadBackendStatus
<1>2. CASE ListFails(p)
  <2>1. /\ pc' = [pc EXCEPT ![p] = "save"]
        /\ reply' \in [Procs -> Reply]
    BY <1>2 DEF ListFails, TypeOK, Failed, Reply
  <2> QED
    BY <1>2, <2>1, PcType DEF TypeOK, StoreTypeOK, ListFails, ServerStates, WorkerStates
<1>3. ASSUME NEW installed \in SUBSET Models, List(p, installed)
      PROVE  TypeOK'
  <2>1. /\ pc' = [pc EXCEPT ![p] = "ps"]
        /\ reply' \in [Procs -> Reply]
    BY <1>3 DEF List, TypeOK, Reply
  <2> QED
    BY <1>3, <2>1, PcType DEF TypeOK, StoreTypeOK, List, ServerStates, WorkerStates
<1>4. ASSUME NEW running \in SUBSET Models, ListRunning(p, running)
      PROVE  TypeOK'
  <2>1. /\ pc' = [pc EXCEPT ![p] = "save"]
        /\ reply' \in [Procs -> Reply]
    BY <1>4 DEF ListRunning, TypeOK, Reply
  <2> QED
    BY <1>4, <2>1, PcType DEF TypeOK, StoreTypeOK, ListRunning, ServerStates, WorkerStates
<1>5. CASE SaveRefreshed(p)
  <2>1. PICK id \in Ids : /\ IsFirst(id, Held(p))
                          /\ SaveBackend(id, Refreshed(got[p][id], reply[p]))
                          /\ got' = [got EXCEPT ![p][id] = NoStatus]
    BY <1>5 DEF SaveRefreshed
  <2>2. got[p][id] \in BackendStatus /\ reply[p] \in Reply
    BY <2>1 DEF TypeOK, IsFirst, Held
  <2>3. StoreTypeOK'
    BY <2>1, <2>2, RefreshedType, SaveType DEF TypeOK
  <2>4. /\ pc' = [pc EXCEPT ![p] = "sync"]
        /\ reply' \in [Procs -> Reply]
        /\ got' \in [Procs -> [Ids -> BackendStatus \union {NoStatus}]]
    BY <1>5, <2>1 DEF SaveRefreshed, TypeOK, Failed, Reply
  <2> QED
    BY <1>5, <2>3, <2>4, PcType DEF TypeOK, SaveRefreshed, ServerStates, WorkerStates
<1> QED
  BY <1>1, <1>2, <1>3, <1>4, <1>5 DEF SyncStep
LEMMA NextType == TypeOK /\ [Next]_vars => TypeOK'
<1> SUFFICES ASSUME TypeOK, [Next]_vars PROVE TypeOK'
  OBVIOUS
<1> USE DEF confVars, historyVars, storeVars, procVars
<1>s. Server \in Procs /\ Workers \subseteq Procs /\ Server \notin Workers
  BY ServerAssumption DEF Procs
<1>1. ASSUME NEW c \in Configs, Boot(c)
      PROVE  TypeOK'
  <2>1. pc' = [pc EXCEPT ![Server] = "register"]
    BY <1>1 DEF Boot, Listing
  <2>2. pos' \in 1..(Len(conf') + 1)
    BY <1>1, ConfigsAssumption, LenProperties DEF Boot
  <2> QED
    BY <1>s, <1>1, <2>1, <2>2, ListingType, PcType DEF TypeOK, StoreTypeOK, Boot, ServerStates
<1>2. CASE Seed
  <2>1. /\ conf[pos].id \in Ids
        /\ Configured(conf[pos]) \in BackendStatus
        /\ pos' \in 1..(Len(conf') + 1)
    BY <1>2, AcceptedDefinition, ConfiguredType, ConfIsSeq DEF Seed
  <2>2. StoreTypeOK'
    BY <1>2, <2>1, SaveType DEF Seed, TypeOK
  <2> QED
    BY <1>2, <2>1, <2>2 DEF Seed, TypeOK
<1>3. CASE Reject
  <2>1. Stop(Server, "down") /\ pc' = [pc EXCEPT ![Server] = "down"]
    BY <1>3 DEF Reject, Stop
  <2> QED
    BY <1>s, <1>3, <2>1, StopType, PcType DEF TypeOK, StoreTypeOK, Reject, ServerStates
<1>4. ASSUME NEW id \in Ids, Prune(id)
      PROVE  TypeOK'
  BY <1>4 DEF TypeOK, StoreTypeOK, Prune, DeleteBackend
<1>5. CASE StartBootSync
  <2>1. Listing(Server, "sync") /\ pc' = [pc EXCEPT ![Server] = "sync"]
    BY <1>5 DEF StartBootSync, Listing
  <2> QED
    BY <1>s, <1>5, <2>1, ListingType, PcType DEF TypeOK, StoreTypeOK, StartBootSync, ServerStates
<1>6. ASSUME NEW p \in Procs, SyncStep(p)
      PROVE  TypeOK'
  BY <1>6, SyncStepType
<1>7. CASE EndBootSync
  <2>1. Stop(Server, "serving") /\ pc' = [pc EXCEPT ![Server] = "serving"]
    BY <1>7 DEF EndBootSync, Stop
  <2> QED
    BY <1>s, <1>7, <2>1, StopType, PcType DEF TypeOK, StoreTypeOK, EndBootSync, ServerStates
<1>8. CASE BootSyncFails
  <2>1. Stop(Server, "serving") /\ pc' = [pc EXCEPT ![Server] = "serving"]
    BY <1>8 DEF BootSyncFails, Stop
  <2> QED
    BY <1>s, <1>8, <2>1, StopType, PcType DEF TypeOK, StoreTypeOK, BootSyncFails, ServerStates
<1>9. CASE ServerStops
  <2>1. Stop(Server, "down") /\ pc' = [pc EXCEPT ![Server] = "down"]
    BY <1>9 DEF ServerStops, Stop
  <2> QED
    BY <1>s, <1>9, <2>1, StopType, PcType DEF TypeOK, StoreTypeOK, ServerStops, ServerStates
<1>10. ASSUME NEW w \in Workers, StartSyncAll(w)
       PROVE  TypeOK'
  <2>1. Listing(w, "sync") /\ pc' = [pc EXCEPT ![w] = "sync"]
    BY <1>10 DEF StartSyncAll, Listing
  <2>2. stale' \in SUBSET Workers
    BY <1>10 DEF StartSyncAll, TaskBegins, TypeOK
  <2> QED
    BY <1>s, <1>10, <2>1, <2>2, ListingType, PcType DEF TypeOK, StoreTypeOK, StartSyncAll, WorkerStates
<1>11. ASSUME NEW w \in Workers, NEW id \in Ids, StartSyncOne(w, id)
       PROVE  TypeOK'
  <2>1. pc' = [pc EXCEPT ![w] = "sync"]
    BY <1>11 DEF StartSyncOne
  <2>2. stale' \in SUBSET Workers
    BY <1>11 DEF StartSyncOne, TaskBegins, TypeOK
  <2> QED
    BY <1>s, <1>11, <2>1, <2>2, PcType DEF TypeOK, StoreTypeOK, StartSyncOne, WorkerStates
<1>12. ASSUME NEW w \in Workers, EndTask(w)
       PROVE  TypeOK'
  <2>1. Stop(w, "idle") /\ pc' = [pc EXCEPT ![w] = "idle"]
    BY <1>12 DEF EndTask, Stop
  <2> QED
    BY <1>s, <1>12, <2>1, StopType, PcType DEF TypeOK, StoreTypeOK, EndTask, WorkerStates
<1>13. ASSUME NEW w \in Workers, TaskAborts(w)
       PROVE  TypeOK'
  <2>1. Stop(w, "idle") /\ pc' = [pc EXCEPT ![w] = "idle"]
    BY <1>13 DEF TaskAborts, Stop
  <2> QED
    BY <1>s, <1>13, <2>1, StopType, PcType DEF TypeOK, StoreTypeOK, TaskAborts, WorkerStates
<1>14. CASE UNCHANGED vars
  BY <1>14 DEF vars, TypeOK, StoreTypeOK
<1> QED
  BY <1>s, <1>1, <1>2, <1>3, <1>4, <1>5, <1>6, <1>7, <1>8, <1>9, <1>10, <1>11,
     <1>12, <1>13, <1>14 DEF Next, ServerStep, TaskStep

(***************************************************************************)
(* The registry, and what the processes hold of it, stay well typed.       *)
(***************************************************************************)
THEOREM TypeCorrect == Spec => []TypeOK
BY InitType, NextType, PTL DEF Spec
-----------------------------------------------------------------------------
(* The sorted set and the hashes.                                          *)

\* What SaveRefreshed saves, and where.
LEMMA SavedRecord ==
  ASSUME TypeOK, NEW p \in Procs, SaveRefreshed(p)
  PROVE  \E id \in Ids : /\ IsFirst(id, Held(p))
                         /\ id \in Held(p)
                         /\ got[p][id] \in BackendStatus
                         /\ Refreshed(got[p][id], reply[p]) \in BackendStatus
                         /\ SaveBackend(id, Refreshed(got[p][id], reply[p]))
                         /\ got' = [got EXCEPT ![p][id] = NoStatus]
<1>1. PICK id \in Ids : /\ IsFirst(id, Held(p))
                        /\ SaveBackend(id, Refreshed(got[p][id], reply[p]))
                        /\ got' = [got EXCEPT ![p][id] = NoStatus]
  BY DEF SaveRefreshed
<1>2. id \in Held(p)
  BY <1>1 DEF IsFirst
<1>3. got[p][id] \in BackendStatus /\ reply[p] \in Reply
  BY <1>2 DEF TypeOK, Held
<1> QED
  BY <1>1, <1>2, <1>3, RefreshedType

\* Only three kinds of step write to Redis.
LEMMA StoreSteps ==
  ASSUME [Next]_vars
  PROVE  \/ UNCHANGED storeVars
         \/ Seed
         \/ \E id \in Ids : Prune(id)
         \/ \E p \in Procs : SaveRefreshed(p)
BY DEF Next, vars, storeVars, Procs, Boot, ServerStep, TaskStep, SyncStep, Reject, StartBootSync,
       LoadBackendStatus, ListFails, List, ListRunning, EndBootSync, EndTask, BootSyncFails,
       ServerStops, StartSyncAll, StartSyncOne, TaskAborts

LEMMA IndexStep ==
  ASSUME TypeOK, IndexMatchesMeta, [Next]_vars
  PROVE  IndexMatchesMeta'
<1>1. ASSUME NEW id \in Ids, NEW status \in BackendStatus, SaveBackend(id, status)
      PROVE  IndexMatchesMeta'
  BY <1>1, NoStatusAssumption DEF IndexMatchesMeta, SaveBackend, TypeOK, StoreTypeOK
<1>2. ASSUME NEW id \in Ids, DeleteBackend(id)
      PROVE  IndexMatchesMeta'
  BY <1>2 DEF IndexMatchesMeta, DeleteBackend, TypeOK, StoreTypeOK
<1>3. CASE UNCHANGED storeVars
  BY <1>3 DEF IndexMatchesMeta, storeVars
<1>4. CASE Seed
  BY <1>1, <1>4, AcceptedDefinition, ConfiguredType DEF Seed
<1>5. ASSUME NEW id \in Ids, Prune(id) PROVE IndexMatchesMeta'
  BY <1>2, <1>5 DEF Prune
<1>6. ASSUME NEW p \in Procs, SaveRefreshed(p) PROVE IndexMatchesMeta'
  BY <1>1, <1>6, SavedRecord
<1> QED
  BY <1>3, <1>4, <1>5, <1>6, StoreSteps

-----------------------------------------------------------------------------
(* The health that is served was observed.                                 *)

LEMMA RefreshedIsObserved ==
  ASSUME NEW status \in BackendStatus, NEW answer
  PROVE  LET saved == Refreshed(status, answer)
         IN  saved.healthy => saved.observedAt = saved.address
BY DEF Refreshed, BackendStatus

\* A refreshed record has its evidence; the other records are left alone.
LEMMA SaveObserved ==
  ASSUME TypeOK, NEW p \in Procs, SaveRefreshed(p)
  PROVE  \E saved \in Held(p) :
            /\ Observed(saved)'
            /\ \A id \in Ids \ {saved} : Observed(id)' <=> Observed(id)
            /\ got' = [got EXCEPT ![p][saved] = NoStatus]
<1>1. PICK id \in Ids : /\ id \in Held(p)
                        /\ got[p][id] \in BackendStatus
                        /\ SaveBackend(id, Refreshed(got[p][id], reply[p]))
                        /\ got' = [got EXCEPT ![p][id] = NoStatus]
  BY SavedRecord
<1>2. /\ meta'[id] = Refreshed(got[p][id], reply[p])
      /\ \A other \in Ids \ {id} : meta'[other] = meta[other]
  BY <1>1 DEF SaveBackend, TypeOK, StoreTypeOK
<1>3. Observed(id)'
  <2> DEFINE saved == Refreshed(got[p][id], reply[p])
  <2>1. saved.healthy => saved.observedAt = saved.address
    BY <1>1, RefreshedIsObserved
  <2> QED
    BY <1>2, <2>1 DEF Observed
<1>4. \A other \in Ids \ {id} : Observed(other)' <=> Observed(other)
  BY <1>2 DEF Observed
<1> QED
  BY <1>1, <1>3, <1>4, Zenon

LEMMA ObservedInit == Init => ObservedInv
BY DEF Init, StoreInit, ObservedInv, IndexMatchesMeta, NotYetSynced, UnobservedPending,
       HealthIsObserved, Procs

\* Steps that write no record and keep the server where it is.
LEMMA ObservedQuiet ==
  ASSUME TypeOK, ObservedInv, UNCHANGED <<storeVars, bootSynced>>,
         pc'[Server] = pc[Server], todo'[Server] = todo[Server], got'[Server] = got[Server]
  PROVE  NotYetSynced' /\ UnobservedPending' /\ HealthIsObserved'
BY DEF ObservedInv, NotYetSynced, UnobservedPending, HealthIsObserved, Observed, Held, storeVars

LEMMA ObservedSyncStep ==
  ASSUME TypeOK, ObservedInv, NEW p \in Procs, SyncStep(p)
  PROVE  NotYetSynced' /\ UnobservedPending' /\ HealthIsObserved'
<1> USE DEF confVars, historyVars, storeVars
<1>1. CASE LoadBackendStatus(p)
  <2>1. PICK id \in Ids : /\ todo' = [todo EXCEPT ![p] = @ \ {id}]
                          /\ got' = [got EXCEPT ![p][id] = meta[id]]
    BY <1>1 DEF LoadBackendStatus
  <2>2. UnobservedPending'
    <3> SUFFICES ASSUME pc[Server] \in {"sync", "ps", "save"}, NEW other \in Ids,
                        ~Observed(other)
                 PROVE  other \in todo'[Server] \/ other \in Held(Server)'
      BY <1>1 DEF UnobservedPending, LoadBackendStatus, Observed
    <3>1. other \in todo[Server] \/ other \in Held(Server)
      BY DEF ObservedInv, UnobservedPending
    <3>2. meta[other] # NoStatus
      BY DEF Observed
    <3> QED
      BY <2>1, <3>1, <3>2 DEF TypeOK, Held, Procs
  <2> QED
    BY <1>1, <2>2 DEF LoadBackendStatus, ObservedInv, NotYetSynced, HealthIsObserved, Observed
<1>2. ASSUME pc[p] \in {"sync", "ps"}, pc' = [pc EXCEPT ![p] = "save"] \/ pc' = [pc EXCEPT ![p] = "ps"],
             UNCHANGED <<storeVars, todo, got, confVars>>
      PROVE  NotYetSynced' /\ UnobservedPending' /\ HealthIsObserved'
  BY <1>2 DEF ObservedInv, NotYetSynced, UnobservedPending, HealthIsObserved, Observed, Held, TypeOK, Procs
<1>3. CASE ListFails(p)
  BY <1>2, <1>3 DEF ListFails, Pinging
<1>4. ASSUME NEW installed \in SUBSET Models, List(p, installed)
      PROVE  NotYetSynced' /\ UnobservedPending' /\ HealthIsObserved'
  BY <1>2, <1>4 DEF List, Pinging
<1>5. ASSUME NEW running \in SUBSET Models, ListRunning(p, running)
      PROVE  NotYetSynced' /\ UnobservedPending' /\ HealthIsObserved'
  BY <1>2, <1>5 DEF ListRunning
<1>6. CASE SaveRefreshed(p)
  <2>1. PICK saved \in Held(p) :
            /\ Observed(saved)'
            /\ \A id \in Ids \ {saved} : Observed(id)' <=> Observed(id)
            /\ got' = [got EXCEPT ![p][saved] = NoStatus]
    BY <1>6, SaveObserved
  <2>2. saved \in Ids /\ pc[p] = "save" /\ pc' = [pc EXCEPT ![p] = "sync"] /\ todo' = todo
        /\ bootSynced' = bootSynced
    BY <1>6 DEF SaveRefreshed, Held
  <2>3. UnobservedPending'
    BY <2>1, <2>2 DEF ObservedInv, UnobservedPending, Held, TypeOK, Procs
  <2>4. NotYetSynced' /\ HealthIsObserved'
    BY <2>1, <2>2 DEF ObservedInv, NotYetSynced, HealthIsObserved, TypeOK, Procs
  <2> QED
    BY <2>3, <2>4
<1> QED
  BY <1>1, <1>3, <1>4, <1>5, <1>6 DEF SyncStep
LEMMA ObservedStep == TypeOK /\ ObservedInv /\ [Next]_vars => ObservedInv'
<1> DEFINE Goal == NotYetSynced' /\ UnobservedPending' /\ HealthIsObserved'
<1> SUFFICES ASSUME TypeOK, ObservedInv, [Next]_vars PROVE Goal
  BY IndexStep DEF ObservedInv
<1> USE DEF confVars, historyVars, storeVars
<1>s. Server \in Procs /\ Workers \subseteq Procs /\ Server \notin Workers
  BY ServerAssumption DEF Procs
<1>1. ASSUME NEW c \in Configs, Boot(c) PROVE Goal
  <2>1. pc'[Server] = "register" /\ bootSynced' = FALSE
    BY <1>s, <1>1 DEF Boot, Listing, TypeOK
  <2> QED
    BY <2>1 DEF NotYetSynced, UnobservedPending, HealthIsObserved
<1>2. CASE Seed
  <2>1. pc'[Server] = "register" /\ bootSynced' = bootSynced
    BY <1>2 DEF Seed, Registering, procVars
  <2> QED
    BY <1>2, <2>1 DEF Seed, Registering, procVars, ObservedInv, NotYetSynced, UnobservedPending, HealthIsObserved
<1>3. ASSUME Reject \/ ServerStops PROVE Goal
  <2>1. pc'[Server] = "down"
    BY <1>s, <1>3 DEF Reject, ServerStops, Stop, TypeOK
  <2> QED
    BY <2>1 DEF NotYetSynced, UnobservedPending, HealthIsObserved
<1>4. ASSUME NEW id \in Ids, Prune(id) PROVE Goal
  BY <1>4 DEF Prune, Registering, ObservedInv, NotYetSynced, UnobservedPending, HealthIsObserved
<1>5. CASE StartBootSync
  <2>1. /\ pc[Server] = "register" /\ pc'[Server] = "sync"
        /\ todo'[Server] = index /\ meta' = meta /\ bootSynced' = bootSynced
    BY <1>s, <1>5 DEF StartBootSync, Registering, Listing, TypeOK
  <2>2. \A id \in Ids : Observed(id) \/ id \in index
    BY DEF ObservedInv, IndexMatchesMeta, Observed
  <2> QED
    BY <2>1, <2>2 DEF ObservedInv, NotYetSynced, UnobservedPending, HealthIsObserved, Observed
<1>6. ASSUME NEW p \in Procs, SyncStep(p) PROVE Goal
  BY <1>6, ObservedSyncStep
<1>7. CASE EndBootSync
  <2>1. /\ pc[Server] = "sync" /\ todo[Server] = {} /\ Held(Server) = {}
        /\ pc'[Server] = "serving" /\ meta' = meta
    BY <1>s, <1>7 DEF EndBootSync, Synced, Stop, TypeOK
  <2> QED
    BY <2>1 DEF ObservedInv, NotYetSynced, UnobservedPending, HealthIsObserved, Observed
<1>8. CASE BootSyncFails
  <2>1. pc[Server] \in {"sync", "ps", "save"} /\ pc'[Server] = "serving" /\ bootSynced' = bootSynced
    BY <1>s, <1>8 DEF BootSyncFails, Stop, TypeOK
  <2> QED
    BY <2>1 DEF ObservedInv, NotYetSynced, UnobservedPending, HealthIsObserved
<1>9. ASSUME NEW w \in Workers,
             \/ StartSyncAll(w)
             \/ \E id \in Ids : StartSyncOne(w, id)
             \/ EndTask(w)
             \/ TaskAborts(w)
      PROVE  Goal
  <2>1. /\ UNCHANGED <<storeVars, bootSynced>> /\ pc'[Server] = pc[Server]
        /\ todo'[Server] = todo[Server] /\ got'[Server] = got[Server]
    BY <1>s, <1>9 DEF StartSyncAll, StartSyncOne, EndTask, TaskAborts, Listing, Stop, TypeOK
  <2> QED
    BY <2>1, ObservedQuiet
<1>10. CASE UNCHANGED vars
  BY <1>10, ObservedQuiet DEF vars
<1> QED
  BY <1>s, <1>1, <1>2, <1>3, <1>4, <1>5, <1>6, <1>7, <1>8, <1>9, <1>10 DEF Next, ServerStep, TaskStep

(***************************************************************************)
(* The records a synchronised server serves from say healthy only of an    *)
(* address that answered.                                                  *)
(***************************************************************************)
THEOREM ServedHealthIsObserved == Spec => []HealthIsObserved
<1>1. Spec => [](TypeOK /\ ObservedInv)
  <2>1. Init => TypeOK /\ ObservedInv
    BY InitType, ObservedInit
  <2>2. TypeOK /\ ObservedInv /\ [Next]_vars => TypeOK' /\ ObservedInv'
    BY NextType, ObservedStep
  <2> QED
    BY <2>1, <2>2, PTL DEF Spec
<1>2. ObservedInv => HealthIsObserved
  BY DEF ObservedInv
<1> QED
  BY <1>1, <1>2, PTL
-----------------------------------------------------------------------------
(* The registry is what the configuration says.                            *)

LEMMA ConfigInit == Init => ConfigInv
<1> SUFFICES ASSUME Init PROVE ConfigInv
  OBVIOUS
<1>1. Handled = {}
  BY DEF Init, Handled
<1>2. pc[Server] = "down" /\ ~Registered
  BY DEF Init, Procs, Registered
<1>3. IdleHoldNothing
  BY ServerAssumption DEF Init, Procs, IdleHoldNothing
<1> QED
  BY <1>1, <1>2, <1>3 DEF ConfigInv, AllHandled, HandledRegistered, BusyAreStale, HandledAddresses,
     ListedIsKnown, ListedIsDesired, HeldAddresses

LEMMA HandledUnchanged ==
  ASSUME UNCHANGED <<conf, pos>>
  PROVE  Handled' = Handled /\ Desired' = Desired
BY DEF Handled, Desired

\* The definitions handled have ids of registered backends.
LEMMA HandledIds ==
  ASSUME TypeOK, HandledRegistered
  PROVE  /\ \A def \in Handled : def.id \in Ids
         /\ Desired \subseteq index
BY DEF HandledRegistered, TypeOK, StoreTypeOK, Desired

LEMMA ConfigBoot ==
  ASSUME TypeOK, ObservedInv, ConfigInv, NEW c \in Configs, Boot(c)
  PROVE  ConfigInv'
<1>1. /\ Handled' = {}
      /\ pc'[Server] = "register"
      /\ todo'[Server] = index /\ index' = index
      /\ ~Registered'
  BY DEF Boot, Listing, Handled, TypeOK, Procs, Registered, storeVars
<1>2. \A w \in Workers : pc'[w] = pc[w] /\ todo'[w] = todo[w] /\ got'[w] = got[w]
  BY ServerAssumption DEF Boot, Listing, TypeOK, Procs
<1>3. stale' = {w \in Workers : pc[w] # "idle"}
  BY DEF Boot
<1>4. BusyAreStale' /\ IdleHoldNothing'
  BY <1>2, <1>3 DEF ConfigInv, BusyAreStale, IdleHoldNothing
<1> QED
  BY <1>1, <1>4 DEF ConfigInv, AllHandled, HandledRegistered, HandledAddresses,
     ListedIsKnown, ListedIsDesired, HeldAddresses

LEMMA ConfigSeed ==
  ASSUME TypeOK, ObservedInv, ConfigInv, Seed
  PROVE  ConfigInv'
<1> DEFINE id == conf[pos].id
           address == conf[pos].address
<1>1. /\ id \in Ids
      /\ \A def \in Handled : def.id # id
  BY AcceptedDefinition DEF Seed, Refused
<1>2. /\ index' = index \union {id}
      /\ meta' = [meta EXCEPT ![id] = Configured(conf[pos])]
      /\ UNCHANGED <<pc, todo, got, conf, stale, overlap>>
      /\ pc[Server] = "register"
  BY DEF Seed, SaveBackend, Registering, procVars, historyVars
<1>3. Handled' = Handled \union {conf[pos]}
  <2>1. pos \in Nat \ {0} /\ pos' = pos + 1 /\ conf' = conf
    BY ConfIsSeq DEF Seed, TypeOK
  <2>2. 1..(pos' - 1) = (1..(pos - 1)) \union {pos}
    BY <2>1
  <2> QED
    BY <2>1, <2>2 DEF Handled
<1>4. Configured(conf[pos]).address = address
  <2>1. got[Server][id] = NoStatus \/ got[Server][id] \in BackendStatus
    BY <1>1 DEF TypeOK, Procs
  <2> QED
    BY <2>1 DEF Configured, BackendStatus
<1>5. /\ meta'[id].address = address
      /\ \A other \in Ids \ {id} : meta'[other] = meta[other]
  BY <1>1, <1>2, <1>4 DEF TypeOK, StoreTypeOK
<1>6. HandledRegistered'
  BY <1>2, <1>3 DEF ConfigInv, HandledRegistered
<1>7. HandledAddresses'
  <2>1. \A def \in Handled : def.id \in Ids \ {id}
    BY <1>1, HandledIds DEF ConfigInv
  <2> QED
    BY <1>2, <1>3, <1>5, <2>1 DEF ConfigInv, HandledAddresses
<1>8. ListedIsKnown'
  BY <1>2, <1>3 DEF ConfigInv, ListedIsKnown, Desired, Held
<1>9. ~Registered'
  BY <1>2 DEF Registered
<1> QED
  BY <1>2, <1>6, <1>7, <1>8, <1>9 DEF ConfigInv, AllHandled, BusyAreStale, IdleHoldNothing,
     ListedIsDesired, HeldAddresses

LEMMA ConfigPrune ==
  ASSUME TypeOK, ObservedInv, ConfigInv, NEW id \in Ids, Prune(id)
  PROVE  ConfigInv'
<1>1. /\ pc[Server] = "register" /\ id \notin Desired
      /\ index' = index \ {id}
      /\ meta' = [meta EXCEPT ![id] = NoStatus]
      /\ got' = [got EXCEPT ![Server][id] = NoStatus]
      /\ UNCHANGED <<pc, todo, conf, pos, stale, overlap>>
  BY DEF Prune, Registering, DeleteBackend, confVars, historyVars
<1>2. Handled' = Handled /\ Desired' = Desired
  BY <1>1, HandledUnchanged
<1>3. \A def \in Handled : def.id \in Ids \ {id}
  BY <1>1, HandledIds DEF ConfigInv, Desired
<1>4. HandledRegistered' /\ HandledAddresses'
  BY <1>1, <1>2, <1>3 DEF ConfigInv, HandledRegistered, HandledAddresses, TypeOK, StoreTypeOK
<1>5. ListedIsKnown'
  BY <1>1, <1>2 DEF ConfigInv, ListedIsKnown, Held, TypeOK, Procs
<1>6. IdleHoldNothing'
  BY <1>1, ServerAssumption DEF ConfigInv, IdleHoldNothing, TypeOK, Procs
<1>7. ~Registered'
  BY <1>1 DEF Registered
<1> QED
  BY <1>1, <1>4, <1>5, <1>6, <1>7 DEF ConfigInv, AllHandled, BusyAreStale, ListedIsDesired, HeldAddresses

LEMMA ConfigStartBootSync ==
  ASSUME TypeOK, ObservedInv, ConfigInv, StartBootSync
  PROVE  ConfigInv'
<1>1. /\ pc[Server] = "register" /\ pc'[Server] = "sync"
      /\ todo[Server] = {} /\ pos > Len(conf) /\ Held(Server) \subseteq Desired
      /\ got'[Server] = NoRecords
      /\ UNCHANGED <<index, meta, conf, pos, stale, overlap>>
  BY DEF StartBootSync, Registering, Listing, storeVars, confVars, historyVars, TypeOK, Procs
<1>2. \A w \in Workers : pc'[w] = pc[w] /\ todo'[w] = todo[w] /\ got'[w] = got[w]
  BY ServerAssumption DEF StartBootSync, Listing, TypeOK, Procs
<1>3. Handled' = Handled /\ Desired' = Desired
  BY <1>1, HandledUnchanged
<1>4. AllHandled'
  BY <1>1, ConfIsSeq DEF AllHandled, TypeOK
<1>5. ListedIsDesired'
  BY <1>1, <1>3 DEF ConfigInv, ListedIsKnown, ListedIsDesired
<1>6. HeldAddresses'
  <2> SUFFICES ASSUME NEW p \in Procs \ stale, NEW id \in Ids, got'[p][id] # NoStatus
               PROVE  FALSE
    BY <1>1 DEF HeldAddresses, Held
  <2>1. CASE p = Server
    BY <1>1, <2>1 DEF NoRecords
  <2>2. CASE p \in Workers
    <3>1. pc[p] = "idle"
      BY <1>1, <2>2 DEF ConfigInv, BusyAreStale
    <3> QED
      BY <1>2, <2>2, <3>1 DEF ConfigInv, IdleHoldNothing, NoRecords
  <2> QED
    BY <2>1, <2>2 DEF Procs
<1>7. HandledRegistered' /\ HandledAddresses'
  BY <1>1, <1>3 DEF ConfigInv, HandledRegistered, HandledAddresses
<1>8. BusyAreStale' /\ IdleHoldNothing'
  BY <1>1, <1>2 DEF ConfigInv, BusyAreStale, IdleHoldNothing
<1> QED
  BY <1>1, <1>4, <1>5, <1>6, <1>7, <1>8 DEF ConfigInv, ListedIsKnown
LEMMA ConfigExit ==
  ASSUME TypeOK, ConfigInv, Reject \/ ServerStops
  PROVE  ConfigInv'
<1>1. /\ pc'[Server] = "down"
      /\ UNCHANGED <<index, conf, pos>>
  BY DEF Reject, ServerStops, Stop, TypeOK, Procs, storeVars, confVars
<1>2. \A w \in Workers : pc'[w] = pc[w] /\ todo'[w] = todo[w] /\ got'[w] = got[w]
  BY ServerAssumption DEF Reject, ServerStops, Stop, TypeOK, Procs
<1>3. Handled' = Handled /\ ~Registered'
  BY <1>1, HandledUnchanged DEF Registered
<1> QED
  BY <1>1, <1>2, <1>3 DEF ConfigInv, AllHandled, HandledRegistered, BusyAreStale, IdleHoldNothing,
     HandledAddresses, ListedIsKnown, ListedIsDesired, HeldAddresses

LEMMA ConfigServing ==
  ASSUME TypeOK, ConfigInv, EndBootSync \/ BootSyncFails
  PROVE  ConfigInv'
<1>1. /\ pc[Server] \in {"sync", "ps", "save"} /\ pc'[Server] = "serving"
      /\ got'[Server] = NoRecords
      /\ UNCHANGED <<index, meta, conf, pos, stale, overlap>>
  BY DEF EndBootSync, BootSyncFails, Synced, Stop, TypeOK, Procs, storeVars, confVars, historyVars
<1>2. \A w \in Workers : pc'[w] = pc[w] /\ todo'[w] = todo[w] /\ got'[w] = got[w]
  BY ServerAssumption DEF EndBootSync, BootSyncFails, Stop, TypeOK, Procs
<1>3. Handled' = Handled /\ Desired' = Desired /\ Registered /\ Registered'
  BY <1>1, HandledUnchanged DEF Registered
<1>4. HeldAddresses'
  BY <1>1, <1>2, <1>3 DEF ConfigInv, HeldAddresses, Held, NoRecords, Procs
<1> QED
  BY <1>1, <1>2, <1>3, <1>4 DEF ConfigInv, AllHandled, HandledRegistered, BusyAreStale, IdleHoldNothing,
     HandledAddresses, ListedIsKnown, ListedIsDesired

LEMMA ConfigLoad ==
  ASSUME TypeOK, ObservedInv, ConfigInv, NEW p \in Procs, LoadBackendStatus(p)
  PROVE  ConfigInv'
<1>1. PICK id \in Ids : /\ id \in todo[p]
                        /\ todo' = [todo EXCEPT ![p] = @ \ {id}]
                        /\ got' = [got EXCEPT ![p][id] = meta[id]]
  BY DEF LoadBackendStatus, IsFirst
<1>2. UNCHANGED <<index, meta, pc, conf, pos, stale, overlap>>
  BY DEF LoadBackendStatus, storeVars, confVars, historyVars
<1>3. Handled' = Handled /\ Desired' = Desired /\ (Registered' <=> Registered)
  BY <1>2, HandledUnchanged DEF Registered
<1>4. IdleHoldNothing'
  BY <1>1, <1>2 DEF ConfigInv, IdleHoldNothing, TypeOK
<1>5. ListedIsKnown'
  BY <1>1, <1>2, <1>3 DEF ConfigInv, ListedIsKnown, ObservedInv, IndexMatchesMeta, Held, TypeOK,
     StoreTypeOK, Procs
<1>6. HeldAddresses'
  BY <1>1, <1>2, <1>3 DEF ConfigInv, HeldAddresses, ObservedInv, IndexMatchesMeta, Held, TypeOK
<1> QED
  BY <1>2, <1>3, <1>4, <1>5, <1>6 DEF ConfigInv, AllHandled, HandledRegistered, BusyAreStale,
     HandledAddresses, ListedIsDesired

LEMMA ConfigPing ==
  ASSUME TypeOK, ConfigInv, NEW p \in Procs,
         \/ ListFails(p)
         \/ \E installed \in SUBSET Models : List(p, installed)
         \/ \E running \in SUBSET Models : ListRunning(p, running)
  PROVE  ConfigInv'
<1>1. /\ pc[p] \in {"sync", "ps"}
      /\ pc' = [pc EXCEPT ![p] = "save"] \/ pc' = [pc EXCEPT ![p] = "ps"]
      /\ UNCHANGED <<index, meta, todo, got, conf, pos, stale, overlap>>
  BY DEF ListFails, List, ListRunning, Pinging, storeVars, confVars, historyVars
<1>2. /\ pc'[Server] = pc[Server] \/ (pc[Server] \in {"sync", "ps"} /\ pc'[Server] \in {"ps", "save"})
      /\ \A w \in Workers : pc'[w] = "idle" <=> pc[w] = "idle"
  BY <1>1 DEF TypeOK, Procs
<1>3. Handled' = Handled /\ Desired' = Desired /\ (Registered' <=> Registered)
  BY <1>1, <1>2, HandledUnchanged DEF Registered
<1> QED
  BY <1>1, <1>2, <1>3 DEF ConfigInv, AllHandled, HandledRegistered, BusyAreStale, IdleHoldNothing,
     HandledAddresses, ListedIsKnown, ListedIsDesired, HeldAddresses, Held

\* A record written back has the address of the record read.
LEMMA RefreshedAddress ==
  ASSUME NEW status \in BackendStatus, NEW answer
  PROVE  Refreshed(status, answer).address = status.address
BY DEF Refreshed, BackendStatus

LEMMA ConfigSave ==
  ASSUME TypeOK, ObservedInv, ConfigInv, NEW p \in Procs, SaveRefreshed(p)
  PROVE  ConfigInv'
<1>1. PICK id \in Ids : /\ id \in Held(p)
                        /\ got[p][id] \in BackendStatus
                        /\ SaveBackend(id, Refreshed(got[p][id], reply[p]))
                        /\ got' = [got EXCEPT ![p][id] = NoStatus]
  BY SavedRecord
<1>2. /\ pc[p] = "save" /\ pc' = [pc EXCEPT ![p] = "sync"]
      /\ overlap' = (overlap \/ p \in stale)
      /\ UNCHANGED <<todo, conf, pos, stale>>
  BY DEF SaveRefreshed, confVars
<1>3. /\ index' = index \union {id}
      /\ meta'[id].address = got[p][id].address
      /\ \A other \in Ids \ {id} : meta'[other] = meta[other]
  BY <1>1, RefreshedAddress DEF SaveBackend, TypeOK, StoreTypeOK
<1>4. /\ pc'[Server] = pc[Server] \/ (pc[Server] = "save" /\ pc'[Server] = "sync")
      /\ \A w \in Workers : pc'[w] = "idle" <=> pc[w] = "idle"
  BY <1>2 DEF TypeOK, Procs
<1>5. Handled' = Handled /\ Desired' = Desired /\ (Registered' <=> Registered)
  BY <1>2, <1>4, HandledUnchanged DEF Registered
<1>6. AllHandled' /\ HandledRegistered' /\ BusyAreStale'
  BY <1>2, <1>3, <1>4, <1>5 DEF ConfigInv, AllHandled, HandledRegistered, BusyAreStale
<1>7. IdleHoldNothing'
  BY <1>1, <1>2, <1>4 DEF ConfigInv, IdleHoldNothing, TypeOK
\* A save while the server registers is by a stale task; afterwards, by a
\* process that holds the address in force.
<1>8. ASSUME ~overlap', pc[Server] # "down"
      PROVE  Registered /\ id \in index /\ got[p][id].address = meta[id].address
  <2>1. Registered
    <3>1. CASE p = Server
      BY <1>2, <3>1 DEF Registered
    <3>2. CASE p \in Workers
      BY <1>2, <1>8, <3>2 DEF ConfigInv, BusyAreStale, Registered, TypeOK, ServerStates
    <3> QED
      BY <3>1, <3>2 DEF Procs
  <2> QED
    BY <1>1, <1>2, <1>8, <2>1 DEF ConfigInv, HeldAddresses
<1>9. ASSUME ~overlap', pc[Server] # "down"
      PROVE  index' = index /\ \A other \in Ids : meta'[other].address = meta[other].address
  BY <1>3, <1>8, <1>9
<1>10. HandledAddresses'
  BY <1>2, <1>4, <1>5, <1>9, HandledIds DEF ConfigInv, HandledAddresses
<1>11. ListedIsKnown'
  BY <1>2, <1>4, <1>8, <1>9 DEF ListedIsKnown, Registered
<1>12. ListedIsDesired'
  BY <1>2, <1>5, <1>9 DEF ConfigInv, ListedIsDesired, Registered
<1>13. HeldAddresses'
  BY <1>1, <1>2, <1>5, <1>9 DEF ConfigInv, HeldAddresses, Held, TypeOK, Registered
<1> QED
  BY <1>6, <1>7, <1>10, <1>11, <1>12, <1>13 DEF ConfigInv
LEMMA ConfigTaskBegins ==
  ASSUME TypeOK, ObservedInv, ConfigInv, NEW w \in Workers,
         StartSyncAll(w) \/ \E id \in Ids : StartSyncOne(w, id)
  PROVE  ConfigInv'
<1>1. /\ pc[w] = "idle" /\ pc' = [pc EXCEPT ![w] = "sync"]
      /\ stale' = IF Registered THEN stale \ {w} ELSE stale \union {w}
      /\ UNCHANGED <<index, meta, conf, pos, overlap>>
  BY DEF StartSyncAll, StartSyncOne, Listing, TaskBegins, storeVars, confVars
<1>2. \A p \in Procs \ {w} : pc'[p] = pc[p] /\ todo'[p] = todo[p] /\ got'[p] = got[p]
  BY DEF StartSyncAll, StartSyncOne, Listing, TypeOK
<1>3. \A id \in Ids : got'[w][id] # NoStatus => got'[w][id] = meta[id]
  <2>1. got[w] = NoRecords
    BY <1>1 DEF ConfigInv, IdleHoldNothing
  <2> QED
    BY <2>1 DEF StartSyncAll, StartSyncOne, Listing, NoRecords, TypeOK, Procs
<1>4. /\ Server \in Procs \ {w} /\ w \in Procs
      /\ pc'[Server] = pc[Server] /\ (Registered' <=> Registered)
      /\ Handled' = Handled /\ Desired' = Desired
  BY <1>1, <1>2, HandledUnchanged, ServerAssumption DEF Registered, Procs
<1>5. BusyAreStale' /\ IdleHoldNothing'
  <2>1. pc'[w] = "sync"
    BY <1>1, <1>4 DEF TypeOK
  <2> QED
    BY <1>1, <1>2, <1>4, <2>1 DEF ConfigInv, BusyAreStale, IdleHoldNothing, Registered, Procs
<1>6. HeldAddresses'
  <2> SUFFICES ASSUME Registered, ~overlap, NEW p \in Procs \ stale', NEW id \in Held(p)'
               PROVE  id \in index /\ got'[p][id].address = meta[id].address
    BY <1>1, <1>4 DEF HeldAddresses
  <2>1. CASE p = w
    BY <1>3, <2>1 DEF ObservedInv, IndexMatchesMeta, Held
  <2>2. CASE p # w
    BY <1>1, <1>2, <2>2 DEF ConfigInv, HeldAddresses, Held
  <2> QED
    BY <2>1, <2>2
<1>7. ListedIsKnown'
  BY <1>1, <1>2, <1>4 DEF ConfigInv, ListedIsKnown, Held
<1> QED
  BY <1>1, <1>4, <1>5, <1>6, <1>7 DEF ConfigInv, AllHandled, HandledRegistered, HandledAddresses,
     ListedIsDesired

LEMMA ConfigTaskEnds ==
  ASSUME TypeOK, ConfigInv, NEW w \in Workers, EndTask(w) \/ TaskAborts(w)
  PROVE  ConfigInv'
<1>1. /\ pc' = [pc EXCEPT ![w] = "idle"]
      /\ todo'[w] = {} /\ got'[w] = NoRecords
      /\ stale' = stale \ {w}
      /\ UNCHANGED <<index, meta, conf, pos, overlap>>
  BY DEF EndTask, TaskAborts, Stop, storeVars, confVars, TypeOK, Procs
<1>2. \A p \in Procs \ {w} : pc'[p] = pc[p] /\ todo'[p] = todo[p] /\ got'[p] = got[p]
  BY DEF EndTask, TaskAborts, Stop, TypeOK
<1>3. /\ Server \in Procs \ {w} /\ w \in Procs
      /\ pc'[Server] = pc[Server] /\ pc'[w] = "idle" /\ (Registered' <=> Registered)
      /\ Handled' = Handled /\ Desired' = Desired
  BY <1>1, <1>2, HandledUnchanged, ServerAssumption DEF Registered, Procs, TypeOK
<1>4. BusyAreStale' /\ IdleHoldNothing'
  BY <1>1, <1>2, <1>3 DEF ConfigInv, BusyAreStale, IdleHoldNothing, Procs
<1>5. HeldAddresses'
  BY <1>1, <1>2, <1>3 DEF ConfigInv, HeldAddresses, Held, NoRecords
<1>6. ListedIsKnown'
  BY <1>1, <1>2, <1>3 DEF ConfigInv, ListedIsKnown, Held
<1> QED
  BY <1>1, <1>3, <1>4, <1>5, <1>6 DEF ConfigInv, AllHandled, HandledRegistered, HandledAddresses,
     ListedIsDesired

LEMMA ConfigUnchanged ==
  ASSUME ConfigInv, UNCHANGED vars
  PROVE  ConfigInv'
<1>1. Handled' = Handled /\ Desired' = Desired /\ (Registered' <=> Registered)
  BY HandledUnchanged DEF vars, Registered
<1> QED
  BY <1>1 DEF vars, ConfigInv, AllHandled, HandledRegistered, BusyAreStale, IdleHoldNothing,
     HandledAddresses, ListedIsKnown, ListedIsDesired, HeldAddresses, Held

LEMMA ConfigStep == TypeOK /\ ObservedInv /\ ConfigInv /\ [Next]_vars => ConfigInv'
<1> SUFFICES ASSUME TypeOK, ObservedInv, ConfigInv, [Next]_vars PROVE ConfigInv'
  OBVIOUS
<1>1. ASSUME NEW p \in Procs, SyncStep(p) PROVE ConfigInv'
  BY <1>1, ConfigLoad, ConfigPing, ConfigSave DEF SyncStep
<1>2. CASE ServerStep
  BY <1>1, <1>2, ConfigSeed, ConfigExit, ConfigPrune, ConfigStartBootSync, ConfigServing
     DEF ServerStep, Procs
<1>3. ASSUME NEW w \in Workers, TaskStep(w) PROVE ConfigInv'
  BY <1>1, <1>3, ConfigTaskEnds DEF TaskStep, Procs
<1> QED
  BY <1>2, <1>3, ConfigBoot, ConfigServing, ConfigExit, ConfigTaskBegins, ConfigTaskEnds, ConfigUnchanged
     DEF Next

-----------------------------------------------------------------------------
(* The inductive invariant, and what follows from it.                      *)

IInv == TypeOK /\ ObservedInv /\ ConfigInv

THEOREM Inductive == Spec => []IInv
<1>1. Init => IInv
  BY InitType, ObservedInit, ConfigInit DEF IInv
<1>2. IInv /\ [Next]_vars => IInv'
  BY NextType, ObservedStep, ConfigStep DEF IInv
<1> QED
  BY <1>1, <1>2, PTL DEF Spec

(***************************************************************************)
(* After RegisterBackends the registry is the configuration, until a task  *)
(* that began before it was done saves a record.                           *)
(***************************************************************************)
THEOREM RegistryFollowsConfig == Spec => []RegistryIsConfig
<1>1. IInv => RegistryIsConfig
  <2> SUFFICES ASSUME IInv, Registered, ~overlap
               PROVE  /\ index = Desired
                      /\ \A def \in Handled : meta[def.id].address = def.address
    BY DEF RegistryIsConfig
  <2>1. index = Desired
    BY HandledIds DEF IInv, ConfigInv, ListedIsDesired
  <2>2. pc[Server] # "down"
    BY DEF Registered
  <2> QED
    BY <2>1, <2>2 DEF IInv, ConfigInv, HandledAddresses
<1> QED
  BY <1>1, Inductive, PTL

(***************************************************************************)
(* A configured backend stays registered, whatever the tasks write back.   *)
(***************************************************************************)
THEOREM ConfiguredStays == Spec => []ConfiguredRegistered
<1>1. IInv => ConfiguredRegistered
  BY DEF IInv, ConfigInv, HandledRegistered, ConfiguredRegistered
<1> QED
  BY <1>1, Inductive, PTL

(***************************************************************************)
(* A step that removes a backend prunes one that the whole, accepted       *)
(* configuration does not define.                                          *)
(***************************************************************************)
THEOREM RemovalIsPruning == Spec => RemovedOnlyIfUnconfigured
<1> DEFINE Removal ==
       \A id \in index \ index' :
          /\ pos > Len(conf)
          /\ \A i \in 1..Len(conf) : conf[i].id # id
<1>1. ASSUME TypeOK, [Next]_vars PROVE Removal
  <2>1. ASSUME index \subseteq index' PROVE Removal
    BY <2>1
  <2>2. CASE Seed
    BY <2>1, <2>2 DEF Seed, SaveBackend
  <2>3. ASSUME NEW id \in Ids, Prune(id) PROVE Removal
    <3>1. pos > Len(conf) /\ id \notin Desired /\ index \ index' \subseteq {id}
      BY <2>3 DEF Prune, DeleteBackend
    <3>2. pos - 1 = Len(conf)
      BY <3>1, ConfIsSeq, <1>1 DEF TypeOK
    <3> QED
      BY <3>1, <3>2 DEF Desired, Handled
  <2>4. ASSUME NEW p \in Procs, SaveRefreshed(p) PROVE Removal
    BY <2>1, <2>4 DEF SaveRefreshed, SaveBackend
  <2>5. CASE UNCHANGED storeVars
    BY <2>1, <2>5 DEF storeVars
  <2> QED
    BY <1>1, <2>2, <2>3, <2>4, <2>5, StoreSteps
<1>2. TypeOK /\ [Next]_vars => [Removal]_vars
  BY <1>1
<1> QED
  BY <1>2, TypeCorrect, PTL DEF Spec, RemovedOnlyIfUnconfigured

-----------------------------------------------------------------------------
(* BackendSync implements BackendRegistry.                                 *)

Serving == pc[Server] = "serving"

LEMMA RegistryInit == Init => Registry!Init
BY DEF Init, Registry!Init, StoreInit, Registry!StoreInit, Procs

\* A step that leaves the server where it is leaves the abstract server.
LEMMA SameServing ==
  ASSUME pc'[Server] = pc[Server] \/ (pc[Server] # "serving" /\ pc'[Server] # "serving"),
         bootSynced' = bootSynced
  PROVE  UNCHANGED <<Serving, Serving /\ bootSynced>>
BY DEF Serving

LEMMA RegistrySave ==
  ASSUME TypeOK, ObservedInv, NEW p \in Procs, SaveRefreshed(p)
  PROVE  Registry!Next
<1>1. PICK id \in Ids : /\ got[p][id] \in BackendStatus
                        /\ Refreshed(got[p][id], reply[p]) \in BackendStatus
                        /\ SaveBackend(id, Refreshed(got[p][id], reply[p]))
  BY SavedRecord
<1> DEFINE saved == Refreshed(got[p][id], reply[p])
<1>2. saved.healthy => saved.observedAt = saved.address
  BY <1>1, RefreshedIsObserved
<1>3. UNCHANGED <<Serving, Serving /\ bootSynced>>
  BY SameServing DEF SaveRefreshed, confVars, TypeOK, Procs
<1>4. Registry!Refresh(id, saved)
  <2> HIDE DEF saved
  <2> QED
    BY <1>1, <1>2, <1>3 DEF saved, Registry!Refresh, Registry!SaveBackend, SaveBackend, Serving
<1> QED
  BY <1>1, <1>4 DEF Registry!Next, Registry!BackendStatus, BackendStatus

LEMMA RegistryServes ==
  ASSUME TypeOK, ObservedInv, EndBootSync \/ BootSyncFails
  PROVE  Registry!Next
<1>1. /\ pc[Server] # "serving" /\ pc'[Server] = "serving"
      /\ UNCHANGED storeVars
  BY DEF EndBootSync, BootSyncFails, Synced, Stop, TypeOK, Procs
<1>2. bootSynced' => \A id \in Ids : Observed(id)
  <2>1. CASE EndBootSync
    BY <2>1 DEF EndBootSync, Synced, ObservedInv, UnobservedPending
  <2>2. CASE BootSyncFails
    BY <2>2 DEF BootSyncFails, ObservedInv, NotYetSynced, confVars
  <2> QED
    BY <2>1, <2>2
<1>3. bootSynced' \in BOOLEAN
  BY NextType DEF EndBootSync, BootSyncFails, confVars, TypeOK
<1>4. Registry!StartServing(bootSynced')
  <2>1. /\ (pc'[Server] = "serving") = TRUE
        /\ (pc'[Server] = "serving" /\ bootSynced') = bootSynced'
    BY <1>1, <1>3
  <2> QED
    BY <1>1, <1>2, <2>1 DEF Registry!StartServing, Registry!Observed, Observed, Registry!storeVars, storeVars
<1> QED
  BY <1>3, <1>4 DEF Registry!Next

LEMMA RegistryStep ==
  ASSUME TypeOK, ObservedInv, [Next]_vars
  PROVE  [Registry!Next]_(Registry!registryVars)
<1> USE DEF Registry!registryVars
<1>1. ASSUME UNCHANGED storeVars, UNCHANGED bootSynced,
             pc'[Server] = pc[Server] \/ (pc[Server] # "serving" /\ pc'[Server] # "serving")
      PROVE  UNCHANGED Registry!registryVars
  BY <1>1 DEF storeVars
<1>2. ASSUME Reject \/ ServerStops \/ \E c \in Configs : Boot(c)
      PROVE  [Registry!Next]_(Registry!registryVars)
  <2>1. /\ pc'[Server] # "serving"
        /\ UNCHANGED storeVars
    BY <1>2 DEF Reject, ServerStops, Boot, Listing, Stop, TypeOK, Procs
  <2>2. CASE pc[Server] = "serving"
    BY <2>1, <2>2 DEF Registry!Next, Registry!StopServing, Registry!storeVars, storeVars
  <2>3. CASE pc[Server] # "serving"
    BY <2>1, <2>3 DEF storeVars
  <2> QED
    BY <2>2, <2>3
<1>3. CASE Seed
  <2>1. /\ pc[Server] = "register" /\ UNCHANGED <<pc, bootSynced>>
        /\ SaveBackend(conf[pos].id, Configured(conf[pos]))
    BY <1>3 DEF Seed, Registering, procVars
  <2>2. conf[pos].id \in Ids /\ Configured(conf[pos]) \in BackendStatus
    BY <1>3, AcceptedDefinition, ConfiguredType DEF Seed
  <2>3. Registry!Configure(conf[pos].id, Configured(conf[pos]))
    BY <2>1 DEF Registry!Configure, Registry!SaveBackend, SaveBackend
  <2> QED
    BY <2>2, <2>3 DEF Registry!Next, Registry!BackendStatus, BackendStatus
<1>4. ASSUME NEW id \in Ids, Prune(id)
      PROVE  [Registry!Next]_(Registry!registryVars)
  <2>1. Registry!Remove(id)
    BY <1>4 DEF Prune, Registering, confVars, Registry!Remove, Registry!DeleteBackend, DeleteBackend
  <2> QED
    BY <2>1 DEF Registry!Next
<1>5. CASE StartBootSync
  BY <1>1, <1>5 DEF StartBootSync, Registering, Listing, confVars, TypeOK, Procs
<1>6. ASSUME NEW p \in Procs, SyncStep(p)
      PROVE  [Registry!Next]_(Registry!registryVars)
  <2>1. CASE SaveRefreshed(p)
    BY <2>1, RegistrySave
  <2>2. CASE ~SaveRefreshed(p)
    <3>1. /\ UNCHANGED storeVars /\ UNCHANGED bootSynced
          /\ pc[p] # "serving" \/ pc' = pc
          /\ pc' = pc \/ pc' = [pc EXCEPT ![p] = "save"] \/ pc' = [pc EXCEPT ![p] = "ps"]
      BY <1>6, <2>2 DEF SyncStep, LoadBackendStatus, ListFails, List, ListRunning, Pinging, confVars
    <3> QED
      BY <1>1, <3>1 DEF TypeOK, Procs
  <2> QED
    BY <2>1, <2>2
<1>7. ASSUME NEW w \in Workers,
             \/ StartSyncAll(w)
             \/ \E id \in Ids : StartSyncOne(w, id)
             \/ EndTask(w)
             \/ TaskAborts(w)
      PROVE  UNCHANGED Registry!registryVars
  <2>1. UNCHANGED storeVars /\ UNCHANGED bootSynced /\ pc'[Server] = pc[Server]
    BY <1>7, ServerAssumption DEF StartSyncAll, StartSyncOne, EndTask, TaskAborts, Listing, Stop,
       confVars, TypeOK, Procs
  <2> QED
    BY <1>1, <2>1
<1>8. CASE UNCHANGED vars
  BY <1>1, <1>8 DEF vars, storeVars
<1> QED
  BY <1>2, <1>3, <1>4, <1>5, <1>6, <1>7, <1>8, RegistryServes, ServerAssumption
     DEF Next, ServerStep, TaskStep, Procs

(***************************************************************************)
(* What the rest of the system assumes of the registry is what             *)
(* registration and synchronisation guarantee.                             *)
(***************************************************************************)
THEOREM Refinement == Spec => ImplementsRegistry
<1>1. Spec => [](TypeOK /\ ObservedInv)
  <2>1. IInv => TypeOK /\ ObservedInv
    BY DEF IInv
  <2> QED
    BY <2>1, Inductive, PTL
<1> QED
  BY <1>1, RegistryInit, RegistryStep, PTL DEF Spec, ImplementsRegistry, Registry!Spec

-----------------------------------------------------------------------------
(* What of WorkEnds is a matter of safety: each step of a task, and of the  *)
(* start of the server, leaves less to do, and no other process adds to it. *)

\* Nothing in Redis or in a process's memory is infinite, though the IDs that
\* configurations may name are.
FiniteInv ==
    /\ IsFiniteSet(index)
    /\ \A p \in Procs : IsFiniteSet(todo[p]) /\ IsFiniteSet(Held(p))

\* What p has still to do with the record in hand.
HandWork(p) ==
    IF pc[p] = "sync" THEN 3 ELSE IF pc[p] = "ps" THEN 2 ELSE IF pc[p] = "save" THEN 1 ELSE 0

\* No less than the steps p has still to take: a record to load has then to be
\* pinged, with two calls, and saved.
Work(p) == 5 * Cardinality(todo[p]) + 4 * Cardinality(Held(p)) + HandWork(p)

\* The server registers, synchronises, and is done with its start.
Stage ==
    IF pc[Server] = "register" THEN 2
    ELSE IF pc[Server] \in {"sync", "ps", "save"} THEN 1
    ELSE 0

StartWork == Work(Server) + (Len(conf) + 1 - pos)

\* Nothing a process has in memory, nor what it is doing, changes.
Local(p) == <<pc[p], todo[p], got[p]>>

LEMMA InitFinite == Init => FiniteInv
<1> SUFFICES ASSUME Init PROVE FiniteInv
  OBVIOUS
<1>1. ASSUME NEW p \in Procs PROVE todo[p] = {} /\ Held(p) = {}
  BY DEF Init, Held, NoRecords
<1> QED
  BY <1>1, FS_EmptySet DEF FiniteInv, Init, StoreInit

\* A step of one process leaves the others' memory alone.
LEMMA OthersLocal ==
  ASSUME TypeOK, [Next]_vars
  PROVE  \/ \A q \in Procs : Local(q)' = Local(q)
         \/ \E p \in Procs :
              /\ \A q \in Procs \ {p} : Local(q)' = Local(q)
              /\ \/ SyncStep(p)
                 \/ p = Server /\ (\/ \E c \in Configs : Boot(c)
                                   \/ Reject \/ StartBootSync \/ EndBootSync
                                   \/ BootSyncFails \/ ServerStops
                                   \/ \E id \in Ids : Prune(id))
                 \/ p \in Workers /\ (\/ StartSyncAll(p) \/ \E id \in Ids : StartSyncOne(p, id)
                                      \/ EndTask(p) \/ TaskAborts(p))
<1> USE DEF Local, TypeOK
<1>1. Server \in Procs /\ Workers \subseteq Procs
  BY DEF Procs
<1>2. ASSUME NEW p \in Procs, SyncStep(p) PROVE \A q \in Procs \ {p} : Local(q)' = Local(q)
  BY <1>2 DEF SyncStep, LoadBackendStatus, ListFails, List, ListRunning, SaveRefreshed
<1>3. ASSUME \/ \E c \in Configs : Boot(c)
             \/ Reject \/ StartBootSync \/ EndBootSync \/ BootSyncFails \/ ServerStops
             \/ \E id \in Ids : Prune(id)
      PROVE  \A q \in Procs \ {Server} : Local(q)' = Local(q)
  BY <1>1, <1>3 DEF Boot, Listing, Reject, Stop, StartBootSync, EndBootSync, BootSyncFails,
                    ServerStops, Prune
<1>4. ASSUME NEW w \in Workers, \/ StartSyncAll(w) \/ \E id \in Ids : StartSyncOne(w, id)
                                \/ EndTask(w) \/ TaskAborts(w)
      PROVE  \A q \in Procs \ {w} : Local(q)' = Local(q)
  BY <1>1, <1>4 DEF StartSyncAll, Listing, StartSyncOne, EndTask, Stop, TaskAborts
<1>5. Seed \/ UNCHANGED vars => \A q \in Procs : Local(q)' = Local(q)
  BY DEF Seed, procVars, vars
<1> QED
  BY <1>1, <1>2, <1>3, <1>4, <1>5 DEF Next, ServerStep, TaskStep

\* The measure is a number.
LEMMA WorkIsNumber ==
  ASSUME FiniteInv, NEW p \in Procs
  PROVE  /\ Cardinality(todo[p]) \in Nat
         /\ Cardinality(Held(p)) \in Nat
         /\ HandWork(p) \in 0..3
         /\ Work(p) \in Nat
BY FS_CardinalityType DEF FiniteInv, HandWork, Work

LEMMA StepFinite == TypeOK /\ FiniteInv /\ [Next]_vars => FiniteInv'
<1> SUFFICES ASSUME TypeOK, FiniteInv, [Next]_vars PROVE FiniteInv'
  OBVIOUS
<1>0. Server \in Procs /\ Workers \subseteq Procs
  BY DEF Procs
<1>1. IsFiniteSet(index')
  <2>1. ASSUME NEW id, NEW status, SaveBackend(id, status) PROVE IsFiniteSet(index')
    BY <2>1, FS_AddElement DEF SaveBackend, FiniteInv
  <2>2. ASSUME NEW id, DeleteBackend(id) PROVE IsFiniteSet(index')
    BY <2>2, FS_RemoveElement DEF DeleteBackend, FiniteInv
  <2>3. ASSUME UNCHANGED storeVars PROVE IsFiniteSet(index')
    BY <2>3 DEF storeVars, FiniteInv
  <2> QED
    BY <2>1, <2>2, <2>3, StoreSteps DEF Seed, Prune, SaveRefreshed
<1>2. ASSUME NEW q \in Procs, Local(q)' = Local(q)
      PROVE  (IsFiniteSet(todo[q]) /\ IsFiniteSet(Held(q)))'
  BY <1>2 DEF Local, Held, FiniteInv
<1>3. ASSUME NEW p \in Procs, NEW id \in Ids, got' = [got EXCEPT ![p][id] = meta[id]]
      PROVE  Held(p)' \subseteq Held(p) \union {id}
  BY <1>3 DEF Held, TypeOK
<1>4. ASSUME NEW p \in Procs, NEW id \in Ids, got' = [got EXCEPT ![p][id] = NoStatus]
      PROVE  Held(p)' = Held(p) \ {id}
  BY <1>4 DEF Held, TypeOK
<1>5. ASSUME NEW p \in Procs, got' = [got EXCEPT ![p] = NoRecords]
      PROVE  Held(p)' = {}
  BY <1>5 DEF Held, TypeOK, NoRecords
<1>6. ASSUME NEW p \in Procs, NEW S, Held(p)' \subseteq S, IsFiniteSet(S) PROVE IsFiniteSet(Held(p)')
  BY <1>6, FS_Subset
<1>7. ASSUME NEW p \in Procs, SyncStep(p)
      PROVE  (IsFiniteSet(todo[p]) /\ IsFiniteSet(Held(p)))'
  <2>1. CASE LoadBackendStatus(p)
    <3>1. PICK id \in Ids : /\ todo' = [todo EXCEPT ![p] = @ \ {id}]
                            /\ got' = [got EXCEPT ![p][id] = meta[id]]
      BY <2>1 DEF LoadBackendStatus
    <3>2. todo'[p] = todo[p] \ {id}
      BY <3>1 DEF TypeOK
    <3>3. IsFiniteSet(Held(p) \union {id}) /\ IsFiniteSet(todo[p] \ {id})
      BY FS_AddElement, FS_RemoveElement DEF FiniteInv
    <3> QED
      BY <1>3, <1>6, <3>1, <3>2, <3>3
  <2>2. CASE SaveRefreshed(p)
    <3>1. PICK id \in Ids : got' = [got EXCEPT ![p][id] = NoStatus] /\ todo' = todo
      BY <2>2 DEF SaveRefreshed
    <3>2. IsFiniteSet(Held(p)) /\ IsFiniteSet(todo[p])
      BY DEF FiniteInv
    <3>3. IsFiniteSet(Held(p) \ {id})
      BY <3>2, FS_RemoveElement
    <3> QED
      BY <1>4, <3>1, <3>2, <3>3
  <2>3. CASE ListFails(p) \/ (\E installed \in SUBSET Models : List(p, installed))
             \/ (\E running \in SUBSET Models : ListRunning(p, running))
    <3>1. todo' = todo /\ got' = got
      BY <2>3 DEF ListFails, List, ListRunning
    <3> QED
      BY <3>1 DEF Held, FiniteInv
  <2> QED
    BY <1>7, <2>1, <2>2, <2>3 DEF SyncStep
<1>8. ASSUME NEW p \in Procs, NEW state, Listing(p, state) \/ Stop(p, state)
      PROVE  (IsFiniteSet(todo[p]) /\ IsFiniteSet(Held(p)))'
  <2>1. todo'[p] \in {index, {}} /\ got' = [got EXCEPT ![p] = NoRecords]
    BY <1>8 DEF Listing, Stop, TypeOK
  <2> QED
    BY <1>5, <2>1, FS_EmptySet DEF FiniteInv
<1>9. ASSUME NEW id \in Ids, Prune(id)
      PROVE  (IsFiniteSet(todo[Server]) /\ IsFiniteSet(Held(Server)))'
  <2>1. got' = [got EXCEPT ![Server][id] = NoStatus] /\ todo' = todo
    BY <1>9 DEF Prune
  <2>2. IsFiniteSet(Held(Server)) /\ IsFiniteSet(todo[Server])
    BY <1>0 DEF FiniteInv
  <2>3. IsFiniteSet(Held(Server) \ {id})
    BY <2>2, FS_RemoveElement
  <2> QED
    BY <1>0, <1>4, <2>1, <2>2, <2>3
<1>10. ASSUME NEW w \in Workers, NEW id \in Ids, StartSyncOne(w, id)
       PROVE  (IsFiniteSet(todo[w]) /\ IsFiniteSet(Held(w)))'
  <2>1. got' = [got EXCEPT ![w][id] = meta[id]] /\ todo' = todo
    BY <1>10 DEF StartSyncOne
  <2>2. IsFiniteSet(Held(w) \union {id})
    BY <1>0, FS_AddElement DEF FiniteInv
  <2> QED
    BY <1>0, <1>3, <1>6, <2>1, <2>2 DEF FiniteInv
<1>11. \A q \in Procs : (IsFiniteSet(todo[q]) /\ IsFiniteSet(Held(q)))'
  BY <1>0, <1>2, <1>7, <1>8, <1>9, <1>10, OthersLocal
     DEF Boot, Reject, StartBootSync, EndBootSync, BootSyncFails, ServerStops,
         StartSyncAll, EndTask, TaskAborts
<1> QED
  BY <1>1, <1>11 DEF FiniteInv

\* A step of a synchronisation leaves less to do.
LEMMA SyncStepWorks ==
  ASSUME TypeOK, FiniteInv, FiniteInv', NEW p \in Procs, SyncStep(p)
  PROVE  Work(p)' < Work(p)
<1>0. /\ Cardinality(todo[p]) \in Nat /\ Cardinality(Held(p)) \in Nat
      /\ Cardinality(todo'[p]) \in Nat /\ Cardinality(Held(p)') \in Nat
  BY FS_CardinalityType DEF FiniteInv
<1>1. CASE LoadBackendStatus(p)
  <2>1. PICK id \in todo[p] : /\ id \in Ids
                              /\ todo' = [todo EXCEPT ![p] = @ \ {id}]
                              /\ got' = [got EXCEPT ![p][id] = meta[id]]
    BY <1>1 DEF LoadBackendStatus, IsFirst
  <2>2. Cardinality(todo'[p]) = Cardinality(todo[p]) - 1
    <3>1. todo'[p] = todo[p] \ {id}
      BY <2>1 DEF TypeOK
    <3> QED
      BY <3>1, FS_RemoveElement DEF FiniteInv
  <2>3. Cardinality(Held(p)') <= Cardinality(Held(p)) + 1
    <3>1. Held(p)' \subseteq Held(p) \union {id}
      BY <2>1 DEF Held, TypeOK
    <3>2. IsFiniteSet(Held(p) \union {id}) /\ Cardinality(Held(p) \union {id}) <= Cardinality(Held(p)) + 1
      <4>1. IsFiniteSet(Held(p))
        BY DEF FiniteInv
      <4>2. /\ IsFiniteSet(Held(p) \union {id})
            /\ Cardinality(Held(p) \union {id}) =
                 IF id \in Held(p) THEN Cardinality(Held(p)) ELSE Cardinality(Held(p)) + 1
        BY <4>1, FS_AddElement
      <4> QED
        BY <1>0, <4>2
    <3>3. Cardinality(Held(p)') <= Cardinality(Held(p) \union {id})
      BY <3>1, <3>2, FS_Subset
    <3>4. Cardinality(Held(p) \union {id}) \in Nat
      BY <3>2, FS_CardinalityType
    <3> QED
      BY <1>0, <3>2, <3>3, <3>4
  <2>4. HandWork(p)' = HandWork(p) /\ HandWork(p) \in Nat
    BY <1>1 DEF LoadBackendStatus, HandWork
  <2> QED
    BY <1>0, <2>2, <2>3, <2>4 DEF Work
<1>2. CASE SaveRefreshed(p)
  <2>1. PICK id \in Held(p) : got' = [got EXCEPT ![p][id] = NoStatus]
    BY <1>2 DEF SaveRefreshed, IsFirst
  <2>2. Held(p)' = Held(p) \ {id}
    BY <2>1 DEF Held, TypeOK
  <2>3. Cardinality(Held(p)') = Cardinality(Held(p)) - 1
    BY <2>2, FS_RemoveElement DEF FiniteInv
  <2>4. HandWork(p)' = 3 /\ HandWork(p) = 1 /\ todo' = todo
    BY <1>2 DEF SaveRefreshed, HandWork, TypeOK
  <2> QED
    BY <1>0, <2>3, <2>4 DEF Work
<1>3. CASE ListFails(p) \/ (\E installed \in SUBSET Models : List(p, installed))
           \/ (\E running \in SUBSET Models : ListRunning(p, running))
  <2>1. todo' = todo /\ got' = got /\ Held(p)' = Held(p)
    BY <1>3 DEF ListFails, List, ListRunning, Held
  <2>2. HandWork(p)' < HandWork(p) /\ HandWork(p)' \in Nat /\ HandWork(p) \in Nat
    BY <1>3 DEF ListFails, List, ListRunning, Pinging, HandWork, TypeOK
  <2> QED
    BY <1>0, <2>1, <2>2 DEF Work
<1> QED
  BY <1>1, <1>2, <1>3 DEF SyncStep

LEMMA LocalWork ==
  ASSUME NEW q \in Procs, Local(q)' = Local(q)
  PROVE  Work(q)' = Work(q) /\ pc'[q] = pc[q]
BY DEF Local, Work, Held, HandWork

\* A process that stops has nothing left to do.
LEMMA StopWork ==
  ASSUME TypeOK, NEW p \in Procs, NEW state \in {"idle", "down", "serving"}, Stop(p, state)
  PROVE  Work(p)' = 0 /\ pc'[p] = state
<1>1. pc'[p] = state /\ todo'[p] = {} /\ Held(p)' = {}
  BY DEF Stop, TypeOK, Held, NoRecords
<1>2. HandWork(p)' = 0
  BY <1>1 DEF HandWork
<1> QED
  BY <1>1, <1>2, FS_EmptySet DEF Work

\* A task begins with no more work than its listing makes; nobody adds to it,
\* and the task's own steps take from it.
TaskRunsOut ==
    \A w \in Workers :
        /\ Work(w) \in Nat
        /\ pc[w] = "idle" /\ pc'[w] # "idle" => Work(w)' <= 5 * Cardinality(index) + 3
        /\ pc[w] # "idle" => Work(w)' <= Work(w)
        /\ TaskStep(w) => Work(w)' < Work(w)

\* Nor to what a server has that starts.
StartRunsOut ==
    /\ Stage \in Nat /\ StartWork \in Nat
    /\ pc[Server] # "down" => \/ Stage' < Stage
                              \/ Stage' = Stage /\ StartWork' <= StartWork
    /\ ServerStep => \/ Stage' < Stage
                     \/ Stage' = Stage /\ StartWork' < StartWork

LEMMA TaskStepsRunOut ==
  ASSUME IInv, FiniteInv, FiniteInv', [Next]_vars
  PROVE  TaskRunsOut
<1> SUFFICES ASSUME NEW w \in Workers
             PROVE  /\ Work(w) \in Nat
                    /\ pc[w] = "idle" /\ pc'[w] # "idle" => Work(w)' <= 5 * Cardinality(index) + 3
                    /\ pc[w] # "idle" => Work(w)' <= Work(w)
                    /\ TaskStep(w) => Work(w)' < Work(w)
  BY DEF TaskRunsOut
<1>0. w \in Procs /\ w # Server /\ Server \in Procs /\ TypeOK
  BY ServerAssumption DEF Procs, IInv
<1>1. Work(w) \in Nat /\ Work(w)' \in Nat
  <2>1. Cardinality(todo'[w]) \in Nat /\ Cardinality(Held(w)') \in Nat
    BY <1>0, FS_CardinalityType DEF FiniteInv
  <2> QED
    BY <1>0, <2>1, WorkIsNumber DEF Work, HandWork
<1>2. SyncStep(w) => Work(w)' < Work(w)
  BY <1>0, SyncStepWorks
<1>3. EndTask(w) => Work(w)' < Work(w)
  <2> SUFFICES ASSUME EndTask(w) PROVE Work(w)' < Work(w)
    OBVIOUS
  <2>1. Work(w)' = 0
    BY <1>0, StopWork DEF EndTask
  <2>2. HandWork(w) = 3
    BY DEF EndTask, Synced, HandWork
  <2> QED
    BY <1>0, <2>1, <2>2, WorkIsNumber DEF Work
<1>4. TaskAborts(w) => Work(w)' <= Work(w)
  BY <1>0, <1>1, StopWork DEF TaskAborts
<1>5. StartSyncAll(w) \/ (\E id \in Ids : StartSyncOne(w, id)) => pc[w] = "idle"
  BY DEF StartSyncAll, StartSyncOne
<1>6. ASSUME Local(w)' = Local(w) PROVE Work(w)' = Work(w)
  BY <1>0, <1>6, LocalWork
<1>7. pc[w] # "idle" => Work(w)' <= Work(w)
  BY <1>0, <1>1, <1>2, <1>3, <1>4, <1>5, <1>6, OthersLocal
<1>8. StartSyncAll(w) => Work(w)' <= 5 * Cardinality(index) + 3
  <2> SUFFICES ASSUME StartSyncAll(w) PROVE Work(w)' <= 5 * Cardinality(index) + 3
    OBVIOUS
  <2>1. pc'[w] = "sync" /\ todo'[w] = index /\ Held(w)' = {}
    BY <1>0 DEF StartSyncAll, Listing, TypeOK, Held, NoRecords
  <2>2. Cardinality(index) \in Nat
    BY FS_CardinalityType DEF FiniteInv
  <2> QED
    BY <2>1, <2>2, FS_EmptySet DEF Work, HandWork
<1>9. ASSUME NEW id \in Ids, StartSyncOne(w, id) PROVE Work(w)' <= 5 * Cardinality(index) + 3
  <2>1. todo[w] = {} /\ got[w] = NoRecords
    BY <1>9 DEF StartSyncOne, IInv, ConfigInv, IdleHoldNothing
  <2>2. pc'[w] = "sync" /\ todo'[w] = {} /\ Held(w)' = {id}
    BY <1>0, <1>9, <2>1 DEF StartSyncOne, TypeOK, Held, NoRecords
  <2>3. Work(w)' = 7
    BY <2>2, FS_EmptySet, FS_Singleton DEF Work, HandWork
  <2>4. Cardinality(index) \in Nat /\ Cardinality(index) # 0
    <3>1. id \in index
      BY <1>9 DEF StartSyncOne, IInv, ObservedInv, IndexMatchesMeta
    <3> QED
      BY <3>1, FS_CardinalityType, FS_EmptySet DEF FiniteInv
  <2> QED
    BY <2>3, <2>4
<1>10. pc[w] = "idle" /\ pc'[w] # "idle" => Work(w)' <= 5 * Cardinality(index) + 3
  <2> SUFFICES ASSUME pc[w] = "idle", pc'[w] # "idle"
               PROVE  Work(w)' <= 5 * Cardinality(index) + 3
    OBVIOUS
  <2>1. ~ (SyncStep(w) \/ EndTask(w) \/ TaskAborts(w))
    <3>1. ASSUME LoadBackendStatus(w) PROVE FALSE
      BY <3>1 DEF LoadBackendStatus
    <3> QED
      BY <3>1 DEF SyncStep, ListFails, List, ListRunning, SaveRefreshed, Pinging, EndTask, Synced,
                  TaskAborts
  <2>2. ~ (Local(w)' = Local(w))
    BY DEF Local
  <2> QED
    BY <1>0, <1>8, <1>9, <2>1, <2>2, OthersLocal
<1> QED
  BY <1>1, <1>2, <1>3, <1>7, <1>10 DEF TaskStep

LEMMA StartStepsRunOut ==
  ASSUME TypeOK, TypeOK', FiniteInv, FiniteInv', [Next]_vars
  PROVE  StartRunsOut
<1>0. Server \in Procs /\ Server \notin Workers
  BY ServerAssumption DEF Procs
<1>1. Work(Server) \in Nat /\ Work(Server)' \in Nat
  <2>1. Cardinality(todo'[Server]) \in Nat /\ Cardinality(Held(Server)') \in Nat
    BY <1>0, FS_CardinalityType DEF FiniteInv
  <2> QED
    BY <1>0, <2>1, WorkIsNumber DEF Work, HandWork
<1>2. /\ Len(conf) \in Nat /\ pos \in 1..(Len(conf) + 1)
      /\ pc[Server] \in ServerStates
  BY ConfIsSeq DEF TypeOK
<1> DEFINE Less == Stage' < Stage \/ (Stage' = Stage /\ StartWork' < StartWork)
           Not == Stage' < Stage \/ (Stage' = Stage /\ StartWork' <= StartWork)
<1>3. ASSUME SyncStep(Server) PROVE Less
  <2>1. Work(Server)' < Work(Server)
    BY <1>0, <1>3, SyncStepWorks
  <2>2. conf' = conf /\ pos' = pos
    BY <1>3 DEF SyncStep, LoadBackendStatus, ListFails, List, ListRunning, SaveRefreshed, confVars
  <2>3. Stage' = Stage
    BY <1>0, <1>3 DEF SyncStep, LoadBackendStatus, ListFails, List, ListRunning, SaveRefreshed,
                      Pinging, Stage, TypeOK
  <2> QED
    BY <1>1, <1>2, <2>1, <2>2, <2>3 DEF StartWork
<1>4. ASSUME Seed PROVE Less
  <2>1. Work(Server)' = Work(Server) /\ Stage' = Stage
    BY <1>4 DEF Seed, procVars, Work, Held, HandWork, Stage
  <2>2. conf' = conf /\ pos' = pos + 1
    BY <1>4 DEF Seed
  <2> QED
    BY <1>1, <1>2, <2>1, <2>2 DEF StartWork
<1>5. ASSUME NEW id \in Ids, Prune(id) PROVE Less
  <2>1. /\ todo' = todo /\ pc' = pc /\ conf' = conf /\ pos' = pos /\ id \in Held(Server)
        /\ Held(Server)' = Held(Server) \ {id}
    BY <1>0, <1>5 DEF Prune, confVars, Held, TypeOK
  <2>2. Cardinality(Held(Server)') = Cardinality(Held(Server)) - 1
    BY <1>0, <2>1, FS_RemoveElement DEF FiniteInv
  <2>3. HandWork(Server)' = HandWork(Server) /\ Stage' = Stage
    BY <2>1 DEF HandWork, Stage
  <2>4. Work(Server)' < Work(Server)
    BY <1>0, <2>1, <2>2, <2>3, WorkIsNumber DEF Work
  <2> QED
    BY <1>1, <1>2, <2>1, <2>3, <2>4 DEF StartWork
<1>6. ASSUME Reject \/ StartBootSync \/ EndBootSync \/ BootSyncFails PROVE Less
  BY <1>0, <1>6 DEF Reject, StartBootSync, EndBootSync, BootSyncFails, Stop, Listing, Registering,
                    Synced, Stage, TypeOK
<1>7. ASSUME ServerStops PROVE Not
  <2>1. Work(Server)' = 0 /\ pc'[Server] = "down" /\ conf' = conf /\ pos' = pos
    BY <1>0, <1>7, StopWork DEF ServerStops, confVars
  <2> QED
    BY <1>1, <1>2, <2>1 DEF Stage, StartWork
<1>8. ASSUME Local(Server)' = Local(Server), ~ Seed, ~ \E c \in Configs : Boot(c) PROVE Not
  <2>1. Work(Server)' = Work(Server) /\ pc'[Server] = pc[Server]
    BY <1>0, <1>8, LocalWork
  <2>2. conf' = conf /\ pos' = pos
    BY <1>8 DEF Next, vars, ServerStep, SyncStep, LoadBackendStatus, ListFails, List, ListRunning,
                SaveRefreshed, Reject, Prune, StartBootSync, EndBootSync, BootSyncFails, ServerStops,
                TaskStep, StartSyncAll, StartSyncOne, EndTask, TaskAborts, confVars
  <2> QED
    BY <1>1, <1>2, <2>1, <2>2 DEF Stage, StartWork
<1>9. ASSUME ServerStep PROVE Less
  BY <1>3, <1>4, <1>5, <1>6, <1>9 DEF ServerStep
<1>10. Less => Not
  <2>1. conf' \in Seq(BackendDefinition) /\ pos' \in 1..(Len(conf') + 1)
    <3>1. (conf \in Configs \union {<<>>} /\ pos \in 1..(Len(conf) + 1))'
      BY DEF TypeOK
    <3>2. <<>> \in Seq(BackendDefinition)
      OBVIOUS
    <3> QED
      BY <3>1, <3>2, ConfigsAssumption
  <2>2. Len(conf') \in Nat /\ pos' \in Nat
    BY <2>1, LenProperties
  <2> QED
    BY <1>1, <1>2, <2>1, <2>2 DEF StartWork
<1>11. ASSUME NEW c \in Configs, Boot(c) PROVE pc[Server] = "down"
  BY <1>11 DEF Boot
<1>12. ASSUME pc[Server] # "down" PROVE Not
  BY <1>0, <1>3, <1>4, <1>5, <1>6, <1>7, <1>8, <1>10, <1>11, <1>12, OthersLocal
<1> HIDE DEF Less, Not
<1>13. Stage \in Nat /\ StartWork \in Nat
  BY <1>1, <1>2 DEF Stage, StartWork
<1> QED
  BY <1>9, <1>12, <1>13 DEF StartRunsOut, Less, Not

\* What the processes and Redis hold stays finite.
LEMMA MemoryIsFinite == Spec => []FiniteInv
<1>1. TypeOK /\ FiniteInv /\ [Next]_vars => FiniteInv'
  BY StepFinite
<1> QED
  BY <1>1, InitFinite, TypeCorrect, PTL DEF Spec

(***************************************************************************)
(* A task has a number of steps to take, never more than five for each     *)
(* backend it lists and three, that each of its steps makes smaller and no *)
(* other process makes larger, however the registry changes meanwhile.     *)
(***************************************************************************)
THEOREM TasksRunOut == Spec => [][TaskRunsOut]_vars
<1>1. IInv /\ FiniteInv /\ FiniteInv' /\ [Next]_vars => TaskRunsOut
  BY TaskStepsRunOut
<1> QED
  BY <1>1, Inductive, MemoryIsFinite, PTL DEF Spec

(***************************************************************************)
(* Registration and then the synchronisation of a server that starts run   *)
(* out of steps, too, whatever workers save and delete meanwhile.          *)
(***************************************************************************)
THEOREM StartsRunOut == Spec => [][StartRunsOut]_vars
<1>1. TypeOK /\ TypeOK' /\ FiniteInv /\ FiniteInv' /\ [Next]_vars => StartRunsOut
  BY StartStepsRunOut
<1> QED
  BY <1>1, TypeCorrect, MemoryIsFinite, PTL DEF Spec

\* The guard of a step of SyncStep or EndTask holds for p.
Guarded(p) ==
    \/ \E id \in Ids : IsFirst(id, todo[p])
    \/ Pinging(p)
    \/ pc[p] = "ps"
    \/ pc[p] = "save" /\ \E id \in Ids : IsFirst(id, Held(p))
    \/ Synced(p)

\* A process between two calls of a ping holds the record that it pings.
HandInv == \A p \in Procs : pc[p] \in {"ps", "save"} => todo[p] = {} /\ Held(p) # {}

\* Whoever has work left can go on with it: the server also while it registers,
\* when a definition is saved or refused, a backend pruned, or all is done.
Unstuck ==
    /\ \A w \in Workers : pc[w] # "idle" => Guarded(w)
    /\ pc[Server] \notin {"down", "serving"} => Guarded(Server) \/ Registering

\* A set of IDs that is not empty has a first one in the order of ZRANGE.
LEMMA SomeFirst ==
  ASSUME NEW S \in SUBSET Ids, S # {}
  PROVE  \E id \in Ids : IsFirst(id, S)
<1> DEFINE Less == OpToRel(<, Nat)
<1>1. IsWellFoundedOn(Less, Nat)
  BY ONLY NatLessThanWellFounded
<1>2. \A m, n \in Nat : n < m => <<n, m>> \in Less
  BY SMT DEF OpToRel
<1> HIDE DEF Less
<1>3. S \subseteq Nat
  BY IdsAssumption
<1>4. \E m \in S : \A n \in S : ~ (<<n, m>> \in Less)
  BY <1>1, <1>3, WFMin
<1>5. PICK m \in S : \A n \in S : ~ (<<n, m>> \in Less)
  BY <1>4
<1>6. \A n \in S : ~ (n < m)
  BY <1>2, <1>3, <1>5, Zenon
<1> QED
  BY <1>3, <1>6 DEF IsFirst

LEMMA StepHand == TypeOK /\ HandInv /\ [Next]_vars => HandInv'
<1> SUFFICES ASSUME TypeOK, HandInv, [Next]_vars, NEW q \in Procs, pc'[q] \in {"ps", "save"}
             PROVE  todo'[q] = {} /\ Held(q)' # {}
  BY DEF HandInv
<1>1. CASE Local(q)' = Local(q)
  BY <1>1 DEF Local, HandInv, Held
<1>2. CASE SyncStep(q)
  <2>1. CASE LoadBackendStatus(q)
    <3>1. pc'[q] = pc[q] /\ todo[q] # {}
      BY <2>1 DEF LoadBackendStatus, IsFirst
    <3> QED
      BY <3>1 DEF HandInv
  <2>2. CASE ListFails(q) \/ (\E installed \in SUBSET Models : List(q, installed))
    <3>1. todo'[q] = todo[q] /\ Held(q)' = Held(q) /\ Pinging(q)
      BY <2>2 DEF ListFails, List, Held
    <3> QED
      BY <3>1 DEF Pinging
  <2>3. ASSUME NEW running \in SUBSET Models, ListRunning(q, running)
        PROVE  todo'[q] = {} /\ Held(q)' # {}
    <3>1. todo'[q] = todo[q] /\ Held(q)' = Held(q) /\ pc[q] = "ps"
      BY <2>3 DEF ListRunning, Held
    <3> QED
      BY <3>1 DEF HandInv
  <2>4. CASE SaveRefreshed(q)
    BY <2>4 DEF SaveRefreshed, TypeOK
  <2> QED
    BY <1>2, <2>1, <2>2, <2>3, <2>4 DEF SyncStep
<1>3. ASSUME NEW state, Listing(q, state) \/ Stop(q, state) PROVE pc'[q] = state
  BY <1>3 DEF Listing, Stop, TypeOK
<1>4. CASE q = Server /\ (\/ \E c \in Configs : Boot(c)
                          \/ Reject \/ StartBootSync \/ EndBootSync
                          \/ BootSyncFails \/ ServerStops)
  BY <1>3, <1>4 DEF Boot, Reject, StartBootSync, EndBootSync, BootSyncFails, ServerStops
<1>5. CASE q = Server /\ \E id \in Ids : Prune(id)
  BY <1>5 DEF Prune, Registering
<1>6. CASE q \in Workers /\ (StartSyncAll(q) \/ EndTask(q) \/ TaskAborts(q))
  BY <1>3, <1>6 DEF StartSyncAll, EndTask, TaskAborts
<1>7. CASE q \in Workers /\ \E id \in Ids : StartSyncOne(q, id)
  BY <1>7 DEF StartSyncOne, TypeOK
<1> QED
  BY <1>1, <1>2, <1>4, <1>5, <1>6, <1>7, OthersLocal

(***************************************************************************)
(* No process waits for another: with work left it can take a step,        *)
(* whatever the others have saved or deleted.  With TasksRunOut and        *)
(* StartsRunOut, only fairness is missing of WorkEnds.                     *)
(***************************************************************************)
THEOREM NobodyWaits == Spec => []Unstuck
<1>1. Init => HandInv
  BY DEF Init, HandInv, Procs
<1>2. TypeOK /\ HandInv /\ [Next]_vars => HandInv'
  BY StepHand
<1>3. TypeOK /\ HandInv => Unstuck
  <2> SUFFICES ASSUME TypeOK, HandInv PROVE Unstuck
    OBVIOUS
  <2>1. ASSUME NEW p \in Procs, pc[p] \in {"sync", "ps", "save"} PROVE Guarded(p)
    <3>1. todo[p] # {} => Guarded(p)
      BY SomeFirst DEF Guarded, TypeOK
    <3>2. Held(p) # {} => \E id \in Ids : IsFirst(id, Held(p))
      BY SomeFirst DEF Held
    <3> QED
      BY <2>1, <3>1, <3>2 DEF Guarded, Pinging, Synced, HandInv
  <2>2. pc[Server] = "register" => Guarded(Server) \/ Registering
    BY SomeFirst DEF Guarded, Registering, TypeOK, Procs
  <2>3. ASSUME NEW w \in Workers, pc[w] # "idle" PROVE Guarded(w)
    BY <2>1, <2>3 DEF TypeOK, WorkerStates, Procs
  <2> QED
    BY <2>1, <2>2, <2>3 DEF Unstuck, TypeOK, ServerStates, Procs
<1> QED
  BY <1>1, <1>2, <1>3, TypeCorrect, PTL DEF Spec

-----------------------------------------------------------------------------
(* Requests over this registry: BackendService.                            *)

LEMMA MaintainMoves ==
  ASSUME TypeOK, ObservedInv, Maintain
  PROVE  [Requests!Next]_(Requests!vars)
<1>1. [Registry!Next]_(Registry!registryVars)
  BY RegistryStep DEF Maintain
<1>2. CASE pc[Server] = "serving" /\ pc'[Server] # "serving"
  <2>1. Requests!RequestsEnd
    BY <1>2 DEF Maintain
  <2>2. Registry!StopServing
    BY <1>1, <1>2 DEF Registry!Next, Registry!registryVars, Registry!Configure, Registry!Remove,
       Registry!Refresh, Registry!StartServing
  <2>3. Requests!Registry!StopServing
    BY <2>2 DEF Registry!StopServing, Requests!Registry!StopServing, Registry!storeVars,
       Requests!Registry!storeVars
  <2> QED
    BY <2>1, <2>3 DEF Requests!Next, Requests!ServerStops
<1>3. CASE /\ ~ (pc[Server] = "serving" /\ pc'[Server] # "serving")
           /\ Registry!registryVars' = Registry!registryVars
  <2>1. seen' = seen /\ UNCHANGED requestVars
    BY <1>3 DEF Maintain
  <2> QED
    BY <1>3, <2>1 DEF Registry!registryVars, requestVars, Requests!vars
<1>4. CASE /\ ~ (pc[Server] = "serving" /\ pc'[Server] # "serving")
           /\ Registry!registryVars' # Registry!registryVars
  <2>1. Requests!Watch /\ UNCHANGED Requests!requestVars
    BY <1>4 DEF Maintain, requestVars, Requests!requestVars
  <2>2. ~ Registry!StopServing /\ Registry!Next
    BY <1>1, <1>4 DEF Registry!StopServing
  <2>3. \/ \E id \in Ids :
             \/ \E status \in BackendStatus :
                   Requests!Registry!Configure(id, status) \/ Requests!Registry!Refresh(id, status)
             \/ Requests!Registry!Remove(id)
        \/ \E clean \in BOOLEAN : Requests!Registry!StartServing(clean)
    BY <2>2 DEF Registry!Next, Registry!BackendStatus, BackendStatus,
       Registry!Configure, Requests!Registry!Configure,
       Registry!Refresh, Requests!Registry!Refresh,
       Registry!Remove, Requests!Registry!Remove,
       Registry!StartServing, Requests!Registry!StartServing,
       Registry!SaveBackend, Requests!Registry!SaveBackend,
       Registry!DeleteBackend, Requests!Registry!DeleteBackend,
       Registry!Observed, Requests!Registry!Observed,
       Registry!storeVars, Requests!Registry!storeVars
  <2> QED
    BY <2>1, <2>3 DEF Requests!Next, Requests!RegistryMoves, Requests!BackendStatus, BackendStatus
<1> QED
  BY <1>2, <1>3, <1>4

LEMMA ServiceStep ==
  ASSUME TypeOK, ObservedInv, [ServiceNext]_serviceVars
  PROVE  [Requests!Next]_(Requests!vars)
<1>1. ASSUME NEW c \in Clients, ServeRequest(c) PROVE Requests!Next
  BY <1>1 DEF ServeRequest, Requests!Next
<1>2. ASSUME UNCHANGED serviceVars PROVE UNCHANGED Requests!vars
  BY <1>2 DEF serviceVars, vars, requestVars, Requests!vars
<1> QED
  BY <1>1, <1>2, MaintainMoves DEF ServiceNext

\* What holds of registration and synchronisation holds of the whole.
LEMMA ServiceMaintains == ServiceSpec => Spec
<1>1. ServiceInit => Init
  BY DEF ServiceInit
<1>2. [ServiceNext]_serviceVars => [Next]_vars
  BY DEF ServiceNext, Maintain, ServeRequest, serviceVars
<1> QED
  BY <1>1, <1>2, PTL DEF ServiceSpec, Spec

(***************************************************************************)
(* Requests over the registry that a starting server and workers write     *)
(* call by call behave as over the abstract one.                           *)
(***************************************************************************)
THEOREM ServiceRefinement == ServiceSpec => ImplementsRouting
<1>1. ServiceSpec => [](TypeOK /\ ObservedInv)
  <2>1. IInv => TypeOK /\ ObservedInv
    BY DEF IInv
  <2> QED
    BY <2>1, Inductive, ServiceMaintains, PTL
<1>2. ServiceInit => Requests!Init
  BY DEF ServiceInit
<1> QED
  BY <1>1, <1>2, ServiceStep, PTL DEF ServiceSpec, ImplementsRouting, Requests!Spec

\* The instance of the module that holds the proofs about requests.
Proved ==
    INSTANCE RequestRoutingProofs
        WITH serving <- pc[Server] = "serving",
             synced  <- pc[Server] = "serving" /\ bootSynced,
             todo    <- asked,
             got     <- found

\* It has the definitions of the instance in BackendService: all that the
\* initial states and the steps are made of, on either side.
LEMMA SameRequests ==
  /\ Requests!Init => Proved!Init
  /\ [Requests!Next]_(Requests!vars) => [Proved!Next]_(Proved!vars)
BY DEF
       Requests!BackendStatus, Proved!BackendStatus, Requests!storeVars, Proved!storeVars,
       Requests!IsFirst, Proved!IsFirst, Requests!registryVars, Proved!registryVars,
       Requests!requestVars, Proved!requestVars, Requests!vars, Proved!vars,
       Requests!NoRecords, Proved!NoRecords, Requests!NothingSeen, Proved!NothingSeen,
       Requests!Usable, Proved!Usable, Requests!HasLoaded, Proved!HasLoaded,
       Requests!HasModel, Proved!HasModel, Requests!Listing, Proved!Listing,
       Requests!StartRouting, Proved!StartRouting, Requests!StartLookup, Proved!StartLookup,
       Requests!LoadBackendStatus, Proved!LoadBackendStatus, Requests!Answer, Proved!Answer,
       Requests!Proxy, Proved!Proxy, Requests!Healthy, Proved!Healthy, Requests!LoadedHits,
       Proved!LoadedHits, Requests!ModelHits, Proved!ModelHits, Requests!Preferred,
       Proved!Preferred, Requests!SelectBackend, Proved!SelectBackend,
       Requests!NoHealthyBackends, Proved!NoHealthyBackends, Requests!LookupBackendRoute,
       Proved!LookupBackendRoute, Requests!BackendNotFound, Proved!BackendNotFound,
       Requests!ListingFails, Proved!ListingFails, Requests!BackendAnswers,
       Proved!BackendAnswers, Requests!BackendFails, Proved!BackendFails,
       Requests!PayloadRefused, Proved!PayloadRefused, Requests!Finish, Proved!Finish,
       Requests!Watch, Proved!Watch, Requests!RegistryMoves, Proved!RegistryMoves,
       Requests!RequestsEnd, Proved!RequestsEnd, Requests!ServerStops, Proved!ServerStops,
       Requests!HandlerStep, Proved!HandlerStep, Requests!RequestStep, Proved!RequestStep,
       Requests!Next, Proved!Next, Requests!Init, Proved!Init, Requests!Registry!Configure,
       Proved!Registry!Configure, Requests!Registry!Refresh, Proved!Registry!Refresh,
       Requests!Registry!Remove, Proved!Registry!Remove, Requests!Registry!StartServing,
       Proved!Registry!StartServing, Requests!Registry!StopServing,
       Proved!Registry!StopServing, Requests!Registry!Init, Proved!Registry!Init,
       Requests!Registry!SaveBackend, Proved!Registry!SaveBackend,
       Requests!Registry!DeleteBackend, Proved!Registry!DeleteBackend,
       Requests!Registry!Observed, Proved!Registry!Observed, Requests!Registry!storeVars,
       Proved!Registry!storeVars, Requests!Registry!StoreInit, Proved!Registry!StoreInit,
       Requests!Registry!IndexMatchesMeta, Proved!Registry!IndexMatchesMeta

LEMMA SameProperties ==
  /\ Proved!RoutedToObserved => Requests!RoutedToObserved
  /\ Proved!PrefersModel => Requests!PrefersModel
  /\ Proved!UnavailableOnlyIfUnhealthy => Requests!UnavailableOnlyIfUnhealthy
  /\ Proved!LookupFindsRegistered => Requests!LookupFindsRegistered
BY DEF Requests!RoutedToObserved, Proved!RoutedToObserved, Requests!Routed, Proved!Routed,
       Requests!PrefersModel, Proved!PrefersModel, Requests!HasLoaded, Proved!HasLoaded,
       Requests!HasModel, Proved!HasModel, Requests!Usable, Proved!Usable,
       Requests!UnavailableOnlyIfUnhealthy, Proved!UnavailableOnlyIfUnhealthy,
       Requests!LookupFindsRegistered, Proved!LookupFindsRegistered

(***************************************************************************)
(* What RequestRoutingProofs proves of requests over the abstract registry *)
(* holds over the one that a starting server and any number of workers     *)
(* write, each with its own calls.                                         *)
(***************************************************************************)
THEOREM ServiceServes ==
  ASSUME RequestsAssumption
  PROVE  ServiceSpec => []RequestsServed
<1>1. /\ Models \intersect Ids = {} /\ NoWant \notin Models \union Ids
      /\ NoRoute \notin [id : Ids, status : Proved!BackendStatus]
      /\ NoStatus \notin Proved!BackendStatus
  BY NoStatusAssumption DEF RequestsAssumption, Proved!BackendStatus, BackendStatus
<1>2. Proved!Spec => []Proved!RoutedToObserved
  BY <1>1, IdsAssumption, NoAddressAssumption, Proved!RoutesToObserved
<1>3. Proved!Spec => []Proved!PrefersModel
  BY <1>1, IdsAssumption, NoAddressAssumption, Proved!RoutesToModel
<1>4. Proved!Spec => []Proved!UnavailableOnlyIfUnhealthy
  BY <1>1, IdsAssumption, NoAddressAssumption, Proved!NoSpuriousRefusal
<1>5. Proved!Spec => []Proved!LookupFindsRegistered
  BY <1>1, IdsAssumption, NoAddressAssumption, Proved!LookupsFind
<1>6. Requests!Spec => Proved!Spec
  BY SameRequests, PTL DEF Requests!Spec, Proved!Spec
<1> QED
  BY <1>2, <1>3, <1>4, <1>5, <1>6, SameProperties, ServiceRefinement, PTL
     DEF ImplementsRouting, RequestsServed
=============================================================================
