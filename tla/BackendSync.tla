----------------------------- MODULE BackendSync -----------------------------
(***************************************************************************)
(* Registration and synchronisation of Ollama backends                     *)
(* (internal/service/backends.go, cmd/server/main.go).                     *)
(*                                                                         *)
(* The server, each time it starts, lists the registry, saves one record   *)
(* per definition of its configuration, deletes the other backends it      *)
(* listed, and then synchronises every backend before it serves.  Workers  *)
(* synchronise all backends or one at any time.  Every Redis call and      *)
(* every HTTP call is a step of its own: a process works on the records it *)
(* read, which other processes may have replaced or deleted since, and     *)
(* writes them back whole.                                                 *)
(***************************************************************************)
EXTENDS BackendStore, Sequences

CONSTANTS
    Workers,   \* goroutines of the worker process
    Server,    \* the server process
    Blank,     \* a blank id or address in the configuration file
    Configs    \* the contents the configuration file may have

Procs == Workers \union {Server}

BackendDefinition ==
    [id : Ids \union {Blank}, address : Addresses \union {Blank}]

ASSUME ServerAssumption == Server \notin Workers
ASSUME BlankAssumption == Blank \notin Ids /\ Blank \notin Addresses
ASSUME ConfigsAssumption == \A c \in Configs : c \in Seq(BackendDefinition)

VARIABLES
    pc,          \* what each process is doing
    todo,        \* IDs that ListBackends has still to load, per process
    got,         \* records a process holds in memory, per process and ID
    reply,       \* what the backend in hand answered to the last ping
    conf,        \* the server's backend definitions
    pos,         \* the definition RegisterBackends handles next
    bootSynced,  \* the synchronisation at start went through
    stale,       \* history: workers whose job began before conf was in force
    overlap      \* history: one of them has saved a record since the start

procVars == <<pc, todo, got, reply>>
confVars == <<conf, pos, bootSynced>>
historyVars == <<stale, overlap>>
vars == <<index, meta, pc, todo, got, reply, conf, pos, bootSynced, stale, overlap>>

Reply == [ok : BOOLEAN, models : SUBSET Models, loaded : SUBSET Models]
Failed == [ok |-> FALSE, models |-> {}, loaded |-> {}]
NoRecords == [id \in Ids |-> NoStatus]

ServerStates == {"down", "register", "sync", "ps", "save", "serving"}
WorkerStates == {"idle", "sync", "ps", "save"}

TypeOK ==
    /\ StoreTypeOK
    /\ pc \in [Procs -> ServerStates \union WorkerStates]
    /\ pc[Server] \in ServerStates
    /\ \A w \in Workers : pc[w] \in WorkerStates
    /\ todo \in [Procs -> SUBSET Ids]
    /\ got \in [Procs -> [Ids -> BackendStatus \union {NoStatus}]]
    /\ reply \in [Procs -> Reply]
    /\ conf \in Configs \union {<<>>}
    /\ pos \in 1..(Len(conf) + 1)
    /\ bootSynced \in BOOLEAN
    /\ stale \in SUBSET Workers
    /\ overlap \in BOOLEAN

Init ==
    /\ StoreInit
    /\ pc = [p \in Procs |-> IF p = Server THEN "down" ELSE "idle"]
    /\ todo = [p \in Procs |-> {}]
    /\ got = [p \in Procs |-> NoRecords]
    /\ reply = [p \in Procs |-> Failed]
    /\ conf = <<>>
    /\ pos = 1
    /\ bootSynced = FALSE
    /\ stale = {}
    /\ overlap = FALSE

-----------------------------------------------------------------------------

Held(p) == {id \in Ids : got[p][id] # NoStatus}

\* The definitions handled so far, and the backends they define.
Handled == {conf[i] : i \in 1..(pos - 1)}
Desired == {def.id : def \in Handled}

\* Mutant: a blank address is accepted.
RefusedUnlessBlankAddress ==
    \/ conf[pos].id = Blank
    \/ \E def \in Handled : def.id = conf[pos].id \/ def.address = conf[pos].address

\* The definition at pos is one RegisterBackends refuses.
Refused ==
    \/ conf[pos].id = Blank
    \/ conf[pos].address = Blank
    \/ \E def \in Handled : def.id = conf[pos].id \/ def.address = conf[pos].address

\* RegisterBackends has returned without an error.
Registered == pc[Server] \in {"sync", "ps", "save", "serving"}

-----------------------------------------------------------------------------
(* ListBackends: ZRANGE, then one HGETALL per ID, in order.                *)

\* ZRANGE, issued by process p in the state pc.
Listing(p, state) ==
    /\ pc' = [pc EXCEPT ![p] = state]
    /\ todo' = [todo EXCEPT ![p] = index]
    /\ got' = [got EXCEPT ![p] = NoRecords]
    /\ reply' = [reply EXCEPT ![p] = Failed]

\* HGETALL of the next ID; a hash that is gone is skipped.
LoadBackendStatus(p) ==
    /\ \E id \in Ids :
          /\ IsFirst(id, todo[p])
          /\ todo' = [todo EXCEPT ![p] = @ \ {id}]
          /\ got' = [got EXCEPT ![p][id] = meta[id]]
    /\ UNCHANGED <<storeVars, pc, reply, confVars, historyVars>>

-----------------------------------------------------------------------------
(* The server starts: RegisterBackends.                                    *)

\* The configuration is read and the registered backends are listed.
Boot(c) ==
    /\ pc[Server] = "down"
    /\ Listing(Server, "register")
    /\ conf' = c
    /\ pos' = 1
    /\ bootSynced' = FALSE
    /\ stale' = {w \in Workers : pc[w] # "idle"}
    /\ overlap' = FALSE
    /\ UNCHANGED storeVars

\* Mutant: a backend that is listed keeps the address it has.
ConfiguredAsListed(def) ==
    IF got[Server][def.id] = NoStatus
    THEN [address    |-> def.address,
          healthy    |-> TRUE,
          models     |-> {},
          loaded     |-> {},
          observedAt |-> NoAddress]
    ELSE got[Server][def.id]

\* The record of a definition: the one listed with the new address, or a new
\* one, which is healthy until something says otherwise.
Configured(def) ==
    IF got[Server][def.id] = NoStatus
    THEN [address    |-> def.address,
          healthy    |-> TRUE,
          models     |-> {},
          loaded     |-> {},
          observedAt |-> NoAddress]
    ELSE [got[Server][def.id] EXCEPT !.address = def.address]

Registering ==
    /\ pc[Server] = "register"
    /\ todo[Server] = {}

Seed ==
    /\ Registering
    /\ pos <= Len(conf)
    /\ ~Refused
    /\ SaveBackend(conf[pos].id, Configured(conf[pos]))
    /\ pos' = pos + 1
    /\ UNCHANGED <<procVars, conf, bootSynced, historyVars>>

\* A server stops: what it held in memory is gone.
Stop(p, state) ==
    /\ pc' = [pc EXCEPT ![p] = state]
    /\ todo' = [todo EXCEPT ![p] = {}]
    /\ got' = [got EXCEPT ![p] = NoRecords]
    /\ reply' = [reply EXCEPT ![p] = Failed]

\* The server exits; the definitions before pos have been saved.
Reject ==
    /\ Registering
    /\ pos <= Len(conf)
    /\ Refused
    /\ Stop(Server, "down")
    /\ UNCHANGED <<storeVars, confVars, historyVars>>

\* Mutant: every backend that was listed is deleted.
PruneAllListed(id) ==
    /\ Registering
    /\ pos > Len(conf)
    /\ id \in Held(Server)
    /\ DeleteBackend(id)
    /\ got' = [got EXCEPT ![Server][id] = NoStatus]
    /\ UNCHANGED <<pc, todo, reply, confVars, historyVars>>

\* Mutant: backends are deleted while definitions are still to be handled.
PruneEarly(id) ==
    /\ Registering
    /\ id \in Held(Server) \ Desired
    /\ DeleteBackend(id)
    /\ got' = [got EXCEPT ![Server][id] = NoStatus]
    /\ UNCHANGED <<pc, todo, reply, confVars, historyVars>>

\* A listed backend that no definition names is deleted; the loop ranges over
\* a map, so in any order.
Prune(id) ==
    /\ Registering
    /\ pos > Len(conf)
    /\ id \in Held(Server) \ Desired
    /\ DeleteBackend(id)
    /\ got' = [got EXCEPT ![Server][id] = NoStatus]
    /\ UNCHANGED <<pc, todo, reply, confVars, historyVars>>

\* RegisterBackends is done and SyncBackends lists the registry again.
StartBootSync ==
    /\ Registering
    /\ pos > Len(conf)
    /\ Held(Server) \subseteq Desired
    /\ Listing(Server, "sync")
    /\ UNCHANGED <<storeVars, confVars, historyVars>>

-----------------------------------------------------------------------------
(* A worker takes a task.                                                  *)

\* From here on w works on a listing older than the configuration in force.
TaskBegins(w) ==
    stale' = IF Registered THEN stale \ {w} ELSE stale \union {w}

StartSyncAll(w) ==
    /\ pc[w] = "idle"
    /\ Listing(w, "sync")
    /\ TaskBegins(w)
    /\ UNCHANGED <<storeVars, confVars, overlap>>

\* HGETALL of one backend; a missing one ends the task with an error.
StartSyncOne(w, id) ==
    /\ pc[w] = "idle"
    /\ meta[id] # NoStatus
    /\ pc' = [pc EXCEPT ![w] = "sync"]
    /\ got' = [got EXCEPT ![w][id] = meta[id]]
    /\ TaskBegins(w)
    /\ UNCHANGED <<storeVars, todo, reply, confVars, overlap>>

-----------------------------------------------------------------------------
(* SyncBackends: syncBackend for each record held, in order.               *)

Pinging(p) == pc[p] = "sync" /\ todo[p] = {} /\ Held(p) # {}

\* GET /api/tags fails or takes longer than five seconds.
ListFails(p) ==
    /\ Pinging(p)
    /\ pc' = [pc EXCEPT ![p] = "save"]
    /\ reply' = [reply EXCEPT ![p] = Failed]
    /\ UNCHANGED <<storeVars, todo, got, confVars, historyVars>>

\* GET /api/tags answers with the installed models.
List(p, installed) ==
    /\ Pinging(p)
    /\ pc' = [pc EXCEPT ![p] = "ps"]
    /\ reply' = [reply EXCEPT ![p] = [ok |-> TRUE, models |-> installed, loaded |-> {}]]
    /\ UNCHANGED <<storeVars, todo, got, confVars, historyVars>>

\* GET /api/ps answers with the loaded models; when it fails there are none.
ListRunning(p, running) ==
    /\ pc[p] = "ps"
    /\ pc' = [pc EXCEPT ![p] = "save"]
    /\ reply' = [reply EXCEPT ![p].loaded = running]
    /\ UNCHANGED <<storeVars, todo, got, confVars, historyVars>>

\* Mutant: a failed ping leaves the health last seen, too.
RefreshedOnAnswer(status, answer) ==
    IF answer.ok
    THEN [status EXCEPT !.healthy = TRUE,
                        !.models = answer.models,
                        !.loaded = answer.loaded,
                        !.observedAt = status.address]
    ELSE status

\* A failed ping leaves the models last seen.
Refreshed(status, answer) ==
    IF answer.ok
    THEN [status EXCEPT !.healthy = TRUE,
                        !.models = answer.models,
                        !.loaded = answer.loaded,
                        !.observedAt = status.address]
    ELSE [status EXCEPT !.healthy = FALSE]

\* Mutant: a backend that does not answer is pinged again.
SaveRefreshedOrRetry(p) ==
    /\ pc[p] = "save"
    /\ \E id \in Ids :
          /\ IsFirst(id, Held(p))
          /\ SaveBackend(id, Refreshed(got[p][id], reply[p]))
          /\ got' = IF reply[p].ok THEN [got EXCEPT ![p][id] = NoStatus] ELSE got
    /\ pc' = [pc EXCEPT ![p] = "sync"]
    /\ reply' = [reply EXCEPT ![p] = Failed]
    /\ overlap' = (overlap \/ p \in stale)
    /\ UNCHANGED <<todo, confVars, stale>>

\* The whole record, address included, is written back.
SaveRefreshed(p) ==
    /\ pc[p] = "save"
    /\ \E id \in Ids :
          /\ IsFirst(id, Held(p))
          /\ SaveBackend(id, Refreshed(got[p][id], reply[p]))
          /\ got' = [got EXCEPT ![p][id] = NoStatus]
    /\ pc' = [pc EXCEPT ![p] = "sync"]
    /\ reply' = [reply EXCEPT ![p] = Failed]
    /\ overlap' = (overlap \/ p \in stale)
    /\ UNCHANGED <<todo, confVars, stale>>

Synced(p) == pc[p] = "sync" /\ todo[p] = {} /\ Held(p) = {}

EndTask(w) ==
    /\ Synced(w)
    /\ Stop(w, "idle")
    /\ stale' = stale \ {w}
    /\ UNCHANGED <<storeVars, confVars, overlap>>

\* Mutant: the HTTP server starts while backends are still to be pinged.
EndBootSyncEarly ==
    /\ pc[Server] = "sync"
    /\ Stop(Server, "serving")
    /\ bootSynced' = TRUE
    /\ UNCHANGED <<storeVars, conf, pos, historyVars>>

\* The HTTP server starts.
EndBootSync ==
    /\ Synced(Server)
    /\ Stop(Server, "serving")
    /\ bootSynced' = TRUE
    /\ UNCHANGED <<storeVars, conf, pos, historyVars>>

-----------------------------------------------------------------------------
(* A Redis error, or a process that dies, between any two steps.           *)

\* SyncBackends fails at start: the server logs a warning and serves.
BootSyncFails ==
    /\ pc[Server] \in {"sync", "ps", "save"}
    /\ Stop(Server, "serving")
    /\ UNCHANGED <<storeVars, confVars, historyVars>>

ServerStops ==
    /\ pc[Server] # "down"
    /\ Stop(Server, "down")
    /\ UNCHANGED <<storeVars, confVars, historyVars>>

TaskAborts(w) ==
    /\ pc[w] # "idle"
    /\ Stop(w, "idle")
    /\ stale' = stale \ {w}
    /\ UNCHANGED <<storeVars, confVars, overlap>>

-----------------------------------------------------------------------------

SyncStep(p) ==
    \/ LoadBackendStatus(p)
    \/ ListFails(p)
    \/ \E installed \in SUBSET Models : List(p, installed)
    \/ \E running \in SUBSET Models : ListRunning(p, running)
    \/ SaveRefreshed(p)

ServerStep ==
    \/ Seed
    \/ Reject
    \/ \E id \in Ids : Prune(id)
    \/ StartBootSync
    \/ SyncStep(Server)
    \/ EndBootSync

TaskStep(w) == SyncStep(w) \/ EndTask(w)

Next ==
    \/ \E c \in Configs : Boot(c)
    \/ ServerStep
    \/ BootSyncFails
    \/ ServerStops
    \/ \E w \in Workers :
          \/ StartSyncAll(w)
          \/ \E id \in Ids : StartSyncOne(w, id)
          \/ TaskStep(w)
          \/ TaskAborts(w)

Spec == Init /\ [][Next]_vars

\* A process that has work left and is not stopped goes on with it; every call
\* to a backend ends within its timeout.  Nothing makes a server start, a task
\* be taken or a process fail.
FairSpec ==
    /\ Spec
    /\ WF_vars(ServerStep)
    /\ \A w \in Workers : WF_vars(TaskStep(w))
-----------------------------------------------------------------------------
(* Properties                                                              *)

(***************************************************************************)
(* Once the synchronisation at start went through, a record that says      *)
(* healthy says so of the address it names, because that address answered: *)
(* nothing is left of the health that RegisterBackends assumed for a new   *)
(* backend or carried over from an old address, whatever the workers saved *)
(* in between.                                                             *)
(***************************************************************************)
HealthIsObserved ==
    pc[Server] = "serving" /\ bootSynced => \A id \in Ids : Observed(id)

(***************************************************************************)
(* After RegisterBackends the registry holds exactly the configured        *)
(* backends at their configured addresses, unless a task that began before *)
(* it was done has saved a record since.                                   *)
(***************************************************************************)
RegistryIsConfig ==
    Registered /\ ~overlap =>
        /\ index = Desired
        /\ \A def \in Handled : meta[def.id].address = def.address

(***************************************************************************)
(* After RegisterBackends every configured backend stays registered: its   *)
(* pruning and the records that tasks write back late never lose one.      *)
(***************************************************************************)
ConfiguredRegistered ==
    Registered => \A def \in Handled : def.id \in index

(***************************************************************************)
(* A backend leaves the registry only when the whole configuration has     *)
(* been accepted and does not define it: a configuration that is refused   *)
(* half way, or a server that dies half way, removes nothing.              *)
(***************************************************************************)
RemovedOnlyIfUnconfigured ==
    [][\A id \in index \ index' :
          /\ pos > Len(conf)
          /\ \A i \in 1..Len(conf) : conf[i].id # id]_vars

(***************************************************************************)
(* RegisterBackends and the synchronisation at start come to an end: the   *)
(* server serves or has exited, whatever the backends answer; and so does  *)
(* every task that a worker takes.                                         *)
(***************************************************************************)
WorkEnds ==
    /\ pc[Server] = "register" ~> pc[Server] \in {"serving", "down"}
    /\ \A w \in Workers : pc[w] # "idle" ~> pc[w] = "idle"

(***************************************************************************)
(* Registration and synchronisation implement the abstract registry: while *)
(* the server serves, no backend is removed and every record saved says    *)
(* healthy only of an address that has answered.                           *)
(***************************************************************************)
Registry ==
    INSTANCE BackendRegistry
        WITH serving <- pc[Server] = "serving",
             synced  <- pc[Server] = "serving" /\ bootSynced

ImplementsRegistry == Registry!Spec

(***************************************************************************)
(* What the comment on SyncBackends says of it: it refreshes health and    *)
(* model metadata.  So after registration no backend comes back to the     *)
(* registry, and every record keeps its address.                           *)
(***************************************************************************)
SyncOnlyRefreshes ==
    [][Registered /\ Registered' =>
          /\ index' \subseteq index
          /\ \A id \in index \intersect index' : meta'[id].address = meta[id].address]_vars
=============================================================================
