---------------------------- MODULE TaskPipeline ----------------------------
(***************************************************************************)
(* How a change of a backend's models reaches the registry                 *)
(* (internal/handler/backends.go, internal/workers, cmd/scheduler,         *)
(* cmd/worker; the queue is asynq).                                        *)
(*                                                                         *)
(* An administrator's request is forwarded to its backend; when it went    *)
(* well the server queues a task for that backend.  The scheduler queues   *)
(* a task for all of them.  A worker takes a task, loads the records,      *)
(* pings their backends one by one and saves what each ping said.  Any     *)
(* Redis call may fail, the client may leave, a backend may be down and    *)
(* the worker process may die.                                             *)
(*                                                                         *)
(* What a backend has is counted: version says how often its models have   *)
(* changed, seen which of these states its record shows.  BackendSync      *)
(* has the records' other fields and their registration; here the          *)
(* registered backends stay the same and a listing is one step.            *)
(***************************************************************************)
EXTENDS Naturals, FiniteSets

CONSTANTS
    Ids,         \* backends, numbered in the order in which ZRANGE lists them
    Workers,     \* goroutines of the worker process
    Requests,    \* administrators' requests
    Operations,  \* what they may ask
    Tasks,       \* tasks in the queue at once
    All,         \* the kind of a task for every backend
    NoKind, NoTask, NoRecord, NoId, NoOperation,
    MaxRetry,    \* how often the queue retries a task
    MaxChanges,  \* bound of the changes of each backend
    MaxFaults    \* bound of the faults

AdminOperations ==
    {"create", "copy", "pull", "push", "delete", "show", "ps", "tags", "version"}

ASSUME IdsAssumption == Ids \subseteq Nat /\ IsFiniteSet(Ids)
ASSUME OperationsAssumption == Operations \subseteq AdminOperations
ASSUME KindAssumption == All \notin Ids /\ NoKind \notin Ids \union {All}
ASSUME NoTaskAssumption == NoTask \notin Tasks
ASSUME NoRecordAssumption == NoRecord \notin Nat
ASSUME NoIdAssumption == NoId \notin Ids
ASSUME BoundsAssumption ==
    {MaxRetry, MaxFaults} \subseteq Nat /\ MaxChanges \in [Ids -> Nat]

Kinds == Ids \union {All}

VARIABLES
    version,     \* how often the models of each backend have changed
    up,          \* which backends answer
    seen,        \* the version that each record shows
    kind,        \* the tasks queued or in progress
    retried,     \* how often each has been retried
    task,        \* the task of each worker
    stage,       \* what it is doing
    got,         \* the records it has loaded and not yet saved
    reply,       \* what it will save for the backend in hand
    phase,       \* how far each request is
    op, target,  \* what it asks, and of which backend
    present,     \* its client is still there
    faults,
    due,         \* history: the version that the registry owes
    excused,     \* history: backends for which something has gone wrong since
    overtaken    \* history: backends others have saved since the worker loaded its records

backendVars == <<version, up>>
queueVars == <<kind, retried>>
workerVars == <<task, stage, got, reply>>
requestVars == <<phase, op, target, present>>
vars == <<backendVars, seen, queueVars, workerVars, requestVars, faults, due, excused, overtaken>>

TypeOK ==
    /\ version \in [Ids -> Nat]
    /\ up \in [Ids -> BOOLEAN]
    /\ seen \in [Ids -> Nat]
    /\ kind \in [Tasks -> Kinds \union {NoKind}]
    /\ retried \in [Tasks -> 0..MaxRetry]
    /\ task \in [Workers -> Tasks \union {NoTask}]
    /\ stage \in [Workers -> {"idle", "load", "ping", "save"}]
    /\ got \in [Workers -> [Ids -> Nat \union {NoRecord}]]
    /\ reply \in [Workers -> Nat \union {NoRecord}]
    /\ phase \in [Requests -> {"idle", "sending", "answered", "done"}]
    /\ op \in [Requests -> Operations \union {NoOperation}]
    /\ target \in [Requests -> Ids \union {NoId}]
    /\ present \in [Requests -> BOOLEAN]
    /\ faults \in Nat
    /\ due \in [Ids -> Nat]
    /\ excused \in SUBSET Ids
    /\ overtaken \in [Workers -> SUBSET Ids]

NoRecords == [id \in Ids |-> NoRecord]

Init ==
    /\ version = [id \in Ids |-> 0]
    /\ up = [id \in Ids |-> TRUE]
    /\ seen = [id \in Ids |-> 0]
    /\ kind = [t \in Tasks |-> NoKind]
    /\ retried = [t \in Tasks |-> 0]
    /\ task = [w \in Workers |-> NoTask]
    /\ stage = [w \in Workers |-> "idle"]
    /\ got = [w \in Workers |-> NoRecords]
    /\ reply = [w \in Workers |-> NoRecord]
    /\ phase = [r \in Requests |-> "idle"]
    /\ op = [r \in Requests |-> NoOperation]
    /\ target = [r \in Requests |-> NoId]
    /\ present = [r \in Requests |-> TRUE]
    /\ faults = 0
    /\ due = [id \in Ids |-> 0]
    /\ excused = {}
    /\ overtaken = [w \in Workers |-> {}]

Fault == faults < MaxFaults /\ faults' = faults + 1

-----------------------------------------------------------------------------
(* An administrator's request.                                             *)

\* Mutant: the pull was forgotten.
SyncedButPull == {"create", "copy", "push", "delete"}

\* The operations whose handlers ask for a synchronisation.
SyncedOperations == {"create", "copy", "pull", "push", "delete"}

\* The operations that change which models a backend has.
Changing == {"create", "copy", "pull", "delete"}

\* The backend is looked up and the payload, if any, read.
StartRequest(r, o, id) ==
    /\ phase[r] = "idle"
    /\ phase' = [phase EXCEPT ![r] = "sending"]
    /\ op' = [op EXCEPT ![r] = o]
    /\ target' = [target EXCEPT ![r] = id]
    /\ UNCHANGED <<backendVars, seen, queueVars, workerVars, present, faults, due, excused, overtaken>>

\* The handler returns.
EndRequest(r) ==
    /\ phase' = [phase EXCEPT ![r] = "done"]
    /\ op' = [op EXCEPT ![r] = NoOperation]
    /\ target' = [target EXCEPT ![r] = NoId]
    /\ present' = [present EXCEPT ![r] = TRUE]

\* The backend refuses, does not answer, or answers too late for its client;
\* what it has done all the same, Drift says.
RequestFails(r) ==
    /\ phase[r] = "sending"
    /\ EndRequest(r)
    /\ UNCHANGED <<backendVars, seen, queueVars, workerVars, faults, due,
                   excused, overtaken>>

\* The backend has done it, and the answer has been copied to the client.
BackendAnswers(r) ==
    /\ phase[r] = "sending"
    /\ up[target[r]]
    /\ present[r]
    /\ phase' = [phase EXCEPT ![r] = "answered"]
    /\ IF op[r] \in Changing
       THEN /\ version[target[r]] < MaxChanges[target[r]]
            /\ version' = [version EXCEPT ![target[r]] = @ + 1]
            /\ due' = [due EXCEPT ![target[r]] = version[target[r]] + 1]
            /\ excused' = excused \ {target[r]}
       ELSE UNCHANGED <<version, due, excused>>
    /\ UNCHANGED <<up, seen, queueVars, workerVars, op, target, present, faults, overtaken>>

\* The request's context is cancelled.
ClientLeaves(r) ==
    /\ phase[r] \in {"sending", "answered"}
    /\ present[r]
    /\ present' = [present EXCEPT ![r] = FALSE]
    /\ UNCHANGED <<backendVars, seen, queueVars, workerVars, phase, op, target, faults, due,
                   excused, overtaken>>

\* The task t is new in the queue.
Enqueue(t, k) ==
    /\ kind[t] = NoKind
    /\ kind' = [kind EXCEPT ![t] = k]
    /\ UNCHANGED retried

EnqueueSyncBackendByID(r) ==
    /\ phase[r] = "answered"
    /\ op[r] \in SyncedOperations
    /\ present[r]
    /\ \E t \in Tasks : Enqueue(t, target[r])
    /\ EndRequest(r)
    /\ UNCHANGED <<backendVars, seen, workerVars, faults, due, excused, overtaken>>

\* The handler only logs that the task could not be queued.
EnqueueFails(r) ==
    /\ phase[r] = "answered"
    /\ op[r] \in SyncedOperations
    /\ \/ ~present[r] /\ faults' = faults
       \/ present[r] /\ Fault
    /\ EndRequest(r)
    /\ excused' = excused \union {target[r]}
    /\ UNCHANGED <<backendVars, seen, queueVars, workerVars, due, overtaken>>

NotSynced(r) ==
    /\ phase[r] = "answered"
    /\ op[r] \notin SyncedOperations
    /\ EndRequest(r)
    /\ UNCHANGED <<backendVars, seen, queueVars, workerVars, faults, due,
                   excused, overtaken>>

-----------------------------------------------------------------------------
(* The backends.                                                           *)

\* A backend's models change without the server knowing.
Drift(id) ==
    /\ version[id] < MaxChanges[id]
    /\ version' = [version EXCEPT ![id] = @ + 1]
    /\ UNCHANGED <<up, seen, queueVars, workerVars, requestVars, faults, due, excused, overtaken>>

BackendStops(id) ==
    /\ up[id]
    /\ Fault
    /\ up' = [up EXCEPT ![id] = FALSE]
    /\ UNCHANGED <<version, seen, queueVars, workerVars, requestVars, due, excused, overtaken>>

BackendReturns(id) ==
    /\ ~up[id]
    /\ up' = [up EXCEPT ![id] = TRUE]
    /\ UNCHANGED <<version, seen, queueVars, workerVars, requestVars, faults, due, excused, overtaken>>

-----------------------------------------------------------------------------
(* The scheduler and the workers.                                          *)

\* The registry owes now what the backends have.
Schedule(t) ==
    /\ Enqueue(t, All)
    /\ due' = version
    /\ excused' = {}
    /\ UNCHANGED <<backendVars, seen, workerVars, requestVars, faults, overtaken>>

Pending(t) == kind[t] # NoKind /\ \A w \in Workers : task[w] # t

Take(w, t) ==
    /\ stage[w] = "idle"
    /\ Pending(t)
    /\ task' = [task EXCEPT ![w] = t]
    /\ stage' = [stage EXCEPT ![w] = "load"]
    /\ UNCHANGED <<backendVars, seen, queueVars, got, reply, requestVars, faults, due, excused, overtaken>>

\* The backends that a task of kind k refreshes.
Covered(k) == IF k = All THEN Ids ELSE {k} \intersect Ids

\* ListBackends, or GetBackend.
Load(w) ==
    /\ stage[w] = "load"
    /\ stage' = [stage EXCEPT ![w] = "ping"]
    /\ got' = [got EXCEPT ![w] = [id \in Ids |->
                  IF id \in Covered(kind[task[w]]) THEN seen[id] ELSE NoRecord]]
    /\ UNCHANGED <<backendVars, seen, queueVars, task, reply, requestVars, faults, due, excused, overtaken>>

Held(w) == {id \in Ids : got[w][id] # NoRecord}

InHand(w, id) == id \in Held(w) /\ \A other \in Held(w) : id <= other

\* Mutant: a backend that does not answer is taken to have no models.
PingForgets(w) ==
    /\ stage[w] = "ping"
    /\ \E id \in Ids :
          /\ InHand(w, id)
          /\ reply' = [reply EXCEPT ![w] = IF up[id] THEN version[id] ELSE 0]
          /\ excused' = IF up[id] THEN excused ELSE excused \union {id}
    /\ stage' = [stage EXCEPT ![w] = "save"]
    /\ UNCHANGED <<backendVars, seen, queueVars, task, got, requestVars, faults, due, overtaken>>

\* When the backend does not answer, its record keeps the models it was loaded with.
Ping(w) ==
    /\ stage[w] = "ping"
    /\ \E id \in Ids :
          /\ InHand(w, id)
          /\ reply' = [reply EXCEPT ![w] = IF up[id] THEN version[id] ELSE got[w][id]]
          /\ excused' = IF up[id] THEN excused ELSE excused \union {id}
    /\ stage' = [stage EXCEPT ![w] = "save"]
    /\ UNCHANGED <<backendVars, seen, queueVars, task, got, requestVars, faults, due, overtaken>>

\* Others that hold the record of id have now been overtaken.
Overtake(w, id) ==
    overtaken' = [v \in Workers |->
        IF v = w THEN overtaken[v] \ {id}
        ELSE IF id \in Held(v) THEN overtaken[v] \union {id} ELSE overtaken[v]]

Save(w) ==
    /\ stage[w] = "save"
    /\ \E id \in Ids :
          /\ InHand(w, id)
          /\ seen' = [seen EXCEPT ![id] = reply[w]]
          /\ got' = [got EXCEPT ![w][id] = NoRecord]
          /\ Overtake(w, id)
          /\ excused' = IF id \in overtaken[w] THEN excused \union {id}
                        ELSE IF reply[w] >= due[id] THEN excused \ {id} ELSE excused
    /\ reply' = [reply EXCEPT ![w] = NoRecord]
    /\ stage' = [stage EXCEPT ![w] = "ping"]
    /\ UNCHANGED <<backendVars, queueVars, task, requestVars, faults, due>>

\* These tasks leave the queue.
Dequeue(tasks) ==
    /\ kind' = [t \in Tasks |-> IF t \in tasks THEN NoKind ELSE kind[t]]
    /\ retried' = [t \in Tasks |-> IF t \in tasks THEN 0 ELSE retried[t]]

Release(w) ==
    /\ task' = [task EXCEPT ![w] = NoTask]
    /\ stage' = [stage EXCEPT ![w] = "idle"]
    /\ got' = [got EXCEPT ![w] = NoRecords]
    /\ reply' = [reply EXCEPT ![w] = NoRecord]
    /\ overtaken' = [overtaken EXCEPT ![w] = {}]

\* Mutant: a backend that does not answer ends the task.
FinishOnFailedPing(w) ==
    /\ \/ stage[w] = "ping" /\ Held(w) = {}
       \/ stage[w] = "save" /\ \E id \in Ids : InHand(w, id) /\ ~up[id]
    /\ Release(w)
    /\ Dequeue({task[w]})
    /\ UNCHANGED <<backendVars, seen, requestVars, faults, due, excused>>

Finish(w) ==
    /\ stage[w] = "ping"
    /\ Held(w) = {}
    /\ Release(w)
    /\ Dequeue({task[w]})
    /\ UNCHANGED <<backendVars, seen, requestVars, faults, due, excused>>

\* Mutant: a task is retried until it succeeds.
RequeueAlways(failed) ==
    /\ retried' = [t \in Tasks |-> IF t \in failed THEN retried[t] + 1 ELSE retried[t]]
    /\ UNCHANGED <<kind, excused>>

\* Tasks that end without success are queued again, but for those that have
\* been retried often enough.
Requeue(failed) ==
    LET archived == {t \in failed : retried[t] = MaxRetry}
    IN /\ kind' = [t \in Tasks |-> IF t \in archived THEN NoKind ELSE kind[t]]
       /\ retried' = [t \in Tasks |-> IF t \in failed \ archived THEN retried[t] + 1
                                      ELSE IF t \in archived THEN 0 ELSE retried[t]]
       /\ excused' = excused \union UNION {Covered(kind[t]) : t \in archived}

\* A Redis error ends the task, whatever is left of it.
Fail(w) ==
    /\ stage[w] \in {"load", "save"}
    /\ Fault
    /\ Release(w)
    /\ Requeue({task[w]})
    /\ UNCHANGED <<backendVars, seen, requestVars, due>>

\* The worker process dies with all its goroutines, and is restarted.
Crash ==
    /\ Fault
    /\ task' = [w \in Workers |-> NoTask]
    /\ stage' = [w \in Workers |-> "idle"]
    /\ got' = [w \in Workers |-> NoRecords]
    /\ reply' = [w \in Workers |-> NoRecord]
    /\ overtaken' = [w \in Workers |-> {}]
    /\ Requeue({task[w] : w \in Workers} \intersect Tasks)
    /\ UNCHANGED <<backendVars, seen, requestVars, due>>

-----------------------------------------------------------------------------

RequestStep(r) ==
    \/ \E o \in Operations, id \in Ids : StartRequest(r, o, id)
    \/ RequestFails(r)
    \/ BackendAnswers(r)
    \/ ClientLeaves(r)
    \/ EnqueueSyncBackendByID(r)
    \/ EnqueueFails(r)
    \/ NotSynced(r)

BackendStep(id) == Drift(id) \/ BackendStops(id) \/ BackendReturns(id)

WorkerStep(w) ==
    \/ \E t \in Tasks : Take(w, t)
    \/ Load(w)
    \/ Ping(w)
    \/ Save(w)
    \/ Finish(w)

Next ==
    \/ \E r \in Requests : RequestStep(r)
    \/ \E id \in Ids : BackendStep(id)
    \/ \E t \in Tasks : Schedule(t)
    \/ \E w \in Workers : WorkerStep(w) \/ Fail(w)
    \/ Crash

Spec == Init /\ [][Next]_vars

\* The scheduler never ceases to queue, nor a worker to work: it waits five
\* seconds at most for each answer.
FairSpec ==
    /\ Spec
    /\ WF_vars(\E t \in Tasks : Schedule(t))
    /\ \A w \in Workers : WF_vars(WorkerStep(w))

-----------------------------------------------------------------------------

\* The worker w is going to save for id what the registry owes, or more.
WillRefresh(w, id) ==
    \/ stage[w] = "load" /\ id \in Covered(kind[task[w]])
    \/ id \in Held(w) /\ (stage[w] = "ping" \/ ~InHand(w, id) \/ reply[w] >= due[id])

\* A request has still to queue a task for id, or one is queued or in progress.
Awaited(id) ==
    \/ \E r \in Requests : phase[r] = "answered" /\ target[r] = id /\ op[r] \in SyncedOperations
    \/ \E t \in Tasks : Pending(t) /\ id \in Covered(kind[t])
    \/ \E w \in Workers : WillRefresh(w, id)

\* A change that an administrator was told of reaches the registry: until it
\* does, something is under way that will see to it.  Otherwise an enqueueing
\* or a ping has failed since, a task was given up, or a task that began
\* earlier has saved later.
ChangesReachRegistry ==
    \A id \in Ids : seen[id] >= due[id] \/ id \in excused \/ Awaited(id)

\* A record goes back to earlier models only when a worker saves it that has
\* loaded it before another worker saved it (the record is written back
\* whole, with the models it had, when the ping fails).
GoesBackOnlyIfOvertaken ==
    [][\A id \in Ids : seen'[id] < seen[id] =>
          \E w \in Workers : stage[w] = "save" /\ InHand(w, id) /\ id \in overtaken[w]]_vars

\* When changes and faults have come to an end the registry shows what the
\* backends have that answer, however many others do not.
RegistryCatchesUp == <>[](\A id \in Ids : up[id] => seen[id] = version[id])
=============================================================================
