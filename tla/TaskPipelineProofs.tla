------------------------- MODULE TaskPipelineProofs -------------------------
(***************************************************************************)
(* Changes reach the registry, and records go back only when a later save  *)
(* has been overtaken.                                                     *)
(***************************************************************************)
EXTENDS TaskPipeline, TLAPS

\* A task in progress is one worker's, and the records that the worker holds
\* are of backends its task covers.
TaskInv ==
    \A w \in Workers :
        /\ stage[w] = "idle" <=> task[w] = NoTask
        /\ task[w] # NoTask =>
              /\ kind[task[w]] # NoKind
              /\ \A v \in Workers : task[v] = task[w] => v = w
        /\ stage[w] \in {"idle", "load"} => got[w] = NoRecords
        /\ \A id \in Held(w) : id \in Covered(kind[task[w]])

\* A record that a worker holds is the registry's unless it was overtaken,
\* and then what it is about to save is no older.
RecordInv ==
    \A id \in Ids :
        /\ seen[id] <= version[id]
        /\ due[id] <= version[id]
        /\ \A w \in Workers : id \in Held(w) =>
              /\ got[w][id] <= version[id]
              /\ id \notin overtaken[w] => got[w][id] = seen[id]
        /\ \A w \in Workers : stage[w] = "save" /\ InHand(w, id) =>
              /\ reply[w] \in Nat
              /\ reply[w] <= version[id]
              /\ id \notin overtaken[w] => seen[id] <= reply[w]

\* A request that was begun is of some backend.
RequestInv == \A r \in Requests : phase[r] \in {"sending", "answered"} => target[r] \in Ids

PipelineInv == TypeOK /\ RequestInv /\ TaskInv /\ RecordInv /\ ChangesReachRegistry

-----------------------------------------------------------------------------

LEMMA InitHolds == Init => PipelineInv
<1>. SUFFICES ASSUME Init PROVE PipelineInv
  OBVIOUS
<1>1. TypeOK
  BY BoundsAssumption DEF Init, TypeOK, NoRecords, Kinds
<1>2. RequestInv /\ TaskInv
  BY DEF Init, RequestInv, TaskInv, Held, NoRecords
<1>3. RecordInv /\ ChangesReachRegistry
  BY DEF Init, RecordInv, ChangesReachRegistry, Held, NoRecords
<1>. QED BY <1>1, <1>2, <1>3 DEF PipelineInv

\* At most one record is in hand.
LEMMA OneInHand ==
    ASSUME NEW w, NEW a \in Ids, NEW b \in Ids, InHand(w, a), InHand(w, b)
    PROVE  a = b
BY IdsAssumption DEF InHand, Held

-----------------------------------------------------------------------------

LEMMA BoundsAreNat == MaxRetry \in Nat /\ MaxFaults \in Nat
BY BoundsAssumption

\* What the queue keeps is a task of some kind, retried within the limit.
LEMMA RequeueTyped ==
    ASSUME TypeOK, NEW failed \in SUBSET Tasks, Requeue(failed)
    PROVE  /\ kind' \in [Tasks -> Kinds \union {NoKind}]
           /\ retried' \in [Tasks -> 0..MaxRetry]
           /\ excused' \in SUBSET Ids
<1>1. \A t \in Tasks : Covered(kind[t]) \in SUBSET Ids
  BY DEF Covered
<1>2. excused' \in SUBSET Ids
  BY <1>1 DEF Requeue, TypeOK
<1>3. \A t \in Tasks : retried[t] # MaxRetry => retried[t] + 1 \in 0..MaxRetry
  <2>. SUFFICES ASSUME NEW t \in Tasks, retried[t] # MaxRetry PROVE retried[t] + 1 \in 0..MaxRetry
    OBVIOUS
  <2>1. retried[t] \in 0..MaxRetry
    BY DEF TypeOK
  <2>. QED BY <2>1, BoundsAreNat
<1>. QED BY <1>2, <1>3 DEF TypeOK, Requeue

LEMMA StepType == PipelineInv /\ [Next]_vars => TypeOK'
<1>. SUFFICES ASSUME PipelineInv, [Next]_vars PROVE TypeOK'
  OBVIOUS
<1>. USE BoundsAreNat DEF PipelineInv, TypeOK, Kinds, backendVars, queueVars, workerVars, requestVars
<1>1. ASSUME NEW r \in Requests, RequestStep(r) PROVE TypeOK'
  <2>1. ASSUME NEW o \in Operations, NEW id \in Ids, StartRequest(r, o, id) PROVE TypeOK'
    BY <2>1 DEF StartRequest
  <2>2. CASE RequestFails(r) \/ ClientLeaves(r) \/ NotSynced(r)
    BY <2>2 DEF RequestFails, ClientLeaves, NotSynced, EndRequest
  <2>3. CASE EnqueueFails(r)
    BY <2>3 DEF RequestInv, EnqueueFails, EndRequest, Fault
  <2>5. CASE BackendAnswers(r)
    <3>1. target[r] \in Ids /\ version[target[r]] + 1 \in Nat
      BY <2>5 DEF RequestInv, BackendAnswers
    <3>2. version' \in [Ids -> Nat] /\ due' \in [Ids -> Nat] /\ excused' \in SUBSET Ids
      BY <2>5, <3>1 DEF BackendAnswers
    <3>. QED BY <2>5, <3>2 DEF BackendAnswers
  <2>4. CASE EnqueueSyncBackendByID(r)
    <3>1. PICK t \in Tasks : Enqueue(t, target[r])
      BY <2>4 DEF EnqueueSyncBackendByID
    <3>2. target[r] \in Ids /\ 0 \in 0..MaxRetry
      BY <2>4 DEF RequestInv, EnqueueSyncBackendByID
    <3>3. kind' \in [Tasks -> Kinds \union {NoKind}] /\ retried' \in [Tasks -> 0..MaxRetry]
      BY <3>1, <3>2 DEF Enqueue
    <3>. QED BY <2>4, <3>3 DEF EnqueueSyncBackendByID, EndRequest
  <2>. QED BY <1>1, <2>1, <2>2, <2>3, <2>4, <2>5 DEF RequestStep
<1>2. ASSUME NEW id \in Ids, BackendStep(id) PROVE TypeOK'
  <2>1. CASE Drift(id)
    BY <2>1 DEF Drift
  <2>2. CASE BackendStops(id)
    BY <2>2 DEF BackendStops, Fault
  <2>3. CASE BackendReturns(id)
    BY <2>3 DEF BackendReturns
  <2>. QED BY <1>2, <2>1, <2>2, <2>3 DEF BackendStep
<1>3. ASSUME NEW t \in Tasks, Schedule(t) PROVE TypeOK'
  BY <1>3 DEF Schedule, Enqueue
<1>4. ASSUME NEW w \in Workers, NEW t \in Tasks, Take(w, t) PROVE TypeOK'
  BY <1>4 DEF Take
<1>5. ASSUME NEW w \in Workers, Load(w) PROVE TypeOK'
  BY <1>5 DEF Load
<1>6. ASSUME NEW w \in Workers, Ping(w) PROVE TypeOK'
  BY <1>6 DEF Ping, InHand, Held
<1>7. ASSUME NEW w \in Workers, Save(w) PROVE TypeOK'
  <2>1. PICK id \in Ids :
            /\ InHand(w, id)
            /\ seen' = [seen EXCEPT ![id] = reply[w]]
            /\ got' = [got EXCEPT ![w][id] = NoRecord]
            /\ Overtake(w, id)
            /\ excused' \in SUBSET Ids
    BY <1>7 DEF Save
  <2>2. seen' \in [Ids -> Nat] /\ overtaken' \in [Workers -> SUBSET Ids]
    BY <1>7, <2>1 DEF Save, RecordInv, Overtake
  <2>. QED BY <1>7, <2>1, <2>2 DEF Save
<1>8. ASSUME NEW w \in Workers, Finish(w) PROVE TypeOK'
  <2>1. kind' \in [Tasks -> Kinds \union {NoKind}] /\ retried' \in [Tasks -> 0..MaxRetry]
    BY <1>8 DEF Finish, Dequeue
  <2>. QED BY <1>8, <2>1 DEF Finish, Release, NoRecords
<1>9. ASSUME NEW w \in Workers, Fail(w) PROVE TypeOK'
  <2>1. {task[w]} \in SUBSET Tasks
    BY <1>9 DEF Fail, TaskInv
  <2>. QED BY <1>9, <2>1, RequeueTyped DEF Fail, Release, NoRecords, Fault
<1>10. CASE Crash
  BY <1>10, RequeueTyped DEF Crash, NoRecords, Fault
<1>11. CASE UNCHANGED vars
  BY <1>11 DEF vars
<1>. QED
  BY <1>1, <1>2, <1>3, <1>4, <1>5, <1>6, <1>7, <1>8, <1>9, <1>10, <1>11 DEF Next, WorkerStep

LEMMA StepRequest == PipelineInv /\ [Next]_vars => RequestInv'
<1>. SUFFICES ASSUME PipelineInv, [Next]_vars PROVE RequestInv'
  OBVIOUS
<1>. USE DEF PipelineInv, RequestInv, TypeOK, requestVars
<1>1. ASSUME NEW r \in Requests, RequestStep(r) PROVE RequestInv'
  BY <1>1 DEF RequestStep, StartRequest, RequestFails, BackendAnswers, ClientLeaves,
     EnqueueSyncBackendByID, EnqueueFails, NotSynced, EndRequest
<1>2. ASSUME NEW id \in Ids, BackendStep(id) PROVE RequestInv'
  BY <1>2 DEF BackendStep, Drift, BackendStops, BackendReturns
<1>3. ASSUME NEW t \in Tasks, Schedule(t) PROVE RequestInv'
  BY <1>3 DEF Schedule
<1>4. ASSUME NEW w \in Workers, WorkerStep(w) \/ Fail(w) PROVE RequestInv'
  BY <1>4 DEF WorkerStep, Take, Load, Ping, Save, Finish, Fail
<1>5. CASE Crash
  BY <1>5 DEF Crash
<1>6. CASE UNCHANGED vars
  BY <1>6 DEF vars
<1>. QED BY <1>1, <1>2, <1>3, <1>4, <1>5, <1>6 DEF Next

-----------------------------------------------------------------------------

\* A new task is nobody's.
LEMMA EnqueueKeepsTasks ==
    ASSUME TypeOK, TaskInv, NEW t \in Tasks, NEW k, Enqueue(t, k), UNCHANGED workerVars
    PROVE  TaskInv'
<1>1. \A w \in Workers : task[w] # t
  BY NoTaskAssumption DEF TaskInv, Enqueue, TypeOK
<1>2. \A w \in Workers : task[w] # NoTask => kind'[task[w]] = kind[task[w]]
  BY <1>1 DEF Enqueue, TypeOK
<1>3. \A w \in Workers : Held(w) # {} => task[w] # NoTask
  BY DEF TaskInv, Held, NoRecords
<1>. QED BY <1>1, <1>2, <1>3 DEF TaskInv, workerVars, Held

LEMMA StepTask == PipelineInv /\ [Next]_vars => TaskInv'
<1>. SUFFICES ASSUME PipelineInv, [Next]_vars PROVE TaskInv'
  OBVIOUS
<1>. USE DEF PipelineInv
<1>1. ASSUME UNCHANGED <<queueVars, workerVars>> PROVE TaskInv'
  BY <1>1 DEF TaskInv, queueVars, workerVars, Held
<1>2. ASSUME NEW r \in Requests, RequestStep(r) PROVE TaskInv'
  <2>1. CASE EnqueueSyncBackendByID(r)
    BY <2>1, EnqueueKeepsTasks DEF EnqueueSyncBackendByID
  <2>2. CASE ~EnqueueSyncBackendByID(r)
    BY <1>1, <1>2, <2>2 DEF RequestStep, StartRequest, RequestFails, BackendAnswers, ClientLeaves,
       EnqueueFails, NotSynced
  <2>. QED BY <2>1, <2>2
<1>3. ASSUME NEW id \in Ids, BackendStep(id) PROVE TaskInv'
  BY <1>1, <1>3 DEF BackendStep, Drift, BackendStops, BackendReturns
<1>4. ASSUME NEW t \in Tasks, Schedule(t) PROVE TaskInv'
  BY <1>4, EnqueueKeepsTasks DEF Schedule
<1>5. ASSUME NEW w \in Workers, NEW t \in Tasks, Take(w, t) PROVE TaskInv'
  <2>1. \A v \in Workers : v # w => task'[v] = task[v] /\ stage'[v] = stage[v] /\ task[v] # t
    BY <1>5 DEF Take, Pending, TypeOK
  <2>2. task'[w] = t /\ stage'[w] = "load" /\ kind[t] # NoKind /\ got[w] = NoRecords
    BY <1>5 DEF Take, Pending, TypeOK, TaskInv
  <2>3. UNCHANGED <<kind, got>>
    BY <1>5 DEF Take, queueVars
  <2>4. NoTask # t
    BY NoTaskAssumption
  <2>. QED BY <2>1, <2>2, <2>3, <2>4 DEF TaskInv, Held, NoRecords
<1>6. ASSUME NEW w \in Workers, Load(w) PROVE TaskInv'
  <2>1. UNCHANGED <<kind, task>>
    BY <1>6 DEF Load, queueVars
  <2>2. \A v \in Workers : v # w => stage'[v] = stage[v] /\ got'[v] = got[v]
    BY <1>6 DEF Load, TypeOK
  <2>3. stage[w] = "load" /\ stage'[w] = "ping"
    BY <1>6 DEF Load, TypeOK
  <2>4. \A id \in Ids : got'[w][id] # NoRecord => id \in Covered(kind[task[w]])
    BY <1>6 DEF Load, TypeOK
  <2>. QED BY <2>1, <2>2, <2>3, <2>4 DEF TaskInv, Held
<1>7. ASSUME NEW w \in Workers, Ping(w) PROVE TaskInv'
  BY <1>7 DEF Ping, queueVars, TaskInv, TypeOK, Held
<1>8. ASSUME NEW w \in Workers, Save(w) PROVE TaskInv'
  <2>1. UNCHANGED <<kind, task>> /\ stage[w] = "save"
    BY <1>8 DEF Save, queueVars
  <2>2. stage' = [stage EXCEPT ![w] = "ping"]
    BY <1>8 DEF Save
  <2>3. PICK id \in Ids : got' = [got EXCEPT ![w][id] = NoRecord]
    BY <1>8 DEF Save
  <2>4. \A v \in Workers : \A other \in Ids : got'[v][other] # NoRecord => got[v][other] # NoRecord
    BY <2>3 DEF TypeOK
  <2>5. \A v \in Workers : v # w => got'[v] = got[v]
    BY <2>3 DEF TypeOK
  <2>. QED BY <2>1, <2>2, <2>4, <2>5 DEF TaskInv, Held, TypeOK
<1>9. ASSUME NEW w \in Workers, Release(w), task[w] # NoTask,
             \A t \in Tasks : t # task[w] => kind'[t] = kind[t]
      PROVE  TaskInv'
  <2>1. \A v \in Workers : v # w =>
            /\ task'[v] = task[v] /\ stage'[v] = stage[v] /\ got'[v] = got[v]
            /\ task[v] # NoTask => kind'[task[v]] = kind[task[v]]
    BY <1>9 DEF Release, TaskInv, TypeOK
  <2>2. task'[w] = NoTask /\ stage'[w] = "idle" /\ got'[w] = NoRecords
    BY <1>9 DEF Release, TypeOK
  <2>3. \A v \in Workers : Held(v) # {} => task[v] # NoTask
    BY DEF TaskInv, Held, NoRecords
  <2>. QED BY <2>1, <2>2, <2>3 DEF TaskInv, Held, NoRecords
<1>10. ASSUME NEW w \in Workers, Finish(w) PROVE TaskInv'
  <2>1. task[w] # NoTask
    BY <1>10 DEF Finish, TaskInv
  <2>. QED BY <1>9, <1>10, <2>1 DEF Finish, Dequeue, TypeOK
<1>11. ASSUME NEW w \in Workers, Fail(w) PROVE TaskInv'
  <2>1. task[w] # NoTask
    BY <1>11 DEF Fail, TaskInv
  <2>. QED BY <1>9, <1>11, <2>1 DEF Fail, Requeue
<1>12. CASE Crash
  BY <1>12 DEF Crash, TaskInv, Held, NoRecords
<1>13. CASE UNCHANGED vars
  BY <1>1, <1>13 DEF vars
<1>. QED
  BY <1>2, <1>3, <1>4, <1>5, <1>6, <1>7, <1>8, <1>10, <1>11, <1>12, <1>13 DEF Next, WorkerStep

-----------------------------------------------------------------------------

LEMMA StepRecord == PipelineInv /\ [Next]_vars => RecordInv'
<1>. SUFFICES ASSUME PipelineInv, [Next]_vars PROVE RecordInv'
  OBVIOUS
<1>. USE DEF PipelineInv
\* Versions only grow, and due follows them.
<1>1. ASSUME UNCHANGED <<seen, stage, got, reply, overtaken>>,
             \A id \in Ids : version'[id] >= version[id] /\ version'[id] \in Nat,
             \A id \in Ids : due'[id] <= version'[id]
      PROVE  RecordInv'
  BY <1>1 DEF RecordInv, Held, InHand, TypeOK
<1>2. ASSUME UNCHANGED <<version, seen, stage, got, reply, overtaken, due>> PROVE RecordInv'
  BY <1>2 DEF RecordInv, Held, InHand
<1>3. ASSUME NEW r \in Requests, RequestStep(r) PROVE RecordInv'
  <2>1. CASE BackendAnswers(r)
    <3>. DEFINE b == target[r]
    <3>1. b \in Ids /\ version[b] \in Nat
      BY <2>1 DEF BackendAnswers, TypeOK, RequestInv
    <3>2. CASE op[r] \in Changing
      <4>1. /\ version' = [version EXCEPT ![b] = version[b] + 1]
            /\ due' = [due EXCEPT ![b] = version[b] + 1]
        BY <2>1, <3>2 DEF BackendAnswers
      <4>2. \A id \in Ids : version'[id] >= version[id] /\ version'[id] \in Nat
        BY <3>1, <4>1 DEF TypeOK
      <4>3. \A id \in Ids : due'[id] <= version'[id]
        BY <3>1, <4>1 DEF TypeOK, RecordInv
      <4>. QED BY <1>1, <2>1, <4>2, <4>3 DEF BackendAnswers, workerVars
    <3>3. CASE op[r] \notin Changing
      BY <1>2, <2>1, <3>3 DEF BackendAnswers, workerVars
    <3>. QED BY <3>2, <3>3
  <2>2. CASE ~BackendAnswers(r)
    BY <1>2, <1>3, <2>2 DEF RequestStep, StartRequest, RequestFails, ClientLeaves, EnqueueFails,
       NotSynced, EnqueueSyncBackendByID, backendVars, workerVars
  <2>. QED BY <2>1, <2>2
<1>4. ASSUME NEW id \in Ids, BackendStep(id) PROVE RecordInv'
  <2>1. CASE Drift(id)
    BY <1>1, <2>1 DEF Drift, TypeOK, RecordInv, workerVars
  <2>2. CASE BackendStops(id) \/ BackendReturns(id)
    BY <1>2, <2>2 DEF BackendStops, BackendReturns, workerVars
  <2>. QED BY <1>4, <2>1, <2>2 DEF BackendStep
<1>5. ASSUME NEW t \in Tasks, Schedule(t) PROVE RecordInv'
  BY <1>1, <1>5 DEF Schedule, TypeOK, workerVars, backendVars
<1>6. ASSUME NEW w \in Workers, NEW t \in Tasks, Take(w, t) PROVE RecordInv'
  BY <1>6 DEF Take, RecordInv, Held, InHand, backendVars, TypeOK
<1>7. ASSUME NEW w \in Workers, Load(w) PROVE RecordInv'
  <2>1. \A v \in Workers : v # w =>
           got'[v] = got[v] /\ stage'[v] = stage[v] /\ overtaken'[v] = overtaken[v]
    BY <1>7 DEF Load, TypeOK
  <2>2. stage'[w] = "ping" /\ \A id \in Ids : got'[w][id] \in {seen[id], NoRecord}
    BY <1>7 DEF Load, TypeOK
  <2>3. UNCHANGED <<version, seen, reply, due>>
    BY <1>7 DEF Load, backendVars
  <2>. QED BY <2>1, <2>2, <2>3 DEF RecordInv, Held, InHand
<1>8. ASSUME NEW w \in Workers, Ping(w) PROVE RecordInv'
  <2>1. PICK id \in Ids :
            /\ InHand(w, id)
            /\ reply' = [reply EXCEPT ![w] = IF up[id] THEN version[id] ELSE got[w][id]]
    BY <1>8 DEF Ping
  <2>2. UNCHANGED <<version, seen, got, due, overtaken>> /\ stage' = [stage EXCEPT ![w] = "save"]
    BY <1>8 DEF Ping, backendVars
  <2>3. got[w][id] \in Nat /\ version[id] \in Nat
    BY <2>1 DEF InHand, Held, TypeOK
  <2>4. /\ reply'[w] \in Nat
        /\ reply'[w] <= version[id]
        /\ id \notin overtaken[w] => seen[id] <= reply'[w]
    BY <2>1, <2>3 DEF RecordInv, InHand, TypeOK
  <2>5. \A other \in Ids : InHand(w, other) => other = id
    BY <2>1, OneInHand
  <2>6. \A v \in Workers : v # w => stage'[v] = stage[v] /\ reply'[v] = reply[v]
    BY <2>1, <2>2 DEF TypeOK
  <2>. QED BY <2>2, <2>4, <2>5, <2>6 DEF RecordInv, InHand, Held
<1>9. ASSUME NEW w \in Workers, Save(w) PROVE RecordInv'
  <2>1. PICK id \in Ids :
            /\ InHand(w, id)
            /\ seen' = [seen EXCEPT ![id] = reply[w]]
            /\ got' = [got EXCEPT ![w][id] = NoRecord]
            /\ Overtake(w, id)
    BY <1>9 DEF Save
  <2>2. /\ UNCHANGED <<version, due>>
        /\ reply' = [reply EXCEPT ![w] = NoRecord]
        /\ stage' = [stage EXCEPT ![w] = "ping"]
        /\ stage[w] = "save"
    BY <1>9 DEF Save, backendVars
  <2>3. reply[w] \in Nat /\ reply[w] <= version[id]
    BY <2>1, <2>2 DEF RecordInv
  <2>4. seen'[id] = reply[w] /\ \A other \in Ids : other # id => seen'[other] = seen[other]
    BY <2>1 DEF TypeOK
  <2>5. \A v \in Workers : v # w =>
            /\ got'[v] = got[v] /\ stage'[v] = stage[v] /\ reply'[v] = reply[v]
            /\ \A other \in Ids : other # id => other \in overtaken'[v] <=> other \in overtaken[v]
            /\ id \in Held(v) => id \in overtaken'[v]
    BY <2>1, <2>2 DEF Overtake, TypeOK
  <2>6. /\ stage'[w] = "ping"
        /\ overtaken'[w] = overtaken[w] \ {id}
        /\ got'[w][id] = NoRecord
        /\ \A other \in Ids : other # id => got'[w][other] = got[w][other]
    BY <2>1, <2>2 DEF Overtake, TypeOK
  <2>. QED BY <2>2, <2>3, <2>4, <2>5, <2>6 DEF RecordInv, InHand, Held
<1>10. ASSUME NEW w \in Workers, Release(w), UNCHANGED <<version, seen, due>>
       PROVE  RecordInv'
  <2>1. \A v \in Workers : v # w =>
            /\ got'[v] = got[v] /\ stage'[v] = stage[v] /\ reply'[v] = reply[v]
            /\ overtaken'[v] = overtaken[v]
    BY <1>10 DEF Release, TypeOK
  <2>2. got'[w] = NoRecords
    BY <1>10 DEF Release, TypeOK
  <2>. QED BY <1>10, <2>1, <2>2 DEF RecordInv, InHand, Held, NoRecords
<1>11. ASSUME NEW w \in Workers, Finish(w) \/ Fail(w) PROVE RecordInv'
  BY <1>10, <1>11 DEF Finish, Fail, backendVars
<1>12. CASE Crash
  BY <1>12 DEF Crash, RecordInv, Held, InHand, NoRecords, backendVars
<1>13. CASE UNCHANGED vars
  BY <1>2, <1>13 DEF vars, backendVars, workerVars
<1>. QED
  BY <1>3, <1>4, <1>5, <1>6, <1>7, <1>8, <1>9, <1>11, <1>12, <1>13 DEF Next, WorkerStep

-----------------------------------------------------------------------------

\* Whatever leaves tasks, workers and requests as they are.
LEMMA AwaitedStays ==
    ASSUME UNCHANGED <<queueVars, workerVars, phase, op, target>>, NEW id \in Ids,
           due'[id] = due[id]
    PROVE  Awaited(id) => Awaited(id)'
BY DEF Awaited, WillRefresh, Pending, Held, InHand, queueVars, workerVars

\* A new task awaits the backends it covers, and disturbs no other.
LEMMA EnqueueAwaits ==
    ASSUME TypeOK, TaskInv, NEW t \in Tasks, NEW k \in Kinds, Enqueue(t, k), UNCHANGED workerVars,
           NEW id \in Ids
    PROVE  /\ id \in Covered(k) => Awaited(id)'
           /\ \A other \in Tasks : Pending(other) => Pending(other)' /\ kind'[other] = kind[other]
           /\ \A w \in Workers : due'[id] = due[id] => (WillRefresh(w, id) => WillRefresh(w, id)')
<1>1. \A w \in Workers : task[w] # t
  BY NoTaskAssumption DEF TaskInv, Enqueue, TypeOK
<1>2. kind'[t] = k /\ k # NoKind /\ \A other \in Tasks : other # t => kind'[other] = kind[other]
  BY KindAssumption DEF Enqueue, TypeOK, Kinds
<1>3. Pending(t)'
  BY <1>1, <1>2 DEF Pending, workerVars
<1>4. \A other \in Tasks : Pending(other) => other # t
  BY DEF Pending, Enqueue
<1>5. \A w \in Workers : stage[w] = "load" => task[w] \in Tasks
  BY DEF TaskInv, TypeOK
<1>6. \A w \in Workers : due'[id] = due[id] => (WillRefresh(w, id) => WillRefresh(w, id)')
  BY <1>1, <1>2, <1>5 DEF WillRefresh, Held, InHand, workerVars
<1>. QED BY <1>2, <1>3, <1>4, <1>6 DEF Awaited, Pending, workerVars

\* What a worker gives up is queued again or has been given up for good.
LEMMA RequeueAwaits ==
    ASSUME TypeOK, NEW failed \in SUBSET Tasks, Requeue(failed),
           NEW t \in failed, NEW id \in Ids, id \in Covered(kind[t]),
           kind[t] # NoKind, \A w \in Workers : task'[w] # t
    PROVE  id \in excused' \/ (Pending(t)' /\ id \in Covered(kind'[t]))
<1>1. CASE retried[t] = MaxRetry
  BY <1>1 DEF Requeue
<1>2. CASE retried[t] # MaxRetry
  BY <1>2 DEF Requeue, Pending
<1>. QED BY <1>1, <1>2

LEMMA StepChanges == PipelineInv /\ [Next]_vars => ChangesReachRegistry'
<1>. SUFFICES ASSUME PipelineInv, [Next]_vars PROVE ChangesReachRegistry'
  OBVIOUS
<1>. USE DEF PipelineInv
<1>. SUFFICES ASSUME NEW id \in Ids
              PROVE  seen'[id] >= due'[id] \/ id \in excused' \/ Awaited(id)'
  BY DEF ChangesReachRegistry
<1>. DEFINE Goal == seen'[id] >= due'[id] \/ id \in excused' \/ Awaited(id)'
<1>0. seen[id] >= due[id] \/ id \in excused \/ Awaited(id)
  BY DEF ChangesReachRegistry
\* Steps that disturb nothing of what is said of id.
<1>1. ASSUME UNCHANGED <<queueVars, workerVars, phase, op, target, seen, excused>>,
             due'[id] = due[id]
      PROVE  Goal
  BY <1>0, <1>1, AwaitedStays
\* Steps that end a request whose task, if it is one for id, is queued or excused.
<1>2. ASSUME NEW r \in Requests, EndRequest(r), UNCHANGED <<seen, due, workerVars>>,
             excused \subseteq excused',
             \A t \in Tasks : Pending(t) => Pending(t)' /\ kind'[t] = kind[t],
             \A w \in Workers : WillRefresh(w, id) => WillRefresh(w, id)',
             target[r] = id /\ op[r] \in SyncedOperations /\ phase[r] = "answered"
                => id \in excused' \/ Awaited(id)'
      PROVE  Goal
  <2>1. ASSUME Awaited(id) PROVE id \in excused' \/ Awaited(id)'
    <3>1. CASE \E q \in Requests : phase[q] = "answered" /\ target[q] = id /\ op[q] \in SyncedOperations
      <4>1. PICK q \in Requests : phase[q] = "answered" /\ target[q] = id /\ op[q] \in SyncedOperations
        BY <3>1
      <4>2. CASE q = r
        BY <1>2, <4>1, <4>2
      <4>3. CASE q # r
        <5>1. phase'[q] = phase[q] /\ target'[q] = target[q] /\ op'[q] = op[q]
          BY <1>2, <4>3 DEF EndRequest, TypeOK
        <5>. QED BY <1>2, <4>1, <5>1 DEF Awaited
      <4>. QED BY <4>2, <4>3
    <3>2. CASE \E t \in Tasks : Pending(t) /\ id \in Covered(kind[t])
      BY <1>2, <3>2 DEF Awaited
    <3>3. CASE \E w \in Workers : WillRefresh(w, id)
      BY <1>2, <3>3 DEF Awaited
    <3>. QED BY <2>1, <3>1, <3>2, <3>3 DEF Awaited
  <2>. QED BY <1>0, <1>2, <2>1
<1>3. ASSUME NEW r \in Requests, EndRequest(r),
             UNCHANGED <<seen, due, queueVars, workerVars>>, excused \subseteq excused',
             phase[r] = "answered" /\ op[r] \in SyncedOperations => target[r] \in excused'
      PROVE  Goal
  <2>1. \A w \in Workers : WillRefresh(w, id) => WillRefresh(w, id)'
    BY <1>3 DEF WillRefresh, Held, InHand, queueVars, workerVars
  <2>2. \A t \in Tasks : Pending(t) => Pending(t)' /\ kind'[t] = kind[t]
    BY <1>3 DEF Pending, queueVars, workerVars
  <2>. QED BY <1>2, <1>3, <2>1, <2>2
<1>4. ASSUME NEW r \in Requests, RequestStep(r) PROVE Goal
  <2>1. ASSUME NEW o \in Operations, NEW b \in Ids, StartRequest(r, o, b) PROVE Goal
    <3>1. \A q \in Requests : phase[q] = "answered" =>
             q # r /\ phase'[q] = phase[q] /\ target'[q] = target[q] /\ op'[q] = op[q]
      BY <2>1 DEF StartRequest, TypeOK
    <3>2. Awaited(id) => Awaited(id)'
      BY <2>1, <3>1 DEF StartRequest, Awaited, WillRefresh, Pending, Held, InHand, queueVars, workerVars
    <3>. QED BY <1>0, <2>1, <3>2 DEF StartRequest
  <2>2. CASE RequestFails(r) \/ NotSynced(r)
    BY <1>3, <2>2 DEF RequestFails, NotSynced
  <2>3. CASE EnqueueFails(r)
    BY <1>3, <2>3 DEF EnqueueFails
  <2>4. CASE BackendAnswers(r)
    <3>1. phase' = [phase EXCEPT ![r] = "answered"] /\ UNCHANGED <<op, target, queueVars, workerVars, seen>>
      BY <2>4 DEF BackendAnswers
    <3>2. CASE id = target[r] /\ op[r] \in Changing
      <4>1. phase'[r] = "answered" /\ target'[r] = id /\ op'[r] \in SyncedOperations
        BY <3>1, <3>2 DEF TypeOK, Changing, SyncedOperations
      <4>. QED BY <4>1 DEF Awaited
    <3>3. CASE ~(id = target[r] /\ op[r] \in Changing)
      <4>1. due'[id] = due[id] /\ (id \in excused <=> id \in excused')
        BY <2>4, <3>3 DEF BackendAnswers, TypeOK
      <4>2. \A q \in Requests : phase[q] = "answered" => phase'[q] = "answered"
        BY <3>1 DEF TypeOK
      <4>3. Awaited(id) => Awaited(id)'
        BY <3>1, <4>1, <4>2 DEF Awaited, WillRefresh, Pending, Held, InHand, queueVars, workerVars
      <4>. QED BY <1>0, <3>1, <4>1, <4>3
    <3>. QED BY <3>2, <3>3
  <2>5. CASE ClientLeaves(r)
    BY <1>1, <2>5 DEF ClientLeaves
  <2>6. CASE EnqueueSyncBackendByID(r)
    <3>1. PICK t \in Tasks : Enqueue(t, target[r])
      BY <2>6 DEF EnqueueSyncBackendByID
    <3>2. target[r] \in Kinds /\ target[r] \in Ids
      BY <2>6 DEF EnqueueSyncBackendByID, RequestInv, Kinds
    <3>3. UNCHANGED workerVars /\ due'[id] = due[id]
      BY <2>6 DEF EnqueueSyncBackendByID
    <3>4. target[r] = id => Awaited(id)'
      BY <3>1, <3>2, <3>3, EnqueueAwaits, KindAssumption DEF Covered
    <3>5. \A other \in Tasks : Pending(other) => Pending(other)' /\ kind'[other] = kind[other]
      BY <3>1, <3>2, <3>3, EnqueueAwaits
    <3>6. \A w \in Workers : WillRefresh(w, id) => WillRefresh(w, id)'
      BY <3>1, <3>2, <3>3, EnqueueAwaits
    <3>. QED BY <1>2, <2>6, <3>4, <3>5, <3>6 DEF EnqueueSyncBackendByID
  <2>. QED BY <1>4, <2>1, <2>2, <2>3, <2>4, <2>5, <2>6 DEF RequestStep
<1>5. ASSUME NEW b \in Ids, BackendStep(b) PROVE Goal
  BY <1>1, <1>5 DEF BackendStep, Drift, BackendStops, BackendReturns, requestVars
<1>6. ASSUME NEW t \in Tasks, Schedule(t) PROVE Goal
  <2>1. Enqueue(t, All) /\ UNCHANGED workerVars /\ All \in Kinds /\ id \in Covered(All)
    BY <1>6 DEF Schedule, Kinds, Covered
  <2>. QED BY <2>1, EnqueueAwaits
<1>7. ASSUME NEW w \in Workers, NEW t \in Tasks, Take(w, t) PROVE Goal
  <2>1. /\ task' = [task EXCEPT ![w] = t]
        /\ stage' = [stage EXCEPT ![w] = "load"]
        /\ stage[w] = "idle"
        /\ UNCHANGED <<seen, due, excused, queueVars, got, reply, phase, op, target>>
    BY <1>7 DEF Take, requestVars
  <2>2. \A v \in Workers : v # w => task'[v] = task[v] /\ stage'[v] = stage[v]
    BY <2>1 DEF TypeOK
  <2>3. ~WillRefresh(w, id)
    BY <2>1 DEF WillRefresh, TaskInv, Held, NoRecords
  <2>4. \A v \in Workers : WillRefresh(v, id) => WillRefresh(v, id)'
    BY <2>1, <2>2, <2>3 DEF WillRefresh, Held, InHand, queueVars
  <2>5. stage'[w] = "load" /\ task'[w] = t
    BY <2>1 DEF TypeOK
  <2>6. id \in Covered(kind[t]) => WillRefresh(w, id)'
    BY <2>1, <2>5 DEF WillRefresh, queueVars
  <2>7. \A other \in Tasks : other # t /\ Pending(other) => Pending(other)'
    BY <2>1, <2>2, <2>5 DEF Pending, queueVars
  <2>8. Awaited(id) => Awaited(id)'
    BY <2>1, <2>4, <2>6, <2>7 DEF Awaited, queueVars
  <2>. QED BY <1>0, <2>1, <2>8
<1>8. ASSUME NEW w \in Workers, Load(w) PROVE Goal
  <2>1. /\ stage' = [stage EXCEPT ![w] = "ping"]
        /\ UNCHANGED <<seen, due, excused, queueVars, task, reply, phase, op, target>>
    BY <1>8 DEF Load, requestVars
  <2>2. \A v \in Workers : v # w => got'[v] = got[v] /\ stage'[v] = stage[v]
    BY <1>8, <2>1 DEF Load, TypeOK
  <2>3. \A other \in Ids : got'[w][other] =
           IF other \in Covered(kind[task[w]]) THEN seen[other] ELSE NoRecord
    BY <1>8 DEF Load, TypeOK
  <2>4. WillRefresh(w, id) => id \in Covered(kind[task[w]])
    BY DEF WillRefresh, TaskInv
  <2>5. id \in Covered(kind[task[w]]) => got'[w][id] # NoRecord /\ stage'[w] = "ping"
    BY <2>1, <2>3, NoRecordAssumption DEF TypeOK
  <2>6. \A v \in Workers : WillRefresh(v, id) => WillRefresh(v, id)'
    BY <2>1, <2>2, <2>4, <2>5 DEF WillRefresh, Held, InHand, queueVars
  <2>7. Awaited(id) => Awaited(id)'
    BY <2>1, <2>6 DEF Awaited, Pending, queueVars
  <2>. QED BY <1>0, <2>1, <2>7
<1>9. ASSUME NEW w \in Workers, Ping(w) PROVE Goal
  <2>1. PICK b \in Ids :
            /\ InHand(w, b)
            /\ reply' = [reply EXCEPT ![w] = IF up[b] THEN version[b] ELSE got[w][b]]
            /\ excused' = IF up[b] THEN excused ELSE excused \union {b}
    BY <1>9 DEF Ping
  <2>2. /\ stage' = [stage EXCEPT ![w] = "save"]
        /\ UNCHANGED <<seen, due, queueVars, task, got, phase, op, target>>
        /\ stage[w] = "ping"
    BY <1>9 DEF Ping, requestVars
  <2>3. \A v \in Workers : v # w => reply'[v] = reply[v] /\ stage'[v] = stage[v]
    BY <2>1, <2>2 DEF TypeOK
  <2>4. \A v \in Workers : v # w => (WillRefresh(v, id) => WillRefresh(v, id)')
    BY <2>2, <2>3 DEF WillRefresh, Held, InHand, queueVars
  <2>5. id = b => id \in excused' \/ reply'[w] >= due[id]
    BY <2>1 DEF RecordInv, TypeOK
  <2>6. id # b => ~InHand(w, id)
    BY <2>1, OneInHand
  <2>7. WillRefresh(w, id) => WillRefresh(w, id)' \/ id \in excused'
    BY <2>2, <2>5, <2>6 DEF WillRefresh, Held, InHand
  <2>8. Awaited(id) => Awaited(id)' \/ id \in excused'
    BY <2>2, <2>4, <2>7 DEF Awaited, Pending, queueVars
  <2>. QED BY <1>0, <2>1, <2>2, <2>8
<1>10. ASSUME NEW w \in Workers, Save(w) PROVE Goal
  <2>1. PICK b \in Ids :
            /\ InHand(w, b)
            /\ seen' = [seen EXCEPT ![b] = reply[w]]
            /\ got' = [got EXCEPT ![w][b] = NoRecord]
            /\ excused' = IF b \in overtaken[w] THEN excused \union {b}
                          ELSE IF reply[w] >= due[b] THEN excused \ {b} ELSE excused
    BY <1>10 DEF Save
  <2>2. /\ stage' = [stage EXCEPT ![w] = "ping"]
        /\ reply' = [reply EXCEPT ![w] = NoRecord]
        /\ UNCHANGED <<due, queueVars, task, phase, op, target>>
        /\ stage[w] = "save"
    BY <1>10 DEF Save, requestVars
  <2>3. \A v \in Workers : v # w => got'[v] = got[v] /\ reply'[v] = reply[v] /\ stage'[v] = stage[v]
    BY <2>1, <2>2 DEF TypeOK
  <2>4. \A v \in Workers : v # w => (WillRefresh(v, id) => WillRefresh(v, id)')
    BY <2>2, <2>3 DEF WillRefresh, Held, InHand, queueVars
  <2>5. CASE id = b
    <3>1. seen'[id] = reply[w]
      BY <2>1, <2>5 DEF TypeOK
    <3>2. WillRefresh(w, id) => reply[w] >= due[id]
      BY <2>1, <2>2, <2>5 DEF WillRefresh
    <3>3. b \in excused' \/ seen[b] <= reply[w]
      BY <2>1, <2>2 DEF RecordInv
    <3>4. reply[w] \in Nat /\ seen[id] \in Nat /\ due[id] \in Nat
      BY <2>1, <2>2 DEF RecordInv, TypeOK
    <3>5. id \in excused => id \in excused' \/ seen'[id] >= due[id]
      BY <2>1, <2>5, <3>1
    <3>6. Awaited(id) => Awaited(id)' \/ seen'[id] >= due[id]
      BY <2>2, <2>4, <3>1, <3>2 DEF Awaited, Pending, queueVars
    <3>. QED BY <1>0, <2>2, <2>5, <3>1, <3>3, <3>4, <3>5, <3>6
  <2>6. CASE id # b
    <3>1. seen'[id] = seen[id] /\ (id \in excused => id \in excused')
      BY <2>1, <2>6 DEF TypeOK
    <3>2. got'[w][id] = got[w][id] /\ stage'[w] = "ping"
      BY <2>1, <2>2, <2>6 DEF TypeOK
    <3>3. WillRefresh(w, id) => WillRefresh(w, id)'
      BY <2>2, <3>2 DEF WillRefresh, Held, InHand
    <3>4. Awaited(id) => Awaited(id)'
      BY <2>2, <2>4, <3>3 DEF Awaited, Pending, queueVars
    <3>. QED BY <1>0, <2>2, <3>1, <3>4
  <2>. QED BY <2>5, <2>6
<1>11. ASSUME NEW w \in Workers, Finish(w) PROVE Goal
  <2>1. /\ stage[w] = "ping" /\ Held(w) = {}
        /\ task' = [task EXCEPT ![w] = NoTask]
        /\ kind' = [t \in Tasks |-> IF t = task[w] THEN NoKind ELSE kind[t]]
        /\ UNCHANGED <<seen, due, excused, phase, op, target>>
    BY <1>11 DEF Finish, Release, Dequeue, requestVars
  <2>2. ~WillRefresh(w, id)
    BY <2>1 DEF WillRefresh
  <2>3. \A v \in Workers : v # w => /\ got'[v] = got[v] /\ reply'[v] = reply[v]
                                    /\ stage'[v] = stage[v] /\ task'[v] = task[v]
    BY <1>11 DEF Finish, Release, TypeOK
  <2>4. \A v \in Workers : v # w /\ stage[v] = "load" => task[v] # task[w] /\ task[v] \in Tasks
    BY DEF TaskInv, TypeOK
  <2>5. \A v \in Workers : v # w => (WillRefresh(v, id) => WillRefresh(v, id)')
    BY <2>1, <2>3, <2>4 DEF WillRefresh, Held, InHand, TypeOK
  <2>6. \A t \in Tasks : Pending(t) => Pending(t)' /\ kind'[t] = kind[t]
    BY <2>1, <2>3, NoTaskAssumption DEF Pending, TypeOK
  <2>7. Awaited(id) => Awaited(id)'
    BY <2>1, <2>2, <2>5, <2>6 DEF Awaited
  <2>. QED BY <1>0, <2>1, <2>7
<1>12. ASSUME NEW w \in Workers, Fail(w) PROVE Goal
  <2>1. /\ Requeue({task[w]})
        /\ UNCHANGED <<seen, due, phase, op, target>>
        /\ task[w] \in Tasks /\ kind[task[w]] # NoKind
    BY <1>12 DEF Fail, requestVars, TaskInv, TypeOK
  <2>2. \A v \in Workers : v # w => /\ got'[v] = got[v] /\ reply'[v] = reply[v]
                                    /\ stage'[v] = stage[v] /\ task'[v] = task[v]
    BY <1>12 DEF Fail, Release, TypeOK
  <2>3. task'[w] = NoTask
    BY <1>12 DEF Fail, Release, TypeOK
  <2>4. \A v \in Workers : v # w => task[v] # task[w]
    BY <2>1, NoTaskAssumption DEF TaskInv
  <2>5. \A v \in Workers : task'[v] # task[w]
    BY <2>1, <2>2, <2>3, <2>4, NoTaskAssumption
  <2>6. WillRefresh(w, id) => id \in Covered(kind[task[w]])
    BY DEF WillRefresh, TaskInv
  <2>7. id \in Covered(kind[task[w]]) => id \in excused' \/ Awaited(id)'
    BY <2>1, <2>5, RequeueAwaits DEF Awaited
  <2>8. \A t \in Tasks : t # task[w] => kind'[t] = kind[t]
    BY <2>1 DEF Requeue
  <2>9. \A v \in Workers : v # w => (WillRefresh(v, id) => WillRefresh(v, id)')
    <3>1. \A v \in Workers : v # w /\ stage[v] = "load" => kind'[task[v]] = kind[task[v]]
      BY <2>4, <2>8 DEF TaskInv, TypeOK
    <3>. QED BY <2>1, <2>2, <3>1 DEF WillRefresh, Held, InHand
  <2>10. \A t \in Tasks : Pending(t) => Pending(t)' /\ kind'[t] = kind[t]
    BY <2>2, <2>3, <2>8, NoTaskAssumption DEF Pending
  <2>11. Awaited(id) => Awaited(id)' \/ id \in excused'
    BY <2>1, <2>6, <2>7, <2>9, <2>10 DEF Awaited
  <2>12. excused \subseteq excused'
    BY <2>1 DEF Requeue
  <2>. QED BY <1>0, <2>1, <2>11, <2>12
<1>13. CASE Crash
  <2>. DEFINE failed == {task[w] : w \in Workers} \intersect Tasks
  <2>1. /\ Requeue(failed)
        /\ task' = [w \in Workers |-> NoTask]
        /\ UNCHANGED <<seen, due, phase, op, target>>
    BY <1>13 DEF Crash, requestVars
  <2>2. \A t \in Tasks : \A w \in Workers : task'[w] # t
    BY <2>1, NoTaskAssumption
  <2>3. ASSUME NEW w \in Workers, WillRefresh(w, id) PROVE id \in excused' \/ Awaited(id)'
    <3>1. task[w] \in failed /\ kind[task[w]] # NoKind /\ id \in Covered(kind[task[w]])
      BY <2>3 DEF WillRefresh, TaskInv, TypeOK, Held, NoRecords
    <3>. HIDE DEF failed
    <3>2. failed \in SUBSET Tasks
      BY DEF failed
    <3>. QED BY <2>1, <2>2, <3>1, <3>2, RequeueAwaits DEF Awaited
  <2>4. \A t \in Tasks : Pending(t) => t \notin failed
    BY DEF Pending
  <2>5. \A t \in Tasks : Pending(t) => Pending(t)' /\ kind'[t] = kind[t]
    BY <2>1, <2>2, <2>4 DEF Requeue, Pending
  <2>6. Awaited(id) => Awaited(id)' \/ id \in excused'
    BY <2>1, <2>3, <2>5 DEF Awaited
  <2>7. excused \subseteq excused'
    BY <2>1 DEF Requeue
  <2>. QED BY <1>0, <2>1, <2>6, <2>7
<1>14. CASE UNCHANGED vars
  BY <1>1, <1>14 DEF vars, requestVars
<1>. QED
  BY <1>4, <1>5, <1>6, <1>7, <1>8, <1>9, <1>10, <1>11, <1>12, <1>13, <1>14 DEF Next, WorkerStep

-----------------------------------------------------------------------------

THEOREM Inductive == Spec => []PipelineInv
<1>1. PipelineInv /\ [Next]_vars => PipelineInv'
  BY StepType, StepRequest, StepTask, StepRecord, StepChanges DEF PipelineInv
<1>. QED BY InitHolds, <1>1, PTL DEF Spec

\* Every state is one of the model's kind.
THEOREM TypeCorrect == Spec => []TypeOK
BY Inductive, PTL DEF PipelineInv

\* A change that went well, and what the scheduler asked for, reaches the
\* registry or has an excuse.
THEOREM ChangesArrive == Spec => []ChangesReachRegistry
BY Inductive, PTL DEF PipelineInv

\* Only an overtaken save takes a record back.
THEOREM OnlyOvertakenGoBack == Spec => GoesBackOnlyIfOvertaken
<1>. DEFINE Overtaken(id) ==
        \E w \in Workers : stage[w] = "save" /\ InHand(w, id) /\ id \in overtaken[w]
<1>1. PipelineInv /\ [Next]_vars => \A id \in Ids : seen'[id] < seen[id] => Overtaken(id)
  <2>. SUFFICES ASSUME PipelineInv, [Next]_vars, NEW id \in Ids, seen'[id] < seen[id]
                PROVE  Overtaken(id)
    OBVIOUS
  <2>1. seen[id] \in Nat /\ seen' # seen
    BY DEF PipelineInv, TypeOK
  <2>2. PICK w \in Workers : Save(w)
    BY <2>1 DEF Next, RequestStep, StartRequest, RequestFails, BackendAnswers, ClientLeaves,
       EnqueueSyncBackendByID, EnqueueFails, NotSynced, BackendStep, Drift, BackendStops,
       BackendReturns, Schedule, WorkerStep, Take, Load, Ping, Finish, Fail, Crash, vars
  <2>3. PICK b \in Ids : InHand(w, b) /\ seen' = [seen EXCEPT ![b] = reply[w]] /\ stage[w] = "save"
    BY <2>2 DEF Save
  <2>4. b = id /\ seen'[id] = reply[w]
    BY <2>1, <2>3 DEF PipelineInv, TypeOK
  <2>. QED BY <2>1, <2>3, <2>4 DEF PipelineInv, RecordInv
<1>2. PipelineInv /\ [Next]_vars =>
        [\A id \in Ids : seen'[id] < seen[id] => Overtaken(id)]_vars
  BY <1>1
<1>. QED BY Inductive, <1>2, PTL DEF Spec, GoesBackOnlyIfOvertaken
=============================================================================
