-------------------------- MODULE ProcessLifecycle --------------------------
(***************************************************************************)
(* How the server, the worker and the scheduler start, work and stop       *)
(* (cmd/*/main.go, Run of internal/server/server.go, internal/db).         *)
(*                                                                         *)
(* A process goes through its start, of which any step may fail, opening   *)
(* what it needs and noting how to close it.  Once told to stop it lets    *)
(* its jobs (requests, or tasks) end, but not for ever, closes what it has *)
(* opened in reverse order and exits.                                      *)
(***************************************************************************)
EXTENDS Sequences, SequencesExt

CONSTANTS Jobs   \* in progress at once

Kinds == {"server", "worker", "scheduler"}

\* What each process does before it works.
Startup(k) ==
    CASE k = "server"    -> <<"config", "roles", "migrate", "connect", "redis", "definitions",
                              "register", "taskClient", "new", "sync">>
      [] k = "worker"    -> <<"config", "migrate", "connect", "redis", "queue", "run">>
      [] k = "scheduler" -> <<"config", "schedule", "run">>

\* The steps that a signal interrupts, as their context is cancelled.
Cancellable == {"migrate", "connect", "register"}

\* The synchronisation at start only logs its errors; the queue's client and
\* server connect when they are used.  Run of the queue's server, and that of
\* its scheduler, fail before they work or not at all.
NeverFails == {"sync", "taskClient", "queue"}

\* What a step opens.
Opened(s) ==
    CASE s = "connect"    -> {"pool"}
      [] s = "redis"      -> {"redis"}
      [] s = "taskClient" -> {"tasks"}
      [] OTHER            -> {}

\* Mutant: how to close the task client is noted before there is one.
ClosersTooSoon(s) ==
    CASE s = "connect" -> <<"pool", "tasks">>
      [] OTHER         -> <<>>

\* The store's connection to Redis has no closer.
Closers(s) ==
    CASE s = "connect"    -> <<"pool">>
      [] s = "taskClient" -> <<"tasks">>
      [] OTHER            -> <<>>

VARIABLES
    kind,
    phase,
    step,        \* the next step of the start
    open,        \* what is open
    closers,     \* what will be closed, the last first
    cancelled,   \* a signal has cancelled the context of the start
    told,        \* a signal has reached what runs, which will stop
    failed,      \* the process will exit with an error
    job,         \* what each job is doing
    timedOut,    \* history: the jobs' time to end has run out
    aborted,     \* history: the listener has failed under the server
    hurt         \* history: jobs that found something closed

history == <<timedOut, aborted, hurt>>
vars == <<kind, phase, step, open, closers, cancelled, told, failed, job, history>>

TypeOK ==
    /\ kind \in Kinds
    /\ phase \in {"starting", "running", "stopping", "closing", "exited"}
    /\ step \in 1..(Len(Startup(kind)) + 1)
    /\ open \subseteq {"pool", "redis", "tasks"}
    /\ closers \in Seq(open)
    /\ cancelled \in BOOLEAN
    /\ told \in BOOLEAN
    /\ failed \in BOOLEAN
    /\ timedOut \in BOOLEAN
    /\ aborted \in BOOLEAN
    /\ job \in [Jobs -> {"none", "active", "querying", "cut"}]
    /\ hurt \subseteq Jobs

Init ==
    /\ kind \in Kinds
    /\ phase = "starting"
    /\ step = 1
    /\ open = {}
    /\ closers = <<>>
    /\ cancelled = FALSE
    /\ told = FALSE
    /\ failed = FALSE
    /\ job = [j \in Jobs |-> "none"]
    /\ timedOut = FALSE
    /\ aborted = FALSE
    /\ hurt = {}

-----------------------------------------------------------------------------
(* Start                                                                   *)

\* A signal ends the process: before its configuration is read, and while the
\* scheduler is not yet running.
NoHandler == phase = "starting" /\ (step = 1 \/ kind = "scheduler")

Starting == phase = "starting" /\ step <= Len(Startup(kind))

StepSucceeds ==
    /\ Starting
    /\ ~(cancelled /\ Startup(kind)[step] \in Cancellable)
    /\ step' = step + 1
    /\ open' = open \union Opened(Startup(kind)[step])
    /\ closers' = closers \o Closers(Startup(kind)[step])
    /\ UNCHANGED <<kind, phase, cancelled, told, failed, job, history>>

\* Mutant: an error is returned without env.Close().
StepFailsUnclosed ==
    /\ Starting
    /\ Startup(kind)[step] \notin NeverFails
    /\ phase' = "exited"
    /\ failed' = TRUE
    /\ UNCHANGED <<kind, step, open, closers, cancelled, told, job, history>>

StepFails ==
    /\ Starting
    /\ Startup(kind)[step] \notin NeverFails
    /\ phase' = "closing"
    /\ failed' = TRUE
    /\ UNCHANGED <<kind, step, open, closers, cancelled, told, job, history>>

Started ==
    /\ phase = "starting"
    /\ step > Len(Startup(kind))
    /\ phase' = "running"
    /\ UNCHANGED <<kind, step, open, closers, cancelled, told, failed, job, history>>

\* ListenAndServe returns: the address is taken or, later, no connection can
\* be accepted any more.  Run waits for no request then.
RunFails ==
    /\ phase = "running"
    /\ kind = "server"
    /\ phase' = "closing"
    /\ failed' = TRUE
    /\ aborted' = TRUE
    /\ UNCHANGED <<kind, step, open, closers, cancelled, told, job, timedOut, hurt>>

-----------------------------------------------------------------------------
(* Jobs                                                                    *)

Does(j, what) == job' = [job EXCEPT ![j] = what]

\* Connections that are kept alive bring requests even after the listener has
\* failed; after Shutdown they do not.
StartJob(j) ==
    /\ phase = "running" \/ (aborted /\ phase = "closing")
    /\ kind # "scheduler"
    /\ job[j] = "none"
    /\ Does(j, "active")
    /\ UNCHANGED <<kind, phase, step, open, closers, cancelled, told, failed, history>>

EndJob(j) ==
    /\ job[j] = "active"
    /\ Does(j, "none")
    /\ UNCHANGED <<kind, phase, step, open, closers, cancelled, told, failed, history>>

Exited == phase = "exited"

\* Once its closer is called the pool gives no connection, though it stays
\* open until those in use are back.
Usable(resource) ==
    /\ resource \in open
    /\ ~(phase = "closing" /\ closers # <<>> /\ Last(closers) = resource)

\* A request acquires a connection to Postgres.
Query(j) ==
    /\ kind = "server"
    /\ ~Exited
    /\ job[j] = "active"
    /\ IF Usable("pool")
       THEN Does(j, "querying") /\ hurt' = hurt
       ELSE Does(j, "none") /\ hurt' = hurt \union {j}
    /\ UNCHANGED <<kind, phase, step, open, closers, cancelled, told, failed, timedOut, aborted>>

QueryEnds(j) ==
    /\ job[j] = "querying"
    /\ Does(j, "active")
    /\ UNCHANGED <<kind, phase, step, open, closers, cancelled, told, failed, history>>

\* A request queues a task.
EnqueueTask(j) ==
    /\ kind = "server"
    /\ ~Exited
    /\ job[j] = "active"
    /\ hurt' = IF "tasks" \in open THEN hurt ELSE hurt \union {j}
    /\ UNCHANGED <<kind, phase, step, open, closers, cancelled, told, failed, job, timedOut, aborted>>

-----------------------------------------------------------------------------
(* Stop                                                                    *)

\* The server's context is what its Run waits for, so that a signal is good
\* whenever it comes.  The worker's only serves its start: the queue's server
\* receives the signals that come once it runs.
Signal ==
    /\ phase # "exited"
    /\ ~NoHandler
    /\ ~told
    /\ cancelled' = (cancelled \/ kind # "scheduler")
    /\ told' = (kind = "server" \/ phase # "starting")
    /\ UNCHANGED <<kind, phase, step, open, closers, failed, job, history>>

\* Nothing handles signals yet: the process ends at once.
Kill ==
    /\ NoHandler
    /\ phase' = "exited"
    /\ failed' = TRUE
    /\ UNCHANGED <<kind, step, open, closers, cancelled, told, job, history>>

\* Mutant: Run returns as soon as its context is done.
ShutdownAtOnce ==
    /\ phase = "running"
    /\ told
    /\ phase' = "closing"
    /\ UNCHANGED <<kind, step, open, closers, cancelled, told, failed, job, history>>

\* Shutdown: no job starts from now on.
Shutdown ==
    /\ phase = "running"
    /\ told
    /\ phase' = "stopping"
    /\ UNCHANGED <<kind, step, open, closers, cancelled, told, failed, job, history>>

Drained ==
    /\ phase = "stopping"
    /\ \A j \in Jobs : job[j] = "none"
    /\ phase' = "closing"
    /\ UNCHANGED <<kind, step, open, closers, cancelled, told, failed, job, history>>

\* Mutant: Shutdown's context has no deadline.
NoDeadline == FALSE /\ UNCHANGED vars

\* Five seconds have passed in the server, which then exits with an error;
\* a worker gives its tasks back to the queue.
Deadline ==
    /\ phase = "stopping"
    /\ \E j \in Jobs : job[j] # "none"
    /\ phase' = "closing"
    /\ timedOut' = TRUE
    /\ failed' = (kind = "server")
    /\ UNCHANGED <<kind, step, open, closers, cancelled, told, job, aborted, hurt>>

\* Closing the pool takes until the connections in use are back.
CloseNext ==
    /\ phase = "closing"
    /\ closers # <<>>
    /\ Last(closers) = "pool" => \A j \in Jobs : job[j] # "querying"
    /\ open' = open \ {Last(closers)}
    /\ closers' = Front(closers)
    /\ UNCHANGED <<kind, phase, step, cancelled, told, failed, job, history>>

\* The goroutines of the jobs that are left end with the process.
Exit ==
    /\ phase = "closing"
    /\ closers = <<>>
    /\ phase' = "exited"
    /\ job' = [j \in Jobs |-> IF job[j] = "none" THEN "none" ELSE "cut"]
    /\ UNCHANGED <<kind, step, open, closers, cancelled, told, failed, history>>

-----------------------------------------------------------------------------

Stopping == Shutdown \/ Drained \/ Deadline \/ CloseNext \/ Exit

Next ==
    \/ StepSucceeds \/ StepFails \/ Started \/ RunFails
    \/ \E j \in Jobs : StartJob(j) \/ EndJob(j) \/ Query(j) \/ QueryEnds(j) \/ EnqueueTask(j)
    \/ Signal \/ Kill
    \/ Stopping

Spec == Init /\ [][Next]_vars

\* A step of the start ends one way or the other, and so does a query; the
\* process goes on with its stop.  A request need never end: what it copies
\* to its client may be a stream without end.
FairSpec ==
    /\ Spec
    /\ WF_vars(StepSucceeds \/ StepFails \/ Started)
    /\ \A j \in Jobs : WF_vars(QueryEnds(j))
    /\ WF_vars(Stopping)

-----------------------------------------------------------------------------

\* No job finds the pool or the task client closed, whenever the process is
\* told to stop, unless its time to end has run out or the listener failed
\* under the server; and a server that exits without an error has let every
\* request end.
GracefulStop ==
    /\ hurt # {} => timedOut \/ aborted
    /\ kind = "server" /\ Exited /\ ~failed => hurt = {} /\ \A j \in Jobs : job[j] = "none"

\* However a process ends, at whatever step of its start or its stop, it has
\* closed what it has opened, but for the connection to Redis.
ClosedAtExit == Exited => open \subseteq {"redis"}

\* A process that is told to stop does, whatever its jobs do: the server by a
\* signal at any time after its configuration is read, the worker and the
\* scheduler by one that comes while they run.  So does one of which a step of
\* the start, or the listener, has failed.
StopEnds == (told \/ failed) ~> Exited
=============================================================================
