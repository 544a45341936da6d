----------------------- MODULE ProcessLifecycleProofs -----------------------
(***************************************************************************)
(* Proofs about ProcessLifecycle, for any set of jobs.                     *)
(***************************************************************************)
EXTENDS ProcessLifecycle, Integers, SequenceTheorems, TLAPS

\* The sequences of closers that there are.
None == <<>>
Pool == <<"pool">>
Both == <<"pool", "tasks">>

\* What will be closed is what is open, but for Redis.
ClosersInv ==
    \/ closers = None /\ open \subseteq {"redis"}
    \/ closers = Pool /\ open \ {"redis"} = {"pool"}
    \/ closers = Both /\ open \ {"redis"} = {"pool", "tasks"}

\* How far the start has come says what it has opened.
StartInv ==
    phase = "starting" =>
        /\ kind = "server" =>
              closers = IF step <= 4 THEN None ELSE IF step <= 8 THEN Pool ELSE Both
        /\ kind = "worker" => closers = IF step <= 3 THEN None ELSE Pool
        /\ kind = "scheduler" => closers = None

\* While its jobs may go on the server has closed nothing.
WorkInv ==
    phase \in {"running", "stopping"} /\ kind = "server" => closers = Both

\* There are jobs before the process closes only in one that works, and after
\* that only if they were late, or the listener failed while they were at work.
JobsInv ==
    phase \in {"starting", "closing", "exited"} /\ ~timedOut /\ ~aborted =>
        \A j \in Jobs : job[j] = "none"

\* Either of the two makes the server's exit an error; there is neither before
\* it closes.
CutShortInv ==
    /\ kind = "server" /\ (timedOut \/ aborted) => failed
    /\ aborted => kind = "server"
    /\ phase \in {"starting", "running", "stopping"} => ~timedOut /\ ~aborted

ExitInv == Exited => closers = None

\* What hurts a job.
HurtCause == hurt # {} => timedOut \/ aborted

LifeInv ==
    /\ TypeOK
    /\ ClosersInv
    /\ StartInv
    /\ WorkInv
    /\ JobsInv
    /\ CutShortInv
    /\ ExitInv
    /\ HurtCause

-----------------------------------------------------------------------------
(* The sequences of steps and of closers.                                  *)

LEMMA ServerStart ==
    /\ Len(Startup("server")) = 10
    /\ \A i \in 1..10 :
          /\ Closers(Startup("server")[i]) =
                IF i = 4 THEN Pool ELSE IF i = 8 THEN <<"tasks">> ELSE None
          /\ Opened(Startup("server")[i]) =
                IF i = 4 THEN {"pool"} ELSE IF i = 5 THEN {"redis"}
                ELSE IF i = 8 THEN {"tasks"} ELSE {}
<1>1. Startup("server") = <<"config", "roles", "migrate", "connect", "redis", "definitions",
                            "register", "taskClient", "new", "sync">>
  BY DEF Startup
<1> QED
  BY <1>1 DEF Closers, Opened, None, Pool

LEMMA WorkerStart ==
    /\ Len(Startup("worker")) = 6
    /\ \A i \in 1..6 :
          /\ Closers(Startup("worker")[i]) = IF i = 3 THEN Pool ELSE None
          /\ Opened(Startup("worker")[i]) =
                IF i = 3 THEN {"pool"} ELSE IF i = 4 THEN {"redis"} ELSE {}
<1>1. Startup("worker") = <<"config", "migrate", "connect", "redis", "queue", "run">>
  BY DEF Startup
<1> QED
  BY <1>1 DEF Closers, Opened, None, Pool

LEMMA SchedulerStart ==
    /\ Len(Startup("scheduler")) = 3
    /\ \A i \in 1..3 :
          Closers(Startup("scheduler")[i]) = None /\ Opened(Startup("scheduler")[i]) = {}
<1>1. Startup("scheduler") = <<"config", "schedule", "run">>
  BY DEF Startup
<1> QED
  BY <1>1 DEF Closers, Opened, None, Pool

LEMMA ClosersAre ==
    /\ {None, Pool, Both} \subseteq Seq({"pool", "tasks"})
    /\ None # Pool /\ None # Both /\ Pool # Both
<1>1. Len(None) = 0 /\ Len(Pool) = 1 /\ Len(Both) = 2
  BY DEF None, Pool, Both
<1>2. None # Pool /\ None # Both /\ Pool # Both
  BY <1>1
<1>3. None \in Seq({"pool", "tasks"}) /\ Pool \in Seq({"pool", "tasks"}) /\ Both \in Seq({"pool", "tasks"})
  BY DEF None, Pool, Both
<1> QED
  BY <1>2, <1>3

\* What will be closed is typed by what is open.
LEMMA ClosersTyped ==
    ASSUME NEW c, NEW resources,
           \/ c = None
           \/ c = Pool /\ "pool" \in resources
           \/ c = Both /\ {"pool", "tasks"} \subseteq resources
    PROVE  c \in Seq(resources)
<1>1. None \in Seq(resources)
  BY DEF None
<1>2. "pool" \in resources => Pool \in Seq(resources)
  BY DEF Pool
<1>3. {"pool", "tasks"} \subseteq resources => Both \in Seq(resources)
  BY DEF Both
<1> QED
  BY <1>1, <1>2, <1>3

LEMMA Appending ==
    /\ None \o Pool = Pool
    /\ Pool \o <<"tasks">> = Both
    /\ \A s \in {None, Pool, Both} : s \o None = s
<1> DEFINE S == Seq({"pool", "tasks"})
<1>1. \A s \in S : s \o None = s /\ None \o s = s
  BY ConcatEmptySeq, Zenon DEF None
<1>2. Pool \o <<"tasks">> = Append(Pool, "tasks")
  BY ClosersAre, AppendIsConcat
<1>3. Append(Pool, "tasks") = Both
  <2>1. Append(Pool, "tasks") \in S /\ Both \in S
    BY ClosersAre
  <2>2. /\ Len(Append(Pool, "tasks")) = 2 /\ Len(Both) = 2
        /\ Append(Pool, "tasks")[1] = Both[1]
        /\ Append(Pool, "tasks")[2] = Both[2]
    BY DEF Pool, Both
  <2>3. \A i \in 1..Len(Append(Pool, "tasks")) : Append(Pool, "tasks")[i] = Both[i]
    BY <2>2
  <2> QED
    BY <2>1, <2>2, <2>3, SeqEqual
<1> QED
  BY <1>1, <1>2, <1>3, ClosersAre

LEMMA Closing ==
    /\ Last(Pool) = "pool" /\ Front(Pool) = None
    /\ Last(Both) = "tasks" /\ Front(Both) = Pool
<1>1. Last(Pool) = "pool" /\ Last(Both) = "tasks"
  BY DEF Last, Pool, Both
<1>2. Front(Pool) = None
  BY DEF Front, Pool, None
<1>3. Front(Both) = Pool
  <2>1. Front(Both) = SubSeq(Both, 1, 1)
    BY DEF Front, Both
  <2>2. /\ SubSeq(Both, 1, 1) \in Seq({"pool", "tasks"})
        /\ Len(SubSeq(Both, 1, 1)) = 1
        /\ SubSeq(Both, 1, 1)[1] = Both[1]
    BY ClosersAre DEF Both
  <2>3. Len(Pool) = 1 /\ Pool[1] = Both[1]
    BY DEF Pool, Both
  <2>4. \A i \in 1..Len(Pool) : Pool[i] = SubSeq(Both, 1, 1)[i]
    BY <2>2, <2>3
  <2> QED
    BY <2>1, <2>2, <2>3, <2>4, SeqEqual, ClosersAre
<1> QED
  BY <1>1, <1>2, <1>3

LEMMA StartLength == \A k \in Kinds : Len(Startup(k)) \in Nat
  BY ServerStart, WorkerStart, SchedulerStart DEF Kinds

-----------------------------------------------------------------------------

LEMMA InitLife == Init => LifeInv
<1> SUFFICES ASSUME Init PROVE LifeInv
  OBVIOUS
<1>1. TypeOK
  <2>1. step \in 1..(Len(Startup(kind)) + 1) /\ closers \in Seq(open)
    BY StartLength, ClosersTyped DEF Init, None
  <2> QED
    BY <2>1 DEF Init, TypeOK
<1>2. closers = None
  BY DEF Init, None
<1>3. /\ kind \in Kinds /\ step = 1 /\ phase = "starting" /\ open = {} /\ hurt = {}
      /\ timedOut = FALSE /\ aborted = FALSE
  BY DEF Init
<1>4. \A j \in Jobs : job[j] = "none"
  BY DEF Init
<1> QED
  BY <1>1, <1>2, <1>3, <1>4 DEF LifeInv, ClosersInv, StartInv, WorkInv, JobsInv, CutShortInv, ExitInv, Exited, HurtCause

LEMMA StartStep == LifeInv /\ StepSucceeds => LifeInv'
<1> SUFFICES ASSUME LifeInv, StepSucceeds PROVE LifeInv'
  OBVIOUS
<1>1. /\ kind \in Kinds /\ step \in 1..Len(Startup(kind)) /\ Len(Startup(kind)) \in Nat
      /\ step' = step + 1 /\ phase = "starting" /\ UNCHANGED <<kind, phase>>
      /\ open \subseteq {"pool", "redis", "tasks"}
      /\ open' = open \union Opened(Startup(kind)[step])
      /\ closers' = closers \o Closers(Startup(kind)[step])
  BY StartLength DEF LifeInv, TypeOK, StepSucceeds, Starting
<1>2. ClosersInv /\ StartInv
  BY DEF LifeInv
<1>3. ClosersInv' /\ StartInv' /\ open' \subseteq {"pool", "redis", "tasks"}
  <2>1. CASE kind = "server"
    <3>1. Startup(kind) = Startup("server") /\ step \in 1..10
      BY <1>1, <2>1, ServerStart
    <3>2. CASE step = 4
      <4>1. closers = None /\ open \subseteq {"redis"}
        BY <1>1, <1>2, <2>1, <3>2, ClosersAre DEF ClosersInv, StartInv
      <4>2. closers' = Pool /\ open' = open \union {"pool"}
        BY <1>1, <3>1, <3>2, <4>1, ServerStart, Appending
      <4>3. open' \ {"redis"} = {"pool"} /\ open' \subseteq {"pool", "redis", "tasks"}
        BY <1>1, <4>1, <4>2
      <4>4. StartInv'
        BY <1>1, <2>1, <3>2, <4>2 DEF StartInv
      <4> QED
        BY <4>2, <4>3, <4>4 DEF ClosersInv
    <3>3. CASE step = 8
      <4>1. closers = Pool /\ open \ {"redis"} = {"pool"}
        BY <1>1, <1>2, <2>1, <3>3, ClosersAre DEF ClosersInv, StartInv
      <4>2. closers' = Both /\ open' = open \union {"tasks"}
        <5>1. Closers(Startup("server")[8]) = <<"tasks">> /\ Opened(Startup("server")[8]) = {"tasks"}
          BY ServerStart
        <5> QED
          BY <1>1, <3>1, <3>3, <4>1, <5>1, Appending
      <4>3. open' \ {"redis"} = {"pool", "tasks"} /\ open' \subseteq {"pool", "redis", "tasks"}
        BY <1>1, <4>1, <4>2
      <4>4. StartInv'
        BY <1>1, <2>1, <3>3, <4>2 DEF StartInv
      <4> QED
        BY <4>2, <4>3, <4>4 DEF ClosersInv
    <3>4. CASE step # 4 /\ step # 8
      <4>1. Closers(Startup(kind)[step]) = None /\ Opened(Startup(kind)[step]) \subseteq {"redis"}
        BY <3>1, <3>4, ServerStart
      <4>2. closers' = closers /\ open \subseteq open' /\ open' \subseteq open \union {"redis"}
        BY <1>1, <1>2, <4>1, Appending DEF ClosersInv
      <4>3. ClosersInv' /\ open' \subseteq {"pool", "redis", "tasks"}
        BY <1>1, <1>2, <4>2 DEF ClosersInv
      <4>4. StartInv'
        BY <1>1, <1>2, <2>1, <3>1, <3>4, <4>2 DEF StartInv
      <4> QED
        BY <4>3, <4>4
    <3> QED
      BY <3>2, <3>3, <3>4
  <2>2. CASE kind = "worker"
    <3>1. Startup(kind) = Startup("worker") /\ step \in 1..6
      BY <1>1, <2>2, WorkerStart
    <3>2. CASE step = 3
      <4>1. closers = None /\ open \subseteq {"redis"}
        BY <1>1, <1>2, <2>2, <3>2, ClosersAre DEF ClosersInv, StartInv
      <4>2. closers' = Pool /\ open' = open \union {"pool"}
        BY <1>1, <3>1, <3>2, <4>1, WorkerStart, Appending
      <4>3. open' \ {"redis"} = {"pool"} /\ open' \subseteq {"pool", "redis", "tasks"}
        BY <1>1, <4>1, <4>2
      <4>4. StartInv'
        BY <1>1, <2>2, <3>2, <4>2 DEF StartInv
      <4> QED
        BY <4>2, <4>3, <4>4 DEF ClosersInv
    <3>3. CASE step # 3
      <4>1. Closers(Startup(kind)[step]) = None /\ Opened(Startup(kind)[step]) \subseteq {"redis"}
        BY <3>1, <3>3, WorkerStart
      <4>2. closers' = closers /\ open \subseteq open' /\ open' \subseteq open \union {"redis"}
        BY <1>1, <1>2, <4>1, Appending DEF ClosersInv
      <4>3. ClosersInv' /\ open' \subseteq {"pool", "redis", "tasks"}
        BY <1>1, <1>2, <4>2 DEF ClosersInv
      <4>4. StartInv'
        BY <1>1, <1>2, <2>2, <3>1, <3>3, <4>2 DEF StartInv
      <4> QED
        BY <4>3, <4>4
    <3> QED
      BY <3>2, <3>3
  <2>3. CASE kind = "scheduler"
    <3>1. Closers(Startup(kind)[step]) = None /\ Opened(Startup(kind)[step]) = {}
      BY <1>1, <2>3, SchedulerStart
    <3>2. closers' = closers /\ open' = open
      BY <1>1, <1>2, <3>1, Appending DEF ClosersInv
    <3> QED
      BY <1>1, <1>2, <2>3, <3>2 DEF ClosersInv, StartInv
  <2> QED
    BY <1>1, <2>1, <2>2, <2>3 DEF Kinds
<1>4. closers' \in Seq(open')
  BY <1>3, ClosersTyped DEF ClosersInv
<1>5. step' \in 1..(Len(Startup(kind')) + 1)
  BY <1>1
<1>6. TypeOK'
  BY <1>3, <1>4, <1>5 DEF LifeInv, TypeOK, StepSucceeds, Starting, history
<1> QED
  BY <1>1, <1>3, <1>6 DEF LifeInv, WorkInv, JobsInv, CutShortInv, ExitInv, Exited, HurtCause, StepSucceeds, history

\* The start ends, or fails.
LEMMA EndStartStep == LifeInv /\ (StepFails \/ Started \/ RunFails) => LifeInv'
<1> SUFFICES ASSUME LifeInv, StepFails \/ Started \/ RunFails PROVE LifeInv'
  OBVIOUS
<1>1. TypeOK' /\ ClosersInv'
  BY DEF LifeInv, TypeOK, ClosersInv, StepFails, Started, RunFails, history
<1>2. WorkInv'
  BY ServerStart DEF LifeInv, TypeOK, WorkInv, StartInv, StepFails, Started, RunFails
<1>3. StartInv' /\ ExitInv' /\ HurtCause'
  BY DEF LifeInv, StartInv, ExitInv, Exited, HurtCause, StepFails, Started, RunFails, Starting, history
<1>4. JobsInv' /\ CutShortInv'
  BY DEF LifeInv, JobsInv, CutShortInv, StepFails, Started, RunFails, Starting, history
<1> QED
  BY <1>1, <1>2, <1>3, <1>4 DEF LifeInv

\* A job finds what it uses open unless it is late or the listener has failed.
LEMMA JobStep ==
    ASSUME LifeInv, NEW j \in Jobs,
           StartJob(j) \/ EndJob(j) \/ Query(j) \/ QueryEnds(j) \/ EnqueueTask(j)
    PROVE  LifeInv'
<1>1. TypeOK'
  BY DEF LifeInv, TypeOK, StartJob, EndJob, Query, QueryEnds, EnqueueTask, Does, history
<1>2. JobsInv' /\ CutShortInv'
  BY DEF LifeInv, TypeOK, JobsInv, CutShortInv, StartJob, EndJob, Query, QueryEnds, EnqueueTask,
     Does, history
<1>3. HurtCause'
  <2>1. CASE Query(j) \/ EnqueueTask(j)
    <3> SUFFICES ASSUME ~timedOut, ~aborted PROVE hurt' = {}
      BY <2>1 DEF HurtCause, Query, EnqueueTask
    <3>1. hurt = {}
      BY DEF LifeInv, HurtCause
    <3>2. phase \in {"running", "stopping"} /\ kind = "server"
      BY <2>1 DEF LifeInv, TypeOK, JobsInv, Query, EnqueueTask, Exited
    <3>3. {"pool", "tasks"} \subseteq open
      BY <3>2, ClosersAre DEF LifeInv, WorkInv, ClosersInv
    <3> QED
      BY <2>1, <3>1, <3>2, <3>3 DEF Query, EnqueueTask, Usable
  <2>2. CASE StartJob(j) \/ EndJob(j) \/ QueryEnds(j)
    BY <2>2 DEF LifeInv, HurtCause, StartJob, EndJob, QueryEnds, history
  <2> QED
    BY <2>1, <2>2
<1>4. UNCHANGED <<kind, phase, step, open, closers>>
  BY DEF StartJob, EndJob, Query, QueryEnds, EnqueueTask
<1> QED
  BY <1>1, <1>2, <1>3, <1>4 DEF LifeInv, ClosersInv, StartInv, WorkInv, ExitInv, Exited

LEMMA SignalStep == LifeInv /\ (Signal \/ Kill) => LifeInv'
<1> SUFFICES ASSUME LifeInv, Signal \/ Kill PROVE LifeInv'
  OBVIOUS
<1>1. TypeOK' /\ ClosersInv'
  BY DEF LifeInv, TypeOK, ClosersInv, Signal, Kill, history
<1>2. ExitInv'
  <2>1. CASE Signal
    BY <2>1 DEF LifeInv, ExitInv, Exited, Signal
  <2>2. CASE Kill
    BY <2>2 DEF LifeInv, TypeOK, Kinds, StartInv, ExitInv, Kill, NoHandler
  <2> QED
    BY <2>1, <2>2
<1>3. JobsInv' /\ CutShortInv' /\ HurtCause'
  BY DEF LifeInv, JobsInv, CutShortInv, HurtCause, Signal, Kill, NoHandler, history
<1> QED
  BY <1>1, <1>2, <1>3 DEF LifeInv, StartInv, WorkInv, Signal, Kill

LEMMA StoppingStep == LifeInv /\ Stopping => LifeInv'
<1> SUFFICES ASSUME LifeInv, Stopping PROVE LifeInv'
  OBVIOUS
<1>1. CASE Shutdown \/ Drained \/ Deadline
  <2>1. TypeOK' /\ ClosersInv'
    BY <1>1 DEF LifeInv, TypeOK, ClosersInv, Shutdown, Drained, Deadline, history
  <2>2. JobsInv' /\ CutShortInv' /\ HurtCause'
    <3>1. CASE Shutdown \/ Drained
      BY <3>1 DEF LifeInv, JobsInv, CutShortInv, HurtCause, Shutdown, Drained, history
    <3>2. CASE Deadline
      <4>1. /\ phase = "stopping" /\ phase' = "closing" /\ kind' = kind
            /\ timedOut' = TRUE /\ aborted' = aborted /\ failed' = (kind = "server")
        BY <3>2 DEF Deadline
      <4> QED
        BY <4>1 DEF LifeInv, JobsInv, CutShortInv, HurtCause
    <3> QED
      BY <1>1, <3>1, <3>2
  <2>3. StartInv' /\ WorkInv' /\ ExitInv'
    BY <1>1 DEF LifeInv, StartInv, WorkInv, ExitInv, Exited, Shutdown, Drained, Deadline
  <2> QED
    BY <2>1, <2>2, <2>3 DEF LifeInv
<1>2. CASE CloseNext
  <2>1. ClosersInv' /\ open' \subseteq open
    <3>1. closers # None /\ open' = open \ {Last(closers)} /\ closers' = Front(closers)
      BY <1>2 DEF CloseNext, None
    <3>2. CASE closers = Pool
      BY <3>1, <3>2, Closing, ClosersAre DEF LifeInv, ClosersInv
    <3>3. CASE closers = Both
      BY <3>1, <3>3, Closing, ClosersAre DEF LifeInv, ClosersInv
    <3> QED
      BY <3>1, <3>2, <3>3 DEF LifeInv, ClosersInv
  <2>2. closers' \in Seq(open')
    BY <2>1, ClosersTyped DEF ClosersInv
  <2>3. TypeOK'
    BY <1>2, <2>1, <2>2 DEF LifeInv, TypeOK, CloseNext, history
  <2>4. JobsInv' /\ CutShortInv' /\ HurtCause'
    BY <1>2 DEF LifeInv, JobsInv, CutShortInv, HurtCause, CloseNext, history
  <2> QED
    BY <1>2, <2>1, <2>3, <2>4 DEF LifeInv, StartInv, WorkInv, ExitInv, Exited, CloseNext
<1>3. CASE Exit
  <2>1. TypeOK' /\ ClosersInv'
    BY <1>3 DEF LifeInv, TypeOK, ClosersInv, Exit, history
  <2>2. JobsInv' /\ CutShortInv' /\ HurtCause'
    BY <1>3 DEF LifeInv, TypeOK, JobsInv, CutShortInv, HurtCause, Exit, history
  <2> QED
    BY <1>3, <2>1, <2>2 DEF LifeInv, StartInv, WorkInv, ExitInv, Exited, Exit, None
<1> QED
  BY <1>1, <1>2, <1>3 DEF Stopping

LEMMA Inductive == Spec => []LifeInv
<1>1. LifeInv /\ [Next]_vars => LifeInv'
  <2> SUFFICES ASSUME LifeInv, [Next]_vars PROVE LifeInv'
    OBVIOUS
  <2>1. CASE UNCHANGED vars
    BY <2>1 DEF LifeInv, TypeOK, ClosersInv, StartInv, WorkInv, JobsInv, CutShortInv, ExitInv, Exited,
       HurtCause, vars, history
  <2> QED
    BY <2>1, StartStep, EndStartStep, JobStep, SignalStep, StoppingStep DEF Next
<1> QED
  BY InitLife, <1>1, PTL DEF Spec

-----------------------------------------------------------------------------

(***************************************************************************)
(* Every state of a process is well typed; what it is going to close is    *)
(* always something that is open.                                          *)
(***************************************************************************)
THEOREM TypeCorrect == Spec => []TypeOK
<1>1. LifeInv => TypeOK
  BY DEF LifeInv
<1> QED
  BY <1>1, Inductive, PTL

(***************************************************************************)
(* However many requests and tasks there are, none finds the pool or the   *)
(* task client closed unless the five seconds it has to end have run out   *)
(* or the listener failed while it was at work; and a server that exits    *)
(* without an error has let every request end.                             *)
(***************************************************************************)
THEOREM JobsKeepResources == Spec => []GracefulStop
<1>1. LifeInv => GracefulStop
  <2> SUFFICES ASSUME LifeInv, kind = "server", Exited, ~failed
               PROVE  hurt = {} /\ \A j \in Jobs : job[j] = "none"
    BY DEF LifeInv, HurtCause, GracefulStop
  <2>1. ~timedOut /\ ~aborted
    BY DEF LifeInv, CutShortInv
  <2> QED
    BY <2>1 DEF LifeInv, JobsInv, HurtCause, Exited
<1> QED
  BY <1>1, Inductive, PTL

(***************************************************************************)
(* However a process ends it has closed what it opened, but for Redis.     *)
(***************************************************************************)
THEOREM OpenedIsClosed == Spec => []ClosedAtExit
<1>1. LifeInv => ClosedAtExit
  BY ClosersAre DEF LifeInv, ClosersInv, ExitInv, ClosedAtExit
<1> QED
  BY <1>1, Inductive, PTL

-----------------------------------------------------------------------------
(* What of StopEnds is a matter of safety.                                 *)

\* No less than the steps that a process has still to take until it exits.
Remaining ==
    IF phase = "starting" THEN 6 + (Len(Startup(kind)) + 1 - step)
    ELSE IF phase = "running" THEN 5
    ELSE IF phase = "stopping" THEN 4
    ELSE IF phase = "closing" THEN 1 + Len(closers)
    ELSE 0

\* A process only ever comes nearer to its end, with each step of its start and
\* of its stop; and what closing the pool waits for only becomes less.
StopRunsOut ==
    /\ Remaining \in Nat
    /\ Remaining' <= Remaining
    /\ StepSucceeds \/ StepFails \/ Started \/ Stopping => Remaining' < Remaining
    /\ phase = "closing" /\ closers # <<>> /\ Last(closers) = "pool" =>
          \A j \in Jobs : job'[j] = "querying" => job[j] = "querying"

LEMMA RemainingIsNumber ==
  ASSUME LifeInv
  PROVE  /\ Remaining \in Nat
         /\ Len(closers) \in Nat /\ Len(closers) <= 2
         /\ Len(Startup(kind)) \in Nat /\ step \in 1..(Len(Startup(kind)) + 1)
<1>1. Len(closers) \in Nat /\ Len(closers) <= 2
  <2>1. closers = None \/ closers = Pool \/ closers = Both
    BY DEF LifeInv, ClosersInv
  <2>2. Len(None) = 0 /\ Len(Pool) = 1 /\ Len(Both) = 2
    BY DEF None, Pool, Both
  <2> DEFINE n == Len(closers)
  <2>3. n = 0 \/ n = 1 \/ n = 2
    BY <2>1, <2>2, Zenon
  <2> HIDE DEF n
  <2>4. n \in Nat /\ n <= 2
    BY <2>3
  <2> QED
    BY <2>4, Zenon DEF n
<1>2. Len(Startup(kind)) \in Nat /\ step \in 1..(Len(Startup(kind)) + 1)
  BY StartLength DEF LifeInv, TypeOK
<1>3. phase \in {"starting", "running", "stopping", "closing", "exited"}
  BY DEF LifeInv, TypeOK
<1>4. Remaining \in Nat
  <2>1. Len(Startup(kind)) + 1 - step \in Nat
    BY <1>2
  <2>2. 1 + Len(closers) \in Nat /\ 6 + (Len(Startup(kind)) + 1 - step) \in Nat
    BY <1>1, <2>1
  <2> QED
    BY <1>3, <2>2 DEF Remaining
<1> QED
  BY <1>1, <1>2, <1>4

LEMMA StepsRemain ==
  ASSUME LifeInv, [Next]_vars
  PROVE  /\ StepSucceeds \/ StepFails \/ Started \/ Stopping \/ RunFails \/ Kill => Remaining' < Remaining
         /\ (\E j \in Jobs : StartJob(j) \/ EndJob(j) \/ Query(j) \/ QueryEnds(j) \/ EnqueueTask(j))
               \/ Signal \/ UNCHANGED vars => Remaining' = Remaining
<1>1. /\ Len(closers) \in Nat /\ Len(closers) <= 2
      /\ Len(Startup(kind)) \in Nat /\ step \in 1..(Len(Startup(kind)) + 1)
  BY RemainingIsNumber
<1>2. ASSUME StepSucceeds \/ StepFails \/ Started PROVE Remaining' < Remaining
  <2>1. phase = "starting"
    BY <1>2 DEF StepSucceeds, StepFails, Started, Starting
  <2>2. \/ phase' = "starting" /\ step' = step + 1 /\ kind' = kind
        \/ phase' = "closing" /\ closers' = closers
        \/ phase' = "running"
    BY <1>2, <2>1 DEF StepSucceeds, StepFails, Started
  <2>3. Remaining = 6 + (Len(Startup(kind)) + 1 - step) /\ Remaining >= 6
    BY <1>1, <2>1 DEF Remaining
  <2>4. CASE phase' = "starting" /\ step' = step + 1 /\ kind' = kind
    <3>1. Remaining' = 6 + (Len(Startup(kind)) + 1 - (step + 1))
      BY <2>4 DEF Remaining
    <3> QED
      BY <1>1, <2>3, <3>1
  <2>5. CASE phase' = "closing" /\ closers' = closers
    <3>1. Remaining' = 1 + Len(closers)
      BY <2>5 DEF Remaining
    <3> QED
      BY <1>1, <2>3, <3>1
  <2>6. CASE phase' = "running"
    <3>1. Remaining' = 5
      BY <2>6 DEF Remaining
    <3> QED
      BY <1>1, <2>3, <3>1
  <2> QED
    BY <2>2, <2>4, <2>5, <2>6
<1>3. ASSUME Shutdown \/ Drained \/ Deadline \/ Exit \/ RunFails \/ Kill PROVE Remaining' < Remaining
  <2>1. \/ phase = "running" /\ phase' = "stopping"
        \/ phase \in {"running", "stopping"} /\ phase' = "closing" /\ closers' = closers
        \/ phase \in {"closing", "starting"} /\ phase' = "exited"
    BY <1>3 DEF Shutdown, Drained, Deadline, Exit, RunFails, Kill, NoHandler
  <2>2. CASE phase = "running" /\ phase' = "stopping"
    BY <2>2 DEF Remaining
  <2>3. CASE phase \in {"running", "stopping"} /\ phase' = "closing" /\ closers' = closers
    <3>1. Remaining' = 1 + Len(closers) /\ Remaining \in {4, 5}
      BY <2>3 DEF Remaining
    <3> QED
      BY <1>1, <3>1
  <2>4. CASE phase \in {"closing", "starting"} /\ phase' = "exited"
    <3>1. Remaining' = 0
      BY <2>4 DEF Remaining
    <3>2. Remaining >= 1
      BY <1>1, <2>4 DEF Remaining
    <3> QED
      BY <3>1, <3>2, RemainingIsNumber
  <2> QED
    BY <2>1, <2>2, <2>3, <2>4
<1>4. ASSUME CloseNext PROVE Remaining' < Remaining
  <2>1. closers \in {Pool, Both} /\ closers' = Front(closers)
    BY <1>4 DEF CloseNext, LifeInv, ClosersInv, None
  <2>2. Len(closers') < Len(closers) /\ Len(closers') \in Nat
    <3>1. Len(None) = 0 /\ Len(Pool) = 1 /\ Len(Both) = 2
      BY DEF None, Pool, Both
    <3> QED
      BY <2>1, <3>1, Closing
  <2>3. phase = "closing" /\ phase' = "closing"
    BY <1>4 DEF CloseNext
  <2> QED
    BY <1>1, <1>4, <2>2, <2>3 DEF Remaining
<1>5. ASSUME UNCHANGED <<kind, phase, step, closers>> PROVE Remaining' = Remaining
  BY <1>5 DEF Remaining
<1>6. (\E j \in Jobs : StartJob(j) \/ EndJob(j) \/ Query(j) \/ QueryEnds(j) \/ EnqueueTask(j))
               \/ Signal \/ UNCHANGED vars => UNCHANGED <<kind, phase, step, closers>>
  BY DEF StartJob, EndJob, Query, QueryEnds, EnqueueTask, Signal, vars, history
<1> QED
  BY <1>2, <1>3, <1>4, <1>5, <1>6 DEF Stopping

(***************************************************************************)
(* A process takes finitely many steps to its end: each step of its start  *)
(* and of its stop brings it nearer, no job and no signal takes it back,   *)
(* and no query begins that closing the pool would have to wait for.  Only *)
(* fairness is missing of StopEnds.                                        *)
(***************************************************************************)
THEOREM LivesRunOut == Spec => [][StopRunsOut]_vars
<1>0. LifeInv => Remaining \in Nat
  BY RemainingIsNumber
<1>2. LifeInv' => (Remaining \in Nat)'
  BY <1>0, PTL
<1>1. LifeInv /\ LifeInv' /\ [Next]_vars => StopRunsOut
  <2> SUFFICES ASSUME LifeInv, LifeInv', [Next]_vars PROVE StopRunsOut
    OBVIOUS
  <2>1. Remaining \in Nat /\ Remaining' \in Nat
    BY <1>0, <1>2
  <2>2. Remaining' <= Remaining
    BY <2>1, StepsRemain DEF Next
  <2>3. ASSUME phase = "closing", closers # <<>>, Last(closers) = "pool", NEW j \in Jobs,
               job'[j] = "querying"
        PROVE  job[j] = "querying"
    <3>1. job \in [Jobs -> {"none", "active", "querying", "cut"}]
      BY DEF LifeInv, TypeOK
    <3>2. ~ Usable("pool")
      BY <2>3 DEF Usable
    <3>3. ASSUME NEW k \in Jobs, StartJob(k) \/ EndJob(k) \/ Query(k) \/ QueryEnds(k) \/ EnqueueTask(k)
          PROVE  job[j] = "querying"
      BY <2>3, <3>1, <3>2, <3>3 DEF StartJob, EndJob, Query, QueryEnds, EnqueueTask, Does
    <3>4. Exit => job[j] = "querying"
      BY <2>3 DEF Exit
    <3> QED
      BY <2>3, <3>3, <3>4 DEF Next, vars, StepSucceeds, StepFails, Started, RunFails, Signal, Kill,
                             Stopping, Shutdown, Drained, Deadline, CloseNext
  <2> QED
    BY <2>1, <2>2, <2>3, StepsRemain DEF StopRunsOut
<1> QED
  BY <1>1, Inductive, PTL DEF Spec
=============================================================================
