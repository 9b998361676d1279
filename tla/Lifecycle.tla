------------------------------ MODULE Lifecycle ------------------------------
(***************************************************************************)
(* The pipeline lifecycle of the API server (selene/api/app.py): requests  *)
(* start, reset and speed up pipeline tasks through module globals.        *)
(*                                                                         *)
(* Request handlers and pipeline tasks share one event loop.  A handler    *)
(* that replaces a pipeline is suspended while the old one unwinds; no     *)
(* lock keeps a second handler out.  What a pipeline does between its      *)
(* first step and its end is Pipeline's subject.                           *)
(***************************************************************************)
EXTENDS Integers, Sequences, FiniteSets

CONSTANTS
    Requests,       \* slots for requests being handled at the same time
    Scenarios,      \* _scenario_registry
    Nominal,        \* scenario_id None
    Speeds,         \* multipliers requested
    DefaultSpeed,   \* 60.0
    Unlimited,      \* multiplier None
    MaxTasks        \* bound: pipeline tasks created

ASSUME LifecycleAssumption ==
    /\ Nominal \notin Scenarios
    /\ Unlimited # DefaultSpeed
    /\ MaxTasks \in Nat \ {0}

VARIABLES
    tasks,          \* every task created, in the order of creation
    pipeline_task,  \* _pipeline_task, an index into tasks
    active,         \* _active_scenario_id
    multiplier,     \* _SPEED_MULTIPLIER
    replayer,       \* the task whose replayer _replayer is, or NoTask
    waiting,        \* request |-> the task whose end it awaits, or NoTask
    wanted,         \* request |-> the scenario_id it was given
    down,           \* the lifespan has ended
    asked,          \* history: the multiplier requested last
    overlapped      \* history: a request came while another one waited

vars == <<tasks, pipeline_task, active, multiplier, replayer, waiting, wanted,
          down, asked, overlapped>>

-----------------------------------------------------------------------------
(* Data.                                                                   *)

NoTask == 0

Multipliers == Speeds \cup {DefaultSpeed}

\* speed is the task's argument, then the multiplier of its replayer.
Task == [scenario : Scenarios \cup {Nominal},
         speed : Multipliers,
         state : {"created", "running", "done"},
         cancelled : BOOLEAN]

Created(s) == [scenario |-> s, speed |-> multiplier, state |-> "created",
               cancelled |-> FALSE]

Live(t) == tasks[t].state # "done"

\* Room for every request being handled to create its task.
Room == Len(tasks) + Cardinality({r \in Requests : waiting[r] # NoTask})
            < MaxTasks

\* Requests are accepted between the first step of the nominal pipeline,
\* which the lifespan starts, and the end of the lifespan.
Serving == ~down /\ tasks[1].state # "created"

\* The lifespan has created the nominal pipeline.
Init ==
    /\ tasks = <<[scenario |-> Nominal, speed |-> DefaultSpeed,
                  state |-> "created", cancelled |-> FALSE]>>
    /\ pipeline_task = 1
    /\ active = Nominal
    /\ multiplier = DefaultSpeed
    /\ replayer = NoTask
    /\ waiting = [r \in Requests |-> NoTask]
    /\ wanted = [r \in Requests |-> Nominal]
    /\ down = FALSE
    /\ asked = DefaultSpeed
    /\ overlapped = FALSE

-----------------------------------------------------------------------------
(* POST /scenario/start and /scenario/reset.                               *)

\* Mutant: the new task is not held.
LaunchUnheld(s) ==
    /\ active' = s
    /\ tasks' = Append(tasks, Created(s))
    /\ pipeline_task' = pipeline_task

\* The new task becomes the pipeline; its first step comes later.  The
\* response is made from these globals before anything else can run.
Launch(s) ==
    /\ active' = s
    /\ tasks' = Append(tasks, Created(s))
    /\ pipeline_task' = Len(tasks) + 1

\* A request is taken up, possibly while others wait.  One that names no known
\* scenario is refused and changes nothing.
Arrives(r) ==
    /\ Serving /\ Room
    /\ waiting[r] = NoTask
    /\ overlapped' = (overlapped \/ \E q \in Requests : waiting[q] # NoTask)

\* Nothing to replace: the handler is not suspended.
StartAtOnce(r, s) ==
    /\ Arrives(r)
    /\ ~Live(pipeline_task)
    /\ Launch(s)
    /\ UNCHANGED <<multiplier, replayer, waiting, wanted, down, asked>>

\* Mutant: the handler does not wait for the task it has cancelled.
ReplaceAtOnce(r, s) ==
    /\ Arrives(r)
    /\ Live(pipeline_task)
    /\ active' = s
    /\ tasks' = Append([tasks EXCEPT ![pipeline_task].cancelled = TRUE],
                       Created(s))
    /\ pipeline_task' = Len(tasks) + 1
    /\ UNCHANGED <<multiplier, replayer, waiting, wanted, down, asked>>

\* Mutant: the active scenario changes before the old pipeline is gone.
ReplaceActiveFirst(r, s) ==
    /\ Arrives(r)
    /\ Live(pipeline_task)
    /\ tasks' = [tasks EXCEPT ![pipeline_task].cancelled = TRUE]
    /\ waiting' = [waiting EXCEPT ![r] = pipeline_task]
    /\ wanted' = [wanted EXCEPT ![r] = s]
    /\ active' = s
    /\ UNCHANGED <<pipeline_task, multiplier, replayer, down, asked>>

\* Mutant: the handler waits for the old pipeline without cancelling it.
ReplaceUncancelled(r, s) ==
    /\ Arrives(r)
    /\ Live(pipeline_task)
    /\ waiting' = [waiting EXCEPT ![r] = pipeline_task]
    /\ wanted' = [wanted EXCEPT ![r] = s]
    /\ UNCHANGED <<tasks, pipeline_task, active, multiplier, replayer, down,
                   asked>>

\* Cancel the pipeline and wait for it to end.
Replace(r, s) ==
    /\ Arrives(r)
    /\ Live(pipeline_task)
    /\ tasks' = [tasks EXCEPT ![pipeline_task].cancelled = TRUE]
    /\ waiting' = [waiting EXCEPT ![r] = pipeline_task]
    /\ wanted' = [wanted EXCEPT ![r] = s]
    /\ UNCHANGED <<pipeline_task, active, multiplier, replayer, down, asked>>

\* The awaited task has ended: go on, without looking at the globals again.
Resume(r) ==
    /\ waiting[r] # NoTask /\ ~Live(waiting[r])
    /\ waiting' = [waiting EXCEPT ![r] = NoTask]
    /\ Launch(wanted[r])
    /\ UNCHANGED <<multiplier, replayer, wanted, down, asked, overlapped>>

-----------------------------------------------------------------------------
(* POST /replay/speed.                                                     *)

\* What a requested multiplier makes of the default.
AsDefault(m) == IF m = Unlimited THEN DefaultSpeed ELSE m

SetSpeed(m) ==
    /\ Serving
    /\ multiplier' = AsDefault(m)
    /\ asked' = m
    /\ tasks' = IF replayer = NoTask THEN tasks
                ELSE [tasks EXCEPT ![replayer].speed = m]
    /\ UNCHANGED <<pipeline_task, active, replayer, waiting, wanted, down,
                   overlapped>>

-----------------------------------------------------------------------------
(* Pipeline tasks.                                                         *)

\* The event loop runs tasks for the first time in the order of creation.
Scheduled(t) ==
    /\ tasks[t].state = "created"
    /\ \A u \in 1..(t - 1) : tasks[u].state # "created"

\* Mutant: _replayer is set only by the first pipeline.
AdoptFirst(t) == replayer' = IF replayer = NoTask THEN t ELSE replayer

Adopt(t) == replayer' = t

\* Load the data, publish the replayer, run into run_pipeline.
FirstStep(t) ==
    /\ Scheduled(t) /\ ~tasks[t].cancelled
    /\ Adopt(t)
    /\ tasks' = [tasks EXCEPT ![t].state = "running"]
    /\ UNCHANGED <<pipeline_task, active, multiplier, waiting, wanted, down,
                   asked, overlapped>>

\* The data cannot be loaded or, with the replayer already published, the
\* knowledge base or the detectors cannot: the task dies of the exception.
FailToStart(t) ==
    /\ Scheduled(t) /\ ~tasks[t].cancelled
    /\ Adopt(t) \/ UNCHANGED replayer
    /\ tasks' = [tasks EXCEPT ![t].state = "done"]
    /\ UNCHANGED <<pipeline_task, active, multiplier, waiting, wanted, down,
                   asked, overlapped>>

\* run_pipeline returns or raises by itself; the exception is logged.
Finish(t) ==
    /\ tasks[t].state = "running"
    /\ tasks' = [tasks EXCEPT ![t].state = "done"]
    /\ UNCHANGED <<pipeline_task, active, multiplier, replayer, waiting,
                   wanted, down, asked, overlapped>>

\* The cancellation has reached the task: one that never ran ends at once,
\* one inside run_pipeline when it has unwound.
Stop(t) ==
    /\ tasks[t].cancelled
    /\ Scheduled(t) \/ tasks[t].state = "running"
    /\ tasks' = [tasks EXCEPT ![t].state = "done"]
    /\ UNCHANGED <<pipeline_task, active, multiplier, replayer, waiting,
                   wanted, down, asked, overlapped>>

\* Mutant: the lifespan leaves the pipeline alone.
ShutdownNoCancel ==
    /\ Serving /\ \A r \in Requests : waiting[r] = NoTask
    /\ down' = TRUE
    /\ UNCHANGED <<tasks, pipeline_task, active, multiplier, replayer, waiting,
                   wanted, asked, overlapped>>

\* The server waits for its requests, then ends the lifespan: the pipeline
\* is cancelled and not awaited.
Shutdown ==
    /\ Serving /\ \A r \in Requests : waiting[r] = NoTask
    /\ down' = TRUE
    /\ tasks' = IF Live(pipeline_task)
                  THEN [tasks EXCEPT ![pipeline_task].cancelled = TRUE]
                  ELSE tasks
    /\ UNCHANGED <<pipeline_task, active, multiplier, replayer, waiting,
                   wanted, asked, overlapped>>

-----------------------------------------------------------------------------
Start(r, s) == StartAtOnce(r, s) \/ Replace(r, s)

\* Nothing is left to run after the shutdown.
Stopped ==
    /\ down /\ \A t \in DOMAIN tasks : ~Live(t)
    /\ UNCHANGED vars

Next ==
    \/ \E r \in Requests, s \in Scenarios \cup {Nominal} : Start(r, s)
    \/ \E r \in Requests : Resume(r)
    \/ \E m \in Speeds : SetSpeed(m)
    \/ \E t \in DOMAIN tasks : FirstStep(t) \/ FailToStart(t) \/ Finish(t)
                                 \/ Stop(t)
    \/ Shutdown \/ Stopped

Spec == Init /\ [][Next]_vars

\* The event loop runs ready tasks; a cancelled pipeline unwinds (Terminates
\* of Pipeline).  No pipeline owes an end by itself.
FairSpec ==
    /\ Spec
    /\ \A r \in Requests : WF_vars(Resume(r))
    /\ \A t \in 1..MaxTasks :
          /\ WF_vars(t \in DOMAIN tasks /\ (FirstStep(t) \/ FailToStart(t)))
          /\ WF_vars(t \in DOMAIN tasks /\ Stop(t))

-----------------------------------------------------------------------------
(* Properties.                                                             *)

\* The pipeline held is the newest.
TypeOK ==
    /\ tasks \in Seq(Task)
    /\ pipeline_task \in DOMAIN tasks /\ pipeline_task = Len(tasks)
    /\ active \in Scenarios \cup {Nominal}
    /\ multiplier \in Multipliers \ {Unlimited}
    /\ replayer \in DOMAIN tasks \cup {NoTask}
    /\ waiting \in [Requests -> DOMAIN tasks \cup {NoTask}]
    /\ wanted \in [Requests -> Scenarios \cup {Nominal}]
    /\ down \in BOOLEAN
    /\ asked \in Multipliers
    /\ overlapped \in BOOLEAN

\* Whatever requests overlap, the active scenario is that of the pipeline the
\* server holds: what GET /scenario/active and the responses report was not
\* mixed from two requests.
ActiveMatchesTask == active = tasks[pipeline_task].scenario

\* Unless requests overlapped there is one pipeline at a time: a new one is
\* not even created before the old one has ended.
OnePipeline ==
    ~overlapped => \A t, u \in DOMAIN tasks : Live(t) /\ Live(u) => t = u

\* Unless requests overlapped the replayer that /replay/speed and /sensors
\* reach is the running pipeline's.
ReplayerRuns ==
    ~overlapped =>
        \A t \in DOMAIN tasks : tasks[t].state = "running" => replayer = t

\* "Current scenario": while no request is being handled, every pipeline that
\* emits events and is not being cancelled runs the active scenario.
OnlyActiveEmits ==
    (\A r \in Requests : waiting[r] = NoTask) =>
        \A t \in DOMAIN tasks :
            tasks[t].state = "running" /\ ~tasks[t].cancelled =>
                tasks[t].scenario = active

\* "Update replay speed live and as the default for future pipelines": the
\* pipeline runs at the speed that was asked for last.
SpeedAsAsked ==
    tasks[pipeline_task].state = "running" =>
        tasks[pipeline_task].speed = asked

\* Every request to start or reset is answered, whatever other requests do.
RequestAnswered ==
    \A r \in Requests : waiting[r] # NoTask ~> waiting[r] = NoTask

\* Unless requests overlapped the shutdown leaves no pipeline behind.
ShutdownStops == down /\ ~overlapped ~> \A t \in DOMAIN tasks : ~Live(t)
=============================================================================
