--------------------------- MODULE LifecycleProofs ---------------------------
(* Theorems about Lifecycle, for any registry, any speeds and any number   *)
(* of pipelines.                                                           *)
EXTENDS Lifecycle, TLAPS

-----------------------------------------------------------------------------
(* What holds however requests overlap.                                    *)

\* Types, and the active scenario with the pipeline it belongs to.
SharedInv == TypeOK /\ ActiveMatchesTask

LEMMA SharedInit == Init => SharedInv
<1> SUFFICES ASSUME Init PROVE SharedInv
  OBVIOUS
<1> DEFINE x == [scenario |-> Nominal, speed |-> DefaultSpeed,
                 state |-> "created", cancelled |-> FALSE]
<1>1. x \in Task /\ tasks = <<x>> /\ x.scenario = Nominal
  BY DEF Init, Task, Multipliers
<1> HIDE DEF x
<1>2. /\ tasks \in Seq(Task) /\ DOMAIN tasks = {1} /\ Len(tasks) = 1
      /\ tasks[1] = x
  BY <1>1
<1>3. TypeOK
  BY <1>2, LifecycleAssumption DEF Init, TypeOK, Multipliers
<1>4. ActiveMatchesTask
  BY <1>1, <1>2 DEF Init, ActiveMatchesTask
<1> QED
  BY <1>3, <1>4 DEF SharedInv

\* Appending the task of a launch keeps the list typed and its tasks.
LEMMA LaunchFacts ==
    ASSUME SharedInv, NEW s \in Scenarios \cup {Nominal}, Launch(s)
    PROVE  /\ tasks' \in Seq(Task)
           /\ DOMAIN tasks \subseteq DOMAIN tasks'
           /\ pipeline_task' \in DOMAIN tasks' /\ pipeline_task' = Len(tasks')
           /\ \A t \in DOMAIN tasks' : t \in DOMAIN tasks \/ t = pipeline_task'
           /\ \A t \in DOMAIN tasks :
                 tasks'[t] = tasks[t] /\ t # pipeline_task'
           /\ tasks'[pipeline_task'] = Created(s)
           /\ active' = s
<1>1. Created(s) \in Task
  BY DEF Created, Task, SharedInv, TypeOK
<1>2. tasks \in Seq(Task)
  BY DEF SharedInv, TypeOK
<1> QED
  BY <1>1, <1>2 DEF Launch

\* Setting one field of one task keeps the list typed and everything else.
LEMMA UpdateFacts ==
    ASSUME SharedInv, NEW t \in DOMAIN tasks,
           \/ tasks' = [tasks EXCEPT ![t].cancelled = TRUE]
           \/ \E st \in {"created", "running", "done"} :
                 tasks' = [tasks EXCEPT ![t].state = st]
           \/ \E m \in Multipliers : tasks' = [tasks EXCEPT ![t].speed = m]
    PROVE  /\ tasks' \in Seq(Task)
           /\ DOMAIN tasks' = DOMAIN tasks /\ Len(tasks') = Len(tasks)
           /\ \A u \in DOMAIN tasks : tasks'[u].scenario = tasks[u].scenario
           /\ \A u \in DOMAIN tasks : u # t => tasks'[u] = tasks[u]
<1>1. tasks \in Seq(Task) /\ tasks[t] \in Task
  BY DEF SharedInv, TypeOK
<1>2. PICK x \in Task : /\ x.scenario = tasks[t].scenario
                        /\ tasks' = [tasks EXCEPT ![t] = x]
  <2>1. CASE tasks' = [tasks EXCEPT ![t].cancelled = TRUE]
    BY <1>1, <2>1 DEF Task
  <2>2. CASE \E st \in {"created", "running", "done"} :
                tasks' = [tasks EXCEPT ![t].state = st]
    BY <1>1, <2>2 DEF Task
  <2>3. CASE \E m \in Multipliers : tasks' = [tasks EXCEPT ![t].speed = m]
    BY <1>1, <2>3 DEF Task
  <2> QED
    BY <2>1, <2>2, <2>3
<1> QED
  BY <1>1, <1>2

\* A step that changes no task's scenario and not the held pipeline.
LEMMA KeepsShared ==
    ASSUME SharedInv,
           tasks' \in Seq(Task), DOMAIN tasks' = DOMAIN tasks,
           Len(tasks') = Len(tasks),
           \A u \in DOMAIN tasks : tasks'[u].scenario = tasks[u].scenario,
           UNCHANGED <<pipeline_task, active>>,
           multiplier' \in Multipliers \ {Unlimited},
           replayer' \in DOMAIN tasks \cup {NoTask},
           waiting' \in [Requests -> DOMAIN tasks \cup {NoTask}],
           wanted' \in [Requests -> Scenarios \cup {Nominal}],
           down' \in BOOLEAN, asked' \in Multipliers, overlapped' \in BOOLEAN
    PROVE  SharedInv'
BY DEF SharedInv, TypeOK, ActiveMatchesTask

\* A launch that changes nothing else but what requests wait for.
LEMMA LaunchKeepsShared ==
    ASSUME SharedInv, NEW s \in Scenarios \cup {Nominal}, Launch(s),
           UNCHANGED <<multiplier, replayer, wanted, down, asked>>,
           overlapped' \in BOOLEAN,
           waiting' \in [Requests -> DOMAIN tasks \cup {NoTask}]
    PROVE  SharedInv'
<1>1. TypeOK'
  BY LaunchFacts DEF SharedInv, TypeOK
<1>2. tasks'[pipeline_task'] = Created(s) /\ active' = s
  BY LaunchFacts
<1>3. ActiveMatchesTask'
  BY <1>2 DEF ActiveMatchesTask, Created
<1> QED
  BY <1>1, <1>3 DEF SharedInv

LEMMA SharedStep == SharedInv /\ [Next]_vars => SharedInv'
<1> SUFFICES ASSUME SharedInv, [Next]_vars PROVE SharedInv'
  OBVIOUS
<1>0. TypeOK
  BY DEF SharedInv
<1>1. ASSUME NEW r \in Requests, NEW s \in Scenarios \cup {Nominal},
             StartAtOnce(r, s)
      PROVE  SharedInv'
  BY <1>0, <1>1, LaunchKeepsShared DEF StartAtOnce, Arrives, TypeOK
<1>2. ASSUME NEW r \in Requests, NEW s \in Scenarios \cup {Nominal},
             Replace(r, s)
      PROVE  SharedInv'
  <2>1. pipeline_task \in DOMAIN tasks
    BY <1>0 DEF TypeOK
  <2> QED
    BY <1>0, <1>2, <2>1, UpdateFacts, KeepsShared DEF Replace, Arrives, TypeOK
<1>3. ASSUME NEW r \in Requests, Resume(r)
      PROVE  SharedInv'
  <2>1. wanted[r] \in Scenarios \cup {Nominal}
    BY <1>0 DEF TypeOK
  <2> QED
    BY <1>0, <1>3, <2>1, LaunchKeepsShared DEF Resume, TypeOK
<1>4. ASSUME NEW m \in Speeds, SetSpeed(m)
      PROVE  SharedInv'
  <2>1. m \in Multipliers /\ AsDefault(m) \in Multipliers \ {Unlimited}
    BY LifecycleAssumption DEF Multipliers, AsDefault
  <2>2. CASE replayer = NoTask
    BY <1>0, <1>4, <2>1, <2>2, KeepsShared DEF SetSpeed, TypeOK
  <2>3. CASE replayer # NoTask
    <3>1. replayer \in DOMAIN tasks
      BY <1>0, <2>3 DEF TypeOK
    <3> QED
      BY <1>0, <1>4, <2>1, <2>3, <3>1, UpdateFacts, KeepsShared
      DEF SetSpeed, TypeOK
  <2> QED
    BY <2>2, <2>3
<1>5. ASSUME NEW t \in DOMAIN tasks,
             FirstStep(t) \/ FailToStart(t) \/ Finish(t) \/ Stop(t)
      PROVE  SharedInv'
  BY <1>0, <1>5, UpdateFacts, KeepsShared
  DEF FirstStep, FailToStart, Finish, Stop, Adopt, TypeOK
<1>6. CASE Shutdown
  <2>1. pipeline_task \in DOMAIN tasks
    BY <1>0 DEF TypeOK
  <2>2. CASE Live(pipeline_task)
    BY <1>0, <1>6, <2>1, <2>2, UpdateFacts, KeepsShared DEF Shutdown, TypeOK
  <2>3. CASE ~Live(pipeline_task)
    BY <1>0, <1>6, <2>3, KeepsShared DEF Shutdown, TypeOK
  <2> QED
    BY <2>2, <2>3
<1>7. CASE Stopped \/ UNCHANGED vars
  BY <1>7 DEF Stopped, vars, SharedInv, TypeOK, ActiveMatchesTask
<1> QED
  BY <1>1, <1>2, <1>3, <1>4, <1>5, <1>6, <1>7 DEF Next, Start

LEMMA SharedInvariance == Spec => []SharedInv
  BY SharedInit, SharedStep, PTL DEF Spec

\* The module globals have their types, and the pipeline held is the newest,
\* however requests overlap.
THEOREM TypeCorrect == Spec => []TypeOK
  BY SharedInvariance, PTL DEF SharedInv

\* However start and reset requests overlap, the scenario the server reports
\* as active is that of the pipeline it holds: _start_pipeline sets both
\* without being suspended in between.
THEOREM ActiveCorrect == Spec => []ActiveMatchesTask
  BY SharedInvariance, PTL DEF SharedInv

-----------------------------------------------------------------------------
(* What holds unless requests overlapped.                                 *)

\* Unless requests overlapped, at most one waits, only the held pipeline may
\* be live, also while the request waits for it, and the replayer is that of
\* the live pipeline once it runs.
SoloInv ==
    ~overlapped =>
        /\ \A t \in DOMAIN tasks : Live(t) => t = pipeline_task
        /\ \A q, r \in Requests :
              waiting[q] # NoTask /\ waiting[r] # NoTask => q = r
        /\ \A r \in Requests :
              waiting[r] # NoTask => waiting[r] = pipeline_task
        /\ ReplayerRuns

LEMMA SoloInit == Init => SoloInv
BY DEF Init, SoloInv, ReplayerRuns, Live, NoTask

\* With every other task over, a launch leaves the new pipeline alone.
LEMMA LaunchKeepsSolo ==
    ASSUME SharedInv, SoloInv, ~overlapped,
           NEW s \in Scenarios \cup {Nominal}, Launch(s),
           ~Live(pipeline_task), UNCHANGED replayer,
           \A r \in Requests : waiting'[r] = NoTask
    PROVE  SoloInv'
<1>1. \A t \in DOMAIN tasks : tasks[t].state = "done"
  BY DEF SoloInv, Live
<1>2. /\ tasks'[pipeline_task'] = Created(s)
      /\ \A t \in DOMAIN tasks' : t \in DOMAIN tasks \/ t = pipeline_task'
      /\ \A t \in DOMAIN tasks : tasks'[t] = tasks[t]
  BY LaunchFacts
<1>3. tasks'[pipeline_task'].state = "created"
  BY <1>2 DEF Created
<1>4. \A t \in DOMAIN tasks' :
         \/ tasks'[t].state = "done"
         \/ t = pipeline_task' /\ tasks'[t].state = "created"
  BY <1>1, <1>2, <1>3
<1> QED
  BY <1>4 DEF SoloInv, Live, ReplayerRuns

LEMMA SoloStep ==
    ASSUME SharedInv, SoloInv, [Next]_vars
    PROVE  SoloInv'
<1> SUFFICES ASSUME ~overlapped' PROVE SoloInv'
  BY DEF SoloInv
<1>0. TypeOK
  BY DEF SharedInv
<1>1. ASSUME NEW r \in Requests, NEW s \in Scenarios \cup {Nominal},
             StartAtOnce(r, s)
      PROVE  SoloInv'
  <2>1. \A q \in Requests : waiting'[q] = NoTask
    BY <1>1 DEF StartAtOnce, Arrives
  <2> QED
    BY <1>1, <2>1, LaunchKeepsSolo DEF StartAtOnce, Arrives
<1>2. ASSUME NEW r \in Requests, NEW s \in Scenarios \cup {Nominal},
             Replace(r, s)
      PROVE  SoloInv'
  <2>1. /\ ~overlapped
        /\ waiting'[r] = pipeline_task
        /\ \A q \in Requests \ {r} : waiting'[q] = NoTask
    BY <1>0, <1>2 DEF Replace, Arrives, TypeOK
  <2>2. /\ DOMAIN tasks' = DOMAIN tasks
        /\ \A t \in DOMAIN tasks : tasks'[t].state = tasks[t].state
    BY <1>0, <1>2 DEF Replace, TypeOK, Task
  <2> QED
    BY <1>2, <2>1, <2>2 DEF Replace, SoloInv, Live, ReplayerRuns
<1>3. ASSUME NEW r \in Requests, Resume(r)
      PROVE  SoloInv'
  <2>1. ~overlapped /\ \A q \in Requests : waiting'[q] = NoTask
    BY <1>0, <1>3 DEF Resume, SoloInv, TypeOK
  <2>2. waiting[r] = pipeline_task /\ wanted[r] \in Scenarios \cup {Nominal}
    BY <1>0, <1>3, <2>1 DEF Resume, SoloInv, TypeOK
  <2> QED
    BY <1>3, <2>1, <2>2, LaunchKeepsSolo DEF Resume
<1>4. ASSUME NEW m \in Speeds, SetSpeed(m)
      PROVE  SoloInv'
  <2>1. /\ DOMAIN tasks' = DOMAIN tasks
        /\ \A t \in DOMAIN tasks : tasks'[t].state = tasks[t].state
    <3>1. CASE replayer = NoTask
      BY <1>4, <3>1 DEF SetSpeed
    <3>2. CASE replayer \in DOMAIN tasks /\ replayer # NoTask
      <4>1. tasks' = [tasks EXCEPT ![replayer].speed = m]
        BY <1>4, <3>2 DEF SetSpeed
      <4>2. tasks[replayer] \in Task /\ tasks \in Seq(Task)
        BY <1>0, <3>2 DEF TypeOK
      <4> QED
        BY <3>2, <4>1, <4>2 DEF Task
    <3>3. replayer \in DOMAIN tasks \/ replayer = NoTask
      BY <1>0 DEF TypeOK
    <3> QED
      BY <3>1, <3>2, <3>3
  <2> QED
    BY <1>4, <2>1 DEF SetSpeed, SoloInv, Live, ReplayerRuns
<1>5. ASSUME NEW t \in DOMAIN tasks, FirstStep(t)
      PROVE  SoloInv'
  <2>1. t = pipeline_task
    BY <1>5 DEF FirstStep, Scheduled, SoloInv, Live
  <2>2. /\ DOMAIN tasks' = DOMAIN tasks
        /\ \A u \in DOMAIN tasks : u # t => tasks'[u] = tasks[u]
    BY <1>0, <1>5 DEF FirstStep, TypeOK
  <2> QED
    BY <1>5, <2>1, <2>2 DEF FirstStep, Adopt, SoloInv, Live, ReplayerRuns
<1>6. ASSUME NEW t \in DOMAIN tasks, FailToStart(t) \/ Finish(t) \/ Stop(t)
      PROVE  SoloInv'
  <2>1. Live(t)
    BY <1>6 DEF FailToStart, Finish, Stop, Scheduled, Live
  <2>2. /\ DOMAIN tasks' = DOMAIN tasks
        /\ \A u \in DOMAIN tasks : u # t => tasks'[u] = tasks[u]
        /\ tasks'[t].state = "done"
    <3>1. tasks' = [tasks EXCEPT ![t].state = "done"]
      BY <1>6 DEF FailToStart, Finish, Stop
    <3>2. tasks[t] \in Task /\ tasks \in Seq(Task)
      BY <1>0 DEF TypeOK
    <3> QED
      BY <3>1, <3>2 DEF Task
  <2>3. ~overlapped
    BY <1>6 DEF FailToStart, Finish, Stop
  <2>4. \A u \in DOMAIN tasks' : tasks'[u].state = "done"
    BY <2>1, <2>2, <2>3 DEF SoloInv, Live
  <2> QED
    BY <1>6, <2>3, <2>4
    DEF FailToStart, Finish, Stop, SoloInv, Live, ReplayerRuns
<1>7. CASE Shutdown
  <2>1. /\ DOMAIN tasks' = DOMAIN tasks
        /\ \A t \in DOMAIN tasks : tasks'[t].state = tasks[t].state
    BY <1>0, <1>7 DEF Shutdown, TypeOK, Task
  <2> QED
    BY <1>7, <2>1 DEF Shutdown, SoloInv, Live, ReplayerRuns
<1>8. CASE Stopped \/ UNCHANGED vars
  BY <1>8 DEF Stopped, vars, SoloInv, Live, ReplayerRuns
<1> QED
  BY <1>1, <1>2, <1>3, <1>4, <1>5, <1>6, <1>7, <1>8 DEF Next, Start

LEMMA SoloInvariance == Spec => []SoloInv
<1>1. SharedInv /\ SoloInv /\ [Next]_vars => SharedInv' /\ SoloInv'
  BY SharedStep, SoloStep
<1>2. Init => SharedInv /\ SoloInv
  BY SharedInit, SoloInit
<1> QED
  BY <1>1, <1>2, PTL DEF Spec

\* Unless requests overlapped there is never a second pipeline, not even one
\* that has not run yet or is still unwinding.
THEOREM SoloCorrect == Spec => []OnePipeline
<1>1. SoloInv => OnePipeline
  BY DEF SoloInv, OnePipeline
<1> QED
  BY <1>1, SoloInvariance, PTL

\* Unless requests overlapped the replayer that /replay/speed and /sensors
\* reach is the running pipeline's: a stale one keeps no pipeline at its speed.
THEOREM ReplayerCorrect == Spec => []ReplayerRuns
<1>1. SoloInv => ReplayerRuns
  BY DEF SoloInv, ReplayerRuns
<1> QED
  BY <1>1, SoloInvariance, PTL
=============================================================================
