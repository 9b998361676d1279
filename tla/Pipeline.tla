------------------------------ MODULE Pipeline ------------------------------
(***************************************************************************)
(* run_pipeline and _investigation_worker (selene/pipeline.py): one main   *)
(* task turns frames into anomaly triggers, a fixed pool of worker tasks   *)
(* investigates them from a priority queue.                                *)
(*                                                                         *)
(* The tasks share one asyncio event loop, so an action is the code of one *)
(* task from one suspension point to the next and tasks interleave only    *)
(* where the main task is suspended (MainSuspended).  Whether awaiting the *)
(* event handler suspends depends on the handler the caller passes: the    *)
(* printing one of the CLI never does, the WebSocket broadcast of the API  *)
(* does.  EmitSuspends chooses.                                            *)
(***************************************************************************)
EXTENDS Integers, FiniteSets, Sequences

CONSTANTS
    Workers,        \* max_concurrent_investigations worker tasks
    Keys,           \* (detector_name, first affected sensor) pairs
    Scores,         \* scores of anomaly events
    WindowSize,     \* window_size
    Cooldown,       \* dedup_cooldown
    EmitSuspends,   \* does awaiting the event handler suspend the task?
    MaxGap,         \* bound: the largest distance of two frames
    MaxFrames,      \* bound: the frames the source yields
    MaxBatch        \* bound: the events the detectors report on one window

ASSUME PoolAssumption == IsFiniteSet(Workers) /\ Workers # {}
ASSUME DomainAssumption == IsFiniteSet(Keys) /\ Scores \subseteq Int
ASSUME SettingsAssumption ==
    /\ WindowSize \in Nat
    /\ Cooldown \in Nat
    /\ EmitSuspends \in BOOLEAN
    /\ MaxGap \in Nat /\ MaxFrames \in Nat /\ MaxBatch \in Nat

VARIABLES
    main,           \* where run_pipeline is
    outcome,        \* how it left the try block ("none" while inside)
    frames,         \* number of frames taken from the source
    now,            \* timestamp of the latest frame
    ingested,       \* timestamp of the latest frame in agent.store
    rolling_frames, \* timestamps of the frames of the rolling window
    batch,          \* detector results the dedup loop has not consumed
    dedup_cache,    \* key |-> timestamp it last fired at, or Never
    queue,          \* the PriorityQueue, as the set of its items
    seq,            \* next sequence number
    unfinished,     \* the queue's count of puts without a task_done
    wpc,            \* worker |-> idle (in get), busy or stopped
    job,            \* worker |-> the trigger it investigates, or NoJob
    announced,      \* history: triggers handed to the event handler
    settled,        \* history: triggers whose investigation returned or raised
    abandoned       \* history: triggers whose investigation was cancelled

mainVars    == <<main, outcome>>
streamVars  == <<frames, now, ingested, rolling_frames>>
queueVars   == <<queue, seq, unfinished>>
workerVars  == <<wpc, job>>
historyVars == <<announced, settled, abandoned>>
vars == <<mainVars, streamVars, batch, dedup_cache, queueVars, workerVars,
          historyVars>>

-----------------------------------------------------------------------------
(* Data.                                                                   *)

Never == -1
NoJob == [seq |-> -1]

\* An AnomalyEvent: what dedup and priority look at.
AnomalyEvent == [key : Keys, ts : Nat, score : Scores]

\* A trigger: an event that passed dedup, with its sequence number in the
\* queue and the number of the frame whose window it was detected in.
Trigger == [key : Keys, ts : Nat, score : Scores, seq : Nat, frame : Nat]

\* What the detectors may report on the current window: any list of events
\* stamped with one of the window's frames.  A detector that raises adds none.
Detections ==
    LET Reports == [key : Keys, ts : rolling_frames, score : Scores]
    IN  UNION {[1..n -> Reports] : n \in 0..MaxBatch}

\* Mutant: the youngest of equals goes first.
PrecedesYoungest(a, b) ==
    \/ a.score > b.score
    \/ a.score = b.score /\ a.seq > b.seq

\* Heap order of (-score, seq, event).
Precedes(a, b) ==
    \/ a.score > b.score
    \/ a.score = b.score /\ a.seq < b.seq

\* Mutant: first in, first out.
IsHeadFifo(t) == t \in queue /\ \A u \in queue : t.seq <= u.seq

IsHead(t) == t \in queue /\ \A u \in queue : u # t => Precedes(t, u)

\* Mutant: the distance in time, whatever its direction.
SuppressedByDistance(e) ==
    LET elapsed == e.ts - dedup_cache[e.key]
    IN  /\ dedup_cache[e.key] # Never
        /\ elapsed < Cooldown /\ -elapsed < Cooldown

\* Mutant: the boundary of the cooldown counts as inside.
SuppressedAtBoundary(e) ==
    /\ dedup_cache[e.key] # Never
    /\ e.ts - dedup_cache[e.key] <= Cooldown

Suppressed(e) ==
    /\ dedup_cache[e.key] # Never
    /\ e.ts - dedup_cache[e.key] < Cooldown

\* Mutant: the cache keeps the first time the key fired.
RememberFirst(e) ==
    dedup_cache' = IF dedup_cache[e.key] = Never
                   THEN [dedup_cache EXCEPT ![e.key] = e.ts]
                   ELSE dedup_cache

Remember(e) == dedup_cache' = [dedup_cache EXCEPT ![e.key] = e.ts]

\* The dedup survivor as the queue item the main task will put.
AsTrigger(e) ==
    [key |-> e.key, ts |-> e.ts, score |-> e.score, seq |-> seq,
     frame |-> frames]

-----------------------------------------------------------------------------
(* Scheduling.                                                             *)

\* The places where the main task has given the event loop away.
MainSuspended ==
    \/ main \in {"stream", "detect", "join", "shutdown"}
    \/ EmitSuspends /\ main \in {"emitFrame", "emitAnomaly"}

\* Mutant: the finally block awaits the workers without cancelling them.
CancelForgotten == main = "done"

\* In the finally block, after every w.cancel().
Cancelled == main \in {"shutdown", "done"}

Busy == {w \in Workers : wpc[w] = "busy"}

Init ==
    /\ main = "stream" /\ outcome = "none"
    /\ frames = 0 /\ now = 0 /\ ingested = Never
    /\ rolling_frames = {} /\ batch = <<>>
    /\ dedup_cache = [k \in Keys |-> Never]
    /\ queue = {} /\ seq = 0 /\ unfinished = 0
    /\ wpc = [w \in Workers |-> "idle"]
    /\ job = [w \in Workers |-> NoJob]
    /\ announced = {} /\ settled = {} /\ abandoned = {}

-----------------------------------------------------------------------------
(* The main task.                                                          *)

\* The source yields a frame; the handler is called with it.
NextFrame ==
    /\ main = "stream"
    /\ frames < MaxFrames
    /\ \E gap \in 1..MaxGap : now' = now + gap
    /\ frames' = frames + 1
    /\ main' = "emitFrame"
    /\ UNCHANGED <<outcome, ingested, rolling_frames, batch, dedup_cache,
                   queueVars, workerVars, historyVars>>

\* Mutant: the frame never reaches the store.
IngestSkipped == ingested' = ingested

Ingest == ingested' = now

\* The handler returned: ingest, roll the window, start the detectors.
FrameEmitted ==
    /\ main = "emitFrame"
    /\ Ingest
    /\ rolling_frames' = {t \in rolling_frames \cup {now} :
                             t >= now - WindowSize}
    /\ main' = "detect"
    /\ UNCHANGED <<outcome, frames, now, batch, dedup_cache, queueVars,
                   workerVars, historyVars>>

\* gather returned the results of all detectors.
Detected ==
    /\ main = "detect"
    /\ batch' \in Detections
    /\ main' = "dedup"
    /\ UNCHANGED <<outcome, streamVars, dedup_cache, queueVars, workerVars,
                   historyVars>>

Suppress ==
    /\ main = "dedup" /\ batch # <<>>
    /\ Suppressed(Head(batch))
    /\ batch' = Tail(batch)
    /\ UNCHANGED <<mainVars, streamVars, dedup_cache, queueVars, workerVars,
                   historyVars>>

\* The event survives: remember it, then call the handler with it.
Announce ==
    /\ main = "dedup" /\ batch # <<>>
    /\ LET e == Head(batch)
       IN  /\ ~Suppressed(e)
           /\ Remember(e)
           /\ announced' = announced \cup {AsTrigger(e)}
    /\ main' = "emitAnomaly"
    /\ UNCHANGED <<outcome, streamVars, batch, queueVars, workerVars, settled,
                   abandoned>>

\* The handler returned: put the event on the queue, go on with the loop.
Enqueue ==
    /\ main = "emitAnomaly"
    /\ queue' = queue \cup {AsTrigger(Head(batch))}
    /\ unfinished' = unfinished + 1
    /\ seq' = seq + 1
    /\ batch' = Tail(batch)
    /\ main' = "dedup"
    /\ UNCHANGED <<outcome, streamVars, dedup_cache, workerVars, historyVars>>

BatchConsumed ==
    /\ main = "dedup" /\ batch = <<>>
    /\ main' = "stream"
    /\ UNCHANGED <<outcome, streamVars, batch, dedup_cache, queueVars,
                   workerVars, historyVars>>

\* The source is exhausted: wait for the queue to drain.
StreamEnded ==
    /\ main = "stream"
    /\ main' = "join"
    /\ UNCHANGED <<outcome, streamVars, batch, dedup_cache, queueVars,
                   workerVars, historyVars>>

\* Leaving the try block, for whatever reason, cancels every worker.
LeaveTry(how) ==
    /\ main' = "shutdown"
    /\ outcome' = how
    /\ UNCHANGED <<streamVars, batch, dedup_cache, queueVars, workerVars,
                   historyVars>>

\* Mutant: the drain is missing.
JoinedAtOnce == main = "join" /\ LeaveTry("ok")

Joined ==
    /\ main = "join"
    /\ unfinished = 0
    /\ LeaveTry("ok")

\* The source, the handler or the store raises.
Raise ==
    /\ main \in {"stream", "emitFrame", "emitAnomaly"}
    /\ LeaveTry("error")

\* The task that runs run_pipeline is cancelled at a suspension point.  A
\* cancellation that arrives in the finally block replaces the outcome.
CancelMain ==
    /\ MainSuspended
    /\ LeaveTry("cancelled")

\* gather(*workers) returned.
WorkersGathered ==
    /\ main = "shutdown"
    /\ \A w \in Workers : wpc[w] = "stopped"
    /\ main' = "done"
    /\ UNCHANGED <<outcome, streamVars, batch, dedup_cache, queueVars,
                   workerVars, historyVars>>

-----------------------------------------------------------------------------
(* The workers.                                                            *)

\* Mutants: task_done() not called, or called twice.
TaskDoneForgotten == unfinished' = unfinished
TaskDoneTwice == unfinished' = unfinished - 2

TaskDone == unfinished' = unfinished - 1

\* Mutant: the trigger is read but stays in the queue.
TakeNextKeeping(w) ==
    /\ UNCHANGED queue
    /\ \/ /\ queue = {}
          /\ wpc' = [wpc EXCEPT ![w] = "idle"]
          /\ job' = [job EXCEPT ![w] = NoJob]
       \/ \E t \in queue :
             /\ IsHead(t)
             /\ wpc' = [wpc EXCEPT ![w] = "busy"]
             /\ job' = [job EXCEPT ![w] = t]

\* get() on a queue that is not empty returns its head at once; on an empty
\* one the worker waits in get().
TakeNext(w) ==
    \/ /\ queue = {}
       /\ wpc' = [wpc EXCEPT ![w] = "idle"]
       /\ job' = [job EXCEPT ![w] = NoJob]
       /\ UNCHANGED queue
    \/ \E t \in queue :
          /\ IsHead(t)
          /\ queue' = queue \ {t}
          /\ wpc' = [wpc EXCEPT ![w] = "busy"]
          /\ job' = [job EXCEPT ![w] = t]

\* A worker waiting in get() is woken and finds the queue not empty.
Get(w) ==
    /\ MainSuspended /\ ~Cancelled
    /\ wpc[w] = "idle" /\ queue # {}
    /\ TakeNext(w)
    /\ UNCHANGED <<mainVars, streamVars, batch, dedup_cache, seq, unfinished,
                   historyVars>>

\* Mutant: the exception is not caught, the worker dies of it.
FinishAndDie(w) ==
    /\ MainSuspended /\ ~Cancelled
    /\ wpc[w] = "busy"
    /\ settled' = settled \cup {job[w]}
    /\ TaskDone
    /\ wpc' = [wpc EXCEPT ![w] = "stopped"]
    /\ job' = [job EXCEPT ![w] = NoJob]
    /\ UNCHANGED <<mainVars, streamVars, batch, dedup_cache, queue, seq,
                   announced, abandoned>>

\* investigate returned or raised an Exception, which is logged; either way
\* task_done() is called and the loop gets the next trigger.
Finish(w) ==
    /\ MainSuspended /\ ~Cancelled
    /\ wpc[w] = "busy"
    /\ settled' = settled \cup {job[w]}
    /\ TaskDone
    /\ TakeNext(w)
    /\ UNCHANGED <<mainVars, streamVars, batch, dedup_cache, seq, announced,
                   abandoned>>

\* The CancelledError reaches a worker waiting in get().
StopIdle(w) ==
    /\ main = "shutdown" /\ wpc[w] = "idle"
    /\ wpc' = [wpc EXCEPT ![w] = "stopped"]
    /\ UNCHANGED <<mainVars, streamVars, batch, dedup_cache, queueVars, job,
                   historyVars>>

\* The CancelledError reaches a worker inside investigate: nothing catches
\* it, task_done() is still called.
StopBusy(w) ==
    /\ main = "shutdown" /\ wpc[w] = "busy"
    /\ wpc' = [wpc EXCEPT ![w] = "stopped"]
    /\ abandoned' = abandoned \cup {job[w]}
    /\ job' = [job EXCEPT ![w] = NoJob]
    /\ TaskDone
    /\ UNCHANGED <<mainVars, streamVars, batch, dedup_cache, queue, seq,
                   announced, settled>>

-----------------------------------------------------------------------------
Progress ==
    \/ FrameEmitted \/ Detected \/ Suppress \/ Announce \/ Enqueue
    \/ BatchConsumed \/ Joined \/ WorkersGathered

Worker(w) == Get(w) \/ Finish(w) \/ StopIdle(w) \/ StopBusy(w)

\* run_pipeline has returned or raised.
Ended == main = "done" /\ UNCHANGED vars

Next ==
    \/ NextFrame \/ StreamEnded \/ Raise \/ CancelMain
    \/ Progress
    \/ \E w \in Workers : Worker(w)
    \/ Ended

Spec == Init /\ [][Next]_vars

\* A ready task is eventually run by the event loop; detectors, handlers and
\* investigations return (the LLM client has a timeout).  The source owes
\* nothing: it may sleep forever, and neither errors nor cancels are due.
FairSpec ==
    /\ Spec
    /\ WF_vars(Progress)
    /\ \A w \in Workers : WF_vars(Worker(w))

-----------------------------------------------------------------------------
(* Properties.                                                             *)

TypeOK ==
    /\ main \in {"stream", "emitFrame", "detect", "dedup", "emitAnomaly",
                 "join", "shutdown", "done"}
    /\ outcome \in {"none", "ok", "error", "cancelled"}
    /\ frames \in Nat /\ now \in Nat
    /\ ingested \in Nat \cup {Never}
    /\ rolling_frames \subseteq Nat
    /\ batch \in Seq(AnomalyEvent)
    /\ dedup_cache \in [Keys -> Nat \cup {Never}]
    /\ queue \subseteq Trigger
    /\ seq \in Nat /\ unfinished \in Nat
    /\ wpc \in [Workers -> {"idle", "busy", "stopped"}]
    /\ job \in [Workers -> Trigger \cup {NoJob}]
    /\ announced \subseteq Trigger
    /\ settled \subseteq Trigger /\ abandoned \subseteq Trigger

Jobs == {job[w] : w \in Busy}
Enqueued == {t \in announced : t.seq < seq}
Started == Enqueued \ queue

\* The queue's own count, which join() waits on, is the number of triggers
\* queued or under investigation: every get() is paid back by exactly one
\* task_done(), whether the investigation returns, raises or is cancelled.
UnfinishedCount == unfinished = Cardinality(queue) + Cardinality(Busy)

\* No trigger is lost or investigated twice: each trigger put on the queue
\* is at any time in exactly one of the queue, the hands of one worker, the
\* settled and the cut-off ones.
Conservation ==
    /\ Enqueued = queue \cup Jobs \cup settled \cup abandoned
    /\ queue \cap (Jobs \cup settled \cup abandoned) = {}
    /\ Jobs \cap (settled \cup abandoned) = {}
    /\ settled \cap abandoned = {}
    /\ \A v, w \in Busy : job[v] = job[w] => v = w

\* When run_pipeline returns normally every anomaly it ever announced has
\* been investigated to an end: the drain before the workers are cancelled.
NothingLeftBehind == outcome = "ok" => settled = announced

\* The same (detector, sensor) pair is announced at most once within the
\* cooldown, although detectors date events back to any frame of the window
\* and the cache keeps only the last timestamp.
DedupSpacing ==
    \A a, b \in announced :
        a.key = b.key /\ a.seq < b.seq => b.ts - a.ts >= Cooldown

\* Dedup swallows an event only for the sake of an announced one of its key
\* that lies less than the cooldown before it, or after it.
SuppressionJustified ==
    [][main = "dedup" /\ batch # <<>> /\ batch' # batch =>
         \E a \in announced : /\ a.key = Head(batch).key
                              /\ Head(batch).ts - a.ts < Cooldown]_vars

\* The queue has no maximum size; the cooldown is all that limits it.  It
\* grows no faster than one trigger per key and cooldown of telemetry time.
BacklogBound ==
    Cooldown > 0 =>
        Cardinality(announced) <=
            Cardinality(Keys) * ((now + Cooldown - 1) \div Cooldown)

\* A trigger is announced only when its frame is in the agent's store: the
\* agent can read the evidence as soon as a worker picks the trigger up.
EvidenceIngested == \A t \in announced : t.ts <= ingested

\* An anomaly is overtaken by graver ones only: while it waits, no anomaly that
\* was announced after it, on whatever frame, and scores no higher is
\* investigated, although the handler suspends between the announcement of a
\* trigger and its put and workers become free in any order.
NeverOvertaken ==
    \A a, b \in announced :
        a.seq < b.seq /\ a.score >= b.score /\ b \in Started => a \in Started

\* Of two triggers detected on the same frame, the one with the higher score
\* is investigated first.
SameFrameOrder ==
    \A a, b \in announced :
        a.frame = b.frame /\ a.score < b.score /\ a \in Started =>
            b \in Started

\* Every queued trigger is eventually taken by a worker, however long the
\* source stays silent, unless the pipeline fails or is cancelled.
EventuallyTaken ==
    \A s \in 0..(MaxFrames * MaxBatch) :
        (\E t \in queue : t.seq = s)
            ~> ((\A t \in queue : t.seq # s) \/ Cancelled)

\* Once the source is exhausted, or the pipeline fails or is cancelled,
\* run_pipeline comes to an end.
Terminates == main \in {"join", "shutdown"} ~> main = "done"

\* Seen as tickets, the pipeline implements the pool it promises: each
\* trigger queued is investigated at most once and by one worker, none is
\* left when it ends in order, none is started after the try block.
Tickets(T) == {t.seq : t \in T}
Held == [w \in Workers |-> IF wpc[w] = "busy" THEN job[w].seq ELSE -1]
Status == CASE outcome = "none" -> "open"
            [] outcome = "ok"   -> "drained"
            [] OTHER            -> "aborted"

Pool == INSTANCE Dispatch WITH
    Takers  <- Workers,
    next    <- seq,
    waiting <- Tickets(queue),
    held    <- Held,
    settled <- Tickets(settled),
    dropped <- Tickets(abandoned),
    status  <- Status

PoolSpec == Pool!Spec
=============================================================================
