# Selene in TLA+

Selene replays habitat telemetry, detects anomalies on it, and has an
LLM-driven agent investigate each of them while a frontend watches. This
directory models the parts of it that run concurrently or keep state between
steps, checks them with TLC on small instances and proves the main results with
TLAPS for every value of the constants.

Paths below are relative to `src/selene/selene/` unless they start with `src/`.

## The system

| Part | State | Operations | Talks to |
|---|---|---|---|
| pipeline (`pipeline.py`) | rolling window, dedup cache, priority queue, worker tasks | per frame: emit, ingest, detect, dedup, enqueue; drain; shut down | source (async iterator), detectors (gather), store (call), event handler (await), workers (queue, cancel) |
| reasoning agent (`agent/agent.py`, `agent/types.py`) | one conversation per run, iteration count, whether the last turn was a failed Diagnosis | ask the LLM, run tools, validate, emit trace events | LLM endpoint (await), tools, event handler (await) |
| store and tools (`agent/store.py`, `agent/tools.py`) | one deque of readings per sensor | ingest; history, latest, subsystem_state, correlate | written by the pipeline, read by every run |
| API (`api/app.py`) | active scenario, pipeline task, default speed, replayer, subscriber sets | start, reset, speed, active, sockets, lifespan | creates and cancels pipelines, broadcasts their events |
| replayer, injector (`data/`) | data frame, speed | stream with sleeps, set_speed | pipeline, API, scenario modules |
| detectors (`detection/`) | trained ranges and means | evaluate(window) | pipeline |
| scenarios (`scenarios/`) | parameters of an anomaly | transform(frame), ground truth | injector, API |
| knowledge base (`knowledge/`) | failure modes | match by symptoms | agent |
| frontend (`src/frontend/app.py`) | panel of runs, chart buffers, telemetry pump, reconnecting event stream | reduce events to a panel, call the API | API over HTTP and WebSocket |
| command line (`cli/`) | none | run, serve, replay | pipeline, API |

Everything runs on one asyncio event loop, so code between two awaits is
atomic and the hard behaviours are what happens *at* awaits:

* an event handler that suspends lets workers run in the middle of a frame;
* cancellation may arrive at any await, of the main task, of a worker inside an
  investigation, or a second time inside a `finally` block;
* two HTTP requests that start a scenario interleave while the first one waits
  for the old pipeline to unwind;
* detectors date events back, so the telemetry time of events is not monotone;
* sensors drop out of frames, so per-sensor buffers age differently;
* an LLM may call unknown tools, several at once, answer garbage, or fail.

* two investigations send their events over one channel, which loses them when
  it reconnects, into a text box that holds one value and is polled;
* positions in values without gaps, in a matrix and in frames are mixed, while
  readings and whole rows are missing.

What makes each part correct: the pipeline loses no trigger, investigates none
twice, lets none be overtaken by one that is no graver, and drains before it returns; the agent keeps a
conversation the chat protocol accepts and a trace its consumers understand; the
store holds exactly the retention; the API has one pipeline and reports it
truthfully; what is injected is what the ground truth announces, and events are
raised when and where the readings are; a ranking and a severity follow the
evidence; the panel shows nothing that did not happen and in the end every
verdict that arrives; a recording and its playback are what was captured.
PROJECT.json lists every hazard at its line, with the property that covers it or
the reason why none does.

## Modules

    Pipeline   --refines--> Dispatch       MCPipeline    PipelineProofs
    Agent      --refines--> RunProtocol    MCAgent       AgentProofs
    Store                                  MCStore       StoreProofs
    Lifecycle                              MCLifecycle   LifecycleProofs
    Telemetry  (Scenario, Detectors)       MCTelemetry   TelemetryProofs
    Knowledge                              MCKnowledge   KnowledgeProofs
    Frontend   (Panel, RunProtocol)        MCFrontend    FrontendProofs
    Recording  (Panel)                     MCRecording   RecordingProofs

The modules meet at what one promises and the other assumes. Telemetry checks that
detectors stamp events with frames of the window, which is all Pipeline assumes
of them. Agent implements RunProtocol, and the runs of Frontend emit whatever
RunProtocol allows. Panel is the browser's reducer, once under the live stream
and once under the playback.

**Pipeline** is `run_pipeline` and `_investigation_worker`. `main` is the
place where the main task is suspended (or about to go on); each worker is idle
in `get()`, busy in `investigate()` or stopped. An action is the code of one
task from one suspension point to the next, and workers act only where
`MainSuspended`. `EmitSuspends` is a constant because the two handlers in the
repository differ: the printing one of `cli/run.py` never suspends, the
broadcast of `api/app.py` does. `Detected` takes
any list of events stamped with a frame of the window; that detectors report no
other is `EventsInWindow` of Telemetry. The queue is a set ordered by `Precedes`
(score, then sequence number), and `unfinished` is asyncio's own counter behind
`join()`. A trigger carries its frame number only for the properties. `Raise`
stands for an exception of source, handler or store; `CancelMain` for a
cancellation at any suspension point, the `finally` block included.

**Dispatch** is what the pool promises: tickets are issued, each is taken at
most once and by one taker, then settled or dropped; the pool ends *drained*,
with no ticket left, or *aborted*, and takes nothing after it ended.

**Agent** is one `investigate` call. `phase` names the await the run is at;
`HandlerRaises` and `Cancel` may strike at each. `messages` and `log` are the
conversation and the emitted events; both carry which tool call they belong to.
Whether an answer validates against the schema and which failure modes it cites
is chosen freely. The endpoint can call tools only if the request offers them
(`agent.py:229`); that is an assumption about the endpoint.

**RunProtocol** is the order of events a consumer relies on: started first;
calls one at a time, each completed before the next starts; a run completes
only right after its hypothesis; nothing follows the end.

**Store** is `TelemetryStore` with the report of `correlate_signals`, except for
the coefficients. A request is a list of sensor ids, in which one may be repeated
and which may name sensors without readings. The window is anchored once, at the
newest reading of any sensor asked for, so a third sensor moves the window of a
pair on; a pair with less than two common samples in it is skipped. Frames
come in strictly increasing time, as the replayer's sorted grid yields them, with any
non-empty subset of sensors in each (missing values are dropped from a frame,
empty frames are skipped). A reading is its timestamp.

**Lifecycle** is the module-level state of the API. A request handler is atomic
but for the wait for the old pipeline (`waiting`); a task is created, takes its
first step when the loop gets to it in order of creation, and ends by itself or
by cancellation. Requests are served only between the nominal pipeline's first
step and the end of the lifespan: that is the order in which the server and the
loop start. An unknown scenario is refused and changes nothing. `asked` and
`overlapped` are history variables.

**Telemetry** is the way of a row of the data set to the detectors: the start of
the replay before the onset, rows with any readings missing or none at all, the
injector, the rolling window. Time counts five-minute rows, losses and valve
openings are whole percents. It extends two modules of operators. **Scenario** has
the two scenario modules with their validation, windows, transforms and ground
truth; the curve of the pressure loss is a parameter that starts at nothing and
never falls, which is what `rate * h * accel ^ (h / total)` does. Nothing in the
validation keeps the loss below 100 % or the thresholds of the valve above zero,
and nothing in the model does. **Detectors** has
ranges and tails of the threshold detector, samples and index mapping of DAMP,
matrix rows, windows and runs of MDI. Its loops are recursive functions over the
frames and the scores, as the code runs through them. Matrix profiles and Gaussian fits are any:
a discord may be at any place, a divergence may have any value. `held`, `streak`
and `heard` are history variables that count the data set's readings
independently of the window.

**Knowledge** is the knowledge base with what works from it. An investigation
reports one symptom after the other and looks them up, or does not, and concludes
with a diagnosis that cites none, one or several entries of the knowledge base,
looked up or not, which is all the agent validates. Severity and urgency are
operators, not steps: no code but the tests calls `compute_severity` and
`draft_ground_communication`. `SeveritySound` evaluates them on every diagnosis an
investigation ends with, in every context. A sensor pattern is the set
of its tokens, a score an exact fraction (the code has floats). Entries are
loaded in the order of their files; a broken one is skipped, one with an id
already there replaces it in place. The data of the repository enter through
assumptions that TLC evaluates on the entries, rules and weights of `MCKnowledge`:
a pattern has a token at least, the id of an entry names one of its subsystems by
the inference rules, `Scale` is a multiple of each count of a pattern (it only
makes the weights whole numbers), and severity weights are below one.

**Frontend** is the way of an event from a run to the page: `_broadcast`, the pump
of the agent events with its reconnect pause, the queue of the event stream, the
hidden text box, the 20 ms poll. One page and one socket of it are modelled;
what is sent while the socket is not among the subscribers, or is on the wire when
the connection breaks, is lost. Frames arrive over a second pump that is not
modelled but puts them into the same queue. The id of a call is the endpoint's and
nothing checks it, so a run may use one again. The clock is never set back: a
start of another scenario, which replays from an earlier time, is not modelled.
`Poll` is atomic with the listeners it calls, as JavaScript is. `lossy` and `taken`
are history variables. **Panel**, which it extends, has the listener of the
investigation panel as operators on the list of run blocks, the header, log and
card drawn from a block, and the marks of the sensor rows.

**Recording** is the capture script, its analysis and the demo that plays a file
back. Two consumers join, read, close and leave on their own while the script
triggers, waits and stops; the backend sends frames of the phases of the scenario,
anomalies and the events of runs. The file is frozen when both consumers have
returned, and the state the capture used is dropped with it. The playback counts
ticks: the recorded offsets, the minimum gap, the time to the browser and the
period of the poll. Nothing is late, which is what the code assumes of `asyncio.sleep`
and of the poll; a value is on its way for any time up to `MaxDelay`.
`RecordingAssumption` names what that buys: the minimum gap is longer than way and
period together.

Definitions named *Mutant* in a comment are variants of the definition below
them with a plausible bug; no specification uses them. Each property of a
passing run is violated when its mutant takes the place of the original.

## Runs

| Run | Question | Bounds and why they are enough |
|---|---|---|
| `pipeline` | Is any trigger lost, doubled, left behind or overtaken by one that is no graver, under errors and cancellation everywhere? Is everything queued taken, and does the pipeline end? | two workers, two keys, two scores, two frames with two events: more triggers than workers, ties and inversions of score, queued triggers behind busy workers at every exit |
| `pipeline_dedup` | Does the cooldown hold although events are dated back, and are the triggers of one frame taken by score when the handler never suspends? | one worker, two keys, window and cooldown 2, gaps 1 or 2, three frames with two events: events before, at and after the cooldown, older and newer than the last one fired, both orders of score |
| `agent` | Are conversation and trace consistent, tools withdrawn for good, citations checked, and does a run end whatever the LLM does? | three iterations, two calls per response, a plain, a ranking and an unknown tool, two known failure modes and an invented one |
| `store` | Does a deque hold exactly the retention, and which pairs does a correlation report, over which samples? | three sensors, retention 2, gaps up to 3 (shorter than it, equal and longer), time 6, requests of up to three ids: a pair whose window a fresher third sensor moves on, a sensor that dropped out or never reported, an id asked for twice |
| `lifecycle` | What survives overlapping requests, and is there one pipeline unless they overlap? | two requests at once, four pipelines, each replaced before its first step, while running, while unwinding or after its end |
| `telemetry` | Is the injected anomaly the announced one? When can each detector evaluate, and what do its events point at? | ten rows of any of five readings (all sensors, an outlier, one or two sensors missing, none), a window of six, a leak of five rows with a step change over its end, tails of two, subsequences of three: onset, lag, a loss of more than there is, four valve steps, one due at once, with the clamp, both ends of the windows, pruning, every pattern of gaps within a window |
| `frontend` | What may the panel show while events are lost, overwritten or interleaved, and is a verdict shown in the end? | three runs by two workers, a panel of two blocks, two events on their way, six events in all, of which up to two are frames and one is a loss, an anomaly or a reload: a run that starts over a running one, a verdict after that, a block pushed out, a result without its start, a call id used twice, a reconnect between any two events, two frames among the events |
| `knowledge` | Does the evidence decide the ranking, and the diagnosis and its context the severity? | the five entries of the repository, one of them broken or none; three symptoms out of all their signatures and three foreign ones; none, one or two entries cited, all fifteen inference rules, a silent and a telling hypothesis; confidences at the thresholds' edges |
| `recording` | Is a file what was sent, does a playback show all of it, and does the analysis notice what is missing? | two runs, two frames, four other events (a result whose start the trigger has cut off, and a run after it), one on its way, two replays, one of them cancelled at any point; ties and a pause in the offsets, the tightest minimum gap |

Runs that TLC finds violated, each a disagreement of code and documentation:

* `agent_llm_error`: the event schema documents the reason `llm_error`; a failing
  endpoint ends the run without any event.
* `lifecycle_orphan`: two overlapping start requests leave a pipeline that emits
  beside the active one and cannot be stopped.
* `lifecycle_speed_lost`: a speed set between the creation of a pipeline and its
  first step reaches the old replayer only.

Disagreements met while modelling that have no run of their own:

* With a handler that suspends, the lower score of a frame may be investigated
  first, which a comment of `src/selene/tests/cli/test_run.py:222` rules out; the
  test passes because printing never suspends (`SameFrameOrder` holds for
  `EmitSuspends = FALSE` and fails for `TRUE`).
* The class docstring of `TelemetryStore` measures retention from the most recent
  frame; a sensor that drops out keeps older readings.
* A multiplier of `None` is not kept as the default of later pipelines; 60 is.
* Two hours of frames with both ends are 25, not "exactly" the 24 of
  `api/app.py:167`; with 30 minutes of warm-up DAMP evaluates 90 minutes after
  the onset at the earliest. The default window of `cli/run.py` holds 13 frames, so
  DAMP never evaluates there.
* With gaps DAMP stamps an event with a frame before its discord, in which the
  sensor may have no reading.
* `valve_step_increments` are documented as cumulative and are summed.
* The panel marks a run as lost when another one starts though two run at once; its
  verdict repairs that (`VerdictShown`). A cancelled run stays "in progress" until
  the next one starts. `Diagnosis` has no `affected_sensors`, so no row is ever
  marked as anomalous.
* "Rare patterns score higher" (`knowledge/matcher.py`) holds within an entry only,
  since weights are normalised per entry. The prompt's `illumination_output` shares
  no token with any signature.
* `analyze` counts starts and results by type, not by run: a result whose start came
  before the trigger makes up for one that is missing. The panel shows no card for
  it, so `PlaybackShowsRecording` relies on the analysis for captures that began
  `clean` only: both consumers read, no run ran and no event of one was on its way.
* `analyze` is documented to return 0 or 1 and returns a count. "Clear all panels"
  (`app_demo.py`) leaves the run blocks; a recording of one event is not shown
  when it is played again, because the text box does not change.

Deadlock is checked in every run: the modules say where a process has ended
(`Ended`, `Stopped`). Symmetry is used over workers and keys in `pipeline_dedup`
and over sensors in `store`; runs with liveness properties use none.
`knowledge` and `recording` are about what the tools and the demo compute, so
their properties are invariants over the results of every sequence of uses.

## Fairness

* Pipeline: weak fairness of the main task's own steps and of each worker. A
  ready task is run by the loop, detectors and handlers return, and the LLM
  client has a timeout. The source owes nothing, not even an end, and neither
  errors nor cancellations are due, so `Terminates` starts from the end of the
  source or a failure.
* Agent: weak fairness of `Step`; errors and cancellation owe nothing.
* Lifecycle: weak fairness of resuming handlers, first steps and the unwinding
  of cancelled pipelines (which is `Terminates` of Pipeline). No pipeline owes
  an end by itself.

* Frontend: weak fairness of the pump's receive, of the event stream and of the
  poll. A connection need not be made again, a run need not end and a frame need
  not come, so `VerdictShown` speaks of verdicts no loss has touched.

## Proofs

All proofs are for arbitrary constants under the named assumptions of each module:
a finite and non-empty worker pool, finitely many keys (pairs of a detector and
a sensor), integer scores, a knowledge base within the identifiers, a ranking
tool among the tools, natural numbers for sizes and bounds. The bounds of the TLC
runs play no part in them. Where a proof needs induction over data (a deque, a
sum, the files of a directory) it is over a set of naturals: the least index at
which a statement fails, by `WFMin`, and the definition is a recursive function.

* `PipelineProofs`: the inductive invariant `IInv` adds to `TypeOK` what ties the
  queue, the workers and the main task together: sequence numbers are below
  `seq` and unique but for the one trigger announced and not queued yet; each enqueued
  trigger is in exactly one place; a busy worker holds an enqueued trigger; the
  cache holds, per key, the latest announced timestamp, and no announced
  timestamp of the key is above it; batch, cache and announcements lie within
  the ingested frames. `Conservation`, `UnfinishedCount`, `DedupSpacing`,
  `EvidenceIngested`, `NothingLeftBehind` and the action property
  `SuppressionJustified` follow, and `Refinement` shows every step to be a step
  of `Dispatch` or a stutter. The cache clause is what makes dedup work: events
  are dated back, but an event at or above the cooldown after the *last* one
  fired is above all earlier ones too.
  `NeverOvertaken` is inductive with those clauses: what is queued with a lower
  number and no lower score precedes what is taken, and the trigger that is
  announced but not queued yet, whom the queue's order says nothing about, has a
  higher number than everything started before it. If the handler does not suspend, no worker
  runs while the events of a frame are being queued, hence none of the frame's
  triggers is started before all are queued, and the order of the queue decides
  (`SameFrameOrder`, proved under `~EmitSuspends`; with a handler that suspends
  it is false). The queue has no maximum size: `BacklogBound` maps each announced
  trigger to its key and the cooldown period its timestamp falls into. By
  `DedupSpacing` no two triggers of a key fall into one period, so there are no
  more triggers than keys times periods.
* `AgentProofs`: the invariant relates the phase to the calls left, the turn and
  the last events of the trace; from it `TraceCorrect` (a run implements
  `RunProtocol`) and `GroundedCorrect`.
  A conversation is *closed* when every response has its
  answers right behind it, and *open* at the last response while some of its
  calls are left: those left are the ones without an answer, in the order of the
  response. The LLM is asked only with a closed one: calls open it, each
  answer shortens what is left, the last one closes it (`ConversationWellFormed`).
  What the trace shows is what the LLM was given, plus the one call whose
  completion is being reported, because the event precedes the message
  (`TraceMatchesConversation`). Tools run only while none has been withdrawn, so
  the reset of `last_turn_was_tool_free` after a turn with calls never brings
  them back (`ToolsWithdrawn`).
* `LifecycleProofs`: `ActiveCorrect` needs nothing but types; it holds for any
  number of overlapping requests because the scenario and the task are set
  without a suspension in between. `SoloCorrect` and
  `ReplayerCorrect` are about histories in which no
  request came while another one waited (`~overlapped`): then every live task is
  the held one, the waiting request waits for it, and so the launch that
  follows finds every earlier task over.
* `FrontendProofs`: three invariants, each resting on the ones before it.
  `LogInv`: a run begins with its start and nothing follows its last event. `WayInv`: box, queue and wire, read
  in this order, hold events of each run in increasing positions, all beyond the
  last one dispatched, so what is lost leaves gaps and never an old event. `PanelInv`:
  a block tells a subset of the dispatched part of its run. `DeliveredInOrder`
  follows from the second, `PanelSound` from the third. `VerdictStands` needs all
  three: an event that would take a verdict back would have to come after a last
  event, and one that takes a result back is the start of a call behind that result
  in the log, hence of a second call with the id (`Reused`).

* `StoreProofs`: a deque is a suffix of what its sensor has delivered, and what it
  lacks is what was too old at the sensor's own last delivery. Timestamps grow, so
  eviction, which stops at the first reading that stays, cuts exactly there
  (`HeldExactly`). The window of a request ends at the youngest sample of its
  sensors (`AnchorIs`) and is no longer than the retention; no deque ends later, so
  each, evicted at its own latest reading or before, still has all its samples
  of that window (`HistoryIs`), and the pairs and their samples are those of the
  reference (`CorrelationComplete`).
* `TelemetryProofs`: `WindowInv` relates the rolling window to the data set's frames
  it was made of (`held`): injected one by one, strictly ordered in time, none older
  than the window is long. `TypeOK` and, with lemmas about the two transforms,
  `GroundTruthSound` follow: the losses and valve steps accumulate because the curve
  never falls and the valve is clamped from above. `StreakInv` says that `streak` counts
  the frames at the end of the window that are out of range, which pruning does not
  change (`SustainedExcursion`). `HeardInv` says that `heard` has the times of
  each sensor's readings in the window; no two frames have the same time, so
  they count what DAMP counts (`DampTiming`). `EventsInWindow` follows from the
  order of the frames alone. `Lists` is what the loop over the frames that skips
  the incomplete ones collects: position `i` of the list is at least `i` and has
  `i` whole frames before it. `ScanInv` is the invariant of the loop over the
  scores: the runs over so far are maximal, in order and none is missing but
  the one that goes on. Every time an event states is that of a row, and rows are
  in the order of time.
* `KnowledgeProofs`: `Before` is a strict total order, so every place from one to
  the number of entries is taken once and the ranking is a sorted permutation.
  Each weight is at least one, hence a match is a proper fraction, one when all is
  matched, zero when nothing is, and it grows with the symptoms; the score
  keeps that (`RankingFair`). That the entry whose signatures were reported
  *leads* is no matter of the algorithm: an entry with one primary signature
  that another one shares would tie or win by its secondary ones. `RankingCorrect` therefore has
  the hypothesis `EntriesTellApart`, about the entries only, which `MCKnowledge`
  evaluates for the repository's, each subset of them loaded or not, over all sets
  of symptoms; the run is bounded to three symptoms, the theorem is not.
  `SeverityCorrect` needs `CitedInv`, that a diagnosis cites entries of the files:
  by `RulesAssumption` the first id cited tells a subsystem of its entry, and the
  texts after it are not read; without a citation the hypothesis decides. The score is monotone in
  confidence and context before and after clamping, and so are both tables.
* `RecordingProofs`: `CaptureInv` says that the wire of a channel holds the last
  messages sent on it and that the last one recorded is the one right before them;
  a message recorded thus follows its predecessor. It holds while a
  consumer joins late, is disconnected, or is overtaken by the stop.

  `PlaybackCorrect` has two sides. For the browser, `PlayInv` says what became of
  the last value yielded (`Stage`): it is on its way as long as the replay's clock
  has run since the yield, or in the box with less than a period to the poll, or
  seen; `RecordingAssumption` makes the minimum gap longer than both, so the next
  value finds it seen. What the panel shows is then, by induction over the events,
  on top of whatever it held before (`Covers`): no reducer step depends on what is
  below. For the analysis, `EventsInv` says that runs start in their order, that
  their starts are on the wire and in the file in that order, and that after a clean
  start each result is preceded by its start; the panel then keeps a block for each
  run that has started (`MaxRuns <= MaxShown`), and a result, which `FailedChecks`
  requires, finds it.

Only model-checked: liveness, beyond the prover's reach as is `ENABLED`. Every
invariant and every step property the runs check is a theorem.

## Not modelled

* Numerics of libraries: matrix profiles, covariances, correlations, floating
  point. CSV and YAML parsing. Prompt texts, layout, drawing and logging.
* Work orders and the body of the ground message (`agent/tools.py`): text made of
  a diagnosis, and nothing calls them.
* The frontend's requests (start, reset, speed) with their five-second timeout
  against a backend that starts late, the timeline and its phases, and its
  first-detection marker, which compares wall-clock with telemetry time.
* Back-pressure of a subscriber that does not read: `_broadcast` awaits each send,
  so such a socket delays the pipeline until the server gives it up.
* How old the evidence is when a queued trigger is investigated: Pipeline, Store
  and Agent would have to be composed with the replay speed.
* In the capture, a request that fails and ends the script without a file; in the
  demo, the effective speed shown. `app_demo_inlined.py` repeats `app_demo.py`.
* `src/selene/scripts/explore_eden_iss.py`, a one-off report.

Next would be the age of the evidence: Pipeline, Store and Agent composed with the
replay speed, so that a queued trigger may outlive the frames it is about.
