------------------------------ MODULE Recording ------------------------------
(***************************************************************************)
(* The recorded demo: the script that captures a scenario run from the     *)
(* backend and analyses the file (scripts/capture_demo_recordings.py), and *)
(* the app that plays it back into the panels (src/frontend/app_demo.py).  *)
(*                                                                         *)
(* The capture reads the two event channels with a consumer each.  The     *)
(* playback yields one event after the other into the text box the browser *)
(* polls.  Time is counted in ticks: the recorded offsets, the pause       *)
(* between two yields, the period of the poll and the time a value is on   *)
(* its way to the browser.  Tool calls and rankings, which only add lines  *)
(* to a block, are left out of the runs.                                   *)
(***************************************************************************)
EXTENDS Panel

CONSTANTS
    MaxRuns,        \* bound: runs, numbered as they start
    Frames,         \* the frames that may come: [phase, pressure, valve]
    Gap,            \* bound: ticks of the one longer pause of a recording
    Pauses,         \* bound: the events it may come after, by their positions
    MaxFrames,      \* bound: frames the backend sends
    MaxEvents,      \* bound: other events it sends
    Capacity,       \* bound: events sent and not yet received
    MaxPlays,       \* bound: times the demo is started
    MinGap,         \* _MIN_GAP: ticks between two yields, at least
    PollPeriod,     \* ticks between two polls of the browser
    MaxDelay        \* ticks a value may take to the browser

Runs == 1..MaxRuns
NoRun == 0
NoReading == -1
NoValue == 0
Channels == {"telemetry", "agent_events"}
Phases == <<"pre", "during", "post">>   \* of the ground-truth window

\* The browser reads a value before the next one can have replaced it.
ASSUME RecordingAssumption ==
    /\ MaxRuns \in Nat /\ MaxRuns <= MaxShown
    /\ Gap \in Nat /\ Pauses \subseteq Nat
    /\ {MaxFrames, MaxEvents, Capacity} \subseteq Nat /\ MaxPlays \in Nat
    /\ MinGap \in Nat /\ PollPeriod \in Nat \ {0} /\ MaxDelay \in Nat
    /\ MaxDelay + PollPeriod < MinGap

VARIABLES
    sent,           \* channel |-> events the backend has sent
    alive,          \* run |-> new, running or over
    nominal,        \* has the scenario request not been served yet?
    phase,          \* index of the phase of the frames
    wire,           \* channel |-> events sent to the consumer, not received
    consumer,       \* channel |-> how far the consumer is
    step,           \* how far capture is
    events,         \* the recorded events, each with its offset t
    clean,          \* history: at the trigger both consumers read, no run ran
                    \* and nothing was on its way from one
    play,           \* what the demo says: ready, replaying or complete
    plays,          \* times it was started
    position,       \* events yielded, 0 when nothing is replayed
    now,            \* ticks since the replay began
    lastEmit,       \* when it yielded last
    transit,        \* values on the way to the browser: [seq, age]
    box,            \* sequence number in the text box, or NoValue
    lastVal,        \* the value the poll saw last
    pollIn,         \* ticks to the next poll
    runs            \* run blocks of the panel

backend  == <<sent, alive, nominal, phase>>
capture  == <<wire, consumer, step, events, clean>>
demo     == <<play, plays, position, now, lastEmit>>
browser  == <<transit, box, lastVal, pollIn, runs>>
vars     == <<backend, capture, demo, browser>>

Init ==
    /\ sent = [ch \in Channels |-> 0] /\ alive = [r \in Runs |-> "new"]
    /\ nominal = TRUE /\ phase = 1
    /\ wire = [ch \in Channels |-> <<>>]
    /\ consumer = [ch \in Channels |-> "connecting"]
    /\ step = "prepared" /\ events = <<>> /\ clean = FALSE
    /\ play = "ready" /\ plays = 0 /\ position = 0 /\ now = 0 /\ lastEmit = 0
    /\ transit = <<>> /\ box = NoValue /\ lastVal = NoValue /\ pollIn = 0
    /\ runs = <<>>

-----------------------------------------------------------------------------
(* The backend, after the reset.                                           *)

Item(ch, type, run, frame) ==
    [channel |-> ch, n |-> sent[ch] + 1, type |-> type, run |-> run, of |-> "none",
     frame |-> frame]

NoFrame == [phase |-> "none", pressure |-> NoReading, valve |-> NoReading]

\* Only a consumer that has joined is sent the event.
Send(item) ==
    /\ sent[item.channel] < IF item.channel = "telemetry" THEN MaxFrames ELSE MaxEvents
    /\ FoldFunction(LAMBDA w, n : Len(w) + n, 0, wire) < Capacity
    /\ sent' = [sent EXCEPT ![item.channel] = @ + 1]
    /\ wire' = IF consumer[item.channel] = "reading"
                 THEN [wire EXCEPT ![item.channel] = Append(@, item)] ELSE wire
    /\ UNCHANGED <<consumer, step, events, clean, demo, browser>>

\* The nominal pipeline sends frames without a leak, the scenario's frames go
\* through the phases.
SendFrame ==
    /\ step \notin {"stopped", "written"}
    /\ \E f \in Frames, p \in phase..Len(Phases) :
           /\ f.phase = Phases[p] /\ nominal => p = 1
           /\ phase' = p
           /\ Send(Item("telemetry", "frame", NoRun, f))
    /\ UNCHANGED <<alive, nominal>>

\* DAMP finds something, and runs are started for it.
SendAnomaly ==
    /\ step \notin {"stopped", "written"}
    /\ Send(Item("agent_events", "anomaly", NoRun, NoFrame))
    /\ UNCHANGED <<alive, nominal, phase>>

SendRunEvent(r) ==
    /\ step \notin {"stopped", "written"}
    /\ \E type \in {"agent_run_started", "agent_run_completed", "agent_run_failed"} :
           /\ IF type = "agent_run_started"
                THEN alive[r] = "new" /\ \A q \in 1..(r - 1) : alive[q] # "new"
                ELSE alive[r] = "running"
           /\ alive' = [alive EXCEPT ![r] = IF type = "agent_run_started"
                                              THEN "running" ELSE "over"]
           /\ Send(Item("agent_events", type, r, NoFrame))
    /\ UNCHANGED <<nominal, phase>>

-----------------------------------------------------------------------------
(* capture.                                                                *)

\* A consumer joins the subscribers, sooner or later.
Join(ch) ==
    /\ consumer[ch] = "connecting" /\ step # "written"
    /\ consumer' = [consumer EXCEPT ![ch] = "reading"]
    /\ UNCHANGED <<backend, wire, step, events, clean, demo, browser>>

\* The connection is closed, or could not be made: the consumer returns.
Close(ch) ==
    /\ consumer[ch] \in {"connecting", "reading"}
    /\ consumer' = [consumer EXCEPT ![ch] = "returned"]
    /\ wire' = [wire EXCEPT ![ch] = <<>>]
    /\ UNCHANGED <<backend, step, events, clean, demo, browser>>

\* Mutant: what arrives is put in front.
RecordFront(item) == events' = <<item>> \o events

\* In the order of the offsets, which sorting does not change.
Record(item) == events' = Append(events, item)

\* What comes before the trigger is dropped; after the end one more message may
\* be read.
Receive(ch) ==
    /\ consumer[ch] = "reading" /\ wire[ch] # <<>>
    /\ wire' = [wire EXCEPT ![ch] = Tail(@)]
    /\ IF step = "prepared" THEN UNCHANGED events
       ELSE Record([item |-> Head(wire[ch]), t |-> 0])
    /\ consumer' = IF step = "stopped" THEN [consumer EXCEPT ![ch] = "returned"]
                   ELSE consumer
    /\ UNCHANGED <<backend, step, clean, demo, browser>>

\* Half a second after the consumers were started, connected or not.
Trigger ==
    /\ step = "prepared" /\ step' = "triggered"
    /\ clean' = /\ \A ch \in Channels : consumer[ch] = "reading"
                /\ \A r \in Runs : alive[r] # "running"
                /\ wire["agent_events"] = <<>>
    /\ UNCHANGED <<backend, wire, consumer, events, demo, browser>>

\* The backend has replaced its pipeline and cancelled its runs, and answers
\* with the ground truth.
Started ==
    /\ step = "triggered" /\ step' = "capturing"
    /\ nominal' = FALSE
    /\ alive' = [r \in Runs |-> IF alive[r] = "running" THEN "over" ELSE alive[r]]
    /\ UNCHANGED <<sent, phase, wire, consumer, events, clean, demo, browser>>

Stop ==
    /\ step = "capturing" /\ step' = "stopped"
    /\ UNCHANGED <<backend, wire, consumer, events, clean, demo, browser>>

\* A consumer sees the stop when its receive times out, or before it receives.
Leave(ch) ==
    /\ step = "stopped" /\ consumer[ch] = "reading"
    /\ consumer' = [consumer EXCEPT ![ch] = "returned"]
    /\ UNCHANGED <<backend, wire, step, events, clean, demo, browser>>

\* The file is what is left of the capture.  The offsets the messages had when
\* they were read do not go back; they are chosen here, for the playback.
Write ==
    /\ step = "stopped" /\ \A ch \in Channels : consumer[ch] = "returned"
    /\ step' = "written"
    /\ \E last \in Pauses :
           events' = [i \in DOMAIN events |->
                         [events[i] EXCEPT !.item.n = 0, !.t = IF i <= last THEN 1 ELSE 1 + Gap]]
    /\ sent' = [ch \in Channels |-> 0] /\ alive' = [r \in Runs |-> "new"] /\ phase' = 1
    /\ wire' = [ch \in Channels |-> <<>>]
    /\ UNCHANGED <<nominal, consumer, clean, demo, browser>>

-----------------------------------------------------------------------------
(* analyze.                                                                *)

FrameItems == {e \in ToSet(events) : e.item.channel = "telemetry"}
AgentItems == {e \in ToSet(events) : e.item.channel = "agent_events"}

\* _sensor_series and _split_by_window.
Values(sensor, ph) ==
    {e.item.frame[sensor] : e \in {f \in FrameItems : f.item.frame.phase = ph}}
        \ {NoReading}

Series(sensor) == UNION {Values(sensor, ph) : ph \in ToSet(Phases)}

FrameIn(ph) == \E e \in FrameItems : e.item.frame.phase = ph

HasAgentEvent(type) == \E e \in AgentItems : e.item.type = type

\* Where both parts are there to be compared.
Comparable(sensor) == Values(sensor, "pre") # {} /\ Values(sensor, "during") # {}

\* The required checks that fail; without a run the rest is not looked at.
FailedChecks ==
    {c \in {"pre-onset", "window", "pressure", "valve", "damp", "started", "completed"} :
        CASE c = "pre-onset" -> ~FrameIn("pre")
          [] c = "window"    -> FrameItems # {} /\ ~FrameIn("during")
          [] c = "pressure"  ->
                 \/ Series("pressure") = {}
                 \/ /\ Comparable("pressure")
                    /\ Min(Values("pressure", "during")) >= Max(Values("pressure", "pre"))
          [] c = "valve"     ->
                 /\ Comparable("valve")
                 /\ Max(Values("valve", "during")) <= Max(Values("valve", "pre"))
          [] c = "damp"      -> ~HasAgentEvent("anomaly")
          [] c = "started"   -> ~HasAgentEvent("agent_run_started")
          [] c = "completed" -> /\ HasAgentEvent("agent_run_started")
                                /\ ~HasAgentEvent("agent_run_completed")}

Analyze == IF events = <<>> THEN 1 ELSE Cardinality(FailedChecks)

-----------------------------------------------------------------------------
(* The playback.                                                           *)

\* Start, and "Replay again": the visitor has seen what was yielded before.
Begin ==
    /\ step = "written" /\ play # "replaying" /\ plays < MaxPlays
    /\ transit = <<>> /\ box = lastVal
    /\ play' = "replaying" /\ plays' = plays + 1
    /\ UNCHANGED <<backend, capture, position, now, lastEmit, browser>>

\* Each replay is a generator with its own position and times.
GeneratorGone == position' = 0 /\ now' = 0 /\ lastEmit' = 0

\* Mutant: the original cadence only.
TargetUnspaced == events[position + 1].t - events[1].t

\* The original cadence from the first event on, and the minimum gap.
Target ==
    LET cadence == events[position + 1].t - events[1].t
    IN  IF position > 0 /\ lastEmit + MinGap > cadence THEN lastEmit + MinGap ELSE cadence

Due == play = "replaying" /\ position < Len(events) /\ now >= Target

Yield ==
    /\ Due
    /\ position' = position + 1 /\ lastEmit' = now
    /\ transit' = Append(transit, [seq |-> position + 1, age |-> 0])
    /\ UNCHANGED <<backend, capture, play, plays, now, box, lastVal, pollIn, runs>>

Finish ==
    /\ play = "replaying" /\ position = Len(events)
    /\ play' = "complete"
    /\ GeneratorGone
    /\ UNCHANGED <<backend, capture, plays, browser>>

\* Cancels the replay and empties the text box; the panels keep their blocks.
Reset ==
    /\ play # "ready" /\ play' = "ready"
    /\ GeneratorGone
    /\ transit' = Append(transit, [seq |-> NoValue, age |-> 0])
    /\ UNCHANGED <<backend, capture, plays, box, lastVal, pollIn, runs>>

\* A value reaches the text box.
Deliver ==
    /\ transit # <<>>
    /\ box' = Head(transit).seq /\ transit' = Tail(transit)
    /\ UNCHANGED <<backend, capture, demo, lastVal, pollIn, runs>>

\* The poll dispatches a value that differs from the one it saw last.
Poll ==
    /\ play = "replaying" \/ transit # <<>> \/ box # lastVal
    /\ pollIn = 0 /\ pollIn' = PollPeriod
    /\ lastVal' = box
    /\ runs' = IF box # lastVal /\ box # NoValue /\ events[box].item.channel = "agent_events"
                 THEN OnAgentEvent(runs, events[box].item) ELSE runs
    /\ UNCHANGED <<backend, capture, demo, transit, box>>

\* Nothing is late: what is due comes first.
Tick ==
    /\ play = "replaying" \/ transit # <<>> \/ box # lastVal
    /\ ~Due /\ pollIn > 0 /\ \A i \in DOMAIN transit : transit[i].age < MaxDelay
    /\ play = "replaying" => position < Len(events)
    /\ now' = IF play = "replaying" THEN now + 1 ELSE now
    /\ pollIn' = pollIn - 1
    /\ transit' = [i \in DOMAIN transit |-> [transit[i] EXCEPT !.age = @ + 1]]
    /\ UNCHANGED <<backend, capture, play, plays, position, lastEmit, box, lastVal, runs>>

-----------------------------------------------------------------------------
(* The specification.                                                      *)

\* The file is written and the demo has been played often enough.
Ended ==
    /\ step = "written" /\ plays = MaxPlays /\ play = "ready"
    /\ transit = <<>> /\ box = lastVal
    /\ UNCHANGED vars

Next ==
    \/ SendFrame \/ SendAnomaly \/ \E r \in Runs : SendRunEvent(r)
    \/ \E ch \in Channels : Join(ch) \/ Close(ch) \/ Receive(ch) \/ Leave(ch)
    \/ Trigger \/ Started \/ Stop \/ Write
    \/ Begin \/ Yield \/ Finish \/ Reset \/ Deliver \/ Poll \/ Tick
    \/ Ended

Spec == Init /\ [][Next]_vars

-----------------------------------------------------------------------------
(* Properties.                                                             *)

\* The recording is a part of what the backend sent: of each channel an unbroken
\* stretch, in the order of the channel, whichever consumer joined late, was
\* disconnected or was overtaken by the end.
RecordingFaithful ==
    step # "written" => \A ch \in Channels : \A i, j \in DOMAIN events :
        /\ i < j /\ events[i].item.channel = ch /\ events[j].item.channel = ch
        /\ \A k \in (i + 1)..(j - 1) : events[k].item.channel # ch
        => events[j].item.n = events[i].item.n + 1

\* What the panel shows of the recording alone, after each of its events.
Panels ==
    LET shown[i \in 0..Len(events)] ==
            IF i = 0 THEN <<>>
            ELSE IF events[i].item.channel = "agent_events"
              THEN OnAgentEvent(shown[i - 1], events[i].item)
            ELSE shown[i - 1]
    IN  shown

Expected == Panels[Len(events)]

\* A replay that is complete has shown what was recorded, no event skipped,
\* whatever earlier or cancelled replays have left in the panel.  And the
\* analysis vouches for the demo: if the capture began cleanly and no check
\* failed, the replay ends with a diagnosis card.  A recording of one event is
\* shown once: its value does not change when it is played again.
PlaybackShowsRecording ==
    play = "complete" /\ transit = <<>> /\ box = lastVal =>
        /\ Len(events) # 1 \/ plays = 1 => IsPrefix(Expected, runs)
        /\ clean /\ Analyze = 0 => \E i \in DOMAIN Expected : HasCard(Expected[i])
=============================================================================
