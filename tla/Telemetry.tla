----------------------------- MODULE Telemetry -----------------------------
(***************************************************************************)
(* From the data set to the detectors: the frames of the replayer          *)
(* (selene/data/replayer.py) pass the injector, fill the rolling window of *)
(* run_pipeline (selene/pipeline.py) and reach the detectors.              *)
(*                                                                         *)
(* Each row of the data set holds any of the readings in Rows.  What the   *)
(* pipeline does with the events is the subject of Pipeline, which takes   *)
(* any list of events stamped with a frame of the window: EventsInWindow.  *)
(***************************************************************************)
EXTENDS Scenario, Detectors

CONSTANTS
    Sensors,        \* the sensors of the data set
    Modules,        \* the modules of the injector, in order
    Warmup,         \* how long before the onset the API starts the replayer
    WindowSize,     \* window_size
    Rows,           \* readings of a row: functions from sets of sensors
    DampSensors,    \* sensors DAMP evaluates
    MdiSensors,     \* sensors of the joint distribution of MDI
    LastRow         \* bound: the row the data set ends with

ASSUME RowsAssumption ==
    /\ \A r \in Rows : /\ DOMAIN r \subseteq Sensors
                       /\ r \in [DOMAIN r -> Int]
    /\ Warmup \in Nat /\ WindowSize \in Nat /\ LastRow \in Nat
    /\ DOMAIN SensorType \subseteq Sensors
    /\ DampSensors \subseteq Sensors /\ MdiSensors \subseteq Sensors

ASSUME ModulesAssumption ==
    /\ Modules \in Seq({Modules[i] : i \in DOMAIN Modules})
    /\ \A i \in DOMAIN Modules : ValidModule(Modules[i], Sensors)

VARIABLES
    row,            \* the next row of the data set
    rolling_frames, \* the rolling window
    held,           \* history: what the data set holds for each of its frames
    streak,         \* history: sensor |-> out-of-range frames up to the last
                    \* one, none left out, counted to Consecutive
    heard           \* history: sensor |-> which of the last rows, as many as
                    \* the window spans, had a reading of it

vars == <<row, rolling_frames, held, streak, heard>>

-----------------------------------------------------------------------------
(* The replayer, the injector and the rolling window.                      *)

\* The first row at or after the requested start.
ReplayerStart ==
    IF Modules = <<>> THEN 0
    ELSE LET onset == GroundTruth(Modules[1]).start
         IN  IF onset > Warmup THEN onset - Warmup ELSE 0

Init ==
    /\ row = ReplayerStart
    /\ rolling_frames = <<>> /\ held = <<>>
    /\ streak = [s \in DOMAIN Ranges |-> 0]
    /\ heard = [s \in Sensors |-> {}]

\* Mutant: the frame exactly as old as the window has left it.
OldestOpen(w, ts) ==
    Min({i \in DOMAIN w : w[i].ts > ts - WindowSize} \cup {Len(w)})

\* Mutant: nothing is pruned.
OldestEver(w, ts) == 1

\* The frames are in the order of time, so those young enough are the last.
Oldest(w, ts) ==
    Min({i \in DOMAIN w : w[i].ts >= ts - WindowSize} \cup {Len(w)})

\* A row without any reading makes no frame.
SkipRow ==
    /\ row <= LastRow
    /\ \E r \in Rows : DOMAIN r = {}
    /\ row' = row + 1
    /\ UNCHANGED <<rolling_frames, held, streak, heard>>

Deliver(r) ==
    LET frame == Inject(Modules, Frame(row, r))
        w     == Append(rolling_frames, frame)
        old   == Oldest(w, row)
    IN  /\ row <= LastRow
        /\ DOMAIN r # {}
        /\ row' = row + 1
        /\ rolling_frames' = SubSeq(w, old, Len(w))
        /\ held' = SubSeq(Append(held, Frame(row, r)), old, Len(w))
        /\ streak' = [s \in DOMAIN Ranges |->
                         IF OutOfRange(frame, s) THEN AtMost(Consecutive, streak[s] + 1)
                         ELSE 0]
        /\ heard' = [s \in Sensors |->
                        {t \in heard[s] : row - t <= WindowSize}
                            \cup (IF s \in DOMAIN r THEN {row} ELSE {})]

Ended == row > LastRow /\ UNCHANGED vars

Next == SkipRow \/ (\E r \in Rows : Deliver(r)) \/ Ended

Spec == Init /\ [][Next]_vars

-----------------------------------------------------------------------------
(* Properties.                                                             *)

\* A frame as the replayer makes it.
IsFrame(f) ==
    /\ f.ts \in Nat
    /\ DOMAIN f.readings \subseteq Sensors /\ DOMAIN f.readings # {}

\* The rolling window is in the order of time, spans the window size at most
\* and ends with the last frame delivered.
TypeOK ==
    /\ row \in Nat
    /\ streak \in [DOMAIN Ranges -> 0..Consecutive]
    /\ heard \in [Sensors -> SUBSET (0..row)]
    /\ Len(held) = Len(rolling_frames)
    /\ \A i \in DOMAIN rolling_frames :
           /\ IsFrame(rolling_frames[i])
           /\ rolling_frames[i].ts < row
           /\ rolling_frames[i].ts >= rolling_frames[Len(rolling_frames)].ts
                                          - WindowSize
    /\ \A i, j \in DOMAIN rolling_frames :
           i < j => rolling_frames[i].ts < rolling_frames[j].ts

\* A frame differs from the data set inside the ground truth only: at sensors
\* a module names as affected, while it applies; no reading is lost or added.
WithinGroundTruth ==
    \A i \in DOMAIN rolling_frames :
        LET seen == rolling_frames[i].readings
            raw  == held[i].readings
        IN  /\ DOMAIN seen = DOMAIN raw
            /\ \A s \in DOMAIN seen :
                   seen[s] # raw[s] =>
                       \E k \in DOMAIN Modules :
                           LET gt == GroundTruth(Modules[k])
                           IN  /\ s \in gt.affected
                               /\ held[i].ts \in gt.start..gt.end

\* A sensor that one module alone affects.
Alone(s, k) == \A j \in DOMAIN Modules \ {k} : s \notin GroundTruth(Modules[j]).affected

\* What a leak does to its loop only grows: of two frames of the leak that
\* hold the same reading the later one shows no higher pressure and no smaller
\* opening of the valve, dropped readings and rows notwithstanding.  This is
\* so of sensors nothing else is done to, pressures that are not negative and
\* valves that are told to open, not to close, and are not beyond open.
LeakGrows ==
    \A k \in DOMAIN Modules : \A i, j \in DOMAIN rolling_frames :
        LET m == Modules[k]
            Same(s) == /\ s \in DOMAIN held[i].readings \cap DOMAIN held[j].readings
                       /\ held[i].readings[s] = held[j].readings[s]
            Raw(s) == held[i].readings[s]
            Seen(f, s) == rolling_frames[f].readings[s]
        IN  /\ m.type = "thermal_loop_coolant_leak" /\ i < j
            /\ AppliesAt(m, held[i].ts) /\ AppliesAt(m, held[j].ts)
            => /\ /\ Same(m.pressure) /\ Raw(m.pressure) >= 0 /\ Alone(m.pressure, k)
                  /\ m.pressure \notin m.temperatures \cup {m.valve}
                  => Seen(j, m.pressure) <= Seen(i, m.pressure)
               /\ /\ Same(m.valve) /\ Raw(m.valve) <= 100 /\ Alone(m.valve, k)
                  /\ m.valve \notin m.temperatures \cup {m.pressure}
                  /\ \A n \in DOMAIN m.increments : m.increments[n] >= 0
                  => Seen(j, m.valve) >= Seen(i, m.valve)

\* What is injected is what the ground truth says, and a leak is a leak.
GroundTruthSound == WithinGroundTruth /\ LeakGrows

\* The threshold detector reports a sensor exactly when the last frames the
\* replayer delivered, that many in a row and none pruned yet, all had it out
\* of range and one of them far out; the event has the time of the last one.
\* A dropped reading starts the count anew.
SustainedExcursion ==
    LET w == rolling_frames
        last == (Len(w) - Consecutive + 1)..Len(w)
    IN  w # <<>> =>
            ThresholdEvents(w) =
                {[sensor |-> s, ts |-> w[Len(w)].ts] :
                    s \in {s \in DOMAIN Ranges :
                              /\ streak[s] = Consecutive /\ last \subseteq DOMAIN w
                              /\ \E i \in last : Excess(s, w[i].readings[s])
                                                    >= MinScore * Width(s)}}

\* DAMP has its samples at the earliest two window lengths after the replayer
\* began, which is after the onset unless the warm-up is as long: most of what
\* it compares is anomaly.  From then on it goes on exactly as long as no more
\* rows in the span of the window lack the sensor than the window holds, both
\* its ends counted, above its minimum.
DampTiming ==
    LET w == rolling_frames
        now == w[Len(w)].ts
    IN  w # <<>> => \A s \in DampSensors :
            /\ DampReady(w, s) => now >= ReplayerStart + 2 * WindowLength - 1
            /\ now >= ReplayerStart + WindowSize =>
                  LET missing == (now - WindowSize)..now \ heard[s]
                  IN  DampReady(w, s) <=>
                          Cardinality(missing) <= WindowSize + 1 - 2 * WindowLength

\* Every event is stamped with a frame of the window.
StampsInWindow(w) ==
    LET times == {w[i].ts : i \in DOMAIN w}
    IN  /\ \A e \in ThresholdEvents(w) : e.ts \in times
        /\ \A s \in DampSensors : \A e \in DampEvents(w, s) : e.ts \in times

\* DAMP's is at or before the frame its discord starts in, and not further
\* before it than readings are missing.
DampNearDiscord(w) ==
    \A s \in DampSensors : DampReady(w, s) =>
        \A d \in Discords(w, s) :
            LET actual == Present(w, s)[d + 1]
            IN  /\ DampStamp(w, d) <= w[actual + 1].ts
                /\ actual - d <= Len(w) - Len(Present(w, s))

\* MDI's are the stretches of starts above the threshold, each one told once,
\* in order, and located where its rows are: an event has as many rows before
\* its start as the stretch, and bounds and peak are frames that have every
\* sensor of it.
MdiTellsStretches(w) ==
    LET whole == {i \in 0..(Len(w) - 1) : MdiSensors \subseteq DOMAIN w[i + 1].readings}
        rows  == Cardinality(whole)
        RowOf(t) == Cardinality({i \in whole : w[i + 1].ts < t})
        Whole(t) == \E i \in whole : w[i + 1].ts = t
    IN  rows >= Baseline + Detect =>
            \A score \in [Starts(rows) -> 0..2] :
                LET es    == MdiEvents(w, MdiSensors, score, 0)
                    above == {i \in DOMAIN score : score[i] > 0}
                    Tells(e, i) == /\ RowOf(e.start) = i
                                   /\ i..(i + e.above - 1) \subseteq above
                                   /\ i + e.above \notin above
                IN  /\ \A i \in above : i - 1 \notin above =>
                           \E k \in DOMAIN es : Tells(es[k], i)
                    /\ \A k \in DOMAIN es :
                           /\ \E i \in above : i - 1 \notin above /\ Tells(es[k], i)
                           /\ es[k].start <= es[k].ts /\ es[k].ts <= es[k].end
                           /\ Whole(es[k].start) /\ Whole(es[k].ts) /\ Whole(es[k].end)
                    /\ \A k, l \in DOMAIN es : k < l => es[k].start < es[l].start

\* What the detectors say of a window is located in it.
EventsInWindow ==
    rolling_frames # <<>> =>
        /\ StampsInWindow(rolling_frames)
        /\ DampNearDiscord(rolling_frames)
        /\ MdiTellsStretches(rolling_frames)
=============================================================================
