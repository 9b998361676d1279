----------------------------- MODULE Detectors -----------------------------
(***************************************************************************)
(* The detectors (selene/detection), as operators on a rolling window: a   *)
(* sequence of frames in the order of time.                                *)
(*                                                                         *)
(* What the matrix profile and the Gaussian fits compute is not modelled:  *)
(* an operator is given, or ranges over, every outcome they may have.  The *)
(* arithmetic of positions around them is what is modelled, with the       *)
(* positions of the code, which count from zero.                           *)
(***************************************************************************)
EXTENDS Integers, Sequences, FiniteSets, FiniteSetsExt

CONSTANTS
    SensorType,         \* metadata: sensor |-> its type
    TypeDefaults,       \* sensor_ranges.yaml: type |-> <<low, high>>
    SensorOverrides,    \* sensor_ranges.yaml: sensor |-> <<low, high>>
    MinScore,           \* min_score, in range widths
    Consecutive,        \* consecutive_frames
    WindowLength,       \* window_length, of DAMP
    Baseline,           \* baseline_window_size, of MDI
    Detect              \* detection_window_size, of MDI

ASSUME DetectorsAssumption ==
    /\ MinScore \in Nat
    /\ Consecutive \in Nat \ {0} /\ WindowLength \in Nat \ {0}
    /\ Baseline \in Nat \ {0, 1} /\ Detect \in Nat \ {0, 1}

HasReading(f, s) == s \in DOMAIN f.readings

\* The positions of the frames that have all of the sensors.
WholeFrames(w, S) == {i \in 0..(Len(w) - 1) : \A s \in S : HasReading(w[i + 1], s)}

\* Those of the first n positions that are kept, in their order.
Listed(kept, n) ==
    LET list[i \in 0..n] == IF i = 0 THEN <<>>
                            ELSE IF i - 1 \in kept THEN Append(list[i - 1], i - 1)
                            ELSE list[i - 1]
    IN  list[n]

-----------------------------------------------------------------------------
(* Operational ranges.                                                     *)

\* An override counts before the default of the type; a sensor with neither
\* is not watched.
Ranges ==
    [s \in {s \in DOMAIN SensorType :
               \/ s \in DOMAIN SensorOverrides
               \/ SensorType[s] \in DOMAIN TypeDefaults}
        |-> IF s \in DOMAIN SensorOverrides THEN SensorOverrides[s]
            ELSE TypeDefaults[SensorType[s]]]

\* How far outside of the range of the sensor a value is.
Excess(s, v) ==
    LET lo == Ranges[s][1] hi == Ranges[s][2]
    IN  IF v < lo THEN lo - v ELSE IF v > hi THEN v - hi ELSE 0

Width(s) ==
    IF Ranges[s][1] = Ranges[s][2] THEN 1 ELSE Ranges[s][2] - Ranges[s][1]

OutOfRange(f, s) == HasReading(f, s) /\ Excess(s, f.readings[s]) > 0

\* Mutant: frames that lack the sensor are passed over.
TailWithGaps(w, s) ==
    \A i \in (Len(w) - Consecutive + 1)..Len(w) :
        HasReading(w[i], s) => OutOfRange(w[i], s)

\* The last frames all show the sensor out of its range.
TailOutOfRange(w, s) ==
    \A i \in (Len(w) - Consecutive + 1)..Len(w) : OutOfRange(w[i], s)

\* One event at most per sensor, stamped with the latest frame.
ThresholdEvents(w) ==
    IF Len(w) < Consecutive THEN {}
    ELSE {[sensor |-> s, ts |-> w[Len(w)].ts] :
             s \in {s \in DOMAIN Ranges :
                       /\ TailOutOfRange(w, s)
                       /\ \E i \in (Len(w) - Consecutive + 1)..Len(w) :
                              /\ OutOfRange(w[i], s)
                              /\ Excess(s, w[i].readings[s])
                                     >= MinScore * Width(s)}}

-----------------------------------------------------------------------------
(* DAMP.                                                                   *)

\* The positions of the frames that have the sensor: values without gaps.
Present(w, s) == Listed(WholeFrames(w, {s}), Len(w))

\* Enough samples for a matrix profile.
DampReady(w, s) ==
    Cardinality({i \in DOMAIN w : HasReading(w[i], s)}) >= 2 * WindowLength

\* Where the discord may be: any subsequence of the values.
Discords(w, s) == 0..(Len(Present(w, s)) - WindowLength)

\* The discord counts values, the stamp counts frames.
DampStamp(w, discord) ==
    LET frame == IF discord > Len(w) - 1 THEN Len(w) - 1 ELSE discord
    IN  w[frame + 1].ts

\* The events that may come of a sensor, one for each place of its discord.
DampEvents(w, s) ==
    IF DampReady(w, s)
      THEN {[sensor |-> s, ts |-> DampStamp(w, d)] : d \in Discords(w, s)}
      ELSE {}

-----------------------------------------------------------------------------
(* MDI.                                                                    *)

\* Mutant: the positions in the matrix are taken for positions in the window.
FrameIndicesDense(w, S) ==
    [i \in 1..Cardinality(WholeFrames(w, S)) |-> i - 1]

\* The rows of the matrix are the frames that have every sensor.
FrameIndices(w, S) == Listed(WholeFrames(w, S), Len(w))

\* Where a detection window may start.
Starts(rows) == Baseline..(rows - Detect)

\* The event of a run of starts; score gives the divergence of each.
MakeEvent(w, indices, run, score) ==
    LET peak  == CHOOSE i \in DOMAIN run :
                     /\ \A j \in DOMAIN run : score[run[j]] <= score[run[i]]
                     /\ \A j \in 1..(i - 1) : score[run[j]] < score[run[i]]
        last  == Min({run[Len(run)] + Detect - 1, Len(indices) - 1})
        at(i) == w[indices[i + 1] + 1].ts
    IN  [ts |-> at(run[peak]), start |-> at(run[1]), end |-> at(last),
         above |-> Len(run)]

\* The runs of starts that score above the threshold: those that are done and
\* the one that goes on, after the first n starts.
Runs(rows, score, threshold) ==
    LET scan[n \in 0..Cardinality(Starts(rows))] ==
            IF n = 0 THEN [done |-> <<>>, run |-> <<>>]
            ELSE LET i    == Baseline + n - 1
                     prev == scan[n - 1]
                 IN  IF score[i] > threshold THEN [prev EXCEPT !.run = Append(@, i)]
                     ELSE IF prev.run # <<>>
                       THEN [done |-> Append(prev.done, prev.run), run |-> <<>>]
                     ELSE prev
        last == scan[Cardinality(Starts(rows))]
    IN  IF last.run # <<>> THEN Append(last.done, last.run) ELSE last.done

\* One event for each run.
MdiEvents(w, S, score, threshold) ==
    LET indices == FrameIndices(w, S)
        runs    == Runs(Len(indices), score, threshold)
    IN  [k \in DOMAIN runs |-> MakeEvent(w, indices, runs[k], score)]
=============================================================================
