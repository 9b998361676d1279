-------------------------------- MODULE Store --------------------------------
(***************************************************************************)
(* TelemetryStore (selene/agent/store.py) and the tools that read it       *)
(* (selene/agent/tools.py).  The pipeline ingests frames in chronological  *)
(* order while investigations read; neither awaits anything inside an      *)
(* operation, so each is one step.                                         *)
(*                                                                         *)
(* A reading is identified by its sensor and its timestamp; its value and  *)
(* its unit are left out.                                                  *)
(***************************************************************************)
EXTENDS Integers, Sequences, FiniteSets, FiniteSetsExt, SequencesExt

CONSTANTS
    Sensors,    \* sensor ids
    Retention,  \* retention
    MaxGap,     \* bound: the largest distance of two frames
    MaxTime,    \* bound: the timestamp of the last frame
    MaxAsked    \* bound: the length of a request

ASSUME StoreAssumption ==
    /\ IsFiniteSet(Sensors)
    /\ Retention \in Nat /\ MaxGap \in Nat /\ MaxTime \in Nat /\ MaxAsked \in Nat

VARIABLES
    readings,   \* _readings: sensor |-> the timestamps in its deque
    now,        \* timestamp of the last frame ingested
    fed         \* history: sensor |-> the timestamps of all its readings

vars == <<readings, now, fed>>

Init ==
    /\ readings = [s \in Sensors |-> <<>>]
    /\ fed = [s \in Sensors |-> <<>>]
    /\ now = 0

-----------------------------------------------------------------------------
(* Writing.                                                                *)

\* Mutant: a reading of exactly the retention's age goes too.
EvictAtCutoff(buf, cutoff) ==
    LET kept == {i \in DOMAIN buf : buf[i] > cutoff}
    IN  SubSeq(buf, Min(kept \cup {Len(buf) + 1}), Len(buf))

\* Readings leave the deque from the left until one is young enough.
Evict(buf, cutoff) ==
    LET kept == {i \in DOMAIN buf : buf[i] >= cutoff}
    IN  SubSeq(buf, Min(kept \cup {Len(buf) + 1}), Len(buf))

\* ingest: a sensor whose value is missing from the frame is not touched.
Ingest(frame, ts) ==
    readings' = [s \in Sensors |->
                    IF s \in frame
                      THEN Evict(Append(readings[s], ts), ts - Retention)
                      ELSE readings[s]]

\* The replayer drops the missing values of a row and skips an empty row.
Frame ==
    \E gap \in 1..MaxGap, frame \in SUBSET Sensors :
        /\ frame # {}
        /\ now + gap <= MaxTime
        /\ now' = now + gap
        /\ Ingest(frame, now + gap)
        /\ fed' = [s \in Sensors |->
                      IF s \in frame THEN Append(fed[s], now + gap) ELSE fed[s]]

-----------------------------------------------------------------------------
(* Reading.                                                                *)

\* The timestamps are those of distinct readings, in their order.
History(s, start, end) ==
    {t \in {readings[s][i] : i \in DOMAIN readings[s]} : start <= t /\ t <= end}

Known(S) == {s \in S : readings[s] # <<>>}

Latest(s) == readings[s][Len(readings[s])]

\* The timestamp a snapshot of S, or a correlation over S, is anchored at.
Anchor(S) == Max({Latest(s) : s \in Known(S)})

\* What correlate_signals may be asked for: a list of sensor ids, in which an id
\* may be repeated and which may name sensors that have no reading.
Requests == UNION {[1..n -> Sensors] : n \in 0..MaxAsked}

\* Mutant: the window ends at the latest reading of the two.
AlignedPair(ids, i, j, window) ==
    LET end == Anchor({ids[i], ids[j]})
    IN  History(ids[i], end - window, end) \cap History(ids[j], end - window, end)

\* The timestamps at which the i-th and the j-th sensor both have a sample in the
\* window, which is one for all pairs: it ends at the most recent reading of any
\* sensor of the list.
Aligned(ids, i, j, window) ==
    LET end == Anchor(ToSet(ids))
    IN  History(ids[i], end - window, end) \cap History(ids[j], end - window, end)

\* correlate_signals: the samples each reported pair is correlated over, by the
\* positions of its sensors.  A pair with less than two is skipped.
Correlations(ids, window) ==
    LET pairs == {p \in (DOMAIN ids) \X (DOMAIN ids) : p[1] < p[2]}
        reported == {p \in pairs : Cardinality(Aligned(ids, p[1], p[2], window)) >= 2}
    IN  IF Len(ids) < 2 \/ Known(ToSet(ids)) = {} THEN <<>>
        ELSE [p \in reported |-> Aligned(ids, p[1], p[2], window)]

-----------------------------------------------------------------------------
\* The source is exhausted.
Ended == now = MaxTime /\ UNCHANGED vars

Next == Frame \/ Ended

Spec == Init /\ [][Next]_vars

-----------------------------------------------------------------------------
(* Properties.                                                             *)

Samples(s) == {fed[s][i] : i \in DOMAIN fed[s]}

\* Reference: a deque holds, in chronological order, exactly what the source
\* delivered for its sensor within the retention of the sensor's own latest
\* reading, whatever the pattern of missing values was.
HeldExactly ==
    \A s \in Sensors :
        LET n == Len(fed[s])
        IN  \E k \in 0..n :
                /\ readings[s] = SubSeq(fed[s], k + 1, n)
                /\ \A i \in 1..n : i > k <=> fed[s][i] >= fed[s][n] - Retention

\* Reference: the common samples of two sensors of a request in the window that
\* ends with the youngest sample of all of them.
Common(ids, i, j, window) ==
    LET newest == Max(UNION {Samples(ids[k]) : k \in DOMAIN ids})
    IN  {t \in Samples(ids[i]) \cap Samples(ids[j]) : t >= newest - window}

\* A report has exactly the pairs with two common samples in the window, each
\* correlated over all of them, though a third sensor moves the window on and the
\* deques are evicted at different times, if the store retains as long as the
\* window.
CorrelationComplete ==
    \A ids \in Requests, window \in 0..Retention :
        LET due == {p \in (DOMAIN ids) \X (DOMAIN ids) :
                       p[1] < p[2] /\ Cardinality(Common(ids, p[1], p[2], window)) >= 2}
            report == Correlations(ids, window)
        IN  /\ DOMAIN report = due
            /\ \A p \in due : report[p] = Common(ids, p[1], p[2], window)
=============================================================================
