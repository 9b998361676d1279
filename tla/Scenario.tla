------------------------------ MODULE Scenario ------------------------------
(***************************************************************************)
(* The scenario modules (selene/scenarios/modules) and the injector that   *)
(* applies them to frames (selene/data/injector.py), as operators.         *)
(*                                                                         *)
(* Time counts the five-minute rows of the data set.  A frame has a time   *)
(* and the readings of the sensors that delivered one; a reading is its    *)
(* value.  Losses and valve openings are whole percents.  The curve of the *)
(* pressure loss is a parameter: what matters is that it starts at nothing *)
(* and never falls.                                                        *)
(***************************************************************************)
EXTENDS Integers, Sequences, FiniteSets

\* A frame of the replayer or of the injector.
Frame(ts, readings) == [ts |-> ts, readings |-> readings]

-----------------------------------------------------------------------------
(* Configurations.                                                         *)

ValidStepChange(m, Sensors) ==
    /\ m.type = "step_change"
    /\ m.affected \subseteq Sensors
    /\ m.start \in Nat /\ m.end \in Nat /\ m.offset \in Int

\* The model's field constraints and its validator.  The loss curve, in per
\* cent, is rate * hours * acceleration ^ (hours / total): it starts at nothing
\* and never falls, and nothing keeps it below 100; the thresholds rise, and
\* nothing keeps them above zero.
ValidLeak(m, Sensors) ==
    /\ m.type = "thermal_loop_coolant_leak"
    /\ {m.pressure, m.valve} \cup m.temperatures \subseteq Sensors
    /\ m.temperatures # {}
    /\ m.start \in Nat /\ m.duration \in Nat \ {0}
    /\ m.end = m.start + m.duration
    /\ m.affected = {m.pressure, m.valve} \cup m.temperatures
    /\ m.curve \in [0..m.duration -> Nat]
    /\ m.curve[0] = 0
    /\ \A h \in 1..m.duration : m.curve[h - 1] <= m.curve[h]
    /\ m.lag \in Nat /\ m.coupling \in Nat
    /\ m.thresholds \in Seq(Int) /\ m.increments \in Seq(Int)
    /\ Len(m.thresholds) = Len(m.increments)
    /\ \A i, j \in DOMAIN m.thresholds :
           i < j => m.thresholds[i] < m.thresholds[j]

ValidModule(m, Sensors) == ValidStepChange(m, Sensors) \/ ValidLeak(m, Sensors)

GroundTruth(m) == [start |-> m.start, end |-> m.end, affected |-> m.affected]

-----------------------------------------------------------------------------
(* Transforms.                                                             *)

\* Mutant: the end of the window is not checked.
AppliesFrom(m, t) == m.start <= t

AppliesAt(m, t) == m.start <= t /\ t <= m.end

Stepped(m, readings) ==
    [s \in DOMAIN readings |->
        IF s \in m.affected THEN readings[s] + m.offset ELSE readings[s]]

PressureLoss(m, elapsed) ==
    IF elapsed <= 0 THEN 0
    ELSE m.curve[IF elapsed >= m.duration THEN m.duration ELSE elapsed]

\* Mutant: only the last step taken counts, and it counts as written.
ValveLastStep(m, loss) ==
    LET met == {i \in DOMAIN m.thresholds : loss >= m.thresholds[i]}
    IN  IF met = {} THEN 0 ELSE m.increments[Cardinality(met)]

\* The steps up to the first threshold that is not met.
ValveIncrement(m, loss) ==
    LET Met(i) == \A j \in 1..i : loss >= m.thresholds[j]
        sum[i \in 0..Len(m.thresholds)] ==
            IF i = 0 THEN 0 ELSE sum[i - 1] + (IF Met(i) THEN m.increments[i] ELSE 0)
    IN  sum[Len(m.thresholds)]

AtMost(bound, x) == IF x > bound THEN bound ELSE x

\* A sensor may have several roles: the changes add up in this order.  A valve
\* that is not told to open further is not clamped either.
Leaking(m, elapsed, readings) ==
    LET loss  == PressureLoss(m, elapsed)
        steps == ValveIncrement(m, loss)
        Decayed(s, v) == IF s = m.pressure THEN (v * (100 - loss)) \div 100 ELSE v
        Heated(s, v)  == IF s \in m.temperatures /\ elapsed >= m.lag
                           THEN v + m.coupling * loss ELSE v
        Opened(s, v)  == IF s = m.valve /\ steps > 0 THEN AtMost(100, v + steps) ELSE v
    IN  [s \in DOMAIN readings |-> Opened(s, Heated(s, Decayed(s, readings[s])))]

Transform(m, frame) ==
    IF ~AppliesAt(m, frame.ts) THEN frame
    ELSE IF m.type = "step_change"
           THEN Frame(frame.ts, Stepped(m, frame.readings))
           ELSE Frame(frame.ts, Leaking(m, frame.ts - m.start, frame.readings))

\* The modules are applied in the order of their registration.
Inject(modules, frame) ==
    LET f[i \in 0..Len(modules)] ==
            IF i = 0 THEN frame ELSE Transform(modules[i], f[i - 1])
    IN  f[Len(modules)]
=============================================================================
