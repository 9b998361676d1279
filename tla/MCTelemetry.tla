---------------------------- MODULE MCTelemetry ----------------------------
(* Instances of Telemetry for TLC: one cooling loop with a leak that ends in *)
(* a loss beyond all there is and whose valve is told to open at once, and a *)
(* step change at one of its sensors that begins before the leak's last row. *)
EXTENDS Telemetry, TLC

CONSTANTS pressure, temperature, valve

MCSensors == {pressure, temperature, valve}

Leak ==
    [type |-> "thermal_loop_coolant_leak", start |-> 2, duration |-> 5, end |-> 7,
     affected |-> MCSensors, pressure |-> pressure,
     temperatures |-> {temperature}, valve |-> valve,
     curve |-> [h \in 0..5 |-> <<0, 4, 10, 25, 30, 140>>[h + 1]],
     lag |-> 2, coupling |-> 1,
     thresholds |-> <<-1, 5, 20, 35>>, increments |-> <<5, 30, 10, 40>>]

Step ==
    [type |-> "step_change", start |-> 3, end |-> 8,
     affected |-> {temperature}, offset |-> 15]

MCModules == <<Leak, Step>>

MCSensorType == pressure :> "P" @@ temperature :> "T" @@ valve :> "VALVE"
MCTypeDefaults == "P" :> <<0, 50>> @@ "T" :> <<10, 30>>
MCSensorOverrides == pressure :> <<88, 110>>

\* All sensors, noise at one of them, gaps at one or at all of them.
Readings(p, t, v) == pressure :> p @@ temperature :> t @@ valve :> v
MCRows ==
    {Readings(100, 20, 50), Readings(100, 60, 50),
     temperature :> 20 @@ valve :> 50,
     pressure :> 100,
     << >>}

MCDampSensors == {pressure, temperature}
=============================================================================
