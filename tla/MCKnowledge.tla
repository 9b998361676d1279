---------------------------- MODULE MCKnowledge ----------------------------
(* Instances of Knowledge for TLC: the five entries of the knowledge base  *)
(* with their signatures (selene/knowledge/*.yaml), the inference rules    *)
(* and the weights.                                                        *)
EXTENDS Knowledge, TLC

Sig(sensor, pattern, direction) ==
    [sensor |-> sensor, pattern |-> pattern, direction |-> direction]

Co2(pattern, direction) == Sig({"cabin", "co2", "concentration"}, pattern, direction)
Humidity == Sig({"cabin", "relative", "humidity"}, "slow_drift", "either")
CabinTemperature == Sig({"cabin", "temperature"}, "slow_drift", "either")
Par == Sig({"par", "intensity"}, "slow_drift", "decreasing")
ParUniformity == Sig({"par", "intensity", "uniformity"}, "slow_drift", "decreasing")
Nutrient(what, pattern) == Sig({"nutrient"} \cup what, pattern, "either")
Loop(what, direction) == Sig({"thermal", "loop"} \cup what, "slow_drift", direction)

MCFiles ==
    <<[id |-> "eden_iss_co2_scrubber_drift", words |-> {"scrubber", "co2"},
       subsystems |-> {"atmosphere_management_system"},
       primary |-> <<Co2("slow_drift", "increasing")>>,
       secondary |-> <<Humidity, CabinTemperature>>],
      [id |-> "eden_iss_illumination_degradation", words |-> {"illumination"},
       subsystems |-> {"illumination_control_system", "atmosphere_management_system"},
       primary |-> <<Par>>,
       secondary |-> <<ParUniformity, Co2("slow_drift", "increasing")>>],
      [id |-> "eden_iss_pump_degradation", words |-> {"pump"},
       subsystems |-> {"nutrient_delivery_system"},
       primary |-> <<Nutrient({"loop", "pressure"}, "oscillation"),
                     Nutrient({"electrical", "conductivity"}, "oscillation")>>,
       secondary |-> <<Nutrient({"tank", "level"}, "slow_drift"),
                       Nutrient({"ph"}, "oscillation")>>],
      [id |-> "iss_cdra_bed_saturation", words |-> {"cdra"},
       subsystems |-> {"atmosphere_management_system"},
       primary |-> <<Co2("threshold_breach", "increasing")>>,
       secondary |-> <<Humidity>>],
      [id |-> "iss_p1_eatcs_leak_2011", words |-> {"eatcs", "tcs"},
       subsystems |-> {"thermal_control_system"},
       primary |-> <<Loop({"pressure"}, "decreasing"), Loop({"quantity"}, "decreasing")>>,
       secondary |-> <<Loop({"valve", "position"}, "increasing"),
                       Loop({"temperature"}, "increasing")>>]>>

\* The signatures of the entries and three that no entry has.
MCObservable ==
    UNION {ToSet(Signatures(MCFiles[i])) : i \in DOMAIN MCFiles}
    \cup {Sig({"nutrient", "loop", "pressure"}, "slow_drift", "decreasing"),
          Sig({"illumination", "output"}, "slow_drift", "decreasing"),
          Sig({"cabin", "relative", "humidity"}, "slow_drift", "decreasing")}

Rule(word, subsystem) == [word |-> word, subsystem |-> subsystem]

MCRules ==
    <<Rule("thermal", "thermal_control_system"),
      Rule("eatcs", "thermal_control_system"),
      Rule("tcs", "thermal_control_system"),
      Rule("scrubber", "atmosphere_management_system"),
      Rule("cdra", "atmosphere_management_system"),
      Rule("co2", "atmosphere_management_system"),
      Rule("atmosphere", "atmosphere_management_system"),
      Rule("ams", "atmosphere_management_system"),
      Rule("pump", "nutrient_delivery_system"),
      Rule("nutrient", "nutrient_delivery_system"),
      Rule("nds", "nutrient_delivery_system"),
      Rule("illumination", "illumination_control_system"),
      Rule("ics", "illumination_control_system"),
      Rule("led", "illumination_control_system"),
      Rule("par", "illumination_control_system")>>

MCWeight ==
    [thermal_control_system |-> 85, atmosphere_management_system |-> 80,
     nutrient_delivery_system |-> 45, illumination_control_system |-> 35]

\* What the theorem about the ranking asks of the entries.
ASSUME EntriesTellApart
=============================================================================
