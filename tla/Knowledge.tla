------------------------------ MODULE Knowledge ------------------------------
(***************************************************************************)
(* The knowledge base and the tools that work from it: the loader          *)
(* (selene/knowledge/loader.py), the matcher (selene/knowledge/matcher.py) *)
(* and the synthesis tools (selene/agent/tools.py).                        *)
(*                                                                         *)
(* One investigation characterises symptoms one after the other and looks  *)
(* them up; its diagnosis cites any entries of the knowledge base.  What a *)
(* diagnosis is worth in a context is computed by functions that no code   *)
(* of src/ but the tests calls: they are operators here, not steps.        *)
(* Names are sets of tokens (sensor patterns) or the set of the inference  *)
(* rules' substrings they contain (entry ids).  Scores are exact fractions *)
(* where the code has floats; time scales and correlations of a signature  *)
(* are left out, the matcher does not read them.                           *)
(***************************************************************************)
EXTENDS Integers, Sequences, FiniteSets, SequencesExt

CONSTANTS
    Files,          \* entries of the directory, by name of their file:
                    \* [id, words, subsystems, primary, secondary]
    Observable,     \* signatures an investigation may report
    Rules,          \* inference rules, in order: [word, subsystem]
    Scale,          \* a multiple of each count of a pattern: makes the weights whole
    Weight,         \* subsystem |-> severity weight in hundredths
    DefaultWeight,
    Confidences,    \* confidences of a diagnosis, in hundredths
    Hypotheses,     \* primary hypotheses, as the words they contain
    Subsystems,     \* subsystems a context may name
    Crews,          \* crew counts a context may name
    MaxBroken,      \* bound: files that do not validate
    MaxSymptoms,    \* bound: symptoms of a lookup
    MaxCited        \* bound: entries a diagnosis cites

Unspecified == "unspecified"
NoCrew == -1

ASSUME KnowledgeAssumption ==
    /\ Confidences \subseteq 0..100 /\ Crews \subseteq Nat
    /\ DefaultWeight \in 0..99
    /\ \A s \in DOMAIN Weight : Weight[s] \in 0..99
    /\ Unspecified \notin Subsystems
    /\ Scale \in Nat \ {0}
    /\ MaxBroken \in Nat /\ MaxSymptoms \in Nat /\ MaxCited \in Nat

\* A pattern has a token at least, if only an empty one.
ASSUME FilesAssumption ==
    /\ Files \in Seq({Files[i] : i \in DOMAIN Files})
    /\ \A i \in DOMAIN Files : \A sigs \in {Files[i].primary, Files[i].secondary} :
           /\ sigs \in Seq({sigs[n] : n \in DOMAIN sigs})
           /\ \A n \in DOMAIN sigs : sigs[n].sensor # {}

\* The id of an entry tells the rules one of its subsystems.
ASSUME RulesAssumption ==
    /\ Rules \in Seq({Rules[r] : r \in DOMAIN Rules})
    /\ \A i \in DOMAIN Files :
           LET hits == {r \in DOMAIN Rules : Rules[r].word \in Files[i].words}
           IN  \E r \in hits : /\ \A q \in hits : r <= q
                               /\ Rules[r].subsystem \in Files[i].subsystems

VARIABLES
    kb,             \* the entries, in the order of the dictionary
    symptoms,       \* the symptoms of the last lookup
    ranked,         \* its result: [entry, score], best first
    diagnosis       \* the diagnosis, or NoDiagnosis

vars == <<kb, symptoms, ranked, diagnosis>>

-----------------------------------------------------------------------------
(* The loader.                                                             *)

\* An entry replaces the one with its id, in place.
Loaded(entries, file) ==
    IF \E i \in DOMAIN entries : entries[i].id = file.id
      THEN [i \in DOMAIN entries |-> IF entries[i].id = file.id THEN file ELSE entries[i]]
      ELSE Append(entries, file)

\* Files that do not validate are skipped.
LoadKb(broken) ==
    LET load[n \in 0..Len(Files)] ==
            IF n = 0 THEN <<>>
            ELSE IF n \in broken THEN load[n - 1] ELSE Loaded(load[n - 1], Files[n])
    IN  load[Len(Files)]

-----------------------------------------------------------------------------
(* The matcher.                                                            *)

Signatures(entry) == entry.primary \o entry.secondary

\* The sum of a sequence.
Total(f) ==
    LET sum[i \in 0..Len(f)] == IF i = 0 THEN 0 ELSE sum[i - 1] + f[i]
    IN  sum[Len(f)]

\* pattern_counts: how often a sensor pattern and pattern type occur in the
\* knowledge base.
PatternCount(entries, sig) ==
    LET Same(e) == {i \in DOMAIN Signatures(e) :
                       /\ Signatures(e)[i].sensor = sig.sensor
                       /\ Signatures(e)[i].pattern = sig.pattern}
    IN  Total([n \in DOMAIN entries |-> Cardinality(Same(entries[n]))])

ASSUME ScaleAssumption ==
    \A broken \in SUBSET DOMAIN Files :
        LET entries == LoadKb(broken)
        IN  \A e \in ToSet(entries) : \A n \in DOMAIN Signatures(e) :
                Scale % PatternCount(entries, Signatures(e)[n]) = 0

\* The rarer the heavier, as a whole number.
Distinctiveness(entries, sig) == Scale \div PatternCount(entries, sig)

\* "either" is a wildcard on both sides.
DirectionMatches(symptom, sig) ==
    "either" \in {symptom.direction, sig.direction} \/ symptom.direction = sig.direction

SymptomMatches(symptom, sig) ==
    /\ symptom.pattern = sig.pattern
    /\ DirectionMatches(symptom, sig)
    /\ symptom.sensor \cap sig.sensor # {}

MatchedWeight(entries, sigs, reported) ==
    Total([i \in DOMAIN sigs |-> IF \E s \in reported : SymptomMatches(s, sigs[i])
                                    THEN Distinctiveness(entries, sigs[i]) ELSE 0])

TotalWeight(entries, sigs) ==
    Total([i \in DOMAIN sigs |-> Distinctiveness(entries, sigs[i])])

\* A fraction.
WeightedMatch(entries, sigs, reported) ==
    IF sigs = <<>> THEN [num |-> 0, den |-> 1]
    ELSE [num |-> MatchedWeight(entries, sigs, reported), den |-> TotalWeight(entries, sigs)]

\* Primary plus half of secondary, as a fraction.
Score(entries, entry, reported) ==
    LET p == WeightedMatch(entries, entry.primary, reported)
        s == WeightedMatch(entries, entry.secondary, reported)
    IN  [num |-> 2 * p.num * s.den + s.num * p.den, den |-> 2 * p.den * s.den]

Less(x, y) == x.num * y.den < y.num * x.den

\* Mutant: lowest score first.
BeforeLowest(results, i, j) ==
    \/ Less(results[i].score, results[j].score)
    \/ ~Less(results[j].score, results[i].score) /\ i < j

\* Highest score first; entries of equal score keep their order.
Before(results, i, j) ==
    \/ Less(results[j].score, results[i].score)
    \/ ~Less(results[i].score, results[j].score) /\ i < j

\* How many results come before the i-th, itself counted.
Place(results, i) == Cardinality({j \in DOMAIN results : Before(results, j, i)}) + 1

MatchFailureModes(reported, entries) ==
    LET results == [i \in DOMAIN entries |->
                       [entry |-> entries[i], score |-> Score(entries, entries[i], reported)]]
    IN  IF reported = {} THEN <<>>
        ELSE [k \in DOMAIN results |->
                 results[CHOOSE i \in DOMAIN results : Place(results, i) = k]]

-----------------------------------------------------------------------------
(* The synthesis tools.                                                    *)

\* The first text that contains a rule's word decides, by the first rule.
InferSubsystem(explicit, texts) ==
    LET Hits(t) == {r \in DOMAIN Rules : Rules[r].word \in texts[t]}
        telling == {t \in DOMAIN texts : Hits(t) # {}}
        first == CHOOSE t \in telling : \A u \in telling : t <= u
        rule == CHOOSE r \in Hits(first) : \A q \in Hits(first) : r <= q
    IN  IF explicit # Unspecified THEN explicit
        ELSE IF telling = {} THEN Unspecified ELSE Rules[rule].subsystem

\* Mutant: a spare counts against the diagnosis like the blackout.
ContextModifierUnsigned(context) ==
    (IF context.comms_blackout THEN 10 ELSE 0)
    + (IF context.redundancy_available THEN 10 ELSE 0)

\* In hundredths.
ContextModifier(context) ==
    (IF context.comms_blackout THEN 10 ELSE 0)
    - (IF context.redundancy_available THEN 10 ELSE 0)
    + (IF context.crew_count # NoCrew /\ (context.crew_count > 4 \/ context.crew_count <= 2)
         THEN 5 ELSE 0)

\* In ten thousandths.
SeverityScore(confidence, subsystem, context) ==
    LET weight == IF subsystem \in DOMAIN Weight THEN Weight[subsystem] ELSE DefaultWeight
        score == confidence * weight + 100 * ContextModifier(context)
    IN  IF score < 0 THEN 0 ELSE IF score > 10000 THEN 10000 ELSE score

ScoreToLevel(score) ==
    IF score < 3000 THEN "info" ELSE IF score < 6000 THEN "warning"
    ELSE IF score < 8500 THEN "critical" ELSE "emergency"

SeverityToUrgency(level) ==
    IF level = "critical" THEN "priority"
    ELSE IF level = "emergency" THEN "immediate" ELSE "routine"

\* The ids cited, in their order, and then the hypothesis.  A recommended action
\* that a context may hold would be the last text; it is left out.
Haystacks(d) == Append([i \in DOMAIN d.cited |-> d.cited[i].words], d.hypothesis)

\* compute_severity, and the urgency of the message drafted from it.
Assessment(d, context) ==
    LET subsystem == InferSubsystem(context.subsystem, Haystacks(d))
        score == SeverityScore(d.confidence, subsystem, context)
        level == ScoreToLevel(score)
    IN  [subsystem |-> subsystem, score |-> score,
         level |-> level, urgency |-> SeverityToUrgency(level)]

Contexts == [subsystem : Subsystems \cup {Unspecified}, comms_blackout : BOOLEAN,
             redundancy_available : BOOLEAN, crew_count : Crews \cup {NoCrew}]

NoDiagnosis == [cited |-> "none"]

-----------------------------------------------------------------------------
(* The investigation.                                                      *)

Init ==
    /\ \E broken \in SUBSET DOMAIN Files :
           /\ Cardinality(broken) <= MaxBroken
           /\ kb = LoadKb(broken)
    /\ symptoms = {} /\ ranked = <<>>
    /\ diagnosis = NoDiagnosis

\* Another symptom is characterised and all are looked up.
Lookup(sig) ==
    /\ diagnosis = NoDiagnosis
    /\ sig \notin symptoms /\ Cardinality(symptoms) < MaxSymptoms
    /\ symptoms' = symptoms \cup {sig}
    /\ ranked' = MatchFailureModes(symptoms', kb)
    /\ UNCHANGED <<kb, diagnosis>>

\* The run ends with a diagnosis, after a lookup or without one.  Each id it cites
\* is one of the knowledge base; it may cite none, several, one twice, and entries
\* it never looked up.  What it has looked up goes with it.
Conclude ==
    /\ diagnosis = NoDiagnosis
    /\ \E n \in 0..MaxCited, hypothesis \in Hypotheses, confidence \in Confidences :
          \E cited \in [1..n -> ToSet(kb)] :
              diagnosis' = [cited |-> cited, hypothesis |-> hypothesis,
                            confidence |-> confidence]
    /\ symptoms' = {} /\ ranked' = <<>>
    /\ UNCHANGED kb

\* The next alert is investigated.
NextAlert ==
    /\ diagnosis # NoDiagnosis
    /\ diagnosis' = NoDiagnosis
    /\ UNCHANGED <<kb, symptoms, ranked>>

Next == (\E sig \in Observable : Lookup(sig)) \/ Conclude \/ NextAlert

Spec == Init /\ [][Next]_vars

-----------------------------------------------------------------------------
(* Properties.                                                             *)

Reported(sigs, reported) == \A i \in DOMAIN sigs : sigs[i] \in reported

ScoreOf(id) == (CHOOSE r \in ToSet(ranked) : r.entry.id = id).score

\* A ranking can be relied on: each entry is in it once and the better scored
\* first; the symptom reported last did not lower a score; an entry whose
\* primary signatures were all reported is above each entry none of whose
\* primary signatures is met.
RankingFair ==
    ranked # <<>> =>
        /\ Len(ranked) = Len(kb)
        /\ ToSet(kb) = {r.entry : r \in ToSet(ranked)}
        /\ \A i, j \in DOMAIN ranked : i < j => ~Less(ranked[i].score, ranked[j].score)
        /\ \A i \in DOMAIN ranked, sig \in symptoms :
              ~Less(ranked[i].score, Score(kb, ranked[i].entry, symptoms \ {sig}))
        /\ \A i, j \in DOMAIN ranked :
              /\ ranked[i].entry.primary # <<>>
              /\ Reported(ranked[i].entry.primary, symptoms)
              /\ \A n \in DOMAIN ranked[j].entry.primary, s \in symptoms :
                    ~SymptomMatches(s, ranked[j].entry.primary[n])
              => i < j

\* If nothing was reported but signatures of one entry, all its primary ones
\* among them, no other entry scores higher.
OwnSignaturesLead ==
    ranked # <<>> =>
        \A r \in ToSet(ranked) :
            /\ Reported(r.entry.primary, symptoms)
            /\ symptoms \subseteq ToSet(Signatures(r.entry))
            => ~Less(r.score, ranked[1].score)

\* A ranking is fair, and leads with what was reported.
RankingSound == RankingFair /\ OwnSignaturesLead

\* The same as a condition on the entries, for any number of symptoms.
EntriesTellApart ==
    \A broken \in SUBSET DOMAIN Files :
        LET entries == LoadKb(broken)
        IN  \A e, f \in ToSet(entries) : \A reported \in SUBSET ToSet(Signatures(e)) :
                reported # {} /\ Reported(e.primary, reported) =>
                    ~Less(Score(entries, e, reported), Score(entries, f, reported))

LevelRank == [info |-> 0, warning |-> 1, critical |-> 2, emergency |-> 3]
UrgencyRank == [routine |-> 0, priority |-> 1, immediate |-> 2]

\* Whatever a diagnosis cites and whatever the context, its severity can be relied
\* on.  Unless the context names a subsystem it is that of one the first entry
\* cited affects, however the hypothesis is worded and whatever else is cited, and
\* without a telling word no subsystem is made up.  More confidence or the loss of
\* the ground loop never makes it milder and a spare never makes it graver, in
\* level and in the urgency of the message.  And no diagnosis is an emergency
\* without confidence.
SeveritySound ==
    diagnosis # NoDiagnosis => \A c \in Contexts :
        LET severity == Assessment(diagnosis, c)
            NotGraver(x, y) == /\ LevelRank[x.level] <= LevelRank[y.level]
                               /\ UrgencyRank[x.urgency] <= UrgencyRank[y.urgency]
            Silent(text) == \A r \in DOMAIN Rules : Rules[r].word \notin text
        IN  /\ c.subsystem = Unspecified /\ diagnosis.cited # <<>> =>
                  severity.subsystem \in diagnosis.cited[1].subsystems
            /\ c.subsystem = Unspecified /\ diagnosis.cited = <<>>
               /\ Silent(diagnosis.hypothesis) => severity.subsystem = Unspecified
            /\ \A less \in {n \in Confidences : n < diagnosis.confidence} :
                  NotGraver(Assessment([diagnosis EXCEPT !.confidence = less], c), severity)
            /\ NotGraver(Assessment(diagnosis, [c EXCEPT !.comms_blackout = FALSE]), severity)
            /\ NotGraver(Assessment(diagnosis, [c EXCEPT !.redundancy_available = TRUE]),
                         severity)
            /\ diagnosis.confidence <= 70 => severity.level # "emergency"
=============================================================================
